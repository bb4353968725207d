------------------------------ MODULE LRUCache ------------------------------
(***************************************************************************)
(* base::LRUCache<KEY, VALUE> (libraries/base/include/types/lru-cache.h):  *)
(* a std::list of <key, value> items, most recently used first, an index   *)
(* from keys to list nodes (iterators), and an item counter of its own     *)
(* that decides when to evict.  One thread uses it ("not thread-safe").    *)
(* List nodes are memory blocks, so that an index entry whose node has     *)
(* been freed can be told from one that is alive.                          *)
(***************************************************************************)
EXTENDS Naturals, FiniteSets, SequencesExt

CONSTANTS Keys, Values,
          Limits,       \* the maximum sizes the cache is given
          Nodes,        \* the memory there is for list nodes
          SizeMod,      \* size_t counts modulo this (2^64 in the build)
          MayThrow,     \* whether inserting into the index may run out of memory
          None

ASSUME LimitsAssumption == SizeMod \in Nat \ {0} /\ Limits \subseteq 0..SizeMod - 1
ASSUME NoneAssumption == None \notin Nodes /\ None \notin Values /\ None \notin Keys \X Values

VARIABLES max_size_, cur_size_,
          items_list_,          \* the nodes, front first
          items_indexing_map_,  \* the node of each key, None if it has none
          item,                 \* the <<key, value>> of each node, None if free
          val,                  \* what the last Get left in its out parameter
          thrown                \* history: whether a Put has thrown

vars == <<max_size_, cur_size_, items_list_, items_indexing_map_, item, val, thrown>>

Init == /\ max_size_ \in Limits /\ cur_size_ = 0
        /\ items_list_ = <<>>
        /\ items_indexing_map_ = [k \in Keys |-> None]
        /\ item = [n \in Nodes |-> None]
        /\ val = None /\ thrown = FALSE

Plus(a, b) == (a + b) % SizeMod
Minus(a, b) == (a + SizeMod - b) % SizeMod

Contain(k) == items_indexing_map_[k] # None
Size == Cardinality({k \in Keys : Contain(k)})

Inserted_KeepsOld(n, k) ==       \* (mutant) the replaced node stays linked
    <<n>> \o items_list_

\* The list without a node that is in it (std::list::erase and splice by iterator).
Unlinked(list, n) == RemoveAt(list, CHOOSE i \in DOMAIN list : list[i] = n)

\* The list with a new node for <<k, v>> in front and the key's old node erased.
Inserted(n, k) == LET old == items_indexing_map_[k]
                  IN  <<n>> \o (IF old = None THEN items_list_ ELSE Unlinked(items_list_, old))
CountInserted(k) == IF Contain(k) THEN cur_size_ ELSE Plus(cur_size_, 1)

\* The items with the nodes in freed released.
Released(items, freed) == [n \in Nodes |-> IF n \in freed THEN None ELSE items[n]]

Keep(n, k, v) ==
    /\ items_list_' = Inserted(n, k)
    /\ items_indexing_map_' = [items_indexing_map_ EXCEPT ![k] = n]
    /\ item' = Released([item EXCEPT ![n] = <<k, v>>], {items_indexing_map_[k]})
    /\ cur_size_' = CountInserted(k)

Evict_Forgets(n, k, v) ==        \* (mutant) the evicted item stays in the index
    LET list == Inserted(n, k) last == Last(list)
        items == Released([item EXCEPT ![n] = <<k, v>>], {items_indexing_map_[k]})
    IN  /\ items_list_' = Front(list)
        /\ items_indexing_map_' = [items_indexing_map_ EXCEPT ![k] = n]
        /\ item' = Released(items, {last})
        /\ cur_size_' = Minus(CountInserted(k), 1)

\* Put over the limit: the item at the back goes, by its key from the index.
Evict(n, k, v) ==
    LET list == Inserted(n, k) last == Last(list)
        items == Released([item EXCEPT ![n] = <<k, v>>], {items_indexing_map_[k]})
    IN  /\ items_list_' = Front(list)
        /\ items_indexing_map_' =
              [items_indexing_map_ EXCEPT ![k] = n, ![items[last][1]] = None]
        /\ item' = Released(items, {last})
        /\ cur_size_' = Minus(CountInserted(k), 1)

Put_OffByOne(k, v) ==            \* (mutant) evicts one item late
    /\ \E n \in Nodes :
          /\ item[n] = None
          /\ IF CountInserted(k) > max_size_ + 1 THEN Evict(n, k, v) ELSE Keep(n, k, v)
    /\ UNCHANGED <<max_size_, val, thrown>>

Put(k, v) ==
    /\ \E n \in Nodes :
          /\ item[n] = None
          /\ IF CountInserted(k) > max_size_ THEN Evict(n, k, v) ELSE Keep(n, k, v)
    /\ UNCHANGED <<max_size_, val, thrown>>

\* The index finds no memory for its entry (line 62): the exception leaves the
\* new item in the list, without an index entry, and the old one erased.
PutThrows(k, v) ==
    /\ MayThrow
    /\ \E n \in Nodes :
          /\ item[n] = None
          /\ items_list_' = Inserted(n, k)
          /\ item' = Released([item EXCEPT ![n] = <<k, v>>], {items_indexing_map_[k]})
    /\ items_indexing_map_' = [items_indexing_map_ EXCEPT ![k] = None]
    /\ cur_size_' = IF Contain(k) THEN Minus(cur_size_, 1) ELSE cur_size_
    /\ thrown' = TRUE
    /\ UNCHANGED <<max_size_, val>>

Get_NoSplice(k) ==               \* (mutant) a hit does not count as a use
    /\ val' = IF Contain(k) THEN item[items_indexing_map_[k]][2] ELSE None
    /\ UNCHANGED <<max_size_, cur_size_, items_list_, items_indexing_map_, item, thrown>>

\* A hit moves the node to the front, unless it is there, and copies its value;
\* a miss answers false, which is None here.
Get(k) ==
    LET n == items_indexing_map_[k]
    IN  /\ IF n # None
             THEN items_list_' = <<n>> \o Unlinked(items_list_, n) /\ val' = item[n][2]
             ELSE UNCHANGED items_list_ /\ val' = None
        /\ UNCHANGED <<max_size_, cur_size_, items_indexing_map_, item, thrown>>

Erase_KeepsNode(k) ==            \* (mutant) only the index forgets the key
    /\ Contain(k)
    /\ cur_size_' = Minus(cur_size_, 1)
    /\ items_indexing_map_' = [items_indexing_map_ EXCEPT ![k] = None]
    /\ UNCHANGED <<items_list_, item, max_size_, val, thrown>>

Erase(k) ==
    /\ Contain(k)
    /\ cur_size_' = Minus(cur_size_, 1)
    /\ items_list_' = Unlinked(items_list_, items_indexing_map_[k])
    /\ item' = Released(item, {items_indexing_map_[k]})
    /\ items_indexing_map_' = [items_indexing_map_ EXCEPT ![k] = None]
    /\ UNCHANGED <<max_size_, val, thrown>>

\* Clear empties the list and the index, and leaves cur_size_ as it is.
Empty == /\ items_list_' = <<>>
         /\ items_indexing_map_' = [k \in Keys |-> None]
         /\ item' = [n \in Nodes |-> None]

Clear == Empty /\ UNCHANGED <<max_size_, cur_size_, val, thrown>>

SetMaxSize(max_size) ==
    /\ IF max_size_ < max_size
         THEN Empty
         ELSE UNCHANGED <<items_list_, items_indexing_map_, item>>
    /\ max_size_' = max_size
    /\ UNCHANGED <<cur_size_, val, thrown>>

Next == \/ \E k \in Keys : \/ \E v \in Values : Put(k, v) \/ PutThrows(k, v)
                           \/ Get(k) \/ Erase(k)
        \/ Clear
        \/ \E m \in Limits : SetMaxSize(m)

Spec == Init /\ [][Next]_vars

-----------------------------------------------------------------------------
\* The types, and no memory lost: a node is allocated exactly while it is in the
\* list, and it is there once.
TypeOK ==
    /\ max_size_ \in Limits /\ cur_size_ \in 0..SizeMod - 1
    /\ items_list_ \in Seq(Nodes) /\ IsInjective(items_list_)
    /\ items_indexing_map_ \in [Keys -> Nodes \cup {None}]
    /\ \A n \in Nodes : IF n \in ToSet(items_list_) THEN item[n] \in Keys \X Values
                                                   ELSE item[n] = None
    /\ val \in Values \cup {None} /\ thrown \in BOOLEAN

\* An iterator kept in the index always points to a live node of its own key:
\* neither replacement, nor eviction by key, nor a failed insertion leaves a
\* dangling one behind.
IndexLive == \A k \in Keys : Contain(k) =>
                /\ items_indexing_map_[k] \in ToSet(items_list_)
                /\ item[items_indexing_map_[k]][1] = k

\* As long as nothing is thrown, every item in the list is found by its key.
IndexComplete == ~thrown =>
    \A n \in ToSet(items_list_) : items_indexing_map_[item[n][1]] = n

\* As long as nothing is thrown, a Put that adds an item leaves the cache within its
\* limit, although the limit is tested on a counter that Clear and SetMaxSize let
\* drift from the items.
GrowsWithinLimit == [][~thrown' /\ Len(items_list_') > Len(items_list_)
                          => Len(items_list_') <= max_size_]_vars

\* List, index and counter together behave as a map in order of use.  The room
\* is what the counter leaves: the limit less what Clear forgot to give back.
\* An exception ends the promise.
Entries == IF thrown THEN <<>> ELSE [i \in DOMAIN items_list_ |-> item[items_list_[i]]]
Room == IF thrown THEN 0 ELSE max_size_ - (cur_size_ - Len(items_list_))
Out == IF thrown THEN None ELSE val
Map == INSTANCE LRUMap WITH entries <- Entries, room <- Room, out <- Out
ImplementsLRUMap == Map!Spec

\* In a cache that may hold an item, the item a Put evicts is never the one it
\* puts (the class comment: the cache "holds the pair of <KEY, VALUE> in LRU
\* caching strategy").
KeepsNewest == \A k \in Keys, n \in Nodes :
                  max_size_ > 0 /\ item[n] = None /\ CountInserted(k) > max_size_
                     => Last(Inserted(n, k)) # n
=============================================================================

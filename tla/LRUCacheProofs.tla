--------------------------- MODULE LRUCacheProofs ---------------------------
(***************************************************************************)
(* LRUCache for any keys, values, limits and nodes: its list and its index *)
(* agree.  Which nodes the list holds is kept apart from their order.      *)
(***************************************************************************)
EXTENDS LRUCache, TLAPS

MaybeItem == (Keys \X Values) \cup {None}

\* The nodes in S have items, the others are free; the index points to nodes of its
\* keys, and, if complete, to every node.
Agree(S, index, items, complete) ==
    /\ S \subseteq Nodes
    /\ index \in [Keys -> Nodes \cup {None}]
    /\ items \in [Nodes -> MaybeItem]
    /\ \A n \in Nodes : IF n \in S THEN items[n] \in Keys \X Values ELSE items[n] = None
    /\ \A k \in Keys : index[k] # None => index[k] \in S /\ items[index[k]][1] = k
    /\ complete => \A n \in S : index[items[n][1]] = n

IsList(list) == list \in Seq(Nodes) /\ IsInjective(list)

IInv == /\ max_size_ \in Limits /\ cur_size_ \in 0..SizeMod - 1
        /\ val \in Values \cup {None} /\ thrown \in BOOLEAN
        /\ IsList(items_list_)
        /\ Agree(ToSet(items_list_), items_indexing_map_, item, ~thrown)

-----------------------------------------------------------------------------
(* The nodes and the index.                                                 *)

\* A new node takes the place of its key's old one.
LEMMA KeepAgrees ==
  ASSUME NEW S, NEW index, NEW items, NEW complete \in BOOLEAN, Agree(S, index, items, complete),
         NEW n \in Nodes, items[n] = None, NEW k \in Keys, NEW v \in Values
  PROVE  Agree((S \ {index[k]}) \cup {n}, [index EXCEPT ![k] = n],
               Released([items EXCEPT ![n] = <<k, v>>], {index[k]}), complete)
  <1> USE NoneAssumption DEF Agree, MaybeItem, Released
  <1>1. n \notin S /\ n # index[k]
    OBVIOUS
  <1> DEFINE T == (S \ {index[k]}) \cup {n}
             x == [index EXCEPT ![k] = n]
             items2 == Released([items EXCEPT ![n] = <<k, v>>], {index[k]})
  <1>2. items2 \in [Nodes -> MaybeItem] /\ T \subseteq Nodes /\ x \in [Keys -> Nodes \cup {None}]
    OBVIOUS
  <1>3. /\ items2[n] = <<k, v>>
        /\ \A m \in Nodes : m # n => items2[m] = IF m = index[k] THEN None ELSE items[m]
    BY <1>1
  <1>4. \A m \in Nodes : IF m \in T THEN items2[m] \in Keys \X Values ELSE items2[m] = None
    BY <1>1, <1>3
  <1>5. \A j \in Keys : x[j] # None => x[j] \in T /\ items2[x[j]][1] = j
    BY <1>1, <1>3
  <1>6. complete => \A m \in T : x[items2[m][1]] = m
    BY <1>1, <1>3
  <1>7. QED
    BY <1>2, <1>4, <1>5, <1>6

\* A node goes, with the index entry of its key.
LEMMA DropAgrees ==
  ASSUME NEW S, NEW index, NEW items, NEW complete \in BOOLEAN, Agree(S, index, items, complete),
         NEW m \in S
  PROVE  Agree(S \ {m}, [index EXCEPT ![items[m][1]] = None], Released(items, {m}), complete)
  BY NoneAssumption DEF Agree, MaybeItem, Released

-----------------------------------------------------------------------------
(* The list.                                                                *)

\* emplace_front.
LEMMA Linked ==
  ASSUME NEW list, IsList(list), NEW n \in Nodes, n \notin ToSet(list)
  PROVE  /\ IsList(<<n>> \o list) /\ ToSet(<<n>> \o list) = ToSet(list) \cup {n}
         /\ Len(<<n>> \o list) = Len(list) + 1
  <1> DEFINE new == <<n>> \o list
  <1>1. /\ new \in Seq(Nodes) /\ Len(new) = Len(list) + 1 /\ new[1] = n
        /\ \A i \in 1..Len(list) : new[i + 1] = list[i]
    BY DEF IsList
  <1>2. DOMAIN new = 1..Len(new) /\ DOMAIN list = 1..Len(list) /\ Len(list) \in Nat
    BY <1>1 DEF IsList
  <1> HIDE DEF new
  <1>3. \A i \in DOMAIN new : i = 1 \/ (i - 1 \in DOMAIN list /\ new[i] = list[i - 1])
    BY <1>1, <1>2
  <1>4. IsInjective(new)
    BY <1>1, <1>2, <1>3 DEF IsList, IsInjective, ToSet
  <1>5. ToSet(new) = ToSet(list) \cup {n}
    <2>1. ToSet(new) \subseteq ToSet(list) \cup {n}
      BY <1>1, <1>3 DEF ToSet
    <2>2. \A i \in DOMAIN list : list[i] \in ToSet(new)
      BY <1>1, <1>2 DEF ToSet
    <2>3. n \in ToSet(new)
      BY <1>1, <1>2 DEF ToSet
    <2>4. QED
      BY <2>1, <2>2, <2>3 DEF ToSet
  <1>6. QED
    BY <1>1, <1>4, <1>5 DEF IsList, new

\* What the concatenation of lists is.
LEMMA Concatenated ==
  ASSUME NEW s \in Seq(Nodes), NEW t \in Seq(Nodes)
  PROVE  /\ s \o t \in Seq(Nodes) /\ Len(s \o t) = Len(s) + Len(t)
         /\ \A i \in 1..Len(s) : (s \o t)[i] = s[i]
         /\ \A i \in 1..Len(t) : (s \o t)[Len(s) + i] = t[i]
  OBVIOUS

\* erase by iterator, which takes out one node and leaves the order of the others.
LEMMA UnlinkedIsList ==
  ASSUME NEW list, IsList(list), NEW n \in ToSet(list)
  PROVE  /\ IsList(Unlinked(list, n)) /\ ToSet(Unlinked(list, n)) = ToSet(list) \ {n}
         /\ n \in Nodes /\ Len(Unlinked(list, n)) = Len(list) - 1
  <1> DEFINE at == CHOOSE i \in DOMAIN list : list[i] = n
             new == Unlinked(list, n)
  <1>1. at \in DOMAIN list /\ list[at] = n
    BY DEF ToSet
  <1> HIDE DEF at
  <1>2. DOMAIN list = 1..Len(list) /\ Len(list) \in Nat /\ list \in Seq(Nodes)
    BY DEF IsList
  <1> DEFINE left == SubSeq(list, 1, at - 1)
             right == SubSeq(list, at + 1, Len(list))
  <1>3. new = left \o right
    BY DEF Unlinked, RemoveAt, at
  <1>4. left \in Seq(Nodes) /\ Len(left) = at - 1 /\ \A i \in 1..at - 1 : left[i] = list[i]
    BY <1>1, <1>2
  <1>5. /\ right \in Seq(Nodes) /\ Len(right) = Len(list) - at
        /\ \A i \in 1..Len(list) - at : right[i] = list[at + i]
    BY <1>1, <1>2
  <1> HIDE DEF left, right, new
  <1>6. /\ new \in Seq(Nodes) /\ Len(new) = Len(list) - 1
        /\ \A i \in 1..at - 1 : new[i] = left[i]
        /\ \A i \in 1..Len(list) - at : new[(at - 1) + i] = right[i]
    <2>1. at \in 1..Len(list) /\ at \in Int /\ Len(list) \in Nat
      BY <1>1, <1>2
    <2>2. /\ new \in Seq(Nodes) /\ Len(new) = Len(left) + Len(right)
          /\ \A i \in 1..Len(left) : new[i] = left[i]
          /\ \A i \in 1..Len(right) : new[Len(left) + i] = right[i]
      BY <1>3, <1>4, <1>5, Concatenated
    <2>3. Len(left) = at - 1 /\ Len(right) = Len(list) - at
      BY <1>4, <1>5
    <2> HIDE DEF at
    <2>4. (at - 1) + (Len(list) - at) = Len(list) - 1
      BY <2>1
    <2>5. QED
      BY <2>2, <2>3, <2>4
  <1>7. \A i \in 1..Len(list) - 1 : new[i] = IF i < at THEN list[i] ELSE list[i + 1]
    <2>1. SUFFICES ASSUME NEW i \in 1..Len(list) - 1
                   PROVE  new[i] = IF i < at THEN list[i] ELSE list[i + 1]
      OBVIOUS
    <2>2. CASE i < at
      <3>1. i \in 1..at - 1
        BY <1>1, <1>2, <2>2
      <3>2. QED
        BY <1>4, <1>6, <2>2, <3>1
    <2>3. CASE i >= at
      <3>1. /\ i - (at - 1) \in 1..Len(list) - at /\ (at - 1) + (i - (at - 1)) = i
            /\ at + (i - (at - 1)) = i + 1 /\ ~(i < at)
        BY <1>1, <1>2, <2>3
      <3>2. new[i] = right[i - (at - 1)] /\ right[i - (at - 1)] = list[i + 1]
        BY <1>5, <1>6, <3>1
      <3>3. QED
        BY <3>1, <3>2
    <2>4. QED
      BY <1>1, <1>2, <2>2, <2>3
  <1>8. DOMAIN new = 1..Len(list) - 1
    BY <1>2, <1>6
  <1>9. IsInjective(new)
    <2>1. SUFFICES ASSUME NEW i \in DOMAIN new, NEW j \in DOMAIN new, new[i] = new[j] PROVE i = j
      BY DEF IsInjective
    <2> DEFINE old(x) == IF x < at THEN x ELSE x + 1
    <2>2. /\ old(i) \in DOMAIN list /\ old(j) \in DOMAIN list
          /\ new[i] = list[old(i)] /\ new[j] = list[old(j)]
      BY <1>1, <1>2, <1>7, <1>8
    <2>3. old(i) = old(j)
      BY <2>1, <2>2 DEF IsList, IsInjective
    <2>4. QED
      BY <1>1, <1>2, <1>8, <2>3
  <1>10. ToSet(new) = ToSet(list) \ {n}
    <2>1. \A i \in DOMAIN new : new[i] \in ToSet(list) /\ new[i] # n
      BY <1>1, <1>2, <1>7, <1>8 DEF IsList, IsInjective, ToSet
    <2>2. ASSUME NEW i \in DOMAIN list, list[i] # n PROVE list[i] \in ToSet(new)
      <3>1. i # at
        BY <1>1, <2>2
      <3>2. CASE i < at
        BY <1>1, <1>2, <1>7, <1>8, <3>2 DEF ToSet
      <3>3. CASE i > at
        <4>1. i - 1 \in DOMAIN new /\ new[i - 1] = list[i]
          BY <1>1, <1>2, <1>7, <1>8, <3>3
        <4>2. QED
          BY <4>1 DEF ToSet
      <3>4. QED
        BY <1>1, <1>2, <3>1, <3>2, <3>3
    <2>3. QED
      BY <2>1, <2>2 DEF ToSet
  <1>11. QED
    BY <1>1, <1>2, <1>6, <1>9, <1>10 DEF IsList, new

\* pop_back.
LEMMA FrontIsList ==
  ASSUME NEW list, IsList(list), list # <<>>
  PROVE  /\ IsList(Front(list)) /\ ToSet(Front(list)) = ToSet(list) \ {Last(list)}
         /\ Last(list) \in ToSet(list)
  <1> DEFINE new == Front(list)
  <1>1. list \in Seq(Nodes) /\ Len(list) \in Nat \ {0} /\ DOMAIN list = 1..Len(list)
    BY DEF IsList
  <1>2. new \in Seq(Nodes) /\ DOMAIN new = 1..Len(list) - 1 /\ \A i \in DOMAIN new : new[i] = list[i]
    BY <1>1 DEF Front
  <1> HIDE DEF new
  <1>3. IsInjective(new)
    BY <1>1, <1>2 DEF IsList, IsInjective
  <1>4. ToSet(new) = ToSet(list) \ {Last(list)}
    BY <1>1, <1>2 DEF IsList, IsInjective, ToSet, Last
  <1>5. QED
    <2>1. Last(list) \in ToSet(list)
      BY <1>1 DEF ToSet, Last
    <2>2. QED
      BY <1>2, <1>3, <1>4, <2>1 DEF IsList, new

\* The list Put makes before it looks at the limit.
LEMMA InsertedIsList ==
  ASSUME IInv, NEW n \in Nodes, item[n] = None, NEW k \in Keys
  PROVE  /\ IsList(Inserted(n, k))
         /\ ToSet(Inserted(n, k)) = (ToSet(items_list_) \ {items_indexing_map_[k]}) \cup {n}
         /\ Inserted(n, k) # <<>>
  <1> DEFINE old == items_indexing_map_[k]
             rest == IF old = None THEN items_list_ ELSE Unlinked(items_list_, old)
  <1>1. n \notin ToSet(items_list_) /\ None \notin ToSet(items_list_)
    BY NoneAssumption DEF IInv, Agree
  <1>2. IsList(rest) /\ ToSet(rest) = ToSet(items_list_) \ {old}
    BY <1>1, UnlinkedIsList DEF IInv, Agree
  <1>3. Inserted(n, k) = <<n>> \o rest
    BY DEF Inserted
  <1>4. n \notin ToSet(rest)
    BY <1>1, <1>2
  <1> HIDE DEF rest
  <1>5. <<n>> \o rest # <<>>
    BY <1>2 DEF IsList
  <1>6. QED
    BY <1>2, <1>3, <1>4, <1>5, Linked

-----------------------------------------------------------------------------
(* The actions.                                                             *)

\* The counter stays a number of its width, whatever it says.
LEMMA Counts ==
  ASSUME NEW a \in 0..SizeMod - 1 PROVE Plus(a, 1) \in 0..SizeMod - 1 /\ Minus(a, 1) \in 0..SizeMod - 1
  BY LimitsAssumption DEF Plus, Minus

\* Nothing is in the cache at first.
LEMMA InitIInv == Init => IInv
  <1> SUFFICES ASSUME Init PROVE IInv
    OBVIOUS
  <1>1. IsList(<<>>) /\ ToSet(<<>>) = {}
    BY DEF IsList, IsInjective, ToSet
  <1>2. Agree({}, items_indexing_map_, item, ~thrown)
    BY DEF Init, Agree, MaybeItem
  <1>3. QED
    <2>1. max_size_ \in Limits /\ cur_size_ \in 0..SizeMod - 1 /\ val = None /\ thrown = FALSE
      BY LimitsAssumption DEF Init
    <2>2. items_list_ = <<>>
      BY DEF Init
    <2>3. QED
      BY <1>1, <1>2, <2>1, <2>2 DEF IInv

\* Put keeps list and index in agreement, whether or not it evicts.
LEMMA PutKeeps ==
  ASSUME IInv, NEW k \in Keys, NEW v \in Values, Put(k, v)
  PROVE  IInv'
  <1>1. PICK n \in Nodes : /\ item[n] = None
                           /\ IF CountInserted(k) > max_size_ THEN Evict(n, k, v) ELSE Keep(n, k, v)
    BY DEF Put
  <1> DEFINE list == Inserted(n, k)
             index == [items_indexing_map_ EXCEPT ![k] = n]
             items == Released([item EXCEPT ![n] = <<k, v>>], {items_indexing_map_[k]})
  <1>2. IsList(list) /\ list # <<>>
    BY <1>1, InsertedIsList
  <1>3. Agree(ToSet(list), index, items, ~thrown)
    <2>1. Agree(ToSet(items_list_), items_indexing_map_, item, ~thrown) /\ (~thrown) \in BOOLEAN
      BY DEF IInv
    <2>2. Agree((ToSet(items_list_) \ {items_indexing_map_[k]}) \cup {n}, index, items, ~thrown)
      BY <1>1, <2>1, KeepAgrees
    <2>3. QED
      BY <1>1, <2>2, InsertedIsList
  <1>4. UNCHANGED <<max_size_, val, thrown>>
    BY DEF Put
  <1>5. CountInserted(k) \in 0..SizeMod - 1
    BY Counts DEF CountInserted, IInv
  <1>6. CASE Keep(n, k, v)
    <2>1. items_list_' = list /\ items_indexing_map_' = index /\ item' = items /\ cur_size_' = CountInserted(k)
      BY <1>6 DEF Keep
    <2>2. QED
      BY <1>2, <1>3, <1>4, <1>5, <2>1 DEF IInv
  <1>7. CASE Evict(n, k, v)
    <2> DEFINE last == Last(list)
    <2>1. /\ items_list_' = Front(list) /\ item' = Released(items, {last})
          /\ items_indexing_map_' = [items_indexing_map_ EXCEPT ![k] = n, ![items[last][1]] = None]
          /\ cur_size_' = Minus(CountInserted(k), 1)
      BY <1>7 DEF Evict
    <2>2. items_indexing_map_' = [index EXCEPT ![items[last][1]] = None]
      BY <2>1
    <2>3. /\ IsList(Front(list)) /\ ToSet(Front(list)) = ToSet(list) \ {last}
          /\ last \in ToSet(list)
      BY <1>2, FrontIsList
    <2> HIDE DEF list, index, items, last
    <2>4. Agree(ToSet(list) \ {last}, [index EXCEPT ![items[last][1]] = None],
                Released(items, {last}), ~thrown)
      BY <1>3, <2>3, DropAgrees
    <2>5. cur_size_' \in 0..SizeMod - 1
      BY <1>5, <2>1, Counts
    <2>6. QED
      BY <1>4, <2>1, <2>2, <2>3, <2>4, <2>5 DEF IInv
  <1>8. QED
    BY <1>1, <1>6, <1>7

\* The exception leaves an item nobody finds, and nothing worse.
LEMMA PutThrowsKeeps ==
  ASSUME IInv, NEW k \in Keys, NEW v \in Values, PutThrows(k, v)
  PROVE  IInv'
  <1>1. PICK n \in Nodes : /\ item[n] = None
                           /\ items_list_' = Inserted(n, k)
                           /\ item' = Released([item EXCEPT ![n] = <<k, v>>], {items_indexing_map_[k]})
    BY DEF PutThrows
  <1> DEFINE list == Inserted(n, k)
             index == [items_indexing_map_ EXCEPT ![k] = n]
  <1>2. IsList(list)
    BY <1>1, InsertedIsList
  <1>3. Agree(ToSet(list), index, item', FALSE)
    <2>1. Agree(ToSet(items_list_), items_indexing_map_, item, FALSE)
      BY DEF IInv, Agree
    <2>2. Agree((ToSet(items_list_) \ {items_indexing_map_[k]}) \cup {n}, index, item', FALSE)
      BY <1>1, <2>1, KeepAgrees
    <2>3. QED
      BY <1>1, <2>2, InsertedIsList
  <1>4. items_indexing_map_' = [index EXCEPT ![k] = None] /\ (~thrown') = FALSE
    BY DEF PutThrows
  <1>5. Agree(ToSet(list), items_indexing_map_', item', ~thrown')
    BY <1>3, <1>4 DEF Agree
  <1>6. cur_size_' \in 0..SizeMod - 1
    BY Counts DEF PutThrows, IInv
  <1>7. QED
    BY <1>1, <1>2, <1>5, <1>6 DEF PutThrows, IInv

\* Get moves a node, and gives out a value or nothing.
LEMMA GetKeeps ==
  ASSUME IInv, NEW k \in Keys, Get(k)
  PROVE  IInv'
  <1> DEFINE n == items_indexing_map_[k]
  <1>1. UNCHANGED <<max_size_, cur_size_, items_indexing_map_, item, thrown>>
    BY DEF Get
  <1>2. CASE n = None
    BY <1>1, <1>2 DEF Get, IInv
  <1>3. CASE n # None
    <2>1. items_list_' = <<n>> \o Unlinked(items_list_, n) /\ val' = item[n][2]
      BY <1>3 DEF Get
    <2>2. n \in ToSet(items_list_) /\ item[n] \in Keys \X Values
      BY <1>3 DEF IInv, Agree
    <2>3. IsList(items_list_') /\ ToSet(items_list_') = ToSet(items_list_)
      <3> DEFINE rest == Unlinked(items_list_, n)
      <3>1. IsList(rest) /\ ToSet(rest) = ToSet(items_list_) \ {n} /\ n \in Nodes
        BY <2>2, UnlinkedIsList DEF IInv
      <3> HIDE DEF rest
      <3>2. IsList(<<n>> \o rest) /\ ToSet(<<n>> \o rest) = ToSet(rest) \cup {n}
        BY <3>1, Linked
      <3>3. items_list_' = <<n>> \o rest
        BY <2>1 DEF rest
      <3>4. QED
        BY <2>2, <3>1, <3>2, <3>3
    <2>4. val' \in Values
      BY <2>1, <2>2
    <2>5. ToSet(items_list_)' = ToSet(items_list_)
      BY <2>3 DEF ToSet
    <2>6. QED
      BY <1>1, <2>3, <2>4, <2>5 DEF IInv
  <1>4. QED
    BY <1>2, <1>3

\* Erase takes the node and the entry of one key.
LEMMA EraseKeeps ==
  ASSUME IInv, NEW k \in Keys, Erase(k)
  PROVE  IInv'
  <1>1. PICK n : n = items_indexing_map_[k]
    OBVIOUS
  <1>2. /\ n # None /\ items_list_' = Unlinked(items_list_, n) /\ item' = Released(item, {n})
        /\ items_indexing_map_' = [items_indexing_map_ EXCEPT ![k] = None]
        /\ cur_size_' = Minus(cur_size_, 1) /\ UNCHANGED <<max_size_, val, thrown>>
    BY <1>1 DEF Erase, Contain
  <1>3. n \in ToSet(items_list_) /\ item[n][1] = k
    BY <1>1, <1>2 DEF IInv, Agree
  <1>4. IsList(items_list_') /\ ToSet(items_list_') = ToSet(items_list_) \ {n}
    BY <1>2, <1>3, UnlinkedIsList DEF IInv
  <1>5. Agree(ToSet(items_list_) \ {n}, items_indexing_map_', item', ~thrown)
    <2>1. Agree(ToSet(items_list_), items_indexing_map_, item, ~thrown) /\ (~thrown) \in BOOLEAN
      BY DEF IInv
    <2>2. QED
      BY <1>2, <1>3, <2>1, DropAgrees
  <1>6. cur_size_' \in 0..SizeMod - 1
    BY <1>2, Counts DEF IInv
  <1>7. QED
    BY <1>2, <1>4, <1>5, <1>6 DEF IInv

\* Clear, by itself and in SetMaxSize, leaves nothing.
LEMMA EmptyKeeps ==
  ASSUME IInv, Empty, max_size_' \in Limits, UNCHANGED <<cur_size_, val, thrown>>
  PROVE  IInv'
  <1>1. IsList(<<>>) /\ ToSet(<<>>) = {}
    BY DEF IsList, IsInjective, ToSet
  <1>2. items_list_' = <<>>
    BY DEF Empty
  <1>3. Agree({}, items_indexing_map_', item', ~thrown)
    BY DEF Empty, Agree, MaybeItem
  <1>4. QED
    BY <1>1, <1>2, <1>3 DEF IInv

\* The invariant is inductive.
LEMMA NextKeeps == IInv /\ [Next]_vars => IInv'
  <1> SUFFICES ASSUME IInv, [Next]_vars PROVE IInv'
    OBVIOUS
  <1>1. CASE Clear
    BY <1>1, EmptyKeeps DEF Clear, IInv
  <1>2. ASSUME NEW m \in Limits, SetMaxSize(m) PROVE IInv'
    <2>1. max_size_' = m /\ UNCHANGED <<cur_size_, val, thrown>>
      BY <1>2 DEF SetMaxSize
    <2>2. CASE Empty
      BY <2>1, <2>2, EmptyKeeps
    <2>3. CASE UNCHANGED <<items_list_, items_indexing_map_, item>>
      BY <2>1, <2>3 DEF IInv, ToSet
    <2>4. QED
      BY <1>2, <2>2, <2>3 DEF SetMaxSize
  <1>3. CASE UNCHANGED vars
    BY <1>3 DEF vars, IInv
  <1>4. QED
    BY <1>1, <1>2, <1>3, PutKeeps, PutThrowsKeeps, GetKeeps, EraseKeeps DEF Next

\* The invariant holds in every state, of any keys, values, limits and nodes.
THEOREM Invariant == Spec => []IInv
  BY InitIInv, NextKeeps, PTL DEF Spec

\* No node is lost: it is allocated exactly while it is in the list, and is there once.
THEOREM TypeCorrect == Spec => []TypeOK
  <1>1. IInv => TypeOK
    BY DEF IInv, TypeOK, IsList, Agree
  <1>2. QED
    BY <1>1, Invariant, PTL

\* No iterator kept in the index dangles, after a Put that threw neither.
THEOREM IndexIsLive == Spec => []IndexLive
  <1>1. IInv => IndexLive
    BY DEF IInv, IndexLive, Contain, Agree
  <1>2. QED
    BY <1>1, Invariant, PTL

\* Until a Put throws, every item is found by its key.
THEOREM IndexIsComplete == Spec => []IndexComplete
  <1>1. IInv => IndexComplete
    BY DEF IInv, IndexComplete, Agree
  <1>2. QED
    BY <1>1, Invariant, PTL

-----------------------------------------------------------------------------
(* As entries.                                                              *)

Items(list, items) == [i \in DOMAIN list |-> items[list[i]]]

\* Sequences of the same elements are the same.
LEMMA SameSequence ==
  ASSUME NEW V, NEW s \in Seq(V), NEW t \in Seq(V), Len(s) = Len(t),
         \A i \in 1..Len(s) : s[i] = t[i]
  PROVE  s = t
  OBVIOUS

\* What the concatenation of sequences is.
LEMMA Joined ==
  ASSUME NEW V, NEW s \in Seq(V), NEW t \in Seq(V)
  PROVE  /\ s \o t \in Seq(V) /\ Len(s \o t) = Len(s) + Len(t)
         /\ \A i \in 1..Len(s) + Len(t) : (s \o t)[i] = IF i <= Len(s) THEN s[i] ELSE t[i - Len(s)]
  OBVIOUS

\* What a part of a sequence is.
LEMMA Part ==
  ASSUME NEW V, NEW s \in Seq(V), NEW a \in 1..Len(s) + 1, NEW b \in a - 1..Len(s)
  PROVE  /\ SubSeq(s, a, b) \in Seq(V) /\ Len(SubSeq(s, a, b)) = b - a + 1
         /\ \A i \in 1..b - a + 1 : SubSeq(s, a, b)[i] = s[a + i - 1]
  OBVIOUS

\* The items of the nodes of a list.
LEMMA ItemsAre ==
  ASSUME NEW list \in Seq(Nodes), NEW V, NEW items \in [Nodes -> V]
  PROVE  /\ Items(list, items) \in Seq(V) /\ Len(Items(list, items)) = Len(list)
         /\ DOMAIN Items(list, items) = 1..Len(list)
         /\ \A i \in 1..Len(list) : Items(list, items)[i] = items[list[i]]
  BY DEF Items

\* The item of one node.
LEMMA SingleItem ==
  ASSUME NEW n, NEW items
  PROVE  Items(<<n>>, items) = <<items[n]>>
  <1>1. DOMAIN <<n>> = {1} /\ <<n>>[1] = n
    OBVIOUS
  <1>2. Items(<<n>>, items) = [i \in {1} |-> items[n]]
    BY <1>1 DEF Items
  <1>3. <<items[n]>> = [i \in {1} |-> items[n]]
    <2>1. PICK e : e = items[n]
      OBVIOUS
    <2>2. <<e>> = [i \in {1} |-> e]
      OBVIOUS
    <2>3. QED
      BY <2>1, <2>2
  <1>4. QED
    BY <1>2, <1>3

\* The items of two lists in a row.
LEMMA ItemsJoined ==
  ASSUME NEW s \in Seq(Nodes), NEW t \in Seq(Nodes), NEW V, NEW items \in [Nodes -> V]
  PROVE  Items(s \o t, items) = Items(s, items) \o Items(t, items)
  <1>1. PICK x, y, st, z, xy : /\ x = Items(s, items) /\ y = Items(t, items) /\ xy = x \o y
                               /\ st = s \o t /\ z = Items(st, items)
    OBVIOUS
  <1>2. /\ x \in Seq(V) /\ Len(x) = Len(s) /\ \A i \in 1..Len(s) : x[i] = items[s[i]]
        /\ y \in Seq(V) /\ Len(y) = Len(t) /\ \A i \in 1..Len(t) : y[i] = items[t[i]]
    BY <1>1, ItemsAre
  <1>3. /\ st \in Seq(Nodes) /\ Len(st) = Len(s) + Len(t)
        /\ \A i \in 1..Len(s) + Len(t) : st[i] = IF i <= Len(s) THEN s[i] ELSE t[i - Len(s)]
    BY <1>1, Joined
  <1>4. z \in Seq(V) /\ Len(z) = Len(st) /\ \A i \in 1..Len(st) : z[i] = items[st[i]]
    BY <1>1, <1>3, ItemsAre
  <1>5. /\ xy \in Seq(V) /\ Len(xy) = Len(x) + Len(y)
        /\ \A i \in 1..Len(x) + Len(y) : xy[i] = IF i <= Len(x) THEN x[i] ELSE y[i - Len(x)]
    <2>1. x \in Seq(V) /\ y \in Seq(V)
      BY <1>2
    <2>2. /\ x \o y \in Seq(V) /\ Len(x \o y) = Len(x) + Len(y)
          /\ \A i \in 1..Len(x) + Len(y) : (x \o y)[i] = IF i <= Len(x) THEN x[i] ELSE y[i - Len(x)]
      BY <2>1, Joined
    <2>3. QED
      BY <1>1, <2>2
  <1>6. \A i \in 1..Len(z) : z[i] = xy[i]
    <2>1. SUFFICES ASSUME NEW i \in 1..Len(z) PROVE z[i] = xy[i]
      OBVIOUS
    <2>2. i \in 1..Len(s) + Len(t) /\ Len(s) \in Nat /\ Len(t) \in Nat
      BY <1>3, <1>4
    <2>3. CASE i <= Len(s)
      <3>1. i \in 1..Len(s)
        BY <2>2, <2>3
      <3>2. z[i] = items[s[i]] /\ xy[i] = x[i]
        BY <1>2, <1>3, <1>4, <1>5, <2>2, <2>3
      <3>3. QED
        BY <1>2, <3>1, <3>2
    <2>4. CASE ~(i <= Len(s))
      <3>1. i - Len(s) \in 1..Len(t)
        BY <2>2, <2>4
      <3>2. z[i] = items[t[i - Len(s)]] /\ xy[i] = y[i - Len(s)]
        BY <1>2, <1>3, <1>4, <1>5, <2>2, <2>4
      <3>3. QED
        BY <1>2, <3>1, <3>2
    <2>5. QED
      BY <2>3, <2>4
  <1>7. Len(z) = Len(xy)
    BY <1>2, <1>3, <1>4, <1>5
  <1>8. QED
    BY <1>1, <1>4, <1>5, <1>6, <1>7, SameSequence

\* The items of a part of a list.
LEMMA ItemsOfPart ==
  ASSUME NEW s \in Seq(Nodes), NEW V, NEW items \in [Nodes -> V],
         NEW a \in 1..Len(s) + 1, NEW b \in a - 1..Len(s)
  PROVE  Items(SubSeq(s, a, b), items) = SubSeq(Items(s, items), a, b)
  <1>1. PICK x, p, y, z : /\ x = Items(s, items) /\ p = SubSeq(s, a, b)
                          /\ y = Items(p, items) /\ z = SubSeq(x, a, b)
    OBVIOUS
  <1>2. x \in Seq(V) /\ Len(x) = Len(s) /\ \A i \in 1..Len(s) : x[i] = items[s[i]]
    BY <1>1, ItemsAre
  <1>3. p \in Seq(Nodes) /\ Len(p) = b - a + 1 /\ \A i \in 1..b - a + 1 : p[i] = s[a + i - 1]
    BY <1>1, Part
  <1>4. y \in Seq(V) /\ Len(y) = Len(p) /\ \A i \in 1..Len(p) : y[i] = items[p[i]]
    BY <1>1, <1>3, ItemsAre
  <1>5. z \in Seq(V) /\ Len(z) = b - a + 1 /\ \A i \in 1..b - a + 1 : z[i] = x[a + i - 1]
    BY <1>1, <1>2, Part
  <1>6. \A i \in 1..Len(y) : y[i] = z[i]
    <2>1. SUFFICES ASSUME NEW i \in 1..Len(y) PROVE y[i] = z[i]
      OBVIOUS
    <2>2. i \in 1..b - a + 1 /\ i \in 1..Len(p)
      BY <1>3, <1>4
    <2>3. a + i - 1 \in 1..Len(s)
      BY <2>2
    <2>4. y[i] = items[s[a + i - 1]] /\ z[i] = x[a + i - 1]
      BY <1>3, <1>4, <1>5, <2>2
    <2>5. QED
      BY <1>2, <2>3, <2>4
  <1>7. Len(y) = Len(z)
    BY <1>3, <1>4, <1>5
  <1>8. y = z
    BY <1>4, <1>5, <1>6, <1>7, SameSequence
  <1>9. QED
    BY <1>1, <1>8

\* The items of a list without one node.
LEMMA ItemsRemoved ==
  ASSUME NEW s \in Seq(Nodes), NEW V, NEW items \in [Nodes -> V], NEW at \in DOMAIN s
  PROVE  Items(RemoveAt(s, at), items) = RemoveAt(Items(s, items), at)
  <1>1. /\ at \in 1..Len(s) /\ at - 1 \in 1 - 1..Len(s) /\ Len(s) \in at + 1 - 1..Len(s)
        /\ 1 \in 1..Len(s) + 1 /\ at + 1 \in 1..Len(s) + 1
    OBVIOUS
  <1>2. PICK left, right : left = SubSeq(s, 1, at - 1) /\ right = SubSeq(s, at + 1, Len(s))
    OBVIOUS
  <1>3. left \in Seq(Nodes) /\ right \in Seq(Nodes)
    BY <1>1, <1>2, Part
  <1>4. Items(left, items) = SubSeq(Items(s, items), 1, at - 1)
    BY <1>1, <1>2, ItemsOfPart
  <1>5. Items(right, items) = SubSeq(Items(s, items), at + 1, Len(s))
    <2>1. PICK from : from = at + 1 /\ from \in 1..Len(s) + 1 /\ Len(s) \in from - 1..Len(s)
      BY <1>1
    <2>2. Items(SubSeq(s, from, Len(s)), items) = SubSeq(Items(s, items), from, Len(s))
      BY <2>1, ItemsOfPart
    <2>3. QED
      BY <1>2, <2>1, <2>2
  <1>6. Items(left \o right, items) = Items(left, items) \o Items(right, items)
    BY <1>3, ItemsJoined
  <1>7. Len(Items(s, items)) = Len(s)
    BY ItemsAre
  <1>8. QED
    BY <1>2, <1>4, <1>5, <1>6, <1>7 DEF RemoveAt

\* The entry of a key is the item of its node, and the others are the items of the others.
LEMMA OthersAre ==
  ASSUME IInv, ~thrown, NEW k \in Keys, NEW n, n = items_indexing_map_[k]
  PROVE  /\ n = None => Map!At(k) = {} /\ Map!Others(k) = Items(items_list_, item)
         /\ n # None => /\ Map!ValuesOf(k) = {item[n][2]}
                        /\ Map!Others(k) = Items(Unlinked(items_list_, n), item)
  <1>1. PICK list : list = items_list_ /\ list \in Seq(Nodes) /\ IsInjective(list)
    BY DEF IInv, IsList
  <1>2. Agree(ToSet(list), items_indexing_map_, item, TRUE)
    BY <1>1 DEF IInv
  <1>3. item \in [Nodes -> MaybeItem] /\ DOMAIN list = 1..Len(list)
    BY <1>1, <1>2 DEF Agree
  <1>4. /\ Entries = Items(list, item) /\ DOMAIN Entries = DOMAIN list
        /\ \A i \in DOMAIN list : Entries[i] = item[list[i]]
    BY <1>1 DEF Entries, Items
  <1>5. \A i \in DOMAIN list : list[i] \in ToSet(list) /\ list[i] \in Nodes
    BY <1>1, <1>3 DEF ToSet
  <1>6. \A i \in DOMAIN list : item[list[i]][1] = k <=> list[i] = n
    BY <1>2, <1>5, NoneAssumption DEF Agree
  <1>7. Map!At(k) = {i \in DOMAIN list : list[i] = n}
    BY <1>4, <1>6 DEF Map!At
  <1>8. ASSUME n = None PROVE Map!At(k) = {} /\ Map!Others(k) = Items(items_list_, item)
    <2>1. Map!At(k) = {}
      BY <1>5, <1>7, <1>8, NoneAssumption
    <2>2. QED
      BY <1>1, <1>4, <2>1 DEF Map!Others
  <1>9. ASSUME n # None
        PROVE  /\ Map!ValuesOf(k) = {item[n][2]}
               /\ Map!Others(k) = Items(Unlinked(items_list_, n), item)
    <2>1. n \in ToSet(list)
      BY <1>2, <1>9 DEF Agree
    <2>2. PICK at \in DOMAIN list : list[at] = n
      BY <2>1 DEF ToSet
    <2>3. \A i \in DOMAIN list : list[i] = n <=> i = at
      BY <1>1, <2>2 DEF IsInjective
    <2>4. Map!At(k) = {at}
      BY <1>7, <2>2, <2>3
    <2>5. Map!ValuesOf(k) = {item[n][2]}
      BY <1>4, <2>2, <2>4 DEF Map!ValuesOf
    <2>6. Map!Others(k) = RemoveAt(Entries, at)
      <3>1. (CHOOSE i \in {at} : TRUE) = at
        OBVIOUS
      <3>2. QED
        BY <2>4, <3>1 DEF Map!Others, Map!RemoveAt, RemoveAt
    <2>7. Unlinked(list, n) = RemoveAt(list, at)
      <3>1. (CHOOSE i \in DOMAIN list : list[i] = n) = at
        BY <2>2, <2>3
      <3>2. QED
        BY <3>1 DEF Unlinked
    <2>8. Items(RemoveAt(list, at), item) = RemoveAt(Items(list, item), at)
      BY <1>1, <1>3, ItemsRemoved
    <2>9. QED
      BY <1>1, <1>4, <2>5, <2>6, <2>7, <2>8
  <1>10. QED
    BY <1>8, <1>9

\* Items elsewhere do not matter.
LEMMA ItemsElsewhere ==
  ASSUME NEW list, NEW a, NEW b, \A m \in ToSet(list) : a[m] = b[m]
  PROVE  Items(list, a) = Items(list, b)
  BY DEF Items, ToSet

\* What Put inserts, as entries: the new one in front of the others.
LEMMA InsertedEntries ==
  ASSUME IInv, ~thrown, NEW n \in Nodes, item[n] = None, NEW k \in Keys, NEW v \in Values,
         NEW items, items = Released([item EXCEPT ![n] = <<k, v>>], {items_indexing_map_[k]})
  PROVE  /\ Items(Inserted(n, k), items) = <<<<k, v>>>> \o Map!Others(k)
         /\ Inserted(n, k) \in Seq(Nodes) /\ items \in [Nodes -> MaybeItem]
         /\ Len(Inserted(n, k)) = IF Contain(k) THEN Len(items_list_) ELSE Len(items_list_) + 1
         /\ Contain(k) => Len(items_list_) # 0
  <1>1. PICK old, rest : /\ old = items_indexing_map_[k]
                         /\ rest = IF old = None THEN items_list_ ELSE Unlinked(items_list_, old)
    OBVIOUS
  <1>2. IsList(items_list_) /\ Agree(ToSet(items_list_), items_indexing_map_, item, TRUE)
    BY DEF IInv
  <1>3. n \notin ToSet(items_list_) /\ old \in Nodes \cup {None} /\ (old # None => old \in ToSet(items_list_))
    BY <1>1, <1>2, NoneAssumption DEF Agree
  <1>4. /\ IsList(rest) /\ ToSet(rest) = ToSet(items_list_) \ {old}
        /\ Len(rest) = IF old = None THEN Len(items_list_) ELSE Len(items_list_) - 1
    <2>1. CASE old = None
      <3>1. None \notin ToSet(items_list_)
        BY <1>2, NoneAssumption DEF Agree
      <3>2. QED
        BY <1>1, <1>2, <2>1, <3>1
    <2>2. CASE old # None
      BY <1>1, <1>2, <1>3, <2>2, UnlinkedIsList
    <2>3. QED
      BY <2>1, <2>2
  <1>5. Inserted(n, k) = <<n>> \o rest
    BY <1>1 DEF Inserted
  <1>6. items \in [Nodes -> MaybeItem] /\ items[n] = <<k, v>> /\ \A m \in ToSet(rest) : items[m] = item[m]
    <2>1. item \in [Nodes -> MaybeItem] /\ ToSet(items_list_) \subseteq Nodes
      BY <1>2 DEF Agree
    <2>2. n # old
      BY <1>3, NoneAssumption
    <2>3. \A m \in Nodes : items[m] = IF m = old THEN None ELSE IF m = n THEN <<k, v>> ELSE item[m]
      BY <1>1, <2>1 DEF Released
    <2>4. items \in [Nodes -> MaybeItem]
      BY <1>1, <2>1 DEF Released, MaybeItem
    <2>5. QED
      BY <1>3, <1>4, <2>1, <2>2, <2>3, <2>4
  <1>7. Items(rest, items) = Map!Others(k)
    <2>1. Items(rest, items) = Items(rest, item)
      BY <1>6, ItemsElsewhere
    <2>2. QED
      BY <1>1, <2>1, OthersAre
  <1>8. rest \in Seq(Nodes) /\ <<n>> \in Seq(Nodes) /\ <<n>> \o rest \in Seq(Nodes)
        /\ Len(<<n>> \o rest) = Len(rest) + 1
    BY <1>4 DEF IsList
  <1>9. Items(<<n>> \o rest, items) = <<<<k, v>>>> \o Map!Others(k)
    <2>1. Items(<<n>>, items) = <<<<k, v>>>>
      BY <1>6, SingleItem
    <2>2. Items(<<n>> \o rest, items) = Items(<<n>>, items) \o Items(rest, items)
      BY <1>6, <1>8, ItemsJoined
    <2>3. QED
      BY <1>7, <2>1, <2>2
  <1>10. Len(items_list_) \in Nat /\ (old # None => Len(items_list_) # 0)
    BY <1>2, <1>3 DEF IsList, ToSet
  <1>11. /\ Len(Inserted(n, k)) = IF Contain(k) THEN Len(items_list_) ELSE Len(items_list_) + 1
         /\ Contain(k) => Len(items_list_) # 0
    <2>1. Len(Inserted(n, k)) = Len(rest) + 1
      BY <1>5, <1>8
    <2>2. Contain(k) <=> old # None
      BY <1>1 DEF Contain
    <2>3. QED
      BY <1>4, <1>10, <2>1, <2>2
  <1>12. Items(Inserted(n, k), items) = <<<<k, v>>>> \o Map!Others(k)
    BY <1>5, <1>9
  <1>13. QED
    BY <1>5, <1>6, <1>8, <1>11, <1>12

-----------------------------------------------------------------------------
(* The counter, the limit and the map.  No cache has a limit of SIZE_MAX,   *)
(* at which the counter would come around to zero.                          *)

LimitsBelow == \A m \in Limits : m + 1 < SizeMod

\* Until a Put throws, the counter is never below the number of items: Clear leaves it above.
CountInv == ~thrown => Len(items_list_) <= cur_size_ /\ cur_size_ + 1 < SizeMod

\* Short of coming around to zero, the counter counts.
LEMMA CountsExactly ==
  ASSUME NEW a \in Nat
  PROVE  /\ a + 1 < SizeMod => Plus(a, 1) = a + 1
         /\ a < SizeMod /\ a # 0 => Minus(a, 1) = a - 1
  <1>1. a + 1 < SizeMod => Plus(a, 1) = a + 1
    BY LimitsAssumption DEF Plus
  <1>2. ASSUME a < SizeMod, a # 0 PROVE Minus(a, 1) = a - 1
    <2>1. PICK b \in Nat : b = a - 1 /\ b < SizeMod
      BY <1>2, LimitsAssumption
    <2>2. (b + SizeMod) % SizeMod = b
      BY <2>1, LimitsAssumption
    <2>3. a + SizeMod - 1 = b + SizeMod
      BY <2>1, LimitsAssumption
    <2>4. QED
      BY <2>1, <2>2, <2>3 DEF Minus
  <1>3. QED
    BY <1>1, <1>2

\* A Put that threw ends the promise.
LEMMA ThrownStutters ==
  ASSUME thrown, [Next]_vars
  PROVE  thrown' /\ UNCHANGED Map!mapVars
  <1>1. thrown'
    BY DEF Next, vars, Put, PutThrows, Get, Erase, Clear, SetMaxSize
  <1>2. QED
    BY <1>1 DEF Map!mapVars, Entries, Room, Out

\* Put counts, evicts and orders as the map does.
LEMMA PutCounts ==
  ASSUME LimitsBelow, IInv, CountInv, ~thrown, NEW k \in Keys, NEW v \in Values, Put(k, v)
  PROVE  /\ CountInv' /\ Map!Put(k, v)
         /\ Len(items_list_') > Len(items_list_) => Len(items_list_') <= max_size_
  <1>1. PICK n \in Nodes : /\ item[n] = None
                           /\ IF CountInserted(k) > max_size_ THEN Evict(n, k, v) ELSE Keep(n, k, v)
    BY DEF Put
  <1>2. PICK list, items, count, len :
            /\ list = Inserted(n, k) /\ count = CountInserted(k) /\ len = Len(items_list_)
            /\ items = Released([item EXCEPT ![n] = <<k, v>>], {items_indexing_map_[k]})
    OBVIOUS
  <1>3. UNCHANGED <<max_size_, val, thrown>>
    BY DEF Put
  <1>4. PICK new : new = <<<<k, v>>>> \o Map!Others(k)
    OBVIOUS
  <1>5. /\ Items(list, items) = new /\ list \in Seq(Nodes) /\ items \in [Nodes -> MaybeItem]
        /\ Len(list) = IF Contain(k) THEN len ELSE len + 1
        /\ Contain(k) => len # 0
    BY <1>1, <1>2, <1>4, InsertedEntries
  <1>6. Len(new) = Len(list) /\ new \in Seq(MaybeItem)
    BY <1>5, ItemsAre
  <1>7. IsList(list) /\ list # <<>>
    BY <1>1, <1>2, InsertedIsList
  <1>8. /\ len \in Nat /\ cur_size_ \in Nat /\ len <= cur_size_ /\ cur_size_ + 1 < SizeMod
        /\ SizeMod \in Nat /\ max_size_ \in Nat /\ max_size_ + 1 < SizeMod
    BY <1>2, LimitsAssumption DEF IInv, IsList, CountInv, LimitsBelow
  <1>9. count = IF Contain(k) THEN cur_size_ ELSE cur_size_ + 1
    BY <1>2, <1>8, CountsExactly DEF CountInserted
  <1>10. count \in Nat /\ count < SizeMod /\ Len(list) - count = len - cur_size_ /\ Len(list) \in Nat \ {0}
    BY <1>5, <1>8, <1>9
  <1>11. Room = max_size_ - (cur_size_ - len) /\ (Len(new) > Room <=> count > max_size_)
    BY <1>2, <1>6, <1>8, <1>10 DEF Room
  <1>12. CASE count <= max_size_
    <2>1. items_list_' = list /\ item' = items /\ cur_size_' = count
      <3>1. Keep(n, k, v)
        BY <1>1, <1>2, <1>8, <1>10, <1>12
      <3>2. QED
        BY <1>2, <3>1 DEF Keep
    <2>2. Entries' = new
      BY <1>3, <1>5, <2>1 DEF Entries, Items
    <2>3. Room' = Room
      <3>1. Room' = max_size_ - (count - Len(list))
        BY <1>3, <2>1 DEF Room
      <3>2. QED
        BY <1>8, <1>10, <1>11, <3>1
    <2>4. Map!Put(k, v)
      BY <1>3, <1>4, <1>11, <1>12, <1>8, <1>10, <2>2, <2>3 DEF Map!Put, Out
    <2>5. Len(list) <= count /\ count + 1 < SizeMod /\ Len(list) <= max_size_
      BY <1>8, <1>10, <1>12
    <2>6. QED
      BY <2>1, <2>4, <2>5 DEF CountInv
  <1>13. CASE ~(count <= max_size_)
    <2>1. PICK last, front : last = Last(list) /\ front = Front(list)
      OBVIOUS
    <2>2. items_list_' = front /\ item' = Released(items, {last}) /\ cur_size_' = Minus(count, 1)
      <3>1. Evict(n, k, v)
        BY <1>1, <1>2, <1>8, <1>10, <1>13
      <3>2. QED
        BY <1>2, <2>1, <3>1 DEF Evict
    <2>3. cur_size_' = count - 1 /\ count # 0
      <3>1. count # 0
        BY <1>8, <1>10, <1>13
      <3>2. QED
        BY <1>10, <2>2, <3>1, CountsExactly
    <2>4. IsList(front) /\ ToSet(front) = ToSet(list) \ {last} /\ ToSet(list) \subseteq Nodes
      <3>1. ToSet(list) \subseteq Nodes
        BY <1>5 DEF ToSet
      <3>2. QED
        BY <1>7, <2>1, <3>1, FrontIsList
    <2>5. front = SubSeq(list, 1, Len(list) - 1) /\ Len(front) = Len(list) - 1
      BY <1>5, <1>10, <2>1 DEF Front
    <2>6. Items(front, item') = SubSeq(new, 1, Len(new) - 1)
      <3>1. \A m \in ToSet(front) : item'[m] = items[m]
        BY <2>2, <2>4 DEF Released
      <3>2. Items(front, item') = Items(front, items)
        BY <3>1, ItemsElsewhere
      <3>3. PICK a, b : a = 1 /\ b = Len(list) - 1 /\ a \in 1..Len(list) + 1 /\ b \in a - 1..Len(list)
        BY <1>10
      <3>4. Items(SubSeq(list, a, b), items) = SubSeq(Items(list, items), a, b)
        BY <1>5, <3>3, ItemsOfPart
      <3>5. QED
        BY <1>5, <1>6, <2>5, <3>2, <3>3, <3>4
    <2>7. Entries' = SubSeq(new, 1, Len(new) - 1)
      BY <1>3, <2>2, <2>6 DEF Entries, Items
    <2>8. Room' = Room
      <3>1. Room' = max_size_ - ((count - 1) - (Len(list) - 1))
        BY <1>3, <2>2, <2>3, <2>5 DEF Room
      <3>2. QED
        BY <1>8, <1>10, <1>11, <3>1
    <2>9. Map!Put(k, v)
      <3>1. Len(new) > Room
        BY <1>8, <1>10, <1>11, <1>13
      <3>2. QED
        BY <1>3, <1>4, <2>7, <2>8, <3>1 DEF Map!Put, Out
    <2>10. Len(front) <= count - 1 /\ (count - 1) + 1 < SizeMod /\ ~(Len(front) > len)
      BY <1>5, <1>8, <1>9, <1>10, <2>5
    <2>11. QED
      BY <1>2, <2>2, <2>3, <2>9, <2>10 DEF CountInv
  <1>14. QED
    BY <1>12, <1>13

\* A Put that throws.
LEMMA ThrowFails ==
  ASSUME ~thrown, NEW k \in Keys, NEW v \in Values, PutThrows(k, v)
  PROVE  thrown' /\ Map!Fail
  BY DEF PutThrows, Map!Fail, Entries, Room, Out

\* Get makes an entry the first.
LEMMA GetCounts ==
  ASSUME IInv, CountInv, ~thrown, NEW k \in Keys, Get(k)
  PROVE  CountInv' /\ Map!Get(k) /\ ~(Len(items_list_') > Len(items_list_))
  <1>1. PICK n : n = items_indexing_map_[k]
    OBVIOUS
  <1>2. UNCHANGED <<max_size_, cur_size_, items_indexing_map_, item, thrown>>
    BY DEF Get
  <1>3. IsList(items_list_) /\ Agree(ToSet(items_list_), items_indexing_map_, item, TRUE)
    BY DEF IInv
  <1>4. Len(items_list_) \in Nat
    BY <1>3 DEF IsList
  <1>5. CASE n = None
    <2>1. UNCHANGED items_list_ /\ val' = None
      BY <1>1, <1>5 DEF Get
    <2>2. Map!At(k) = {}
      BY <1>1, <1>5, OthersAre
    <2>3. Entries' = Entries /\ Room' = Room /\ Out' = None
      BY <1>2, <2>1 DEF Entries, Room, Out
    <2>4. QED
      BY <1>2, <1>4, <2>1, <2>2, <2>3 DEF Map!Get, Map!ValuesOf, CountInv
  <1>6. CASE n # None
    <2>1. PICK rest : rest = Unlinked(items_list_, n)
      OBVIOUS
    <2>2. items_list_' = <<n>> \o rest /\ val' = item[n][2]
      BY <1>1, <1>6, <2>1 DEF Get
    <2>3. n \in ToSet(items_list_) /\ n \in Nodes /\ item[n] \in Keys \X Values /\ item[n][1] = k
      BY <1>1, <1>3, <1>6 DEF Agree
    <2>4. IsList(rest) /\ n \notin ToSet(rest) /\ Len(rest) = Len(items_list_) - 1
      BY <1>3, <2>1, <2>3, UnlinkedIsList
    <2>5. Len(items_list_') = Len(items_list_)
      BY <1>4, <2>2, <2>3, <2>4, Linked
    <2>6. item[n] = <<k, val'>> /\ Out' = val' /\ Map!ValuesOf(k) = {val'}
      BY <1>1, <1>2, <1>6, <2>2, <2>3, OthersAre DEF Out
    <2>7. Entries' = <<<<k, Out'>>>> \o Map!Others(k)
      <3>1. Entries' = Items(<<n>> \o rest, item)
        BY <1>2, <2>2 DEF Entries, Items
      <3>2. rest \in Seq(Nodes) /\ <<n>> \in Seq(Nodes) /\ item \in [Nodes -> MaybeItem]
        BY <1>3, <2>3, <2>4 DEF IsList, Agree
      <3>3. Items(<<n>> \o rest, item) = Items(<<n>>, item) \o Items(rest, item)
        BY <3>2, ItemsJoined
      <3>4. Items(<<n>>, item) = <<<<k, Out'>>>>
        BY <2>6, SingleItem
      <3>5. Items(rest, item) = Map!Others(k)
        BY <1>1, <1>6, <2>1, OthersAre
      <3>6. QED
        BY <3>1, <3>3, <3>4, <3>5
    <2>8. Room' = Room
      BY <1>2, <2>5 DEF Room
    <2>9. Map!Get(k)
      BY <2>6, <2>7, <2>8 DEF Map!Get
    <2>10. QED
      BY <1>2, <1>4, <2>5, <2>9 DEF CountInv
  <1>7. QED
    BY <1>5, <1>6

\* Erase takes out an entry.
LEMMA EraseCounts ==
  ASSUME IInv, CountInv, ~thrown, NEW k \in Keys, Erase(k)
  PROVE  CountInv' /\ Map!Erase(k) /\ ~(Len(items_list_') > Len(items_list_))
  <1>1. PICK n, len : n = items_indexing_map_[k] /\ len = Len(items_list_)
    OBVIOUS
  <1>2. /\ n # None /\ items_list_' = Unlinked(items_list_, n) /\ item' = Released(item, {n})
        /\ cur_size_' = Minus(cur_size_, 1) /\ UNCHANGED <<max_size_, val, thrown>>
    BY <1>1 DEF Erase, Contain
  <1>3. IsList(items_list_) /\ Agree(ToSet(items_list_), items_indexing_map_, item, TRUE)
    BY DEF IInv
  <1>4. n \in ToSet(items_list_) /\ ToSet(items_list_) \subseteq Nodes
    BY <1>1, <1>2, <1>3 DEF Agree
  <1>5. /\ IsList(items_list_') /\ ToSet(items_list_') = ToSet(items_list_) \ {n}
        /\ Len(items_list_') = len - 1
    BY <1>1, <1>2, <1>3, <1>4, UnlinkedIsList
  <1>6. /\ len \in Nat /\ len # 0 /\ cur_size_ \in Nat /\ len <= cur_size_ /\ cur_size_ + 1 < SizeMod
        /\ SizeMod \in Nat /\ max_size_ \in Nat
    BY <1>1, <1>3, <1>4, LimitsAssumption DEF IInv, IsList, CountInv, ToSet
  <1>7. cur_size_' = cur_size_ - 1
    BY <1>2, <1>6, CountsExactly
  <1>8. Entries' = Map!Others(k)
    <2>1. \A m \in ToSet(items_list_') : item'[m] = item[m]
      BY <1>2, <1>4, <1>5 DEF Released
    <2>2. Items(items_list_', item') = Items(items_list_', item)
      BY <2>1, ItemsElsewhere
    <2>3. Items(items_list_', item) = Map!Others(k)
      BY <1>1, <1>2, OthersAre
    <2>4. QED
      BY <1>2, <2>2, <2>3 DEF Entries, Items
  <1>9. Room' = Room
    <2>1. Room' = max_size_ - ((cur_size_ - 1) - (len - 1))
      BY <1>2, <1>5, <1>7 DEF Room
    <2>2. QED
      BY <1>1, <1>6, <2>1 DEF Room
  <1>10. Map!Erase(k)
    BY <1>2, <1>8, <1>9 DEF Map!Erase, Out
  <1>11. QED
    BY <1>1, <1>5, <1>6, <1>7, <1>10 DEF CountInv

\* Clear, by itself and in SetMaxSize, leaves no entry, and less room.
LEMMA EmptyCounts ==
  ASSUME IInv, CountInv, ~thrown, Empty, UNCHANGED <<cur_size_, val, thrown>>
  PROVE  /\ CountInv' /\ ~(Len(items_list_') > Len(items_list_))
         /\ Entries' = <<>> /\ Room' = max_size_' - cur_size_ /\ Len(Entries) = Len(items_list_)
         /\ Room = max_size_ - (cur_size_ - Len(items_list_)) /\ Out' = Out
         /\ max_size_ \in Nat /\ cur_size_ \in Nat /\ Len(items_list_) \in Nat
  <1>1. items_list_' = <<>> /\ Len(items_list_') = 0
    BY DEF Empty
  <1>2. max_size_ \in Nat /\ cur_size_ \in Nat /\ Len(items_list_) \in Nat
    BY LimitsAssumption DEF IInv, IsList
  <1>3. Room = max_size_ - (cur_size_ - Len(items_list_)) /\ Out' = Out
    BY DEF Room, Out
  <1>4. Room' = max_size_' - (cur_size_ - 0)
    BY <1>1 DEF Room
  <1>5. Entries' = <<>>
    BY <1>1 DEF Entries
  <1>6. Len(Entries) = Len(items_list_)
    <2>1. Entries = Items(items_list_, item)
      BY DEF Entries, Items
    <2>2. items_list_ \in Seq(Nodes) /\ item \in [Nodes -> MaybeItem]
      BY DEF IInv, IsList, Agree
    <2>3. QED
      BY <2>1, <2>2, ItemsAre
  <1>7. QED
    BY <1>1, <1>2, <1>3, <1>4, <1>5, <1>6 DEF CountInv

\* A step of the cache counts right, keeps a growing cache within its limit, and is one of the map.
LEMMA StepCounts ==
  ASSUME LimitsBelow, IInv, CountInv, [Next]_vars
  PROVE  /\ CountInv' /\ [Map!Next]_Map!mapVars
         /\ ~thrown' /\ Len(items_list_') > Len(items_list_) => Len(items_list_') <= max_size_
  <1>1. CASE thrown
    BY <1>1, ThrownStutters DEF CountInv
  <1>2. CASE ~thrown
    <2>1. ASSUME NEW k \in Keys, NEW v \in Values, Put(k, v) \/ PutThrows(k, v)
          PROVE  /\ CountInv' /\ Map!Next
                 /\ ~thrown' /\ Len(items_list_') > Len(items_list_) => Len(items_list_') <= max_size_
      BY <1>2, <2>1, PutCounts, ThrowFails DEF Map!Next, CountInv
    <2>2. ASSUME NEW k \in Keys, Get(k) \/ Erase(k)
          PROVE  CountInv' /\ Map!Next /\ ~(Len(items_list_') > Len(items_list_))
      BY <1>2, <2>2, GetCounts, EraseCounts DEF Map!Next
    <2>3. CASE Clear
      <3>1. Empty /\ UNCHANGED <<max_size_, cur_size_, val, thrown>>
        BY <2>3 DEF Clear
      <3>2. Map!Clear
        BY <1>2, <3>1, EmptyCounts DEF Map!Clear
      <3>3. QED
        BY <1>2, <3>1, <3>2, EmptyCounts DEF Map!Next
    <2>4. ASSUME NEW m \in Limits, SetMaxSize(m)
          PROVE  CountInv' /\ Map!Next /\ ~(Len(items_list_') > Len(items_list_))
      <3>1. /\ max_size_' = m /\ UNCHANGED <<cur_size_, val, thrown>> /\ m \in Nat /\ max_size_ \in Limits
            /\ max_size_ \in Nat
        BY <2>4, LimitsAssumption DEF SetMaxSize, IInv
      <3>2. CASE max_size_ < m
        <4>1. Empty
          BY <2>4, <3>2 DEF SetMaxSize
        <4>2. Map!Resize(m - max_size_)
          BY <1>2, <3>1, <3>2, <4>1, EmptyCounts DEF Map!Resize
        <4>3. QED
          BY <1>2, <3>1, <4>1, <4>2, EmptyCounts DEF Map!Next
      <3>3. CASE ~(max_size_ < m)
        <4>1. UNCHANGED <<items_list_, items_indexing_map_, item>>
          BY <2>4, <3>3 DEF SetMaxSize
        <4>2. Entries' = Entries /\ Out' = Out
          BY <3>1, <4>1 DEF Entries, Out
        <4>3. Len(items_list_) \in Nat /\ cur_size_ \in Nat
          BY LimitsAssumption DEF IInv, IsList
        <4>4. Room' = Room + (m - max_size_)
          BY <1>2, <3>1, <4>1, <4>3 DEF Room
        <4>5. Map!Resize(m - max_size_)
          BY <3>1, <3>3, <4>2, <4>4 DEF Map!Resize
        <4>6. QED
          BY <3>1, <4>1, <4>3, <4>5 DEF Map!Next, CountInv
      <3>4. QED
        BY <3>2, <3>3
    <2>5. CASE UNCHANGED vars
      <3>1. UNCHANGED Map!mapVars
        BY <2>5 DEF vars, Map!mapVars, Entries, Room, Out
      <3>2. Len(items_list_) \in Nat
        BY DEF IInv, IsList
      <3>3. QED
        BY <2>5, <3>1, <3>2 DEF vars, CountInv
    <2>6. QED
      BY <2>1, <2>2, <2>3, <2>4, <2>5 DEF Next
  <1>3. QED
    BY <1>1, <1>2

\* At first the counter and the map are empty.
LEMMA InitCounts ==
  ASSUME LimitsBelow, Init
  PROVE  CountInv /\ Map!Init
  <1>1. max_size_ \in Nat /\ max_size_ + 1 < SizeMod /\ SizeMod \in Nat /\ cur_size_ = 0 /\ Len(items_list_) = 0
    BY LimitsAssumption DEF Init, LimitsBelow
  <1>2. Entries = <<>>
    BY DEF Init, Entries
  <1>3. QED
    BY <1>1, <1>2 DEF Init, CountInv, Map!Init, Room, Out

\* Whatever Clear and SetMaxSize do to the counter, no Put makes a cache grow beyond its limit.
THEOREM NeverGrowsBeyond ==
  ASSUME LimitsBelow
  PROVE  Spec => GrowsWithinLimit
  <1>1. Init => CountInv
    BY InitCounts
  <1>2. IInv /\ CountInv /\ [Next]_vars => CountInv'
    BY StepCounts
  <1>3. IInv /\ CountInv /\ [Next]_vars
          => [~thrown' /\ Len(items_list_') > Len(items_list_) => Len(items_list_') <= max_size_]_vars
    BY StepCounts
  <1>4. QED
    BY <1>1, <1>2, <1>3, Invariant, PTL DEF Spec, GrowsWithinLimit

\* List, index and counter together implement the map in order of use.
THEOREM LRUMapRefined ==
  ASSUME LimitsBelow
  PROVE  Spec => ImplementsLRUMap
  <1>1. Init => CountInv /\ Map!Init
    BY InitCounts
  <1>2. IInv /\ CountInv /\ [Next]_vars => CountInv' /\ [Map!Next]_Map!mapVars
    BY StepCounts
  <1>3. QED
    BY <1>1, <1>2, Invariant, PTL DEF Spec, ImplementsLRUMap, Map!Spec
=============================================================================

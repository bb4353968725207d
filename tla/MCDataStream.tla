---------------------------- MODULE MCDataStream ----------------------------
(***************************************************************************)
(* DataStream with bytes that hold two bits of a number, words of three    *)
(* bits, so that counts take two bytes and may be cut or too long, and     *)
(* values of two bytes.                                                    *)
(***************************************************************************)
EXTENDS DataStream

V1 == <<1, 0>>
V2 == <<3, 2>>
MCItems ==
    {[type |-> "bool", v |-> <<<<1>>>>], [type |-> "char", v |-> <<<<3>>>>],
     [type |-> "primitive", v |-> <<V2>>]}
    \cup [type : {"VarUInt"}, v : {<<<<0>>>>, <<<<1>>>>, <<<<7>>>>}]
    \cup [type : {"string", "vector<char>"}, v : {<<>>, <<<<2>>>>, <<<<1, 3>>>>, <<<<0, 1, 2, 3>>>>, <<<<0, 1, 2, 3, 0>>>>}]
    \cup [type : {"vector"}, v : {<<>>, <<V1>>, <<V2, V1>>, <<V1, V1, V2>>}]
    \cup [type : {"array", "T[]"}, v : {<<V1, V2>>}]
    \cup {[type |-> "char[]", v |-> <<<<3, 2>>>>]}
    \cup [type : {"set"}, v : {<<>>, <<V1, V2>>}]
    \cup [type : {"map"}, v : {<<>>, <<V1, V2>>, <<V1, V2, V2, V2>>}]

\* Numbers of up to three bytes, with what may follow them: short strings, and two
\* entries of a map.
MCForeign ==
    LET numbers == UNION {[1..n -> 0..7] : n \in 0..3}
        counts == {<<k>> : k \in 0..3} \cup {<<h, l>> : h \in 4..6, l \in 0..3} \cup {<<6, 4, 0>>}
        tails == UNION {[1..n -> 0..1] : n \in 1..4}
        entries == {<<e[1], e[2], e[3], e[4]>> : e \in [1..4 -> {V1, V2}]}
    IN  numbers \cup {c \o t : c \in counts, t \in tails}
        \cup {c \o FlattenSeq(e) : c \in counts, e \in entries}
=============================================================================

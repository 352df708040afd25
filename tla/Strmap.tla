------------------------------- MODULE Strmap -------------------------------
(***************************************************************************)
(* ccan/strmap: the critical-bit tree under the registries and the rows of *)
(* the entity table.                                                       *)
(*                                                                         *)
(* A string is the sequence of its bytes, which are not 0.  A `struct      *)
(* strmap` is Empty, a leaf, or a node with the byte and the bit where its *)
(* children first differ.  malloc does not fail.                           *)
(***************************************************************************)
EXTENDS Integers, Sequences, FiniteSetsExt

CONSTANTS
    ByteBits,   \* bits of a byte, 8 in the program
    String,     \* the strings used as members and as prefixes
    Value       \* the non-NULL pointers stored

VARIABLES
    map,
    ret     \* the last call: [op, key, ok], key a set of at most one

Bit(x, n) == (x \div 2^n) % 2

Empty == [kind |-> "empty"]
Leaf(s, v) == [kind |-> "leaf", s |-> s, v |-> v]
IsLeaf(n) == n.kind = "leaf"

\* The byte at a position from 0, the final NUL included.
Byte(s, k) == IF k < Len(s) THEN s[k + 1] ELSE 0

\* Past the end of the string the direction is 0, as for a NUL.
direction(n, s) == Bit(Byte(s, n.byte_num), n.bit_num)

RECURSIVE closest(_, _)
closest(n, s) == IF IsLeaf(n) THEN n ELSE closest(n.child[direction(n, s)], s)

\* At most one value.
strmap_get_(m, s) ==
    IF m # Empty /\ closest(m, s).s = s THEN {closest(m, s).v} ELSE {}

\* Mutant of insert: it goes where the walk to the closest member ends.
RECURSIVE insert_AtLeaf(_, _, _, _, _)
insert_AtLeaf(n, byte, bit, s, v) ==
    IF ~IsLeaf(n)
    THEN [n EXCEPT !.child[direction(n, s)] = insert_AtLeaf(@, byte, bit, s, v)]
    ELSE [kind |-> "node", byte_num |-> byte, bit_num |-> bit,
          child |-> [d \in 0..1 |-> IF d = Bit(Byte(s, byte), bit) THEN Leaf(s, v) ELSE n]]

\* The new node goes above the first node that tests a later bit; in a byte
\* the bits are tested from the highest down.
RECURSIVE insert(_, _, _, _, _)
insert(n, byte, bit, s, v) ==
    IF /\ ~IsLeaf(n)
       /\ ~(n.byte_num > byte)
       /\ ~(n.byte_num = byte /\ n.bit_num < bit)
    THEN [n EXCEPT !.child[direction(n, s)] = insert(@, byte, bit, s, v)]
    ELSE [kind |-> "node", byte_num |-> byte, bit_num |-> bit,
          child |-> [d \in 0..1 |-> IF d = Bit(Byte(s, byte), bit) THEN Leaf(s, v) ELSE n]]

\* The same tree when s is there (EEXIST).
strmap_add_(m, s, v) ==
    IF m = Empty THEN Leaf(s, v)
    ELSE LET t    == closest(m, s).s
             byte == Min({k \in 0 .. Len(s) : Byte(s, k) # Byte(t, k)})
             bit  == Max({b \in 0 .. ByteBits - 1 : Bit(Byte(s, byte), b) # Bit(Byte(t, byte), b)})
         IN  IF s = t THEN m ELSE insert(m, byte, bit, s, v)

RECURSIVE del(_, _)
del(n, s) ==
    LET d == direction(n, s)
    IN  IF IsLeaf(n.child[d])
        THEN IF n.child[d].s = s THEN n.child[1 - d] ELSE n
        ELSE [n EXCEPT !.child[d] = del(@, s)]

\* Mutant of strmap_del_: the member that is closest goes, found or not.
strmap_del_Closest(m, s) ==
    IF m = Empty \/ IsLeaf(m) THEN Empty ELSE del(m, closest(m, s).s)

strmap_del_(m, s) ==
    IF m = Empty THEN m
    ELSE IF IsLeaf(m) THEN IF m.s = s THEN Empty ELSE m
    ELSE del(m, s)

\* The strings handle is called with, in order, when it never says stop.
RECURSIVE iterate(_)
iterate(n) == IF IsLeaf(n) THEN <<n.s>> ELSE iterate(n.child[0]) \o iterate(n.child[1])

strmap_iterate_(m) == IF m = Empty THEN << >> ELSE iterate(m)

\* top follows n as long as the node tests a byte of the prefix.
RECURSIVE prefixTop(_, _, _)
prefixTop(n, top, pre) ==
    IF IsLeaf(n) THEN [leaf |-> n, top |-> top]
    ELSE LET c == n.child[direction(n, pre)]
         IN  prefixTop(c, IF Byte(pre, n.byte_num) # 0 THEN c ELSE top, pre)

\* Mutant of strmap_prefix_: the members found are not compared with the prefix.
strmap_prefix_Unchecked(m, pre) ==
    IF m = Empty THEN m ELSE prefixTop(m, m, pre).top

strmap_prefix_(m, pre) ==
    IF m = Empty THEN m
    ELSE LET r == prefixTop(m, m, pre)
         IN  IF Len(r.leaf.s) >= Len(pre) /\ SubSeq(r.leaf.s, 1, Len(pre)) = pre
             THEN r.top ELSE Empty
-----------------------------------------------------------------------------
\* A call that succeeds changes the tree; EEXIST and ENOENT leave it alone.
Init == map = Empty /\ ret = [op |-> "clear", key |-> {}, ok |-> TRUE]

Add(s, v) ==
    /\ map' = strmap_add_(map, s, v)
    /\ ret' = [op |-> "add", key |-> {s}, ok |-> map' # map]

Del(s) ==
    /\ map' = strmap_del_(map, s)
    /\ ret' = [op |-> "del", key |-> {s}, ok |-> map' # map]

strmap_clear_ == map' = Empty /\ ret' = [op |-> "clear", key |-> {}, ok |-> TRUE]

Next ==
    \/ \E s \in String, v \in Value : Add(s, v)
    \/ \E s \in String : Del(s)
    \/ strmap_clear_

Spec == Init /\ [][Next]_<<map, ret>>
-----------------------------------------------------------------------------
RECURSIVE Leaves(_)
Leaves(n) ==
    IF n = Empty THEN {}
    ELSE IF IsLeaf(n) THEN {n} ELSE Leaves(n.child[0]) \cup Leaves(n.child[1])

Members == {l.s : l \in Leaves(map)}

Dict ==
    LET leaves == Leaves(map)
    IN  [s \in {l.s : l \in leaves} |-> (CHOOSE l \in leaves : l.s = s).v]

\* strmap_get_ finds what the tree holds and nothing else, and iteration
\* visits it all in the order of strcmp: the tests on each path go forward in
\* the string, wherever an addition put its node.
OrderedAndFound ==
    LET dict == Dict
        seen == strmap_iterate_(map)
        Before(s, t) == \E k \in 0 .. Len(s) : /\ Byte(s, k) < Byte(t, k)
                                               /\ \A j \in 0 .. k - 1 : Byte(s, j) = Byte(t, j)
    IN  /\ \A s \in String : strmap_get_(map, s) = {dict[t] : t \in DOMAIN dict \cap {s}}
        /\ {seen[k] : k \in DOMAIN seen} = DOMAIN dict
        /\ \A j, k \in DOMAIN seen : j < k => Before(seen[j], seen[k])

\* strmap_prefix_ returns the tree of exactly the members that begin with the
\* prefix, the empty map when there is none.
PrefixExact ==
    LET all == Members
    IN  \A pre \in String :
            {l.s : l \in Leaves(strmap_prefix_(map, pre))}
              = {s \in all : Len(s) >= Len(pre) /\ SubSeq(s, 1, Len(pre)) = pre}

Abstract == INSTANCE Dictionary WITH dict <- Dict, Key <- String

\* The tree implements a partial function from strings: each call adds or
\* deletes the string it names and no other, and says so
\* (ccan/strmap/strmap.c).
ImplementsDictionary == Abstract!Spec
=============================================================================

------------------------------- MODULE Intmap -------------------------------
(***************************************************************************)
(* ccan/intmap: the critical-bit tree under the entity table and under the *)
(* table of outstanding requests, with its ordered traversals.             *)
(*                                                                         *)
(* A `struct intmap` is Empty, a leaf (index and value), or a node with    *)
(* the word prefix_and_critbit and two children.  The walks from the root  *)
(* down are recursive operators; a pointer that is written through is the  *)
(* subtree that is replaced.  malloc does not fail.                        *)
(***************************************************************************)
EXTENDS Integers, Sequences, FiniteSetsExt

CONSTANTS
    Width,  \* bits of intmap_index_t, 64 in the program
    Used,   \* the indices added and deleted
    Value   \* the non-NULL pointers stored

VARIABLES
    map,
    ret     \* the last call: [op, key, ok], key a set of at most one

IndexT == 0 .. 2^Width - 1

Bit(x, n) == (x \div 2^n) % 2

Empty == [kind |-> "empty"]
Leaf(i, v) == [kind |-> "leaf", i |-> i, v |-> v]
Node(p, c0, c1) ==
    [kind |-> "node", prefix_and_critbit |-> p,
     child |-> [d \in 0..1 |-> IF d = 0 THEN c0 ELSE c1]]
IsLeaf(n) == n.kind = "leaf"

\* bitops_ls64: the number of the lowest bit set.
critbit(n) == Min({b \in 0 .. Width - 1 : Bit(n.prefix_and_critbit, b) = 1})

\* v's bits from n up, with bit n set and the ones below it clear.
prefix_and_critbit(v, n) == (v \div 2^(n + 1)) * 2^(n + 1) + 2^n

\* v & prefix_mask(n): the bits above n.
prefix(v, n) == (v \div 2^(n + 1)) * 2^(n + 1)

RECURSIVE closest(_, _)
closest(n, index) ==
    IF IsLeaf(n) THEN n ELSE closest(n.child[Bit(index, critbit(n))], index)

\* What a lookup finds is a set of at most one element, {} for NULL.
intmap_get_(m, index) ==
    IF m # Empty /\ closest(m, index).i = index THEN {closest(m, index).v} ELSE {}

\* Mutant of split_node: the new leaf always becomes child 1.
split_node_Right(n, nodeindex, index, value) ==
    LET crit == Max({b \in 0 .. Width - 1 : Bit(nodeindex, b) # Bit(index, b)})
    IN  Node(prefix_and_critbit(index, crit), n, Leaf(index, value))

\* A node at the highest bit where the two differ takes the place of n.
split_node(n, nodeindex, index, value) ==
    LET crit == Max({b \in 0 .. Width - 1 : Bit(nodeindex, b) # Bit(index, b)})
        p    == prefix_and_critbit(index, crit)
    IN  IF Bit(index, crit) = 1 THEN Node(p, n, Leaf(index, value))
                                ELSE Node(p, Leaf(index, value), n)

\* The tree after intmap_add_; the same tree when index is there (EEXIST).
RECURSIVE add(_, _, _)
add(n, index, value) ==
    IF IsLeaf(n)
    THEN IF n.i = index THEN n ELSE split_node(n, n.i, index, value)
    ELSE LET crit == critbit(n)
             p    == prefix(n.prefix_and_critbit, crit)
         IN  IF prefix(index, crit) # p
             THEN split_node(n, p, index, value)
             ELSE [n EXCEPT !.child[Bit(index, crit)] = add(@, index, value)]

intmap_add_(m, index, value) ==
    IF m = Empty THEN Leaf(index, value) ELSE add(m, index, value)

\* The parent of the leaf is replaced by the leaf's sibling.
RECURSIVE del(_, _)
del(n, index) ==
    LET d == Bit(index, critbit(n))
    IN  IF IsLeaf(n.child[d])
        THEN IF n.child[d].i = index THEN n.child[1 - d] ELSE n
        ELSE [n EXCEPT !.child[d] = del(@, index)]

\* Mutant of intmap_del_: the leaf that is closest goes, found or not.
intmap_del_Closest(m, index) ==
    IF m = Empty \/ IsLeaf(m) THEN Empty ELSE del(m, closest(m, index).i)

intmap_del_(m, index) ==
    IF m = Empty THEN m
    ELSE IF IsLeaf(m) THEN IF m.i = index THEN Empty ELSE m
    ELSE del(m, index)

\* intmap_first_ (d = 0) and intmap_last_ (d = 1): at most one index.
RECURSIVE extreme(_, _)
extreme(n, d) == IF IsLeaf(n) THEN {n.i} ELSE extreme(n.child[d], d)

intmap_first_(m) == IF m = Empty THEN {} ELSE extreme(m, 0)
intmap_last_(m) == IF m = Empty THEN {} ELSE extreme(m, 1)

\* The loop of intmap_after_ at n; prev is the last node left by child 0.
RECURSIVE after(_, _, _)
after(n, index, prev) ==
    LET greater == IF prev = Empty THEN {} ELSE extreme(prev.child[1], 0)
    IN  IF IsLeaf(n)
        THEN IF n.i >= index THEN {n.i} ELSE greater
        ELSE LET crit == critbit(n)
                 dir  == Bit(index, crit)
                 idx  == (index \div 2^(crit + 1)) * 2 + 1
                 pfx  == n.prefix_and_critbit \div 2^crit
             IN  IF idx < pfx THEN extreme(n, 0)
                 ELSE IF idx > pfx THEN greater
                 ELSE after(n.child[dir], index, IF dir = 0 THEN n ELSE prev)

\* Mutant of intmap_after_: a tree that is all smaller ends the search.
RECURSIVE after_NoBacktrack(_, _)
after_NoBacktrack(n, index) ==
    IF IsLeaf(n)
    THEN IF n.i >= index THEN {n.i} ELSE {}
    ELSE IF (index \div 2^(critbit(n) + 1)) * 2 + 1 < n.prefix_and_critbit \div 2^critbit(n)
         THEN extreme(n, 0)
         ELSE after_NoBacktrack(n.child[Bit(index, critbit(n))], index)
\* Mutant of intmap_after_: the way of after_NoBacktrack.
intmap_after_NoBacktrack(m, i) ==
    LET index == (i + 1) % 2^Width
    IN  IF index = 0 \/ m = Empty THEN {} ELSE after_NoBacktrack(m, index)

intmap_after_(m, i) ==
    LET index == (i + 1) % 2^Width
    IN  IF index = 0 \/ m = Empty THEN {} ELSE after(m, index, Empty)

RECURSIVE before(_, _, _)
before(n, index, prev) ==
    LET lesser == IF prev = Empty THEN {} ELSE extreme(prev.child[0], 1)
    IN  IF IsLeaf(n)
        THEN IF n.i <= index THEN {n.i} ELSE lesser
        ELSE LET crit == critbit(n)
                 dir  == Bit(index, crit)
                 idx  == (index \div 2^(crit + 1)) * 2 + 1
                 pfx  == n.prefix_and_critbit \div 2^crit
             IN  IF idx > pfx THEN extreme(n, 1)
                 ELSE IF idx < pfx THEN lesser
                 ELSE before(n.child[dir], index, IF dir = 1 THEN n ELSE prev)

intmap_before_(m, i) ==
    LET index == (i - 1) % 2^Width
    IN  IF index = 2^Width - 1 \/ m = Empty THEN {} ELSE before(m, index, Empty)

\* The indices handle is called with, stop being those it returns false for.
RECURSIVE iterate(_, _)
iterate(n, stop) ==
    IF IsLeaf(n) THEN <<n.i>>
    ELSE LET left == iterate(n.child[0], stop)
         IN  IF left[Len(left)] \in stop THEN left
             ELSE left \o iterate(n.child[1], stop)

intmap_iterate_(m, stop) == IF m = Empty THEN << >> ELSE iterate(m, stop)

\* Signed indices are offset so that their order is the unsigned one.
Offset == 2^(Width - 1)
SINTMAP_OFF(s) == (s + Offset) % 2^Width
SINTMAP_UNOFF(i) ==
    LET u == (i - Offset) % 2^Width IN IF u >= Offset THEN u - 2^Width ELSE u
sintmap_after_(m, s) ==
    {SINTMAP_UNOFF(i) : i \in intmap_after_(m, SINTMAP_OFF(s))}
sintmap_before_(m, s) ==
    {SINTMAP_UNOFF(i) : i \in intmap_before_(m, SINTMAP_OFF(s))}
-----------------------------------------------------------------------------
\* A call that succeeds changes the tree; EEXIST and ENOENT leave it alone.
Init == map = Empty /\ ret = [op |-> "clear", key |-> {}, ok |-> TRUE]

Add(i, v) ==
    /\ map' = intmap_add_(map, i, v)
    /\ ret' = [op |-> "add", key |-> {i}, ok |-> map' # map]

Del(i) ==
    /\ map' = intmap_del_(map, i)
    /\ ret' = [op |-> "del", key |-> {i}, ok |-> map' # map]

intmap_clear_ == map' = Empty /\ ret' = [op |-> "clear", key |-> {}, ok |-> TRUE]

Next ==
    \/ \E i \in Used, v \in Value : Add(i, v)
    \/ \E i \in Used : Del(i)
    \/ intmap_clear_

Spec == Init /\ [][Next]_<<map, ret>>
-----------------------------------------------------------------------------
RECURSIVE Leaves(_)
Leaves(n) ==
    IF n = Empty THEN {}
    ELSE IF IsLeaf(n) THEN {n} ELSE Leaves(n.child[0]) \cup Leaves(n.child[1])

Indices == {l.i : l \in Leaves(map)}

\* The partial function the leaves hold.
Dict ==
    LET leaves == Leaves(map)
    IN  [i \in {l.i : l \in leaves} |-> (CHOOSE l \in leaves : l.i = i).v]

\* intmap_get_ finds what the tree holds and nothing else, although it
\* compares no prefix on its way down.
GetFindsLeaves ==
    LET dict == Dict
    IN  \A i \in IndexT : intmap_get_(map, i) = {dict[j] : j \in DOMAIN dict \cap {i}}

Least(S) == IF S = {} THEN {} ELSE {Min(S)}
Greatest(S) == IF S = {} THEN {} ELSE {Max(S)}

\* first, last, after and before return the neighbours in the numerical
\* order, at both ends of the index type and for indices not in the map; the
\* signed variants return them in the signed order; and iteration visits the
\* indices in ascending order, each once, up to and with the first for which
\* the handler says stop (ccan/intmap/intmap.c).
TraversalsInOrder ==
    LET all == Indices
        signed == {SINTMAP_UNOFF(i) : i \in all}
    IN  /\ intmap_first_(map) = Least(all)
        /\ intmap_last_(map) = Greatest(all)
        /\ \A i \in IndexT :
              /\ intmap_after_(map, i) = Least({j \in all : j > i})
              /\ intmap_before_(map, i) = Greatest({j \in all : j < i})
        /\ \A s \in -Offset .. Offset - 1 :
              /\ sintmap_after_(map, s) = Least({t \in signed : t > s})
              /\ sintmap_before_(map, s) = Greatest({t \in signed : t < s})
        /\ \A stop \in {{}} \cup {{i} : i \in all} :
              LET seen == intmap_iterate_(map, stop)
              IN  /\ {seen[k] : k \in DOMAIN seen} = {i \in all : \A s \in stop : i <= s}
                  /\ \A j, k \in DOMAIN seen : j < k => seen[j] < seen[k]

Abstract == INSTANCE Dictionary WITH dict <- Dict, Key <- Used

\* The tree implements a partial function: each call adds or deletes the index
\* it names and no other, and says so; adding an index that is there and
\* deleting one that is not change nothing (ccan/intmap/intmap.c).
ImplementsDictionary == Abstract!Spec
=============================================================================

------------------------------- MODULE MCEC -------------------------------
(***************************************************************************)
(* Instances for TLC of the tables: the entity table, the maps of ccan it  *)
(* is built on, and the structures of the channel graph.  They do not      *)
(* touch each other: a behaviour is one of a single component, chosen at   *)
(* the start, and the others keep their initial state.                     *)
(*                                                                         *)
(* EC has three entity numbers (0, 1 and the last u32, 2), two component   *)
(* names and two data, so that rows appear, fill, empty and disappear, and *)
(* the entity counter wraps.                                               *)
(***************************************************************************)
EXTENDS EC, SequencesExt

VARIABLES
    which,                          \* the component of this behaviour
    intmap, intret, strmap, strret,
    ht, bag,
    store, g, mods,
    chans, shorter, riskfactor, dij, heap, heapsize, done

IM == INSTANCE Intmap WITH
    Width <- 3, Used <- {0, 1, 5, 6, 7}, Value <- {"v1", "v2"},
    map <- intmap, ret <- intret

\* Strings that are prefixes of others, that differ in a high and in a low
\* bit, and in a later byte.
SM == INSTANCE Strmap WITH
    ByteBits <- 2, String <- {<<>>, <<1>>, <<3>>, <<1, 1>>, <<1, 3>>, <<2, 1, 2>>},
    Value <- {"v1"}, map <- strmap, ret <- strret

\* Pointers that collide with each other, on the way and in the bit that
\* marks a perfect place.
HT == INSTANCE Htable WITH
    W <- 5, Ptr <- {20, 28, 18, 22}, Hash <- 20 :> 3 @@ 28 :> 7 @@ 18 :> 3 @@ 22 :> 16,
    Expect <- {2}, MaxElems <- 4

GM == INSTANCE Gossmap WITH
    Scid <- {"s1", "s2"}, Node <- {"a", "b", "c"}, Fee <- {"f"}, TooBig <- {"f"},
    Ends <- [s \in {"s1", "s2"} |-> IF s = "s1" THEN <<"a", "b">> ELSE <<"b", "c">>],
    MaxRecs <- 3, MaxMods <- 1

\* Graphs of four nodes: at each of five places a channel of one of three
\* kinds, or none.
Half(s, e, b, d, m) == [set |-> s, enabled |-> e, base |-> b, delay |-> d, max |-> m]
Kinds == {<<Half(TRUE, TRUE, 1, 1, 99), Half(TRUE, TRUE, 3, 0, 99)>>,
          <<Half(TRUE, TRUE, 2, 0, 99), Half(TRUE, TRUE, 0, 2, 99)>>,
          <<Half(FALSE, TRUE, 0, 1, 99), Half(TRUE, TRUE, 1, 1, 11)>>}
Places == <<<<0, 1>>, <<2, 0>>, <<1, 2>>, <<1, 3>>, <<3, 2>>>>
MCGraphs ==
    {FlattenSeq([i \in 1..5 |-> IF c[i] = <<>> THEN <<>> ELSE <<[ends |-> Places[i], half |-> c[i]]>>]) :
        c \in [1..5 -> Kinds \cup {<<>>}]}

DJ == INSTANCE Dijkstra WITH
    Nodes <- 4, Start <- 1, Amount <- 10, MaxMsat <- 99, MaxScore <- 60,
    Graphs <- MCGraphs, Risks <- {0, 1}

-----------------------------------------------------------------------------
mapVars == <<intmap, intret, strmap, strret, ht, bag>>
gossmapVars == <<store, g, mods>>
dijkstraVars == <<chans, shorter, riskfactor, dij, heap, heapsize, done>>
Idle == <<>>

MCInit ==
    /\ which \in {"ec", "intmap", "strmap", "htable", "gossmap", "dijkstra"}
    /\ Init /\ IM!Init /\ SM!Init /\ GM!Init
    /\ IF which = "htable" THEN HT!Init ELSE ht = Idle /\ bag = Idle
    /\ IF which = "dijkstra" THEN DJ!Init
       ELSE /\ chans = Idle /\ shorter = Idle /\ riskfactor = Idle /\ dij = Idle
            /\ heap = Idle /\ heapsize = Idle /\ done = Idle

MCvars == <<vars, mapVars, gossmapVars, dijkstraVars>>

MCNext ==
    /\ UNCHANGED which
    /\ \/ which = "ec" /\ Next /\ UNCHANGED <<mapVars, gossmapVars, dijkstraVars>>
       \/ which # "ec" /\ UNCHANGED MCvars                        \* these may stop
       \/ /\ UNCHANGED <<vars, gossmapVars, dijkstraVars>>
          /\ \/ which = "intmap" /\ IM!Next /\ UNCHANGED <<strmap, strret, ht, bag>>
             \/ which = "strmap" /\ SM!Next /\ UNCHANGED <<intmap, intret, ht, bag>>
             \/ which = "htable" /\ HT!Next /\ UNCHANGED <<intmap, intret, strmap, strret>>
       \/ which = "gossmap" /\ GM!Next /\ UNCHANGED <<vars, mapVars, dijkstraVars>>
       \/ which = "dijkstra" /\ DJ!Next /\ UNCHANGED <<vars, mapVars, gossmapVars>>

MCSpec == MCInit /\ [][MCNext]_<<which, MCvars>>

-----------------------------------------------------------------------------
\* intmap_add_, intmap_del_ and intmap_clear_ implement a partial function.
\* intmap_get_ finds what was added and not deleted, and nothing else, although
\* it compares no prefix on its way down; first, last, after, before, their
\* signed variants and the iteration follow the order of the indices
\* (ccan/intmap/intmap.c).
IntmapIsDictionary ==
    /\ IM!ImplementsDictionary
    /\ [](which = "intmap" => IM!GetFindsLeaves /\ IM!TraversalsInOrder)

\* strmap_add_, strmap_del_ and strmap_clear_ implement a partial function.
\* strmap_get_ finds the members, strmap_iterate_ visits them in the order of
\* strcmp, and strmap_prefix_ returns exactly the members with the prefix
\* (ccan/strmap/strmap.c).
StrmapIsDictionary ==
    /\ SM!ImplementsDictionary
    /\ [](which = "strmap" => SM!OrderedAndFound /\ SM!PrefixExact)

\* A search by hash finds exactly the members, through deleted slots, full
\* tables, doubled and rehashed ones; and it ends, for some slot is empty
\* (ccan/htable/htable.c).
HtableFindsMembers ==
    which = "htable" => HT!FindsExactlyMembers /\ HT!SomeSlotEmpty


=============================================================================

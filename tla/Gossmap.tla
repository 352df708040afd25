------------------------------- MODULE Gossmap -------------------------------
(***************************************************************************)
(* common/gossmap.c: a graph of channels and nodes read from the gossip    *)
(* store that gossipd appends to, refreshed now and then, with local       *)
(* modifications applied on top and taken off again.                       *)
(*                                                                         *)
(* The store is gossipd's (external): a sequence of records of three units *)
(* (a header of one and the message; in the trailer of a compacted file    *)
(* two), some of them marked deleted, the last perhaps not all written.    *)
(* Arrays with free lists, the indexes kept in the nodes, and identities   *)
(* that are read from the first channel's announcement are as in the code; *)
(* the two hash tables are sets of indexes (see Htable).  Offset 0 is      *)
(* "none"; offsets into the local array are negative.                      *)
(***************************************************************************)
EXTENDS Integers, SequencesExt

CONSTANTS
    Scid,       \* short channel ids
    Ends,       \* their two nodes, a function to pairs
    Node,       \* node ids
    Fee,        \* what an update sets
    TooBig,     \* those of Fee that do not fit the bit fields
    MaxRecs,    \* bound: records gossipd writes
    MaxMods     \* bound: channels with local modifications

VARIABLES
    store,      \* gossipd's file and what is live in it
    g,          \* struct gossmap, or what crashed
    mods        \* struct gossmap_localmods

vars == <<store, g, mods>>

Nil == 0
End == 0                            \* UINT_MAX in the free lists
Dir == {1, 2}
NoHalf == [set |-> FALSE, enabled |-> FALSE, fee |-> CHOOSE f \in Fee : TRUE]
NoChan == [off |-> Nil, next |-> End, used |-> FALSE, node |-> <<0, 0>>, half |-> <<NoHalf, NoHalf>>,
           local |-> FALSE, scid |-> CHOOSE s \in Scid : TRUE]
NoNode == [nann |-> Nil, next |-> End, chans |-> << >>]
-----------------------------------------------------------------------------
(* The store.                                                              *)

Rec(type, scid, dir, fee, node) ==
    [type |-> type, scid |-> scid, dir |-> dir, fee |-> fee, node |-> node, del |-> FALSE, to |-> 0]
AnyScid == CHOOSE s \in Scid : TRUE
AnyFee == CHOOSE f \in Fee : TRUE
AnyNode == CHOOSE n \in Node : TRUE
Width(r) == IF r.type = "ended" THEN 2 ELSE 3
\* Offset of the k-th record: the version byte is at offset 0.
OffsetOf(recs, k) == 1 + FoldLeft(LAMBDA n, r : n + Width(r), 0, SubSeq(recs, 1, k - 1))
FileSize(f) == OffsetOf(f.recs, Len(f.recs) + 1) - (IF f.partial THEN 1 ELSE 0)
\* The record that starts at an offset, if any does.
RecAt(f, off) == {k \in DOMAIN f.recs : OffsetOf(f.recs, k) = off}
-----------------------------------------------------------------------------
(* The arrays.                                                             *)

\* Entries from start on, linked in order.
init_arr(arr, start) ==
    [i \in DOMAIN arr |-> IF i < start THEN arr[i]
                          ELSE [arr[i] EXCEPT !.next = IF i = Len(arr) THEN End ELSE i + 1]]

\* The array doubles when the free list is empty.
Grown(arr, free, none) ==
    IF free # End THEN [arr |-> arr, free |-> free]
    ELSE LET n == Len(arr)
             twice == [k \in 1 .. 2 * n |-> IF k <= n THEN arr[k] ELSE none]
         IN  [arr |-> init_arr(twice, n + 1), free |-> n + 1]

next_free_node(m) ==
    LET n == Grown(m.nodes, m.free_node, NoNode)
    IN  [m |-> [m EXCEPT !.nodes = [n.arr EXCEPT ![n.free] = NoNode], !.free_node = n.arr[n.free].next],
         idx |-> n.free]

next_free_chan(m) ==
    LET c == Grown(m.chans, m.free_chan, NoChan)
    IN  [m |-> [m EXCEPT !.chans = c.arr, !.free_chan = c.arr[c.free].next], idx |-> c.free]

\* Which half of the n-th channel of a node is the node's.
gossmap_nth_chan(m, idx, n) ==
    LET c == m.nodes[idx].chans[n]
    IN  [chan |-> c, half |-> IF m.chans[c].node[1] = idx THEN 1 ELSE 2]

\* A node's identity is in the announcement of its first channel.
gossmap_node_get_id(m, idx) ==
    LET c == gossmap_nth_chan(m, idx, 1) IN Ends[m.chans[c.chan].scid][c.half]

gossmap_find_node(m, id) == {i \in m.node_table : gossmap_node_get_id(m, i) = id}
gossmap_find_chan(m, scid) == {i \in m.chan_table : m.chans[i].scid = scid}
The(S) == CHOOSE x \in S : TRUE

\* new_channel, on two indexes; the channel is in the table before the nodes.
new_channel(m, off, scid, local, n1, n2) ==
    LET f == next_free_chan(m)
        c == f.idx
    IN  [f.m EXCEPT !.chans[c] = [NoChan EXCEPT !.off = off, !.used = TRUE, !.node = <<n1, n2>>,
                                                !.local = local, !.scid = scid],
                    !.nodes[n1].chans = Append(@, c), !.nodes[n2].chans = Append(@, c),
                    !.chan_table = @ \cup {c}]

\* Indexes, not pointers: new_node can move the array.
add_channel(m, off, scid, local) ==
    LET old(M, k) == gossmap_find_node(M, Ends[scid][k])
        one == IF old(m, 1) # {} THEN [m |-> m, idx |-> The(old(m, 1))] ELSE next_free_node(m)
        two == IF old(one.m, 2) # {} THEN [m |-> one.m, idx |-> The(old(one.m, 2))]
               ELSE next_free_node(one.m)
    IN  [new_channel(two.m, off, scid, local, one.idx, two.idx)
            EXCEPT !.node_table = @ \cup {one.idx, two.idx}]

\* The hash is computed from the node's first channel, which is still there.
remove_node(m, idx) ==
    [m EXCEPT !.node_table = @ \ {idx}, !.free_node = idx,
              !.nodes[idx] = [NoNode EXCEPT !.next = m.free_node]]


remove_chan_from_node(m, idx, c) ==
    IF Len(m.nodes[idx].chans) = 1 THEN remove_node(m, idx)
    ELSE [m EXCEPT !.nodes[idx].chans = SelectSeq(@, LAMBDA x : x # c)]

gossmap_remove_chan(m, c) ==
    LET out == [m EXCEPT !.chan_table = @ \ {c}]
        r == remove_chan_from_node(remove_chan_from_node(out, m.chans[c].node[1], c), m.chans[c].node[2], c)
    IN  [r EXCEPT !.chans[c] = [NoChan EXCEPT !.next = r.free_chan], !.free_chan = c]
-----------------------------------------------------------------------------
(* Reading the store.                                                      *)

\* A value that does not fit turns the half off.
Half(fee) == [set |-> TRUE, enabled |-> fee \notin TooBig, fee |-> fee]

Crash(m, why) == [m EXCEPT !.crash = why]

update_channel(m, r) ==
    LET c == gossmap_find_chan(m, r.scid)
    IN  IF c = {} THEN Crash(m, "update") ELSE [m EXCEPT !.chans[The(c)].half[r.dir] = Half(r.fee)]

\* Mutant of remove_channel_by_deletemsg: the channel has to be known.
remove_channel_by_deletemsg_Strict(m, r) ==
    LET c == gossmap_find_chan(m, r.scid)
    IN  IF c = {} THEN Crash(m, "delete") ELSE gossmap_remove_chan(m, The(c))

remove_channel_by_deletemsg(m, r) ==
    LET c == gossmap_find_chan(m, r.scid) IN IF c = {} THEN m ELSE gossmap_remove_chan(m, The(c))

node_announcement(m, r, off) ==
    LET n == gossmap_find_node(m, r.node)
    IN  IF n = {} THEN Crash(m, "nann") ELSE [m EXCEPT !.nodes[The(n)].nann = off]

RECURSIVE map_catchup(_, _), Refreshed(_, _)
\* Records from map_end on, to the end or to one that is not all there.  After
\* the trailer of a compacted file it goes on in the new one (reopen_store),
\* and then still steps over the trailer.
map_catchup(m, files) ==
    LET f == files[m.mapped]
        k == RecAt(f, m.end)
        r == f.recs[The(k)]
        Step(M) == map_catchup([M EXCEPT !.end = @ + Width(r)], files)
    IN  IF m.crash # "none" \/ m.end + 1 >= m.size THEN m
        ELSE IF k = {} THEN Crash(m, "garbage")
        ELSE IF r.del THEN Step(m)
        ELSE IF m.end + Width(r) > m.size THEN m
        ELSE CASE r.type = "cann" -> Step(add_channel(m, m.end, r.scid, FALSE))
               [] r.type = "cupdate" -> Step(update_channel(m, r))
               [] r.type = "delete" -> Step(remove_channel_by_deletemsg(m, r))
               [] r.type = "nann" -> Step(node_announcement(m, r, m.end))
               [] r.type = "ended" ->
                    Step(Refreshed([m EXCEPT !.end = r.to, !.file = @ + 1, !.reopened = TRUE], files))

\* gossmap_refresh: nothing to do, and the file not mapped, if the size is the
\* same.
Refreshed(m, files) ==
    LET len == FileSize(files[m.file])
    IN  IF len = m.size THEN m ELSE map_catchup([m EXCEPT !.size = len, !.mapped = m.file], files)

load_gossip_store(files, file) ==
    Refreshed([end |-> 1, size |-> 0, file |-> file, mapped |-> file, crash |-> "none", reopened |-> FALSE,
               nodes |-> init_arr(<<NoNode>>, 1), chans |-> init_arr(<<NoChan>>, 1),
               free_node |-> 1, free_chan |-> 1, node_table |-> {}, chan_table |-> {}], files)
-----------------------------------------------------------------------------
(* Local modifications.                                                    *)

NoMods == [list |-> << >>, applied |-> FALSE]
find_localmod(scid) == {i \in DOMAIN mods.list : mods.list[i].scid = scid}

\* gossmap_apply_localmods for one modification: the channel there is, or a local one.
ApplyOne(s, i) ==
    LET mod == s.list[i]
        c == gossmap_find_chan(s.m, mod.scid)
        m == IF c = {} THEN add_channel(s.m, -i, mod.scid, TRUE) ELSE s.m
        x == The(gossmap_find_chan(m, mod.scid))
    IN  IF c = {} /\ ~mod.local THEN s
        ELSE [m |-> [m EXCEPT !.chans[x].half = [h \in Dir |-> IF mod.set[h] THEN mod.half[h] ELSE @[h]]],
              list |-> [s.list EXCEPT ![i].orig = m.chans[x].half]]

\* Mutant of RemoveOne: the originals are not restored.
RemoveOne_Keeps(m, mod) ==
    LET c == gossmap_find_chan(m, mod.scid)
    IN  IF c = {} THEN Crash(m, "remove")
        ELSE IF m.chans[The(c)].local THEN gossmap_remove_chan(m, The(c)) ELSE m

\* gossmap_remove_localmods for one: it takes the channel to be there.
RemoveOne(m, mod) ==
    LET c == gossmap_find_chan(m, mod.scid)
        x == The(c)
    IN  IF c = {} THEN Crash(m, "remove")
        ELSE IF m.chans[x].local THEN gossmap_remove_chan(m, x)
        ELSE [m EXCEPT !.chans[x].half = [h \in Dir |-> IF mod.set[h] THEN mod.orig[h] ELSE @[h]]]
-----------------------------------------------------------------------------
(* gossipd writes.                                                         *)

EmptyFile == [recs |-> << >>, partial |-> FALSE]

Init ==
    /\ store = [files |-> <<EmptyFile>>, count |-> 0]
    /\ g = load_gossip_store(<<EmptyFile>>, 1)
    /\ mods = NoMods

Cur == store.files[Len(store.files)]
\* The records that count: a compacted file, read from the start, gives the same.
Live(f) == SelectSeq(IF f.partial THEN SubSeq(f.recs, 1, Len(f.recs) - 1) ELSE f.recs,
                     LAMBDA r : ~r.del /\ r.type \notin {"delete", "ended"})
Announced(f) == {Live(f)[k].scid : k \in {j \in DOMAIN Live(f) : Live(f)[j].type = "cann"}}
Write(f) == store' = [store EXCEPT !.files[Len(store.files)] = f, !.count = @ + 1]
CanWrite == ~Cur.partial /\ store.count < MaxRecs
Mark(recs, P(_)) == [k \in DOMAIN recs |-> IF P(recs[k]) THEN [recs[k] EXCEPT !.del = TRUE] ELSE recs[k]]
\* A record is complete at once, or half there for a while.
Put(recs, r) == \E p \in BOOLEAN : Write([recs |-> Append(recs, r), partial |-> p])

Announce(s) ==
    /\ CanWrite /\ s \notin Announced(Cur)
    /\ Put(Cur.recs, Rec("cann", s, 1, AnyFee, AnyNode))
    /\ UNCHANGED <<g, mods>>

\* The update it replaces is marked.
Update(s, d, fee) ==
    /\ CanWrite /\ s \in Announced(Cur)
    /\ Put(Mark(Cur.recs, LAMBDA r : r.type = "cupdate" /\ r.scid = s /\ r.dir = d),
           Rec("cupdate", s, d, fee, AnyNode))
    /\ UNCHANGED <<g, mods>>

NodeAnnounce(n) ==
    /\ CanWrite
    /\ \E s \in Announced(Cur) : n \in {Ends[s][1], Ends[s][2]}
    /\ Put(Mark(Cur.recs, LAMBDA r : r.type = "nann" /\ r.node = n), Rec("nann", AnyScid, 1, AnyFee, n))
    /\ UNCHANGED <<g, mods>>

\* A closed channel: its records are marked, and so are the announcements of its
\* nodes unless a channel before them remains; a node with a later one is
\* announced again.
Delete(s) ==
    /\ CanWrite /\ s \in Announced(Cur)
    /\ LET recs == Cur.recs
           anns(n) == {k \in DOMAIN recs : /\ recs[k].type = "cann" /\ ~recs[k].del /\ recs[k].scid # s
                                           /\ n \in {Ends[recs[k].scid][1], Ends[recs[k].scid][2]}}
           lost == {k \in DOMAIN recs : /\ recs[k].type = "nann" /\ ~recs[k].del
                                        /\ \A j \in anns(recs[k].node) : j > k}
           again == {recs[k].node : k \in {j \in lost : anns(recs[j].node) # {}}}
           marked == [k \in DOMAIN recs |->
                        IF k \in lost \/ (recs[k].type \in {"cann", "cupdate"} /\ recs[k].scid = s)
                        THEN [recs[k] EXCEPT !.del = TRUE] ELSE recs[k]]
       IN  Write([recs |-> Append(marked, Rec("delete", s, 1, AnyFee, AnyNode))
                           \o SetToSeq({Rec("nann", AnyScid, 1, AnyFee, n) : n \in again}),
                  partial |-> FALSE])
    /\ UNCHANGED <<g, mods>>

Complete ==
    /\ Cur.partial
    /\ store' = [store EXCEPT !.files[Len(store.files)].partial = FALSE]
    /\ UNCHANGED <<g, mods>>

\* A new file with the live records; the old one ends with where they end.
Compact ==
    /\ CanWrite /\ Len(store.files) = 1
    /\ LET live == [recs |-> Live(Cur), partial |-> FALSE]
           old == [Cur EXCEPT !.recs = Append(@, [Rec("ended", AnyScid, 1, AnyFee, AnyNode)
                                                     EXCEPT !.to = FileSize(live)])]
       IN  store' = [files |-> <<old, live>>, count |-> store.count + 1]
    /\ UNCHANGED <<g, mods>>
-----------------------------------------------------------------------------
(* The reader.                                                             *)

gossmap_load ==
    /\ ~mods.applied
    /\ g' = load_gossip_store(store.files, Len(store.files))
    /\ UNCHANGED <<store, mods>>

gossmap_refresh ==
    /\ g.crash = "none" /\ ~mods.applied
    /\ g' = Refreshed(g, store.files)
    /\ UNCHANGED <<store, mods>>

gossmap_local_addchan(s) ==
    /\ ~mods.applied /\ find_localmod(s) = {} /\ Len(mods.list) < MaxMods
    /\ mods' = [mods EXCEPT !.list = Append(@, [scid |-> s, local |-> TRUE, set |-> <<FALSE, FALSE>>,
                                                half |-> <<NoHalf, NoHalf>>, orig |-> <<NoHalf, NoHalf>>])]
    /\ UNCHANGED <<store, g>>

gossmap_local_updatechan(s, d, fee) ==
    /\ ~mods.applied
    /\ find_localmod(s) # {} \/ Len(mods.list) < MaxMods
    /\ LET new == [scid |-> s, local |-> FALSE, set |-> <<FALSE, FALSE>>,
                   half |-> <<NoHalf, NoHalf>>, orig |-> <<NoHalf, NoHalf>>]
           list == IF find_localmod(s) # {} THEN mods.list ELSE Append(mods.list, new)
           i == The({k \in DOMAIN list : list[k].scid = s})
       IN  mods' = [mods EXCEPT !.list = [list EXCEPT ![i].set[d] = TRUE, ![i].half[d] = Half(fee)]]
    /\ UNCHANGED <<store, g>>

\* Updates are for channels that the map has: for another one,
\* gossmap_remove_localmods would dereference NULL.
gossmap_apply_localmods ==
    /\ g.crash = "none" /\ ~mods.applied /\ mods.list # << >>
    /\ \A i \in DOMAIN mods.list : mods.list[i].local \/ gossmap_find_chan(g, mods.list[i].scid) # {}
    /\ LET s == FoldLeft(ApplyOne, [m |-> g, list |-> mods.list], [i \in DOMAIN mods.list |-> i])
       IN  g' = s.m /\ mods' = [list |-> s.list, applied |-> TRUE]
    /\ UNCHANGED store

\* The modifications are freed afterwards.
gossmap_remove_localmods ==
    /\ g.crash = "none" /\ mods.applied
    /\ g' = FoldLeft(RemoveOne, g, mods.list)
    /\ mods' = NoMods
    /\ UNCHANGED store

Next ==
    \/ \E s \in Scid : \/ Announce(s) \/ Delete(s) \/ gossmap_local_addchan(s)
                       \/ \E d \in Dir, fee \in Fee : Update(s, d, fee) \/ gossmap_local_updatechan(s, d, fee)
    \/ \E n \in Node : NodeAnnounce(n)
    \/ Complete \/ Compact \/ gossmap_load \/ gossmap_refresh
    \/ gossmap_apply_localmods \/ gossmap_remove_localmods

Spec == Init /\ [][Next]_vars
-----------------------------------------------------------------------------
\* What a user of the map sees: channels with their halves, and announced nodes.
View(m) == [chans |-> {[scid |-> m.chans[i].scid, half |-> m.chans[i].half] : i \in m.chan_table},
            nann |-> {gossmap_node_get_id(m, i) : i \in {n \in m.node_table : m.nodes[n].nann # Nil}}]

StoreView(f) ==
    LET recs == Live(f)
        upd(s, d) == {recs[k].fee : k \in {j \in DOMAIN recs : recs[j].type = "cupdate"
                                                           /\ recs[j].scid = s /\ recs[j].dir = d}}
        half(s, d) == IF upd(s, d) = {} THEN NoHalf ELSE Half(The(upd(s, d)))
    IN  [chans |-> {[scid |-> s, half |-> [d \in Dir |-> half(s, d)]] : s \in Announced(f)},
         nann |-> {recs[k].node : k \in {j \in DOMAIN recs : recs[j].type = "nann"}}]

UpToDate ==
    ~mods.applied /\ g.crash = "none" /\ g.file = Len(store.files) /\ g.size = FileSize(Cur)
    /\ ~Cur.partial

\* A map that is up to date shows exactly what is live in the store, however
\* the reads interleaved with the writes, the deletions and the marks, and
\* with local modifications put on and taken off in between; until it is
\* carried over a compaction (common/gossmap.c:585, gossmap_refresh).
RefreshedIsStore == UpToDate /\ ~g.reopened => View(g) = StoreView(Cur)

\* No record makes the reader fail: an update or a node announcement comes
\* after its channel, and map_end is at the start of a record; again until
\* the map is carried over a compaction (common/gossmap.c:585).
NeverCrashes == ~g.reopened => g.crash = "none"

\* The arrays and the tables agree: every channel is at both its nodes, once;
\* every node in the table has channels and an identity of its own; the free
\* entries are the others.
GraphConsistent ==
    LET m == g
        at(n) == {k \in DOMAIN m.nodes[n].chans : TRUE}
    IN  /\ \A c \in m.chan_table : \A d \in Dir :
              /\ m.chans[c].node[d] \in m.node_table
              /\ Cardinality({k \in at(m.chans[c].node[d]) : m.nodes[m.chans[c].node[d]].chans[k] = c}) = 1
        /\ \A n \in m.node_table : at(n) # {} /\ \A k \in at(n) : m.nodes[n].chans[k] \in m.chan_table
        /\ \A n1, n2 \in m.node_table : gossmap_node_get_id(m, n1) = gossmap_node_get_id(m, n2) => n1 = n2
        /\ m.free_node \notin m.node_table /\ m.free_chan \notin m.chan_table
        /\ \A i \in DOMAIN m.chans : m.chans[i].used <=> i \in m.chan_table
=============================================================================

------------------------------ MODULE Dijkstra ------------------------------
(***************************************************************************)
(* Routes: common/dijkstra.c finds the best paths to a destination, from   *)
(* the destination backwards, with the heap of gheap.h; common/route.c has *)
(* the scores, and makes the hops of a route from what was found.          *)
(*                                                                         *)
(* Nodes are 0 .. Nodes-1, in the order of the gossmap.  A channel is      *)
(* [ends, half]: ends[d] is the node that pays half[d], and half[d] is     *)
(* [set, enabled, base, delay, max].  Fees are base fees.  MaxMsat is the  *)
(* greatest amount, MaxScore the greatest cost in a score (0xFFFFFFFF),    *)
(* and Infinite stands for UINT_MAX and -1ULL.                             *)
(***************************************************************************)
EXTENDS Integers, SequencesExt

CONSTANTS
    Nodes, Start, Amount, MaxMsat, MaxScore,
    Graphs,         \* sequences of channels
    Risks           \* riskfactors

VARIABLES
    chans,          \* the channels
    shorter,        \* route_score_shorter, else route_score_cheaper
    riskfactor,
    dij,            \* node -> [distance, delay, cost, score, best, heapptr]
    heap,           \* cells -> nodes
    heapsize,
    done

vars == <<chans, shorter, riskfactor, dij, heap, heapsize, done>>

Infinite == 1000000
NULL == -1
Node == 0 .. Nodes - 1

\* external/gheap/gheap.h: a maximum heap in an array, here with two children
\* to an item and one page.  An array is a function from 0 .. n-1 to items; key
\* gives their order.  Each operation returns the array it leaves.
Fanout == 2

gheap_get_parent_index(index) == (index - 1) \div Fanout

gheap_get_child_index(index) == index * Fanout + 1

RECURSIVE gheap_sift_up(_, _, _, _, _)
gheap_sift_up(key, base, root, hole, item) ==
    LET parent == gheap_get_parent_index(hole)
    IN  IF hole > root /\ key[base[parent]] < key[item]
        THEN gheap_sift_up(key, [base EXCEPT ![hole] = base[parent]], root, parent, item)
        ELSE [base EXCEPT ![hole] = item]

\* The greatest of count children, the last of them if there are several.
MaxChild(key, base, count, child) ==
    CHOOSE m \in child .. child + count - 1 :
        /\ \A c \in child .. child + count - 1 : key[base[c]] <= key[base[m]]
        /\ \A c \in m + 1 .. child + count - 1 : key[base[c]] < key[base[m]]

\* Moves children up until the hole is at the bottom, then sifts the item up.
RECURSIVE SinkHole(_, _, _, _)
SinkHole(key, base, size, hole) ==
    LET child == gheap_get_child_index(hole)
        last_full == size - ((size - 1) % Fanout)
        full == child < last_full
        m == MaxChild(key, base, IF full THEN Fanout ELSE size - child, child)
        moved == [base EXCEPT ![hole] = base[m]]
    IN  IF full THEN SinkHole(key, moved, size, m)
        ELSE IF child < size THEN [base |-> moved, hole |-> m]
        ELSE [base |-> base, hole |-> hole]

gheap_sift_down(key, base, size, hole, item) ==
    LET s == SinkHole(key, base, size, hole)
    IN  gheap_sift_up(key, s.base, hole, s.hole, item)

gheap_is_heap(key, base, size) ==
    \A u \in 1 .. size - 1 : key[base[u]] <= key[base[gheap_get_parent_index(u)]]

\* The item at index at, outside of the heap, changes places with the greatest.
gheap_swap_max_item(key, base, size, at) ==
    gheap_sift_down(key, [base EXCEPT ![at] = base[0]], size, 0, base[at])

gheap_pop_heap(key, base, size) ==
    IF size <= 1 THEN base ELSE gheap_swap_max_item(key, base, size - 1, size - 1)

gheap_restore_heap_after_item_increase(key, base, size, index) ==
    IF index = 0 THEN base ELSE gheap_sift_up(key, base, 0, index, base[index])

\* {} when it overflows.
amount_msat_add_fee(amount, base) == IF amount + base > MaxMsat THEN {} ELSE {amount + base}

gossmap_chan_capacity(c, dir, amount) == amount <= c.half[dir].max

route_can_carry_even_disabled(c, dir, amount) ==
    c.half[dir].set /\ gossmap_chan_capacity(c, dir, amount)

route_can_carry(c, dir, amount) ==
    c.half[1].enabled /\ c.half[2].enabled /\ route_can_carry_even_disabled(c, dir, amount)

\* riskfactor times the delay, for each unit of the amount.
risk_price(amount, delay) ==
    LET price == amount * riskfactor * delay IN IF price > MaxMsat THEN MaxMsat ELSE price

costs_to_score(cost, risk) ==
    LET costs == (cost + risk) % (MaxMsat + 1) IN IF costs > MaxScore THEN MaxScore ELSE costs

route_score_shorter(distance, cost, risk) ==
    costs_to_score(cost, risk) + distance * (MaxScore + 1)

route_score_cheaper(distance, cost, risk) ==
    costs_to_score(cost, risk) * (MaxScore + 1) + distance

path_score(distance, cost, risk) ==
    IF shorter THEN route_score_shorter(distance, cost, risk)
    ELSE route_score_cheaper(distance, cost, risk)

\* The order of the heap: a minimum heap of scores.
less_comparer(d) == [n \in Node |-> -d[n].score]

\* Mutant of item_mover: an item does not learn its new cell.
item_mover_Silent(d, old, new) == d

\* Every item that was moved learns its new cell.
item_mover(d, old, new) ==
    [n \in Node |->
        LET cells == {c \in DOMAIN new : new[c] = n /\ old[c] # n}
        IN  IF cells = {} THEN d[n] ELSE [d[n] EXCEPT !.heapptr = Min(cells)]]

\* The start is first, the others follow in their order.
HeapAt(n) == IF n = Start THEN 0 ELSE IF n < Start THEN n + 1 ELSE n

mkheap ==
    /\ dij = [n \in Node |->
                [distance |-> IF n = Start THEN 0 ELSE Infinite,
                 cost |-> IF n = Start THEN Amount ELSE Infinite,
                 score |-> IF n = Start THEN 0 ELSE Infinite,
                 delay |-> 0, best |-> 0, heapptr |-> HeapAt(n)]]
    /\ heap = [c \in Node |-> CHOOSE n \in Node : HeapAt(n) = c]
    /\ heapsize = Nodes

Init ==
    /\ chans \in Graphs
    /\ shorter \in BOOLEAN
    /\ riskfactor \in Risks
    /\ mkheap
    /\ done = FALSE

\* The channels of a node, in order, and the half that the neighbour pays.
ChansOf(n) == SelectSeq([k \in DOMAIN chans |-> k], LAMBDA k : n \in {chans[k].ends[1], chans[k].ends[2]})
OtherHalf(c, n) == IF c.ends[1] = n THEN 2 ELSE 1


\* The neighbour pays the fee of its own half.
CostThrough(cost, c, dir) == amount_msat_add_fee(cost, c.half[dir].base)

\* One channel k of the current node: [dij, heap].
Consider(s, cur, k) ==
    LET c == chans[k]
        dir == OtherHalf(c, cur)
        n == c.ends[dir]
        cur_d == s.dij[cur]
        Better(cost) ==
            LET delay == cur_d.delay + c.half[dir].delay
                score == path_score(cur_d.distance + 1, cost, risk_price(cost, delay))
                d == [s.dij EXCEPT ![n] = [@ EXCEPT !.distance = cur_d.distance + 1,
                        !.delay = delay, !.cost = cost, !.best = k, !.score = score]]
                h == gheap_restore_heap_after_item_increase(less_comparer(d), s.heap,
                        heapsize, s.dij[n].heapptr)
            IN  IF score >= s.dij[n].score THEN s ELSE [dij |-> item_mover(d, s.heap, h), heap |-> h]
        costs == CostThrough(cur_d.cost, c, dir)
    IN  IF s.dij[n].heapptr = NULL \/ ~route_can_carry(c, dir, cur_d.cost) \/ costs = {} THEN s
        ELSE Better(CHOOSE x \in costs : TRUE)

\* One round of the loop of dijkstra_: the first of the heap is visited.
dijkstra ==
    LET cur == heap[0]
        s == FoldLeft(LAMBDA a, k : Consider(a, cur, k), [dij |-> dij, heap |-> heap], ChansOf(cur))
        h == gheap_pop_heap(less_comparer(s.dij), s.heap, heapsize)
    IN  /\ ~done
        /\ IF heapsize = 0 \/ dij[cur].distance = Infinite
           THEN done' = TRUE /\ UNCHANGED <<dij, heap, heapsize>>
           ELSE /\ heap' = h
                /\ dij' = [item_mover(s.dij, s.heap, h) EXCEPT ![cur].heapptr = NULL]
                /\ heapsize' = heapsize - 1
                /\ UNCHANGED done
        /\ UNCHANGED <<chans, shorter, riskfactor>>

\* dijkstra_to_hops from node cur: [ok, hops, amount, cltv]; ok is "abort" if
\* a fee does not fit.
RECURSIVE dijkstra_to_hops(_, _)
dijkstra_to_hops(cur, final_cltv) ==
    LET c == chans[dij[cur].best]
        dir == IF c.ends[1] = cur THEN 1 ELSE 2
        r == dijkstra_to_hops(c.ends[3 - dir], final_cltv)
        more == amount_msat_add_fee(r.amount, c.half[dir].base)
        hop == [chan |-> dij[cur].best, dir |-> dir, to |-> c.ends[3 - dir],
                amount |-> r.amount, delay |-> r.cltv]
    IN  CASE dij[cur].distance = 0 -> [ok |-> "yes", hops |-> <<>>, amount |-> Amount, cltv |-> final_cltv]
          [] dij[cur].distance = Infinite -> [ok |-> "no", hops |-> <<>>, amount |-> 0, cltv |-> 0]
          [] OTHER ->
                IF r.ok # "yes" THEN r
                ELSE IF more = {} THEN [r EXCEPT !.ok = "abort"]
                ELSE [ok |-> "yes", hops |-> <<hop>> \o r.hops,
                      amount |-> CHOOSE x \in more : TRUE, cltv |-> r.cltv + c.half[dir].delay]

route_from_dijkstra(src, final_cltv) == dijkstra_to_hops(src, final_cltv)

Next == dijkstra
Spec == Init /\ [][Next]_vars /\ WF_vars(Next)

-----------------------------------------------------------------------------

\* Every node that is not yet visited knows its own cell, and the cells are a
\* heap by score: the score of d changes in place, before the heap is told.
HeapKnowsItsNodes ==
    /\ \A n \in Node : dij[n].heapptr # NULL =>
            dij[n].heapptr < heapsize /\ heap[dij[n].heapptr] = n
    /\ \A c \in 0 .. heapsize - 1 : dij[heap[c]].heapptr = c
    /\ gheap_is_heap(less_comparer(dij), heap, heapsize)

\* A route that is made is a chain of channels from the source to the
\* destination, as long as the distance that was found; each channel can carry
\* the amount of its hop; the amounts and delays are those that were found, and
\* no fee overflows ("Shouldn't happen, since we said it would route").
RoutesCarry ==
    done =>
        \A src \in Node :
            LET r == route_from_dijkstra(src, 9)
                hops == r.hops
                From(k) == chans[hops[k].chan].ends[hops[k].dir]
            IN  /\ r.ok # "abort"
                /\ r.ok = "yes" <=> dij[src].distance # Infinite
                /\ r.ok = "yes" =>
                    /\ Len(hops) = dij[src].distance
                    /\ r.amount = dij[src].cost /\ r.cltv = 9 + dij[src].delay
                    /\ \A k \in DOMAIN hops :
                        /\ From(k) = IF k = 1 THEN src ELSE hops[k - 1].to
                        /\ route_can_carry(chans[hops[k].chan], hops[k].dir, hops[k].amount)
                        /\ k = Len(hops) => hops[k].to = Start /\ hops[k].amount = Amount

\* The best score of a path from node n to the destination, over all paths
\* that visit no node twice.
RECURSIVE Paths(_, _)
Paths(n, seen) ==
    IF n = Start THEN {[distance |-> 0, cost |-> Amount]}
    ELSE UNION {LET c == chans[k]
                    dir == IF c.ends[1] = n THEN 1 ELSE 2
                    next == c.ends[3 - dir]
                IN  IF next \in seen THEN {}
                    ELSE {[distance |-> p.distance + 1, cost |-> p.cost + c.half[dir].base] :
                            p \in {q \in Paths(next, seen \cup {next}) : route_can_carry(c, dir, q.cost)}}
                : k \in {j \in DOMAIN chans : n \in {chans[j].ends[1], chans[j].ends[2]}}}

\* Where capacity and risk do not depend on the path, the score that is found
\* is the best of all paths, and a node is out of reach only if no path leads
\* from it.
BestFound ==
    done /\ riskfactor = 0
    /\ (\A k \in DOMAIN chans : \A d \in {1, 2} : chans[k].half[d].max >= MaxMsat) =>
        \A n \in Node \ {Start} :
            LET scores == {path_score(p.distance, p.cost, 0) : p \in Paths(n, {n})}
            IN  dij[n].score = Min(scores \cup {Infinite})
=============================================================================

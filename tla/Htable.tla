------------------------------- MODULE Htable -------------------------------
(***************************************************************************)
(* ccan/htable: open addressing with linear probing, where a slot keeps a  *)
(* pointer of which the bits common to all members (common_mask) are       *)
(* replaced by bits of its hash and by a "perfect" bit that says the       *)
(* pointer is in its home bucket.                                          *)
(*                                                                         *)
(* Words are numbers below 2^W.  An element may be added more than once.   *)
(* Allocation does not fail.                                               *)
(***************************************************************************)
EXTENDS Integers, SequencesExt, Bitwise

CONSTANTS
    W,          \* bits of uintptr_t, 64 in the program
    Ptr,        \* the pointers added, not 0 and not HTABLE_DELETED
    Hash,       \* the hash of each (a full word)
    Expect,     \* the sizes htable_init_sized is told to expect
    MaxElems    \* bound: elements in the table at a time

VARIABLES
    ht,         \* struct htable
    bag         \* history: how often each pointer is a member

vars == <<ht, bag>>

Inv(x) == 2^W - 1 - x
DELETED == 1
NO_PERFECT_BIT == W - 1
Sets(x, n) == (x \div 2^n) % 2 = 1

Size(h) == 2^h.bits
entry_is_valid(e) == e > DELETED
ht_perfect_mask(h) == (2 * 2^h.perfect_bitnum) % 2^W
get_extra_ptr_bits(h, e) == e & h.common_mask
get_raw_ptr(h, e) == (e & Inv(h.common_mask)) | h.common_bits
make_hval(h, p, bits) == (p & Inv(h.common_mask)) | bits
get_hash_ptr_bits(h, hash) ==
    ((hash ^^ (hash \div 2^h.bits)) & h.common_mask) & Inv(ht_perfect_mask(h))
hash_bucket(h, hash) == hash % Size(h)
ht_max(h) == (3 * Size(h)) \div 4
\* Mutant of ht_max_with_deleted: the table may fill up.
ht_max_with_deleted_Full(h) == Size(h)

ht_max_with_deleted(h) == (9 * Size(h)) \div 10

\* One slot, which is the word common_bits.
htable_init ==
    [bits |-> 0, elems |-> 0, deleted |-> 0, perfect_bitnum |-> 0,
     common_mask |-> 2^W - 1, common_bits |-> 0, table |-> [i \in {0} |-> 0]]

\* An allocated table in which that many elements fit, of 2^30 slots at most.
htable_init_sized(expect) ==
    LET bits == CHOOSE b \in 1 .. 30 : /\ b = 30 \/ (3 * 2^b) \div 4 >= expect
                                       /\ \A c \in 1 .. b - 1 : (3 * 2^c) \div 4 < expect
    IN  [htable_init EXCEPT !.bits = bits, !.table = [i \in 0 .. 2^bits - 1 |-> 0]]

\* The slots from a bucket on, all of them, in probing order.
Probes(h, b) == [k \in 1 .. Size(h) |-> (b + k - 1) % Size(h)]

\* Mutant of Run: a deleted entry ends the run, as an empty one does.
Run_Deleted(h, b) ==
    LET all == Probes(h, b)
        len == SelectInSeq(all, LAMBDA i : h.table[i] \in {0, DELETED})
    IN  IF len = 0 THEN all ELSE SubSeq(all, 1, len - 1)

\* The slots htable_val walks over, up to the first that is empty.
Run(h, b) ==
    LET all == Probes(h, b)
        len == SelectInSeq(all, LAMBDA i : h.table[i] = 0)
    IN  IF len = 0 THEN all ELSE SubSeq(all, 1, len - 1)

\* The slots htable_firstval and htable_nextval stop at: the extra bits agree
\* with the hash, and the perfect bit is set in the first slot only.
htable_val(h, hash) ==
    LET b  == hash_bucket(h, hash)
        h2 == get_hash_ptr_bits(h, hash)
        Matches(i) ==
            /\ h.table[i] # DELETED
            /\ get_extra_ptr_bits(h, h.table[i])
                 = IF i = b THEN h2 | ht_perfect_mask(h) ELSE h2
    IN  SelectSeq(Run(h, b), Matches)

\* htable_first and htable_next: all members in table order.
Iterate(h) ==
    SelectSeq(Probes(h, 0), LAMBDA i : entry_is_valid(h.table[i]))

\* htable_prev from the end: all members from the last slot down.
IterateBack(h) ==
    SelectSeq([k \in 1 .. Size(h) |-> Size(h) - k], LAMBDA i : entry_is_valid(h.table[i]))

\* Mutant of htable_pick: does not go round.
htable_pick_NoWrap(h, seed) ==
    {i \in ToSet(Iterate(h)) : i > seed % Size(h)}

\* The slot of the next member after the slot of the seed, else of the first;
\* {} for NULL.
htable_pick(h, seed) ==
    LET Firsts(S) == {i \in S : \A k \in S : i <= k}
        After(S)  == {i \in S : i > seed % Size(h)}
    IN  UNION {IF After(S) # {} THEN Firsts(After(S)) ELSE Firsts(S) : S \in {ToSet(Iterate(h))}}

\* Into the first slot that holds no member, deleted ones included.
ht_add(h, p, hash) ==
    LET b == hash_bucket(h, hash)
        i == SelectSeq(Probes(h, b), LAMBDA k : ~entry_is_valid(h.table[k]))[1]
        perfect == IF i = b THEN ht_perfect_mask(h) ELSE 0
    IN  [h EXCEPT !.table[i] = make_hval(h, p, get_hash_ptr_bits(h, hash) | perfect)]

\* The members are added again to an empty table of twice the size, with a
\* perfect bit if the mask has a bit above the lowest.
double_table(h) ==
    LET bits    == {i \in 0 .. W - 2 : Sets(h.common_mask, i + 1)}
        perfect == IF h.perfect_bitnum = NO_PERFECT_BIT /\ bits # {}
                   THEN CHOOSE i \in bits : \A j \in bits : i <= j
                   ELSE h.perfect_bitnum
        empty   == [h EXCEPT !.bits = @ + 1, !.perfect_bitnum = perfect, !.deleted = 0,
                             !.table = [i \in 0 .. 2 * Size(h) - 1 |-> 0]]
        Readd(n, i) == LET p == get_raw_ptr(h, h.table[i]) IN ht_add(n, p, Hash[p])
    IN  IF h.bits = 0 THEN empty ELSE FoldLeft(Readd, empty, Iterate(h))

\* In place, from the first empty slot around: deleted entries are emptied and
\* members that are not at home are added again.
rehash_table(h) ==
    LET start == CHOOSE s \in 0 .. Size(h) - 1 :
                     h.table[s] = 0 /\ \A j \in 0 .. s - 1 : h.table[j] # 0
        Move(n, i) ==
            LET e == n.table[i]
                p == get_raw_ptr(n, e)
            IN  IF e = DELETED THEN [n EXCEPT !.table[i] = 0]
                ELSE IF e # 0 /\ (e & ht_perfect_mask(n)) = 0
                THEN ht_add([n EXCEPT !.table[i] = 0], p, Hash[p])
                ELSE n
    IN  FoldLeft(Move, [h EXCEPT !.deleted = 0], Probes(h, start))

\* The first member keeps one bit of its own, the highest set; a later one
\* that differs in bits of the mask has those bits restored in all entries.
update_common(h, p) ==
    LET top   == CHOOSE i \in 0 .. W - 1 :
                     /\ Sets(p, i) \/ i = 0
                     /\ \A j \in i + 1 .. W - 1 : ~Sets(p, j)
        mask  == Inv(2^top)
        maskdiff == h.common_bits ^^ (p & h.common_mask)
        bitsdiff == h.common_bits & maskdiff
    IN  IF h.elems = 0
        THEN [h EXCEPT !.common_mask = mask, !.common_bits = p & mask,
                       !.perfect_bitnum = 0]
        ELSE [h EXCEPT
                !.table = [i \in DOMAIN @ |-> IF entry_is_valid(@[i])
                                              THEN (@[i] & Inv(maskdiff)) | bitsdiff
                                              ELSE @[i]],
                !.common_mask = @ & Inv(maskdiff),
                !.common_bits = @ & Inv(maskdiff),
                !.perfect_bitnum = IF (ht_perfect_mask(h) & maskdiff) # 0
                                   THEN NO_PERFECT_BIT ELSE @]

htable_add_(h, p) ==
    LET grown  == IF h.elems + 1 > ht_max(h) THEN double_table(h) ELSE h
        tidy   == IF grown.elems + 1 + grown.deleted > ht_max_with_deleted(grown)
                  THEN rehash_table(grown) ELSE grown
        common == IF (p & tidy.common_mask) # tidy.common_bits
                  THEN update_common(tidy, p) ELSE tidy
    IN  [ht_add(common, p, Hash[p]) EXCEPT !.elems = @ + 1]

\* The first slot that holds p for its hash; htable_delval_ marks it.
htable_del_(h, p) ==
    LET at == SelectSeq(htable_val(h, Hash[p]), LAMBDA i : get_raw_ptr(h, h.table[i]) = p)
    IN  IF at = << >> THEN h
        ELSE [h EXCEPT !.table[at[1]] = DELETED, !.elems = @ - 1, !.deleted = @ + 1]

\* Every member finds itself by its hash, and they are as many as elems says.
htable_check(h) ==
    LET Raw(i) == get_raw_ptr(h, h.table[i])
    IN  \E all \in {Iterate(h)} :
          /\ \A p \in {Raw(i) : i \in ToSet(all)} :
                p \in {Raw(i) : i \in ToSet(htable_val(h, Hash[p]))}
          /\ Len(all) = h.elems
-----------------------------------------------------------------------------
Init ==
    /\ ht \in {htable_init} \cup {htable_init_sized(n) : n \in Expect}
    /\ bag = [p \in Ptr |-> 0]

Add(p) ==
    /\ ht.elems < MaxElems
    /\ ht' = htable_add_(ht, p)
    /\ bag' = [bag EXCEPT ![p] = @ + 1]

Del(p) ==
    /\ ht' = htable_del_(ht, p)
    /\ bag' = [bag EXCEPT ![p] = IF @ > 0 THEN @ - 1 ELSE 0]

htable_clear ==
    /\ ht' = htable_init
    /\ bag' = [p \in Ptr |-> 0]

Next == htable_clear \/ \E p \in Ptr : Add(p) \/ Del(p)

Spec == Init /\ [][Next]_vars
-----------------------------------------------------------------------------
Times(p, slots) ==
    Len(SelectSeq(slots, LAMBDA i : get_raw_ptr(ht, ht.table[i]) = p))

\* Every lookup ends: a slot is empty, however many deleted entries have
\* piled up.  The loop of htable_val has no other way out.
SomeSlotEmpty == \E i \in DOMAIN ht.table : ht.table[i] = 0

\* Stealing and restoring pointer bits, doubling, rehashing in place and
\* deleting lose no element and invent none: a lookup by hash and an iteration
\* both see exactly what was added and not deleted, forwards and backwards;
\* htable_check never complains; htable_pick finds a member, whatever the seed,
\* unless there is none.
FindsExactlyMembers ==
    /\ \A p \in Ptr : /\ Times(p, htable_val(ht, Hash[p])) = bag[p]
                      /\ Times(p, Iterate(ht)) = bag[p]
    /\ IterateBack(ht) = Reverse(Iterate(ht))
    /\ htable_check(ht)
    /\ \A seed \in 0 .. Size(ht) :
          \/ \E i \in htable_pick(ht, seed) : entry_is_valid(ht.table[i])
          \/ \A p \in Ptr : bag[p] = 0

=============================================================================

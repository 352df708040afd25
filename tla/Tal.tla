--------------------------------- MODULE Tal --------------------------------
(***************************************************************************)
(* Hierarchical allocation (ccan/tal/tal.c, ccan/take/take.c): every       *)
(* object hangs under a parent, and goes with it.                          *)
(*                                                                         *)
(* Memory is a function from addresses to objects; what lies at an address *)
(* moves when it is resized, and a free address is used again.  An object  *)
(* is [id, pc, destroying, dtors]; pc names the children property it is    *)
(* on, by the id of that property's owner (0 for NULL, the root of all),   *)
(* and a children property is [parent, list], both made of addresses.      *)
(* Ids are never used twice: they tell what the program means.             *)
(*                                                                         *)
(* A destructor is [act, on, called]: it frees another object, or steals   *)
(* one away to NULL, if that is still there and not itself on its way out. *)
(***************************************************************************)
EXTENDS Integers, SequencesExt

CONSTANTS Addr, MaxId, MaxDtors

VARIABLES
    heap,       \* address -> set of at most one object
    children,   \* id -> children property
    ids,        \* ids given so far
    takenarr,   \* addresses that were marked with take()
    fault,      \* something freed was touched, or a destructor misused
    doomed      \* after tal_free: the ids below what was freed that nobody stole

vars == <<heap, children, ids, takenarr, fault, doomed>>

Objects(S) == {a \in Addr : S.heap[a] # {}}
Obj(S, a) == CHOOSE o \in S.heap[a] : TRUE
AddrOf(S, id) == {a \in Objects(S) : Obj(S, a).id = id}

\* The state the functions below take and return.
State == [heap |-> heap, children |-> children, takenarr |-> takenarr, fault |-> fault,
          stolen |-> {}]

Set(S, a, o) == [S EXCEPT !.heap[a] = {o}]

RECURSIVE Below(_, _)
Below(S, a) ==
    LET kids == ToSet(S.children[Obj(S, a).id].list)
    IN  {Obj(S, a).id} \cup UNION {Below(S, k) : k \in kids}

taken(S, a) == Contains(S.takenarr, a)
Untake(S, a) == [S EXCEPT !.takenarr = SelectSeq(@, LAMBDA b : b # a)]

\* list_add: at the front.
add_child(S, id, a) ==
    [Set(S, a, [Obj(S, a) EXCEPT !.pc = id]) EXCEPT !.children[id].list = <<a>> \o @]

list_del(S, a) ==
    [S EXCEPT !.children[Obj(S, a).pc].list = SelectSeq(@, LAMBDA b : b # a)]

tal_steal(S, id, a) == add_child(list_del(S, a), id, a)

RECURSIVE del_tree(_, _)
RECURSIVE notify(_, _, _)
RECURSIVE FreeKids(_, _)

tal_free(S, a) ==
    IF S.heap[a] = {} THEN [S EXCEPT !.fault = TRUE]
    ELSE IF Obj(S, a).destroying THEN S
    ELSE del_tree(list_del(S, a), a)

\* What a destructor does.
Run(S, d) ==
    IF AddrOf(S, d.on) = {} THEN S
    ELSE LET b == CHOOSE x \in AddrOf(S, d.on) : TRUE
         IN  IF d.act = "free" THEN tal_free(S, b)
             ELSE IF Obj(S, b).destroying THEN S
             ELSE [tal_steal(S, 0, b) EXCEPT !.stolen = @ \cup Below(S, b)]

\* The k-th destructor and those after it; each is blanked before it runs.
notify(S, a, k) ==
    IF k > Len(Obj(S, a).dtors) THEN S
    ELSE LET d == Obj(S, a).dtors[k]
             blanked == Set(S, a, [Obj(S, a) EXCEPT !.dtors[k].called = TRUE])
             ran == Run(blanked, d)
         IN  IF ran.heap[a] = {} THEN [ran EXCEPT !.fault = TRUE]
             ELSE notify([ran EXCEPT !.fault = @ \/ d.called], a, k + 1)

\* Mutant of FreeKids: those that were on the list at the start.
FreeKids_Snapshot(S, id) == FoldLeft(LAMBDA T, k : tal_free(T, k), S, S.children[id].list)

\* Mutant of FreeKids: the first child only.
FreeKids_First(S, id) ==
    LET list == S.children[id].list
    IN  IF list = <<>> THEN S ELSE del_tree(list_del(S, list[1]), list[1])

\* The first child, until there is none: destructors may take some away.
FreeKids(S, id) ==
    LET list == S.children[id].list
    IN  IF list = <<>> THEN S ELSE FreeKids(del_tree(list_del(S, list[1]), list[1]), id)

del_tree(S, a) ==
    IF Obj(S, a).destroying THEN S
    ELSE LET id == Obj(S, a).id
             marked == Set([Untake(S, a) EXCEPT !.fault = @ \/ taken(S, a)], a,
                           [Obj(S, a) EXCEPT !.destroying = TRUE])
             told == notify(marked, a, 1)
             kids == FreeKids(told, id)
             all == \A k \in DOMAIN Obj(kids, a).dtors : Obj(kids, a).dtors[k].called
         IN  [kids EXCEPT !.heap[a] = {}, !.fault = @ \/ ~all]

\* Mutant of tal_resize: the children still point to where it was.
tal_resize_KeepsParent(S, a, b) ==
    IF a = b THEN S
    ELSE LET o == Obj(S, a)
             moved == [S EXCEPT !.heap[a] = {}, !.heap[b] = {o}]
         IN  [moved EXCEPT !.children[o.pc].list = [k \in DOMAIN @ |-> IF @[k] = a THEN b ELSE @[k]]]

\* Resized, and moved from a to b unless they are the same: its place in the
\* list, its children and its mark of take() go along.
tal_resize(S, a, b) ==
    IF a = b THEN S
    ELSE LET o == Obj(S, a)
             moved == [S EXCEPT !.heap[a] = {}, !.heap[b] = {o}]
             linked == [moved EXCEPT !.children[o.pc].list =
                            [k \in DOMAIN @ |-> IF @[k] = a THEN b ELSE @[k]],
                        !.children[o.id].parent = b]
         IN  IF taken(S, a) THEN [Untake(linked, a) EXCEPT !.takenarr = Append(@, b)] ELSE linked

\* tal_dup of something taken: it is resized and stolen, not copied.
tal_dup(S, id, a, b) == tal_steal(tal_resize(Untake(S, a), a, b), id, b)

\* tal_expand by something taken: that is freed at the end.
tal_expand(S, a, b, src) ==
    LET grown == tal_resize(S, a, b) IN IF taken(grown, src) THEN tal_free(Untake(grown, src), src) ELSE grown

\* tal_first, tal_next and tal_parent; 0 stands for NULL.
tal_first(S, id) == IF S.children[id].list = <<>> THEN 0 ELSE S.children[id].list[1]

\* Mutant of tal_next: the list is that of the object's own children.
tal_next_Down(S, a) == tal_first(S, Obj(S, a).id)

tal_next(S, a) ==
    LET list == S.children[Obj(S, a).pc].list
        k == CHOOSE k \in DOMAIN list : list[k] = a
    IN  IF k = Len(list) THEN 0 ELSE list[k + 1]

tal_parent(S, a) == S.children[Obj(S, a).pc].parent

\* tal_check: an object is on the list that it says, and so are those below.
RECURSIVE check_node(_, _, _)
check_node(S, pc, a) ==
    /\ S.heap[a] # {}
    /\ Obj(S, a).pc = pc
    /\ \A k \in ToSet(S.children[Obj(S, a).id].list) : check_node(S, Obj(S, a).id, k)

-----------------------------------------------------------------------------

Init ==
    /\ heap = [a \in Addr |-> {}]
    /\ children = [i \in 0 .. MaxId |-> [parent |-> 0, list |-> <<>>]]
    /\ ids = 0 /\ takenarr = <<>> /\ fault = FALSE /\ doomed = {}

Become(S) ==
    /\ heap' = S.heap /\ children' = S.children /\ takenarr' = S.takenarr /\ fault' = S.fault

Live == Objects(State)
LiveIds == {Obj(State, a).id : a \in Live}
FreeAddr == Addr \ Live

tal_alloc(id, a) ==
    LET o == [id |-> ids + 1, pc |-> id, destroying |-> FALSE, dtors |-> <<>>]
        S == [State EXCEPT !.heap[a] = {o}, !.children[ids + 1] = [parent |-> a, list |-> <<>>]]
    IN  ids < MaxId /\ ids' = ids + 1 /\ doomed' = {} /\ Become(add_child(S, id, a))

Free(a) ==
    LET S == tal_free(State, a)
    IN  Become(S) /\ doomed' = Below(State, a) \ S.stolen /\ UNCHANGED ids

\* Nobody puts an object under itself.
Steal(id, a) ==
    /\ id \notin Below(State, a)
    /\ Become(tal_steal(State, id, a)) /\ doomed' = {} /\ UNCHANGED ids

Resize(a, b) == Become(tal_resize(State, a, b)) /\ doomed' = {} /\ UNCHANGED ids

\* The newest destructor runs first.
tal_add_destructor(a, act, on) ==
    /\ Len(Obj(State, a).dtors) < MaxDtors
    /\ heap' = [heap EXCEPT ![a] = {[o EXCEPT !.dtors =
                    <<[act |-> act, on |-> on, called |-> FALSE]>> \o @] : o \in heap[a]}]
    /\ doomed' = {} /\ UNCHANGED <<children, ids, takenarr, fault>>

tal_del_destructor(a) ==
    /\ Obj(State, a).dtors # <<>>
    /\ heap' = [heap EXCEPT ![a] = {[o EXCEPT !.dtors = Tail(@)] : o \in heap[a]}]
    /\ doomed' = {} /\ UNCHANGED <<children, ids, takenarr, fault>>

\* tal_dup(ctx, take(a)) and tal_expand(&a, take(src)): the mark is made for
\* the call it is an argument of.
DupTaken(id, a, b) ==
    /\ id \notin Below(State, a)
    /\ Become(tal_dup([State EXCEPT !.takenarr = Append(@, a)], id, a, b))
    /\ doomed' = {} /\ UNCHANGED ids

ExpandTaken(a, b, src) ==
    /\ Obj(State, a).id \notin Below(State, src)
    /\ LET S == tal_expand([State EXCEPT !.takenarr = Append(@, src)], a, b, src)
       IN  Become(S) /\ doomed' = Below(State, src) \ S.stolen
    /\ UNCHANGED ids

Next ==
    \/ \E id \in LiveIds \cup {0}, a \in FreeAddr : tal_alloc(id, a)
    \/ \E a \in Live :
        \/ Free(a)
        \/ \E id \in LiveIds \cup {0} : Steal(id, a)
        \/ \E b \in FreeAddr : Resize(a, b)
        \/ \E act \in {"free", "steal"}, on \in LiveIds : tal_add_destructor(a, act, on)
        \/ tal_del_destructor(a)
        \/ \E id \in LiveIds \cup {0}, b \in FreeAddr \cup {a} : DupTaken(id, a, b)
        \/ \E b \in FreeAddr \cup {a}, src \in Live \ {a} : ExpandTaken(a, b, src)

Spec == Init /\ [][Next]_vars

-----------------------------------------------------------------------------

\* tal_check never complains: all that can be reached from NULL says what list
\* it is on.  Every object is on the list of its parent's children, once; the
\* children know where their parent is now, after any number of moves; nothing
\* is left marked as being destroyed, or as taken.
TreeSound ==
    LET S == State
    IN  /\ takenarr = <<>>
        /\ \A k \in DOMAIN children[0].list : check_node(S, 0, children[0].list[k])
        /\ \A a \in Live :
            LET o == Obj(S, a)
            IN  /\ ~o.destroying
                /\ children[o.id].parent = a
                /\ o.pc = 0 \/ AddrOf(S, o.pc) # {}
                /\ Cardinality({k \in DOMAIN children[o.pc].list : children[o.pc].list[k] = a}) = 1

\* Going from tal_first along tal_next meets every child of an object, and of
\* NULL, and no others, before it ends; tal_parent leads back.
RECURSIVE Walk(_, _, _)
Walk(S, a, fuel) ==
    IF a = 0 \/ fuel = 0 THEN <<>> ELSE <<a>> \o Walk(S, tal_next(S, a), fuel - 1)

WalksMeetChildren ==
    LET S == State
    IN  \A id \in LiveIds \cup {0} :
            LET walk == Walk(S, tal_first(S, id), Cardinality(Addr) + 1)
            IN  /\ ToSet(walk) = {a \in Live : Obj(S, a).pc = id}
                /\ IsInjective(walk)
                /\ \A a \in ToSet(walk) :
                        IF id = 0 THEN tal_parent(S, a) = 0 ELSE {tal_parent(S, a)} = AddrOf(S, id)

\* Whatever destructors free or steal while a tree is freed, also objects of
\* that tree, or the one they belong to, or what lies above it: nothing is freed
\* twice or used after it was freed, and every destructor of what goes runs
\* once.
FreesOnce == ~fault

\* What was freed is gone with all that hung under it, but for what a
\* destructor has stolen in time.
FreesSubtree == doomed \cap LiveIds = {}
=============================================================================

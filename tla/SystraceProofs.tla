--------------------------- MODULE SystraceProofs ---------------------------
(***************************************************************************)
(* The system trace keeps the newest entries, for every limit (100000 in   *)
(* the program) and every sequence of notifications, ill-formed ones       *)
(* included.                                                               *)
(***************************************************************************)
EXTENDS Systrace, SequenceTheorems, TLAPS

\* s is the end of t, element by element.
Suffix(s, t) ==
    /\ Len(s) <= Len(t)
    /\ \A i \in 1 .. Len(s) : s[i] = t[Len(t) - Len(s) + i]

LEMMA SuffixTail ==
    ASSUME NEW S, NEW s \in Seq(S), NEW t \in Seq(S), s # << >>, Suffix(s, t)
    PROVE  Suffix(Tail(s), t)
<1>1. /\ Len(Tail(s)) = Len(s) - 1 /\ Len(s) \in Nat /\ Len(t) \in Nat
      /\ \A i \in 1 .. Len(s) - 1 : Tail(s)[i] = s[i + 1]
  BY HeadTailProperties
<1>2. \A i \in 1 .. Len(s) - 1 : s[i + 1] = t[Len(t) - Len(s) + (i + 1)]
  BY <1>1 DEF Suffix
<1>3. \A i \in 1 .. Len(s) - 1 : Len(t) - (Len(s) - 1) + i = Len(t) - Len(s) + (i + 1)
  BY <1>1
<1> QED
  BY <1>1, <1>2, <1>3 DEF Suffix

LEMMA SuffixAppend ==
    ASSUME NEW S, NEW s \in Seq(S), NEW t \in Seq(S), NEW x \in S, Suffix(s, t)
    PROVE  Suffix(Append(s, x), Append(t, x))
<1>1. /\ Len(s) \in Nat /\ Len(t) \in Nat
      /\ Len(Append(s, x)) = Len(s) + 1 /\ Len(Append(t, x)) = Len(t) + 1
      /\ \A i \in 1 .. Len(s) : Append(s, x)[i] = s[i]
      /\ \A i \in 1 .. Len(t) : Append(t, x)[i] = t[i]
      /\ Append(s, x)[Len(s) + 1] = x /\ Append(t, x)[Len(t) + 1] = x
  BY AppendProperties
<1>2. ASSUME NEW i \in 1 .. Len(s) + 1
      PROVE  Append(s, x)[i] = Append(t, x)[(Len(t) + 1) - (Len(s) + 1) + i]
  <2>1. CASE i = Len(s) + 1
    BY <2>1, <1>1
  <2>2. CASE i \in 1 .. Len(s)
    <3>1. Len(t) - Len(s) + i \in 1 .. Len(t) /\ s[i] = t[Len(t) - Len(s) + i]
      BY <2>2, <1>1 DEF Suffix
    <3>2. (Len(t) + 1) - (Len(s) + 1) + i = Len(t) - Len(s) + i
      BY <2>2, <1>1
    <3> QED
      BY <2>2, <3>1, <3>2, <1>1
  <2>3. i = Len(s) + 1 \/ i \in 1 .. Len(s)
    BY <1>1
  <2> QED
    BY <2>1, <2>2, <2>3
<1>3. Len(s) + 1 <= Len(t) + 1
  BY <1>1 DEF Suffix
<1> DEFINE a == Append(s, x)
           b == Append(t, x)
<1>4. Len(a) = Len(s) + 1 /\ Len(b) = Len(t) + 1
  BY <1>1
<1> HIDE DEF a, b
<1>5. Suffix(a, b)
  BY <1>2, <1>3, <1>4 DEF Suffix, a, b
<1> QED
  BY <1>5 DEF a, b

LEMMA SuffixIsSubSeq ==
    ASSUME NEW S, NEW s \in Seq(S), NEW t \in Seq(S), Suffix(s, t)
    PROVE  s = SubSeq(t, Len(t) - Len(s) + 1, Len(t))
<1> DEFINE m == Len(t) - Len(s) + 1
           u == SubSeq(t, m, Len(t))
<1>1. Len(s) \in Nat /\ Len(t) \in Nat /\ m \in 1 .. Len(t) + 1 /\ Len(t) \in m - 1 .. Len(t)
  BY DEF Suffix
<1>2. /\ u \in Seq(S) /\ Len(u) = Len(s)
      /\ \A i \in 1 .. Len(s) : u[i] = t[m + i - 1]
  BY <1>1, SubSeqProperties
<1>3. \A i \in 1 .. Len(s) : s[i] = t[m + i - 1]
  BY <1>1 DEF Suffix
<1> HIDE DEF u
<1> QED
  BY <1>2, <1>3, SeqEqual DEF u
-----------------------------------------------------------------------------
\* The inductive invariant: the accounting keeps the list from being popped
\* when it is empty, and the list is a suffix of the history.
TraceInv ==
    /\ TypeOK
    /\ Suffix(payecs_systraces, seen)
    /\ OneEntryLost

LEMMA TraceInvariant == Spec => []TraceInv
<1>1. Init => TraceInv
  BY LimitAssumption DEF Init, TraceInv, TypeOK, Suffix, OneEntryLost
<1>2. TraceInv /\ [Next]_vars => TraceInv'
  <2> SUFFICES ASSUME TraceInv, [Next]_vars PROVE TraceInv'
    OBVIOUS
  <2>1. ASSUME NEW p \in Payload, payecs_system_notification(p)
        PROVE  TraceInv'
    <3> DEFINE full == payecs_systraces_remaining = 0
               kept == IF full THEN Tail(payecs_systraces) ELSE payecs_systraces
               free == IF full THEN payecs_systraces_remaining + 1
                       ELSE payecs_systraces_remaining
    <3>1. executed' \in Seq(Payload) /\ seen' \in Seq(Payload)
      BY <2>1 DEF payecs_system_notification, TraceInv, TypeOK
    <3>2. full => payecs_systraces # << >> /\ Len(payecs_systraces) = Limit
      BY LimitAssumption DEF TraceInv, TypeOK
    <3>3. /\ kept \in Seq(Payload) /\ free \in 1 .. Limit
          /\ Len(kept) + free = Limit
          /\ Suffix(kept, seen)
          /\ Len(kept) = Len(seen) \/ Len(kept) >= Limit - 1
      <4>1. CASE full
        <5>1. Tail(payecs_systraces) \in Seq(Payload)
              /\ Len(Tail(payecs_systraces)) = Len(payecs_systraces) - 1
          BY <4>1, <3>2 DEF TraceInv, TypeOK
        <5> QED
          BY <4>1, <5>1, <3>2, SuffixTail, LimitAssumption DEF TraceInv, TypeOK
      <4>2. CASE ~full
        BY <4>2, LimitAssumption DEF TraceInv, TypeOK, OneEntryLost
      <4> QED
        BY <4>1, <4>2
    <3>4. Len(seen) \in Nat /\ Len(kept) \in Nat
      BY <3>3 DEF TraceInv, TypeOK
    <3> HIDE DEF kept, free
    <3>5. CASE p.entity = Missing
      <4>1. UNCHANGED <<payecs_systraces, payecs_systraces_remaining, seen>>
        BY <2>1, <3>5 DEF payecs_system_notification, payecs_systrace_add, WellFormed
      <4> QED
        BY <4>1, <3>1 DEF TraceInv, TypeOK, Suffix, OneEntryLost
    <3>6. CASE p.entity # Missing /\ p.system = Missing
      <4>1. payecs_systraces' = kept /\ payecs_systraces_remaining' = free /\ seen' = seen
        BY <2>1, <3>6 DEF payecs_system_notification, payecs_systrace_add, WellFormed, kept, free
      <4> QED
        BY <4>1, <3>1, <3>3 DEF TraceInv, TypeOK, Suffix, OneEntryLost
    <3>7. CASE p.entity # Missing /\ p.system # Missing
      <4>1. /\ payecs_systraces' = Append(kept, p) /\ seen' = Append(seen, p)
            /\ payecs_systraces_remaining' = (free - 1) % (SizeMax + 1)
        BY <2>1, <3>7 DEF payecs_system_notification, payecs_systrace_add, WellFormed, kept, free
      <4>2. (free - 1) % (SizeMax + 1) = free - 1
        BY <3>3, LimitAssumption
      <4>3. /\ Append(kept, p) \in Seq(Payload)
            /\ Len(Append(kept, p)) = Len(kept) + 1 /\ Len(Append(seen, p)) = Len(seen) + 1
        BY <3>3 DEF TraceInv, TypeOK
      <4>4. Suffix(Append(kept, p), Append(seen, p))
        BY <3>3, SuffixAppend DEF TraceInv, TypeOK
      <4>5. TypeOK'
        BY <3>1, <3>3, <3>4, <4>1, <4>2, <4>3, LimitAssumption DEF TypeOK
      <4>6. Suffix(payecs_systraces, seen)'
        BY <4>1, <4>4 DEF Suffix
      <4>7. OneEntryLost'
        BY <3>3, <3>4, <4>1, <4>3, LimitAssumption DEF OneEntryLost
      <4> QED
        BY <4>5, <4>6, <4>7 DEF TraceInv
    <3> QED
      BY <3>5, <3>6, <3>7
  <2>2. CASE UNCHANGED vars
    BY <2>2 DEF TraceInv, TypeOK, Suffix, OneEntryLost, vars
  <2> QED
    BY <2>1, <2>2 DEF Next
<1> QED
  BY <1>1, <1>2, PTL DEF Spec

\* payecs_systraces_remaining never wraps and always accounts for the length
\* of the list.
THEOREM TraceTypeCorrect == Spec => []TypeOK
<1>1. TraceInv => TypeOK
  BY DEF TraceInv
<1> QED
  BY <1>1, TraceInvariant, PTL

\* doc/PAYECS.md:473-474: the list is exactly the most recent part of the
\* history of notifications.
THEOREM TraceKeepsNewest == Spec => []NewestRetained
<1>1. TraceInv => NewestRetained
  BY SuffixIsSubSeq DEF TraceInv, TypeOK, NewestRetained, Suffix
<1> QED
  BY <1>1, TraceInvariant, PTL

\* payecs_systrace_add loses at most one place to ill-formed notifications.
THEOREM TraceLosesOne == Spec => []OneEntryLost
<1>1. TraceInv => OneEntryLost
  BY DEF TraceInv
<1> QED
  BY <1>1, TraceInvariant, PTL
=============================================================================

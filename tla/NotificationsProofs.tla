------------------------ MODULE NotificationsProofs ------------------------
(***************************************************************************)
(* NoLostNotification and CancelledNotQueued hold for every set of        *)
(* notification functions and every bound on queued invocations.  The    *)
(* inductive invariant IInv adds to them the types, "at most one          *)
(* processNotifications() invocation is queued" (the posted flag is what  *)
(* keeps queueNotification() from posting twice, and processNotifications *)
(* clears it before it empties the list) and "no function is twice in the *)
(* list" (the coalescing check of queueNotification()), which is what     *)
(* lets cancelNotification()'s removeOne() withdraw a request entirely.   *)
(***************************************************************************)
EXTENDS Notifications, SequenceTheorems, WellFoundedInduction, TLAPS

USE FnsAssumption, MaxEventsAssumption

(* cancelNotification() on an empty list leaves it empty: QList::removeOne *)
(* finds nothing to remove.                                                *)
LEMMA RemoveFirstEmpty ==
  ASSUME NEW e
  PROVE  RemoveFirst(<<>>, e) = <<>>
BY DEF RemoveFirst

(* QList::contains is membership in the set of the list's elements.        *)
LEMMA ContainsToSet ==
  ASSUME NEW S, NEW s \in Seq(S), NEW e
  PROVE  Contains(s, e) <=> e \in ToSet(s)
BY DEF Contains, ToSet

(* Min (FiniteSetsExt) of a non-empty set of naturals is its least         *)
(* element: the first index SelectInSeq() returns is a real index.         *)
LEMMA MinIsLeast ==
  ASSUME NEW I \in SUBSET Nat, I # {}
  PROVE  Min(I) \in I /\ \A y \in I : Min(I) <= y
<1> DEFINE R == OpToRel(<, Nat)
<1>1. \E x \in I : \A y \in I : ~(<<y, x>> \in R)
  BY NatLessThanWellFounded, WFMin
<1>2. \A x, y \in I : y < x => <<y, x>> \in R
  BY DEF OpToRel
<1> HIDE DEF R
<1>3. \E x \in I : \A y \in I : x <= y
  <2>1. PICK x \in I : \A y \in I : ~(<<y, x>> \in R)
    BY <1>1
  <2>2. ASSUME NEW y \in I PROVE x <= y
    <3>1. x \in Nat /\ y \in Nat
      OBVIOUS
    <3>2. ~(y < x)
      BY <2>1, <1>2
    <3> QED BY <3>1, <3>2
  <2> QED BY <2>2
<1> QED BY <1>3 DEF Min

(* RemoveAt(s, i), the list without its i-th element: one shorter, the     *)
(* elements before i in place, the ones after it shifted down by one.      *)
LEMMA RemoveAtFacts ==
  ASSUME NEW S, NEW s \in Seq(S), NEW i \in 1..Len(s)
  PROVE  /\ RemoveAt(s, i) \in Seq(S)
         /\ Len(RemoveAt(s, i)) = Len(s) - 1
         /\ \A j \in 1..Len(s) - 1 :
               RemoveAt(s, i)[j] = IF j < i THEN s[j] ELSE s[j + 1]
<1> DEFINE r == RemoveAt(s, i)
<1> DEFINE A == SubSeq(s, 1, i - 1)
           B == SubSeq(s, i + 1, Len(s))
<1>1. A \in Seq(S) /\ Len(A) = i - 1 /\ \A k \in 1..i - 1 : A[k] = s[k]
  BY SubSeqProperties
<1>2. B \in Seq(S) /\ Len(B) = Len(s) - i /\ \A k \in 1..Len(s) - i : B[k] = s[i + k]
  BY SubSeqProperties
<1>3. r = A \o B
  BY DEF RemoveAt
<1> HIDE DEF A, B, r
<1>4. /\ A \o B \in Seq(S)
      /\ Len(A \o B) = Len(A) + Len(B)
      /\ \A k \in 1..Len(A) + Len(B) :
            (A \o B)[k] = IF k <= Len(A) THEN A[k] ELSE B[k - Len(A)]
  BY <1>1, <1>2, ConcatProperties
<1>5. Len(A) + Len(B) = Len(s) - 1
  BY <1>1, <1>2
<1>6. ASSUME NEW j \in 1..Len(s) - 1
      PROVE  r[j] = IF j < i THEN s[j] ELSE s[j + 1]
  <2>1. r[j] = IF j <= Len(A) THEN A[j] ELSE B[j - Len(A)]
    BY <1>3, <1>4, <1>5
  <2>2. CASE j < i
    BY <2>1, <2>2, <1>1
  <2>3. CASE ~(j < i)
    <3>1. j - Len(A) \in 1..Len(s) - i /\ ~(j <= Len(A))
      BY <2>3, <1>1
    <3> QED BY <2>1, <2>3, <3>1, <1>1, <1>2
  <2> QED BY <2>2, <2>3
<1> QED BY <1>3, <1>4, <1>5, <1>6 DEF r

(* QList::removeOne on a list without repeats: the result is again such a  *)
(* list, and holds exactly the other elements, so no copy of e is left.    *)
LEMMA RemoveFirstFacts ==
  ASSUME NEW S, NEW s \in Seq(S), IsInjective(s), NEW e,
         NEW r, r = RemoveFirst(s, e)
  PROVE  /\ r \in Seq(S)
         /\ ToSet(r) = ToSet(s) \ {e}
         /\ IsInjective(r)
<1>1. CASE ~\E k \in 1..Len(s) : s[k] = e
  <2>1. r = s
    BY <1>1 DEF RemoveFirst
  <2>2. e \notin ToSet(s)
    BY <1>1 DEF ToSet
  <2> QED BY <2>1, <2>2
<1>2. CASE \E k \in 1..Len(s) : s[k] = e
  <2> DEFINE I == {k \in 1..Len(s) : s[k] = e}
             first == Min(I)
  <2>1. r = RemoveAt(s, first)
    BY <1>2 DEF RemoveFirst, SelectInSeq
  <2>a. I \in SUBSET Nat /\ I # {}
    BY <1>2
  <2> HIDE DEF I
  <2>b. first \in I
    BY <2>a, MinIsLeast
  <2>2. first \in 1..Len(s) /\ s[first] = e
    BY <2>b DEF I
  <2> HIDE DEF first
  <2>c. /\ RemoveAt(s, first) \in Seq(S)
        /\ Len(RemoveAt(s, first)) = Len(s) - 1
        /\ \A j \in 1..Len(s) - 1 :
              RemoveAt(s, first)[j] = IF j < first THEN s[j] ELSE s[j + 1]
    BY <2>2, RemoveAtFacts
  <2>3. /\ r \in Seq(S)
        /\ Len(r) = Len(s) - 1
        /\ \A j \in 1..Len(s) - 1 : r[j] = IF j < first THEN s[j] ELSE s[j + 1]
    BY <2>1, <2>c
  <2>4. \A k \in 1..Len(s) : s[k] = e => k = first
    BY <2>2 DEF IsInjective
  <2> DEFINE idx(j) == IF j < first THEN j ELSE j + 1
  <2>5. \A j \in 1..Len(s) - 1 : idx(j) \in 1..Len(s) \ {first} /\ r[j] = s[idx(j)]
    BY <2>2, <2>3
  <2>6. \A k \in 1..Len(s) \ {first} : \E j \in 1..Len(s) - 1 : idx(j) = k
    <3> SUFFICES ASSUME NEW k \in 1..Len(s) \ {first}
                 PROVE  \E j \in 1..Len(s) - 1 : idx(j) = k
      OBVIOUS
    <3>1. CASE k < first
      <4>1. k \in 1..Len(s) - 1 /\ idx(k) = k
        BY <3>1, <2>2
      <4> QED BY <4>1
    <3>2. CASE k > first
      <4>1. k - 1 \in 1..Len(s) - 1 /\ idx(k - 1) = k
        BY <3>2, <2>2
      <4> QED BY <4>1
    <3> QED BY <3>1, <3>2, <2>2
  <2>7. ToSet(r) = ToSet(s) \ {e}
    <3>1. DOMAIN r = 1..Len(s) - 1 /\ DOMAIN s = 1..Len(s)
      BY <2>3
    <3>2. ToSet(r) \subseteq ToSet(s) \ {e}
      BY <3>1, <2>4, <2>5 DEF ToSet
    <3>3. ASSUME NEW k \in 1..Len(s), s[k] # e
          PROVE  s[k] \in ToSet(r)
      <4>1. k # first
        BY <3>3, <2>2
      <4>2. PICK j \in 1..Len(s) - 1 : idx(j) = k
        BY <4>1, <2>6
      <4> QED BY <4>2, <3>1, <2>5 DEF ToSet
    <3>4. ToSet(s) \ {e} \subseteq ToSet(r)
      BY <3>1, <3>3 DEF ToSet
    <3> QED BY <3>2, <3>4
  <2>8. IsInjective(r)
    <3>1. \A j1, j2 \in 1..Len(s) - 1 : idx(j1) = idx(j2) => j1 = j2
      BY <2>2
    <3>2. DOMAIN r = 1..Len(s) - 1
      BY <2>3
    <3> QED BY <3>1, <3>2, <2>5 DEF IsInjective
  <2> QED BY <2>3, <2>7, <2>8
<1> QED BY <1>1, <1>2
(* A loop iteration on a non-empty list of functions leaves the rest of   *)
(* the list as the batch and only removes a function from the history.   *)
LEMMA CallFirstType ==
  ASSUME TypeOK, NEW l \in Seq(Fns), l # <<>>, CallFirst(l)
  PROVE  /\ batch' \in Seq(Fns)
         /\ cancelled' \subseteq cancelled
         /\ cancelled' \subseteq Fns
<1>1. Tail(l) \in Seq(Fns)
  BY HeadTailProperties
<1> QED BY <1>1 DEF CallFirst, TypeOK

(* The initial state satisfies the inductive invariant.                    *)
LEMMA InitIInv == Init => IInv
<1> SUFFICES ASSUME Init PROVE IInv
  OBVIOUS
<1>1. TypeOK
  <2>1. <<>> \in Seq(Fns)
    BY EmptySeq
  <2>2. 0 \in 0..MaxEvents
    OBVIOUS
  <2>3. FALSE \in BOOLEAN /\ {} \subseteq Fns
    OBVIOUS
  <2> QED BY <2>1, <2>2, <2>3 DEF Init, TypeOK
<1>2. events = 0 /\ events \in 0..1 /\ events # 1
  BY DEF Init
<1>3. NoLostNotification
  BY <1>2, Zenon DEF Init, NoLostNotification
<1>4. IsInjective(notifications) /\ CancelledNotQueued
  BY DEF Init, IsInjective, CancelledNotQueued
<1>5. QED
  BY <1>1, <1>2, <1>3, <1>4 DEF IInv

(* queueNotification(fn) appends a function the list does not hold: the   *)
(* list stays without repeats, and no other cancelled function enters it.  *)
LEMMA QueueIInv ==
  ASSUME IInv, NEW fn \in Fns, queueNotification(fn)
  PROVE  IInv'
<1> USE DEF IInv
<1>1. fn \notin ToSet(notifications) /\ notifications \in Seq(Fns)
  BY ContainsToSet DEF queueNotification, TypeOK
<1>2. notifications' = Append(notifications, fn)
  BY DEF queueNotification
<1>3. notifications' \in Seq(Fns) /\ notifications' # <<>>
  BY <1>1, <1>2, AppendProperties
<1>4. ToSet(notifications') = ToSet(notifications) \cup {fn}
  BY <1>1, <1>2 DEF ToSet
<1>5. IsInjective(notifications')
  BY <1>1, <1>2 DEF IsInjective, ToSet
<1>6. CancelledNotQueued'
  <2>1. cancelled' = cancelled \ {fn}
    BY DEF queueNotification
  <2>2. \A g \in cancelled : g \notin ToSet(notifications)
    BY <1>1, ContainsToSet DEF CancelledNotQueued, TypeOK
  <2> QED BY <2>1, <2>2, <1>3, <1>4, ContainsToSet DEF CancelledNotQueued
<1>7. posted' /\ events' = 1 /\ events' \in 0..MaxEvents
  <2>1. CASE posted
    BY <2>1 DEF queueNotification, NoLostNotification, TypeOK
  <2>2. CASE ~posted
    BY <2>2 DEF queueNotification, NoLostNotification, TypeOK
  <2> QED BY <2>1, <2>2
<1>8. TypeOK'
  BY <1>3, <1>7 DEF queueNotification, TypeOK
<1> QED
  BY <1>3, <1>5, <1>6, <1>7, <1>8 DEF NoLostNotification

(* cancelNotification(fn) removes the only copy of fn (if any); a request  *)
(* it records as cancelled is gone from the list.                          *)
LEMMA CancelIInv ==
  ASSUME IInv, NEW fn \in Fns, cancelNotification(fn)
  PROVE  IInv'
<1> USE DEF IInv
<1>1. /\ notifications' \in Seq(Fns)
      /\ ToSet(notifications') = ToSet(notifications) \ {fn}
      /\ IsInjective(notifications')
  BY RemoveFirstFacts DEF cancelNotification, TypeOK
<1>2. cancelled' \subseteq cancelled \cup {fn}
  BY DEF cancelNotification
<1>3. CancelledNotQueued'
  <2>1. \A g \in cancelled : g \notin ToSet(notifications)
    BY ContainsToSet DEF CancelledNotQueued, TypeOK
  <2>2. \A g \in cancelled' : g \notin ToSet(notifications')
    BY <1>1, <1>2, <2>1
  <2> QED BY <1>1, <2>2, ContainsToSet DEF CancelledNotQueued
<1>4. NoLostNotification'
  <2>1. CASE notifications = <<>>
    BY <2>1, RemoveFirstEmpty DEF cancelNotification, NoLostNotification
  <2>2. CASE notifications # <<>>
    BY <2>2 DEF cancelNotification, NoLostNotification
  <2> QED BY <2>1, <2>2
<1>5. TypeOK'
  BY <1>1, <1>2 DEF cancelNotification, TypeOK
<1> QED
  BY <1>1, <1>3, <1>4, <1>5 DEF cancelNotification

(* Every step preserves the inductive invariant.                           *)
LEMMA NextIInv == IInv /\ [Next]_vars => IInv'
<1> SUFFICES ASSUME IInv, [Next]_vars PROVE IInv'
  OBVIOUS
<1>1. ASSUME NEW fn \in Fns, queueNotification(fn) PROVE IInv'
  BY <1>1, QueueIInv
<1>2. ASSUME NEW fn \in Fns, cancelNotification(fn) PROVE IInv'
  BY <1>2, CancelIInv
<1>3. CASE cancelAllNotifications
  <2>1. ToSet(notifications) \subseteq Fns /\ ToSet(batch) \subseteq Fns
    BY DEF IInv, TypeOK, ToSet
  <2>2. TypeOK'
    BY <1>3, <2>1 DEF cancelAllNotifications, IInv, TypeOK
  <2>3. CancelledNotQueued' /\ IsInjective(notifications')
    BY <1>3 DEF cancelAllNotifications, CancelledNotQueued, Contains, IsInjective
  <2> QED
    BY <1>3, <2>2, <2>3 DEF cancelAllNotifications, IInv, NoLostNotification
<1>4. CASE processNotifications
  <2>1. events' = 0 /\ events' \in 0..1 /\ events' # 1
    BY <1>4 DEF processNotifications, IInv
  <2>2. posted' = FALSE /\ notifications' = <<>>
    BY <1>4 DEF processNotifications
  <2>3. TypeOK'
    <3>1. <<>> \in Seq(Fns)
      BY EmptySeq
    <3>2. batch' \in Seq(Fns) /\ cancelled' \subseteq Fns /\ posted' \in BOOLEAN
      <4>1. CASE notifications = <<>>
        BY <1>4, <3>1, <4>1 DEF processNotifications, IInv, TypeOK
      <4>2. CASE notifications # <<>>
        <5>1. TypeOK /\ notifications \in Seq(Fns) /\ CallFirst(notifications)
          BY <1>4, <4>2 DEF processNotifications, IInv, TypeOK
        <5>2. batch' \in Seq(Fns) /\ cancelled' \subseteq Fns
          BY <4>2, <5>1, CallFirstType
        <5> QED BY <5>2, <2>2
      <4> QED BY <4>1, <4>2
    <3>3. events' \in 0..MaxEvents
      BY <2>1
    <3> QED BY <2>2, <3>1, <3>2, <3>3 DEF TypeOK
  <2>4. CancelledNotQueued' /\ IsInjective(notifications')
    BY <2>2 DEF CancelledNotQueued, Contains, IsInjective
  <2>5. NoLostNotification'
    BY <2>1, <2>2, Zenon DEF NoLostNotification
  <2> QED
    BY <2>1, <2>3, <2>4, <2>5 DEF IInv
<1>5. CASE runNotification
  <2>0. TypeOK /\ batch \in Seq(Fns) /\ batch # <<>> /\ CallFirst(batch)
    BY <1>5 DEF runNotification, IInv, TypeOK
  <2>1. batch' \in Seq(Fns) /\ cancelled' \subseteq cancelled
    BY <2>0, CallFirstType
  <2> QED
    BY <1>5, <2>1 DEF runNotification, IInv, TypeOK, NoLostNotification,
                      CancelledNotQueued
<1>6. CASE UNCHANGED vars
  BY <1>6 DEF vars, IInv, TypeOK, NoLostNotification, CancelledNotQueued
<1>7. QED
  BY <1>1, <1>2, <1>3, <1>4, <1>5, <1>6 DEF Next

(* Whatever the handlers queue and cancel while a batch runs, a function  *)
(* in the list always has a processNotifications() invocation posted for  *)
(* it, and the posted flag is set exactly when one is queued.              *)
THEOREM NoLostNotificationInvariant == Spec => []NoLostNotification
<1>1. Init => IInv
  BY InitIInv
<1>2. IInv /\ [Next]_vars => IInv'
  BY NextIInv
<1>3. IInv => NoLostNotification
  BY DEF IInv
<1>4. QED
  BY <1>1, <1>2, <1>3, PTL DEF Spec

(* However handlers queue, cancel and re-queue notifications, a function   *)
(* whose request was cancelled (by cancelNotification() or                 *)
(* cancelAllNotifications()) is not reported queued by                     *)
(* isNotificationQueued() until it is queued again.                        *)
THEOREM CancelledNotQueuedInvariant == Spec => []CancelledNotQueued
<1>1. IInv => CancelledNotQueued
  BY DEF IInv
<1> QED
  BY <1>1, InitIInv, NextIInv, PTL DEF Spec

=============================================================================

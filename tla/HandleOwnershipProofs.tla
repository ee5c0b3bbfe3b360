----------------------- MODULE HandleOwnershipProofs -----------------------
EXTENDS HandleOwnership, FiniteSetTheorems, TLAPS

USE KindOfAssumption, PointerHandleAssumption, ResAssumption

LEMMA OwnsIff ==
  ASSUME NEW o \in Obj, NEW k \in Kinds, NEW r \in Res
  PROVE  OwnsObj(o, k, r) <=> o.alive /\ o.h = r /\ o.f = "set"
BY DEF OwnsObj, Valid, Obj, NullChecked, Kinds

(* What a move leaves in the destination t[1] and the source t[2], from   *)
(* the destination d and the source s before it: both in scope and well    *)
(* formed, owning between them what d and s owned, and never the same      *)
(* resource twice.                                                          *)
Moved(d, kd, s, ks, t) ==
  /\ t[1] \in Obj /\ t[2] \in Obj
  /\ t[1].alive /\ t[2].alive
  /\ kd \in NullChecked => t[1].f = "set"
  /\ ks \in NullChecked => t[2].f = "set"
  /\ \A r \in Res : OwnsObj(t[1], kd, r) \/ OwnsObj(t[2], ks, r)
                      <=> OwnsObj(d, kd, r) \/ OwnsObj(s, ks, r)
  /\ \A r \in Res : ~(OwnsObj(t[1], kd, r) /\ OwnsObj(t[2], ks, r))

(* What Take assumes of its operands when a move runs.                      *)
MoveReady(d, kd, s, ks) ==
  /\ d \in Obj /\ s \in Obj /\ kd \in Kinds /\ ks \in Kinds
  /\ Convertible(kd, ks) /\ d.alive /\ s.alive
  /\ kd \in NullChecked => d.f = "set"
  /\ ks \in NullChecked => s.f = "set"
  /\ kd # "fd" => \A r \in Res : ~OwnsObj(d, kd, r)
  /\ \A r \in Res : ~(OwnsObj(d, kd, r) /\ OwnsObj(s, ks, r))

(* One lemma per branch of Take, for the pair the branch returns.           *)
LEMMA SwapMoves ==
  ASSUME NEW d, NEW kd, NEW s, NEW ks, MoveReady(d, kd, s, ks), kd = "fd",
         NEW t, t = <<[d EXCEPT !.h = s.h], [s EXCEPT !.h = d.h]>>
  PROVE  Moved(d, kd, s, ks, t)
<1>1. ks = "fd" /\ d.f = "set" /\ s.f = "set" /\ d \in Obj /\ s \in Obj
  BY DEF MoveReady, Convertible, NullChecked
<1>2. /\ t[1].alive = d.alive /\ t[1].h = s.h /\ t[1].f = d.f
      /\ t[2].alive = s.alive /\ t[2].h = d.h /\ t[2].f = s.f
      /\ t[1] \in Obj /\ t[2] \in Obj
  BY <1>1 DEF Obj
<1>3. \A r \in Res :
        /\ OwnsObj(t[1], kd, r) <=> t[1].alive /\ t[1].h = r /\ t[1].f = "set"
        /\ OwnsObj(t[2], ks, r) <=> t[2].alive /\ t[2].h = r /\ t[2].f = "set"
        /\ OwnsObj(d, kd, r) <=> d.alive /\ d.h = r /\ d.f = "set"
        /\ OwnsObj(s, ks, r) <=> s.alive /\ s.h = r /\ s.f = "set"
  <2>1. kd \in Kinds /\ ks \in Kinds
    BY DEF MoveReady
  <2> QED
    BY <1>1, <1>2, <2>1 DEF OwnsObj, Valid, Obj, NullChecked, Kinds
<1> QED
  BY <1>1, <1>2, <1>3 DEF Moved, MoveReady, NullChecked

LEMMA HandleMoves ==
  ASSUME NEW d, NEW kd, NEW s, NEW ks, MoveReady(d, kd, s, ks),
         kd = ks, kd \in {"static", "functor"},
         NEW t, t = <<[d EXCEPT !.h = s.h, !.f = s.f], [s EXCEPT !.h = Null]>>
  PROVE  Moved(d, kd, s, ks, t)
<1>1. d \in Obj /\ s \in Obj /\ s.f = "set" /\ kd \in Kinds
  BY DEF MoveReady, NullChecked
<1>2. /\ t[1].alive = d.alive /\ t[1].h = s.h /\ t[1].f = s.f
      /\ t[2].alive = s.alive /\ t[2].h = Null /\ t[2].f = s.f
      /\ t[1] \in Obj /\ t[2] \in Obj
  BY <1>1 DEF Obj, Handles
<1>3. \A r \in Res :
        /\ OwnsObj(t[1], kd, r) <=> t[1].alive /\ t[1].h = r /\ t[1].f = "set"
        /\ OwnsObj(t[2], ks, r) <=> t[2].alive /\ t[2].h = r /\ t[2].f = "set"
        /\ OwnsObj(d, kd, r) <=> d.alive /\ d.h = r /\ d.f = "set"
        /\ OwnsObj(s, ks, r) <=> s.alive /\ s.h = r /\ s.f = "set"
  <2>1. kd \in Kinds /\ ks \in Kinds
    BY DEF MoveReady
  <2> QED
    BY <1>1, <1>2, <2>1 DEF OwnsObj, Valid, Obj, NullChecked, Kinds
<1>4. \A r \in Res : ~OwnsObj(t[2], ks, r) /\ ~OwnsObj(d, kd, r)
  BY <1>2, <1>3 DEF MoveReady
<1>5. \A r \in Res : OwnsObj(t[1], kd, r) <=> OwnsObj(s, ks, r)
  BY <1>1, <1>2, <1>3 DEF MoveReady
<1>6. (kd \in NullChecked => t[1].f = "set") /\ (ks \in NullChecked => t[2].f = "set")
  BY <1>1, <1>2
<1> QED
  BY <1>2, <1>4, <1>5, <1>6 DEF Moved, MoveReady

LEMMA FreeFnMoves ==
  ASSUME NEW d, NEW kd, NEW s, NEW ks, MoveReady(d, kd, s, ks),
         kd \in {"fnptr", "function"}, ks \in {"fnptr", "function"},
         NEW t, t = <<[d EXCEPT !.h = s.h, !.f = s.f], [s EXCEPT !.f = "none"]>>
  PROVE  Moved(d, kd, s, ks, t)
<1>1. d \in Obj /\ s \in Obj /\ kd \in Kinds /\ ks \in Kinds
  BY DEF MoveReady
<1>2. /\ t[1].alive = d.alive /\ t[1].h = s.h /\ t[1].f = s.f
      /\ t[2].alive = s.alive /\ t[2].h = s.h /\ t[2].f = "none"
      /\ t[1] \in Obj /\ t[2] \in Obj
  BY <1>1 DEF Obj, FreeFns
<1>3. \A r \in Res :
        /\ OwnsObj(t[1], kd, r) <=> t[1].alive /\ t[1].h = r /\ t[1].f = "set"
        /\ OwnsObj(t[2], ks, r) <=> t[2].alive /\ t[2].h = r /\ t[2].f = "set"
        /\ OwnsObj(d, kd, r) <=> d.alive /\ d.h = r /\ d.f = "set"
        /\ OwnsObj(s, ks, r) <=> s.alive /\ s.h = r /\ s.f = "set"
  <2>1. kd \in Kinds /\ ks \in Kinds
    BY DEF MoveReady
  <2> QED
    BY <1>1, <1>2, <2>1 DEF OwnsObj, Valid, Obj, NullChecked, Kinds
<1> QED
  BY <1>1, <1>2, <1>3 DEF Moved, MoveReady, NullChecked

LEMMA WrapMoves ==
  ASSUME NEW d, NEW kd, NEW s, NEW ks, MoveReady(d, kd, s, ks),
         kd = "function", ks \in {"static", "functor"}, s.h # Null,
         NEW t, t = <<[d EXCEPT !.h = s.h, !.f = "set"], [s EXCEPT !.h = Null]>>
  PROVE  Moved(d, kd, s, ks, t)
<1>1. d \in Obj /\ s \in Obj /\ s.f = "set" /\ kd \in Kinds /\ ks \in Kinds
  BY DEF MoveReady, NullChecked
<1>2. /\ t[1].alive = d.alive /\ t[1].h = s.h /\ t[1].f = "set"
      /\ t[2].alive = s.alive /\ t[2].h = Null /\ t[2].f = s.f
      /\ t[1] \in Obj /\ t[2] \in Obj
  BY <1>1 DEF Obj, Handles, FreeFns
<1>3. \A r \in Res :
        /\ OwnsObj(t[1], kd, r) <=> t[1].alive /\ t[1].h = r /\ t[1].f = "set"
        /\ OwnsObj(t[2], ks, r) <=> t[2].alive /\ t[2].h = r /\ t[2].f = "set"
        /\ OwnsObj(d, kd, r) <=> d.alive /\ d.h = r /\ d.f = "set"
        /\ OwnsObj(s, ks, r) <=> s.alive /\ s.h = r /\ s.f = "set"
  <2>1. kd \in Kinds /\ ks \in Kinds
    BY DEF MoveReady
  <2> QED
    BY <1>1, <1>2, <2>1 DEF OwnsObj, Valid, Obj, NullChecked, Kinds
<1>4. \A r \in Res : ~OwnsObj(t[2], ks, r) /\ ~OwnsObj(d, kd, r)
  BY <1>2, <1>3 DEF MoveReady
<1>5. \A r \in Res : OwnsObj(t[1], kd, r) <=> OwnsObj(s, ks, r)
  BY <1>1, <1>2, <1>3 DEF MoveReady
<1>6. (kd \in NullChecked => t[1].f = "set") /\ (ks \in NullChecked => t[2].f = "set")
  BY <1>1, <1>2
<1> QED
  BY <1>2, <1>4, <1>5, <1>6 DEF Moved, MoveReady

LEMMA NothingMoves ==
  ASSUME NEW d, NEW kd, NEW s, NEW ks, MoveReady(d, kd, s, ks), NEW t, t = <<d, s>>
  PROVE  Moved(d, kd, s, ks, t)
BY DEF Moved, MoveReady

(* A move of s into d, of any pair of convertible kinds, is such a move.    *)
LEMMA TakeMoves ==
  ASSUME NEW d, NEW kd, NEW s, NEW ks, MoveReady(d, kd, s, ks)
  PROVE  Moved(d, kd, s, ks, Take(d, kd, s, ks))
<1>1. CASE kd = "fd"
  <2>1. Take(d, kd, s, ks) = <<[d EXCEPT !.h = s.h], [s EXCEPT !.h = d.h]>>
    BY <1>1 DEF Take, FdSwap
  <2> QED
    BY <1>1, <2>1, SwapMoves, Zenon
<1>2. CASE kd = ks /\ kd \in {"static", "functor"}
  <2>1. Take(d, kd, s, ks) = <<[d EXCEPT !.h = s.h, !.f = s.f], [s EXCEPT !.h = Null]>>
    BY <1>2, Zenon DEF Take
  <2> QED
    BY <1>2, <2>1, HandleMoves, Zenon
<1>3. CASE kd = ks /\ kd \in {"fnptr", "function"}
  <2>1. Take(d, kd, s, ks) = <<[d EXCEPT !.h = s.h, !.f = s.f], [s EXCEPT !.f = "none"]>>
    BY <1>3, Zenon DEF Take
  <2> QED
    BY <1>3, <2>1, FreeFnMoves, Zenon
<1>4. CASE kd = "function" /\ ks \in {"static", "functor"} /\ s.h # Null
  <2>1. Take(d, kd, s, ks) = <<[d EXCEPT !.h = s.h, !.f = "set"], [s EXCEPT !.h = Null]>>
    BY <1>4, Zenon DEF Take
  <2> QED
    BY <1>4, <2>1, WrapMoves, Zenon
<1>5. CASE kd = "function" /\ ks = "fnptr" /\ s.f # "none"
  <2>1. Take(d, kd, s, ks) = <<[d EXCEPT !.h = s.h, !.f = s.f], [s EXCEPT !.f = "none"]>>
    BY <1>5, Zenon DEF Take
  <2> QED
    BY <1>5, <2>1, FreeFnMoves, Zenon
<1>6. CASE \/ kd = "function" /\ ks \in {"static", "functor"} /\ s.h = Null
           \/ kd = "function" /\ ks = "fnptr" /\ s.f = "none"
  <2>1. Take(d, kd, s, ks) = <<d, s>>
    BY <1>6, Zenon DEF Take
  <2> QED
    BY <2>1, NothingMoves, Zenon
<1>7. QED
  <2>1. kd \in Kinds /\ ks \in Kinds /\ Convertible(kd, ks)
    BY DEF MoveReady
  <2> QED
    BY <2>1, <1>1, <1>2, <1>3, <1>4, <1>5, <1>6 DEF Convertible, Kinds

(* A move of a wrapper into itself leaves its members as they were.         *)
LEMMA KeepFields ==
  ASSUME NEW d \in Obj, NEW t,
         \/ t[1] = [d EXCEPT !.h = d.h]
         \/ t[1] = [d EXCEPT !.h = d.h, !.f = d.f]
  PROVE  t[1] \in Obj /\ t[1].alive = d.alive /\ t[1].h = d.h /\ t[1].f = d.f
BY DEF Obj

LEMMA SelfTake ==
  ASSUME NEW d \in Obj, NEW k \in Kinds, NEW t, t = Take(d, k, d, k)
  PROVE  t[1] \in Obj /\ t[1].alive = d.alive /\ t[1].h = d.h /\ t[1].f = d.f
<1>1. CASE k = "fd"
  <2>1. t = <<[d EXCEPT !.h = d.h], [d EXCEPT !.h = d.h]>>
    BY <1>1 DEF Take, FdSwap
  <2>2. t[1] = [d EXCEPT !.h = d.h] \/ t[1] = [d EXCEPT !.h = d.h, !.f = d.f]
    BY <2>1
  <2> QED
    BY <2>2, KeepFields
<1>2. CASE k \in {"static", "functor"}
  <2>1. t = <<[d EXCEPT !.h = d.h, !.f = d.f], [d EXCEPT !.h = Null]>>
    BY <1>2, Zenon DEF Take
  <2>2. t[1] = [d EXCEPT !.h = d.h] \/ t[1] = [d EXCEPT !.h = d.h, !.f = d.f]
    BY <2>1
  <2> QED
    BY <2>2, KeepFields
<1>3. CASE k \in {"fnptr", "function"}
  <2>1. t = <<[d EXCEPT !.h = d.h, !.f = d.f], [d EXCEPT !.f = "none"]>>
    BY <1>3, Zenon DEF Take
  <2>2. t[1] = [d EXCEPT !.h = d.h] \/ t[1] = [d EXCEPT !.h = d.h, !.f = d.f]
    BY <2>1
  <2> QED
    BY <2>2, KeepFields
<1>4. QED
  BY <1>1, <1>2, <1>3 DEF Kinds

(* The free function a valid wrapper calls releases exactly the resource   *)
(* it owns: FreedBy counts one call for it, and detach() hands back it.    *)
LEMMA ReleasedOwned ==
  ASSUME NEW o \in Obj, NEW k \in Kinds, o.alive
  PROVE  /\ Released(o) \subseteq Res
         /\ \A r \in Res : r \in Released(o) <=> OwnsObj(o, k, r)
BY DEF Released, OwnsObj, Valid, Obj, NullChecked

LEMMA FreedByOwned ==
  ASSUME NEW o \in Obj, NEW k \in Kinds, o.alive, freed \in [Res -> 0..FreeCap]
  PROVE  /\ FreedBy(o, k) \in [Res -> 0..FreeCap]
         /\ \A r \in Res :
              FreedBy(o, k)[r] = IF OwnsObj(o, k, r) /\ freed[r] < FreeCap
                                   THEN freed[r] + 1 ELSE freed[r]
<1>1. \A r \in Res : r \in Released(o) <=> OwnsObj(o, k, r)
  BY ReleasedOwned
<1>2. CASE Valid(o, k)
  BY <1>1, <1>2 DEF FreedBy, Bump, FreeCap
<1>3. CASE ~Valid(o, k)
  <2>1. \A r \in Res : ~OwnsObj(o, k, r)
    BY <1>3 DEF OwnsObj
  <2> QED
    BY <1>3, <2>1 DEF FreedBy
<1> QED
  BY <1>2, <1>3

(* Members that own nothing: a wrapper out of scope, a cleared one, and a  *)
(* default-constructed one.                                                *)
LEMMA DeadOwnsNothing ==
  ASSUME NEW k \in Kinds, NEW r \in Res
  PROVE  Dead \in Obj /\ ~OwnsObj(Dead, k, r)
BY DEF Dead, Obj, OwnsObj, Handles, FreeFns

LEMMA ClearedOwnsNothing ==
  ASSUME NEW o \in Obj, NEW k \in Kinds
  PROVE  /\ Cleared(o, k) \in Obj
         /\ Cleared(o, k).alive = o.alive
         /\ Cleared(o, k).f = IF k \in NullChecked THEN o.f ELSE "none"
         /\ \A r \in Res : ~OwnsObj(Cleared(o, k), k, r)
<1>1. CASE k \in NullChecked
  <2>1. Cleared(o, k) = [o EXCEPT !.h = Null]
    BY <1>1 DEF Cleared
  <2>2. Cleared(o, k) \in Obj /\ Cleared(o, k).alive = o.alive
        /\ Cleared(o, k).f = o.f /\ Cleared(o, k).h = Null
    BY <2>1 DEF Obj, Handles
  <2> QED
    BY <1>1, <2>2 DEF OwnsObj, Valid
<1>2. CASE k \notin NullChecked
  <2>1. Cleared(o, k) = [o EXCEPT !.f = "none"]
    BY <1>2 DEF Cleared
  <2>2. Cleared(o, k) \in Obj /\ Cleared(o, k).alive = o.alive
        /\ Cleared(o, k).f = "none"
    BY <2>1 DEF Obj, FreeFns
  <2> QED
    BY <1>2, <2>2 DEF OwnsObj, Valid
<1> QED
  BY <1>1, <1>2

LEMMA DefaultOwnsNothing ==
  ASSUME NEW k \in Kinds, NEW o \in DefaultObjs(k)
  PROVE  /\ o \in Obj /\ o.alive
         /\ k \in NullChecked => o.f = "set"
         /\ \A r \in Res : ~OwnsObj(o, k, r)
<1>1. o.alive /\ o.h \in {Null, Garbage} /\ o.f \in FreeFns
      /\ (k \in NullChecked => o.f = "set")
      /\ o = [alive |-> o.alive, h |-> o.h, f |-> o.f]
  BY DEF DefaultObjs, DefaultHandles, Kinds, NullChecked, FreeFns
<1>2. o \in Obj
  BY <1>1 DEF Obj, Handles
<1> QED
  BY <1>1, <1>2 DEF OwnsObj

(* A resource a wrapper owns was handed out, is neither freed nor          *)
(* detached, and has no other owner.                                        *)
LEMMA OwnedFresh ==
  ASSUME IInv, NEW w \in Slots, NEW r \in Res, Owns(w, r)
  PROVE  /\ r \in acquired /\ freed[r] = 0 /\ r \notin detached
         /\ \A v \in Slots : Owns(v, r) => v = w
<1>1. HasOwner(r)
  BY DEF HasOwner
<1>2. r \in acquired
  BY <1>1 DEF IInv
<1>3. OneFate(r)
  BY <1>2 DEF IInv
<1> QED
  BY <1>1, <1>2, <1>3 DEF OneFate, IInv

(* A step that replaces the members of one wrapper w by o, which owns the  *)
(* fresh resources N and, when mode is "keep", what w owned; what w owned  *)
(* otherwise is freed ("free") or handed back ("detach").                  *)
LEMMA OneSlotStep ==
  ASSUME IInv, NEW w \in Slots, NEW o \in Obj,
         NEW N \in SUBSET (Res \ acquired), NEW mode \in {"free", "detach", "keep"},
         obj' \in [Slots -> Obj], obj'[w] = o,
         \A v \in Slots \ {w} : obj'[v] = obj[v],
         ~o.alive => o = Dead,
         o.alive /\ KindOf[w] \in NullChecked => o.f = "set",
         \A r \in Res : OwnsObj(o, KindOf[w], r) <=> r \in N \/ (mode = "keep" /\ Owns(w, r)),
         acquired' = acquired \cup N,
         freed' \in [Res -> 0..FreeCap],
         \A r \in Res : freed'[r] = IF mode = "free" /\ Owns(w, r) THEN 1 ELSE freed[r],
         detached' = IF mode = "detach" THEN detached \cup {r \in Res : Owns(w, r)}
                                        ELSE detached,
         ub' \in BOOLEAN
  PROVE  IInv'
<1> DEFINE k == KindOf[w]
<1>1. \A v \in Slots, r \in Res : Owns(v, r)' <=> IF v = w THEN OwnsObj(o, k, r) ELSE Owns(v, r)
  BY DEF Owns
<1>2. TypeOK'
  BY DEF IInv, TypeOK
<1>3. MembersOK'
  BY DEF IInv, MembersOK
<1>4. ASSUME NEW r \in Res \ acquired'
      PROVE  freed'[r] = 0 /\ r \notin detached' /\ ~HasOwner(r)'
  <2>1. r \notin acquired /\ r \notin N
    OBVIOUS
  <2>2. freed[r] = 0 /\ r \notin detached /\ \A v \in Slots : ~Owns(v, r)
    BY <2>1 DEF IInv, HasOwner
  <2>3. ~OwnsObj(o, k, r)
    BY <2>1, <2>2
  <2> QED
    BY <1>1, <2>2, <2>3 DEF HasOwner
<1>5. ASSUME NEW r \in acquired' PROVE OneFate(r)'
  <2>0. r \in Res
    BY DEF IInv, TypeOK
  <2>1. CASE r \in N
    <3>1. r \notin acquired
      BY <2>1, Zenon
    <3>2. freed[r] = 0 /\ r \notin detached /\ \A v \in Slots : ~Owns(v, r)
      BY <3>1, <2>0 DEF IInv, HasOwner
    <3>3. HasOwner(r)'
      BY <1>1, <2>1 DEF HasOwner
    <3>4. freed'[r] = 0 /\ r \notin detached'
      BY <2>0, <3>2
    <3> QED
      BY <3>3, <3>4 DEF OneFate
  <2>2. CASE r \notin N /\ Owns(w, r)
    <3>1. r \in acquired /\ freed[r] = 0 /\ r \notin detached
          /\ \A v \in Slots : Owns(v, r) => v = w
      BY <2>0, <2>2, OwnedFresh
    <3>2. \A v \in Slots \ {w} : ~Owns(v, r)'
      BY <2>0, <3>1, <1>1
    <3>3. CASE mode = "keep"
      <4>1. HasOwner(r)'
        BY <2>0, <1>1, <2>2, <3>3 DEF HasOwner
      <4>2. freed'[r] = 0 /\ r \notin detached'
        BY <2>0, <3>1, <3>3
      <4> QED
        BY <4>1, <4>2 DEF OneFate
    <3>4. CASE mode = "free"
      <4>1. ~HasOwner(r)'
        BY <2>0, <1>1, <2>2, <3>2, <3>4 DEF HasOwner
      <4>2. freed'[r] = 1 /\ r \notin detached'
        BY <2>0, <2>2, <3>1, <3>4
      <4> QED
        BY <4>1, <4>2 DEF OneFate
    <3>5. CASE mode = "detach"
      <4>1. ~HasOwner(r)'
        BY <2>0, <1>1, <2>2, <3>2, <3>5 DEF HasOwner
      <4>2. freed'[r] = 0 /\ r \in detached'
        BY <2>0, <2>2, <3>1, <3>5
      <4> QED
        BY <4>1, <4>2 DEF OneFate
    <3> QED
      BY <3>3, <3>4, <3>5
  <2>3. CASE r \notin N /\ ~Owns(w, r)
    <3>1. r \in acquired
      BY <2>3
    <3>2. freed'[r] = freed[r] /\ (r \in detached' <=> r \in detached)
      BY <2>0, <2>3
    <3>3. HasOwner(r)' <=> HasOwner(r)
      BY <2>0, <1>1, <2>3 DEF HasOwner
    <3>4. OneFate(r)
      BY <3>1 DEF IInv
    <3> QED
      BY <3>2, <3>3, <3>4 DEF OneFate
  <2> QED
    BY <2>1, <2>2, <2>3
<1>6. ASSUME NEW r \in Res, NEW w1 \in Slots, NEW w2 \in Slots,
             Owns(w1, r)', Owns(w2, r)'
      PROVE  w1 = w2
  <2>1. ASSUME NEW v \in Slots, Owns(v, r)'
        PROVE  Owns(v, r) \/ (v = w /\ r \in N)
    BY <1>1, <2>1
  <2>2. r \in N => \A v \in Slots : ~Owns(v, r)
    BY DEF IInv, HasOwner
  <2> QED
    BY <2>1, <2>2, <1>6 DEF IInv
<1> QED
  BY <1>2, <1>3, <1>4, <1>5, <1>6 DEF IInv

(* A move between two distinct wrappers: dst and src get members a and b,  *)
(* which between them own what src owned and, unless dst's own resource was *)
(* freed first (freeDst), what dst owned.                                  *)
LEMMA TwoSlotStep ==
  ASSUME IInv, NEW dst \in Slots, NEW src \in Slots, dst # src,
         NEW a \in Obj, NEW b \in Obj, NEW freeDst \in BOOLEAN,
         obj' \in [Slots -> Obj], obj'[dst] = a, obj'[src] = b,
         \A v \in Slots \ {dst, src} : obj'[v] = obj[v],
         a.alive, b.alive,
         KindOf[dst] \in NullChecked => a.f = "set",
         KindOf[src] \in NullChecked => b.f = "set",
         \A r \in Res : OwnsObj(a, KindOf[dst], r) \/ OwnsObj(b, KindOf[src], r)
                          <=> Owns(src, r) \/ (~freeDst /\ Owns(dst, r)),
         \A r \in Res : ~(OwnsObj(a, KindOf[dst], r) /\ OwnsObj(b, KindOf[src], r)),
         acquired' = acquired, detached' = detached,
         freed' \in [Res -> 0..FreeCap],
         \A r \in Res : freed'[r] = IF freeDst /\ Owns(dst, r) THEN 1 ELSE freed[r],
         ub' \in BOOLEAN
  PROVE  IInv'
<1> DEFINE kd == KindOf[dst]
           ks == KindOf[src]
<1>1. \A v \in Slots, r \in Res :
        Owns(v, r)' <=> CASE v = dst -> OwnsObj(a, kd, r)
                          [] v = src -> OwnsObj(b, ks, r)
                          [] OTHER -> Owns(v, r)
  BY DEF Owns
<1>2. \A r \in Res : HasOwner(r)' <=>
        \/ OwnsObj(a, kd, r) \/ OwnsObj(b, ks, r)
        \/ \E v \in Slots \ {dst, src} : Owns(v, r)
  BY <1>1 DEF HasOwner
<1>3. TypeOK'
  BY DEF IInv, TypeOK
<1>4. MembersOK'
  BY DEF IInv, MembersOK
<1>5. ASSUME NEW r \in Res \ acquired'
      PROVE  freed'[r] = 0 /\ r \notin detached' /\ ~HasOwner(r)'
  <2>1. freed[r] = 0 /\ r \notin detached /\ \A v \in Slots : ~Owns(v, r)
    BY DEF IInv, HasOwner
  <2> QED
    BY <2>1, <1>2
<1>6. ASSUME NEW r \in acquired' PROVE OneFate(r)'
  <2>0. r \in Res /\ r \in acquired
    BY DEF IInv, TypeOK
  <2>1. CASE freeDst /\ Owns(dst, r)
    <3>1. freed[r] = 0 /\ r \notin detached /\ \A v \in Slots : Owns(v, r) => v = dst
      BY <2>0, <2>1, OwnedFresh
    <3>2. ~Owns(src, r)
      BY <3>1
    <3>3. ~HasOwner(r)'
      BY <2>0, <2>1, <3>1, <3>2, <1>2
    <3>4. freed'[r] = 1 /\ r \notin detached'
      BY <2>0, <2>1, <3>1
    <3> QED
      BY <3>3, <3>4 DEF OneFate
  <2>2. CASE ~(freeDst /\ Owns(dst, r))
    <3>1. freed'[r] = freed[r] /\ (r \in detached' <=> r \in detached)
      BY <2>0, <2>2
    <3>2. HasOwner(r)' <=> HasOwner(r)
      BY <2>0, <2>2, <1>2 DEF HasOwner
    <3>3. OneFate(r)
      BY <2>0 DEF IInv
    <3> QED
      BY <3>1, <3>2, <3>3 DEF OneFate
  <2> QED
    BY <2>1, <2>2
<1>7. ASSUME NEW r \in Res, NEW w1 \in Slots, NEW w2 \in Slots,
             Owns(w1, r)', Owns(w2, r)'
      PROVE  w1 = w2
  <2>1. ASSUME NEW v \in Slots, Owns(v, r)', v \notin {dst, src}
        PROVE  Owns(v, r) /\ ~Owns(dst, r) /\ ~Owns(src, r)
    BY <2>1, <1>1 DEF IInv
  <2>2. ASSUME NEW v \in Slots, Owns(v, r)', v \in {dst, src}
        PROVE  Owns(src, r) \/ Owns(dst, r)
    BY <2>2, <1>1
  <2>3. ~(Owns(dst, r)' /\ Owns(src, r)')
    BY <1>1
  <2> QED
    BY <1>7, <2>1, <2>2, <2>3 DEF IInv
<1> QED
  BY <1>3, <1>4, <1>5, <1>6, <1>7 DEF IInv

(* The initial state satisfies the inductive invariant.                    *)
LEMMA InitIInv == Init => IInv
<1> SUFFICES ASSUME Init PROVE IInv
  OBVIOUS
<1>1. \A w \in Slots : obj[w] = Dead
  BY DEF Init
<1>2. \A w \in Slots, r \in Res : ~Owns(w, r)
  BY <1>1, DeadOwnsNothing, KindOfAssumption DEF Owns
<1>3. TypeOK
  <2>1. Dead \in Obj
    BY DEF Dead, Obj, Handles, FreeFns
  <2>2. obj \in [Slots -> Obj]
    BY <2>1 DEF Init
  <2>3. freed \in [Res -> 0..FreeCap]
    BY DEF Init, FreeCap
  <2> QED
    BY <2>2, <2>3 DEF Init, TypeOK
<1>4. MembersOK
  <2>1. Dead.alive = FALSE
    BY DEF Dead
  <2> QED
    BY <1>1, <2>1 DEF MembersOK
<1> QED
  BY <1>2, <1>3, <1>4 DEF Init, IInv, HasOwner

(* One lemma per operation: each is an instance of a step lemma.           *)
LEMMA ConstructIInv ==
  ASSUME IInv, NEW w \in Slots, NEW r0 \in Res, Construct(w, r0)
  PROVE  IInv'
<1> DEFINE k == KindOf[w]
<1>1. k \in Kinds
  BY KindOfAssumption
<1>2. obj[w] = Dead /\ \A r \in Res : ~Owns(w, r)
  <2>1. obj[w] = Dead
    BY DEF Construct, IInv, MembersOK
  <2> QED
    BY <1>1, <2>1, DeadOwnsNothing DEF Owns
<1>3. Wrap(r0) \in Obj /\ Wrap(r0).alive /\ Wrap(r0).f = "set"
  BY DEF Wrap, Obj, Handles, FreeFns
<1>4. \A r \in Res : OwnsObj(Wrap(r0), k, r) <=> r \in {r0}
  BY <1>1, <1>3, OwnsIff DEF Wrap
<1>5. obj' \in [Slots -> Obj] /\ obj'[w] = Wrap(r0)
      /\ \A v \in Slots \ {w} : obj'[v] = obj[v]
  BY <1>3 DEF Construct, IInv, TypeOK
<1>6. {r0} \in SUBSET (Res \ acquired)
  BY DEF Construct
<1>7. /\ acquired' = acquired \cup {r0}
      /\ freed' \in [Res -> 0..FreeCap]
      /\ \A r \in Res : freed'[r] = IF "free" = "free" /\ Owns(w, r) THEN 1 ELSE freed[r]
      /\ detached' = detached /\ ub' \in BOOLEAN
  BY <1>2 DEF Construct, IInv, TypeOK
<1> QED
  BY <1>3, <1>4, <1>5, <1>6, <1>7, OneSlotStep

LEMMA DefaultConstructIInv ==
  ASSUME IInv, NEW w \in Slots, DefaultConstruct(w)
  PROVE  IInv'
<1> DEFINE k == KindOf[w]
<1>1. k \in Kinds
  BY KindOfAssumption
<1>2. \A r \in Res : ~Owns(w, r)
  <2>1. obj[w] = Dead
    BY DEF DefaultConstruct, IInv, MembersOK
  <2> QED
    BY <1>1, <2>1, DeadOwnsNothing DEF Owns
<1>3. PICK o \in DefaultObjs(k) : obj' = [obj EXCEPT ![w] = o]
  BY DEF DefaultConstruct
<1>4. o \in Obj /\ o.alive /\ (k \in NullChecked => o.f = "set")
      /\ \A r \in Res : ~OwnsObj(o, k, r)
  BY <1>1, DefaultOwnsNothing
<1>5. obj' \in [Slots -> Obj] /\ obj'[w] = o
      /\ \A v \in Slots \ {w} : obj'[v] = obj[v]
  BY <1>3, <1>4 DEF IInv, TypeOK
<1>6. /\ acquired' = acquired \cup {}
      /\ freed' \in [Res -> 0..FreeCap]
      /\ \A r \in Res : freed'[r] = IF "free" = "free" /\ Owns(w, r) THEN 1 ELSE freed[r]
      /\ detached' = detached /\ ub' \in BOOLEAN
  BY <1>2 DEF DefaultConstruct, IInv, TypeOK
<1>7. {} \in SUBSET (Res \ acquired)
  OBVIOUS
<1> QED
  BY <1>4, <1>5, <1>6, <1>7, OneSlotStep

LEMMA DetachIInv ==
  ASSUME IInv, NEW w \in Slots, Detach(w)
  PROVE  IInv'
<1> DEFINE k == KindOf[w]
           o == Cleared(obj[w], k)
<1>1. k \in Kinds /\ obj[w] \in Obj /\ obj[w].alive
  BY KindOfAssumption DEF Detach, IInv, TypeOK
<1>2. o \in Obj /\ o.alive /\ (k \in NullChecked => o.f = "set")
      /\ \A r \in Res : ~OwnsObj(o, k, r)
  <2>1. obj[w].alive /\ k \in NullChecked => obj[w].f = "set"
    BY DEF IInv, MembersOK
  <2> QED
    BY <1>1, <2>1, ClearedOwnsNothing
<1>3. Released(obj[w]) = {r \in Res : Owns(w, r)}
  BY <1>1, ReleasedOwned DEF Owns
<1>4. obj' \in [Slots -> Obj] /\ obj'[w] = o
      /\ \A v \in Slots \ {w} : obj'[v] = obj[v]
  BY <1>2 DEF Detach, IInv, TypeOK
<1>5. /\ acquired' = acquired \cup {}
      /\ freed' \in [Res -> 0..FreeCap]
      /\ \A r \in Res : freed'[r] = IF "detach" = "free" /\ Owns(w, r) THEN 1 ELSE freed[r]
      /\ detached' = detached \cup {r \in Res : Owns(w, r)}
      /\ ub' \in BOOLEAN
  BY <1>3 DEF Detach, IInv, TypeOK
<1>6. {} \in SUBSET (Res \ acquired)
  OBVIOUS
<1> QED
  BY <1>2, <1>4, <1>5, <1>6, OneSlotStep

(* What the free function of a destructor or an assignment does to freed: *)
(* the resource w owns goes from no calls to one.                          *)
LEMMA FreeOwned ==
  ASSUME IInv, NEW w \in Slots, obj[w].alive
  PROVE  /\ FreedBy(obj[w], KindOf[w]) \in [Res -> 0..FreeCap]
         /\ \A r \in Res : FreedBy(obj[w], KindOf[w])[r]
                             = IF Owns(w, r) THEN 1 ELSE freed[r]
<1>1. KindOf[w] \in Kinds /\ obj[w] \in Obj /\ freed \in [Res -> 0..FreeCap]
  BY KindOfAssumption DEF IInv, TypeOK
<1>2. \A r \in Res : Owns(w, r) => freed[r] = 0
  BY OwnedFresh
<1> QED
  BY <1>1, <1>2, FreedByOwned DEF Owns, FreeCap

LEMMA DestroyIInv ==
  ASSUME IInv, NEW w \in Slots, Destroy(w)
  PROVE  IInv'
<1>1. KindOf[w] \in Kinds /\ obj[w].alive
  BY KindOfAssumption DEF Destroy
<1>2. Dead \in Obj /\ \A r \in Res : ~OwnsObj(Dead, KindOf[w], r)
  <2>1. Dead \in Obj
    BY DEF Dead, Obj, Handles, FreeFns
  <2> QED
    BY <1>1, <2>1, DeadOwnsNothing
<1>3. obj' \in [Slots -> Obj] /\ obj'[w] = Dead
      /\ \A v \in Slots \ {w} : obj'[v] = obj[v]
  BY <1>2 DEF Destroy, IInv, TypeOK
<1>4. /\ freed' \in [Res -> 0..FreeCap]
      /\ \A r \in Res : freed'[r] = IF "free" = "free" /\ Owns(w, r) THEN 1 ELSE freed[r]
  BY <1>1, FreeOwned DEF Destroy
<1>5. acquired' = acquired \cup {} /\ detached' = detached /\ ub' \in BOOLEAN
  BY DEF Destroy, IInv, TypeOK, UbBy
<1>6. {} \in SUBSET (Res \ acquired) /\ ~Dead.alive
  BY DEF Dead
<1> QED
  BY <1>2, <1>3, <1>4, <1>5, <1>6, OneSlotStep

LEMMA AssignWrappedIInv ==
  ASSUME IInv, NEW w \in Slots, NEW r0 \in Res, AssignWrapped(w, r0)
  PROVE  IInv'
<1> DEFINE o == [obj[w] EXCEPT !.h = r0]
<1>1. KindOf[w] = "static" /\ obj[w] \in Obj /\ obj[w].alive /\ obj[w].f = "set"
  BY DEF AssignWrapped, IInv, TypeOK, MembersOK, NullChecked
<1>2. o \in Obj /\ o.alive /\ o.h = r0 /\ o.f = "set"
  BY <1>1 DEF Obj, Handles
<1>3. \A r \in Res : OwnsObj(o, KindOf[w], r) <=> r \in {r0}
  BY <1>1, <1>2 DEF OwnsObj, Valid, NullChecked
<1>4. obj' \in [Slots -> Obj] /\ obj'[w] = o
      /\ \A v \in Slots \ {w} : obj'[v] = obj[v]
  BY <1>2 DEF AssignWrapped, IInv, TypeOK
<1>5. /\ freed' \in [Res -> 0..FreeCap]
      /\ \A r \in Res : freed'[r] = IF "free" = "free" /\ Owns(w, r) THEN 1 ELSE freed[r]
  BY <1>1, FreeOwned DEF AssignWrapped
<1>6. acquired' = acquired \cup {r0} /\ detached' = detached /\ ub' \in BOOLEAN
  BY DEF AssignWrapped, IInv, TypeOK, UbBy
<1>7. {r0} \in SUBSET (Res \ acquired)
  BY DEF AssignWrapped
<1> QED
  BY <1>2, <1>3, <1>4, <1>5, <1>6, <1>7, OneSlotStep

LEMMA MoveConstructIInv ==
  ASSUME IInv, NEW dst \in Slots, NEW src \in Slots, MoveConstruct(dst, src)
  PROVE  IInv'
<1> DEFINE kd == KindOf[dst]
           ks == KindOf[src]
<1>1. kd \in Kinds /\ ks \in Kinds
  BY KindOfAssumption
<1>2. obj[dst] = Dead /\ obj[src].alive /\ dst # src /\ Convertible(kd, ks)
  BY DEF MoveConstruct, IInv, MembersOK
<1>3. \A r \in Res : ~Owns(dst, r)
  BY <1>1, <1>2, DeadOwnsNothing DEF Owns
<1>4. PICK d0 \in DefaultObjs(kd) :
        LET t == Take(d0, kd, obj[src], ks)
        IN  obj' = [obj EXCEPT ![src] = t[2], ![dst] = t[1]]
  BY DEF MoveConstruct
<1> DEFINE t == Take(d0, kd, obj[src], ks)
<1>5. d0 \in Obj /\ d0.alive /\ (kd \in NullChecked => d0.f = "set")
      /\ \A r \in Res : ~OwnsObj(d0, kd, r)
  BY <1>1, DefaultOwnsNothing
<1>6. MoveReady(d0, kd, obj[src], ks)
  <2>1. obj[src] \in Obj /\ (ks \in NullChecked => obj[src].f = "set")
    BY <1>2 DEF IInv, TypeOK, MembersOK
  <2> QED
    BY <1>1, <1>2, <1>5, <2>1 DEF MoveReady
<1>7. Moved(d0, kd, obj[src], ks, t)
  BY <1>6, TakeMoves
<1>8. obj' \in [Slots -> Obj] /\ obj'[dst] = t[1] /\ obj'[src] = t[2]
      /\ \A v \in Slots \ {dst, src} : obj'[v] = obj[v]
  BY <1>2, <1>4, <1>7 DEF Moved, IInv, TypeOK
<1>9. \A r \in Res : OwnsObj(t[1], kd, r) \/ OwnsObj(t[2], ks, r)
                      <=> Owns(src, r) \/ (~FALSE /\ Owns(dst, r))
  BY <1>3, <1>5, <1>7 DEF Moved, Owns
<1>10. /\ acquired' = acquired /\ detached' = detached
       /\ freed' \in [Res -> 0..FreeCap]
       /\ \A r \in Res : freed'[r] = IF FALSE /\ Owns(dst, r) THEN 1 ELSE freed[r]
       /\ ub' \in BOOLEAN
  BY DEF MoveConstruct, IInv, TypeOK
<1>11. /\ t[1] \in Obj /\ t[2] \in Obj /\ t[1].alive /\ t[2].alive
       /\ kd \in NullChecked => t[1].f = "set"
       /\ ks \in NullChecked => t[2].f = "set"
       /\ \A r \in Res : ~(OwnsObj(t[1], kd, r) /\ OwnsObj(t[2], ks, r))
  BY <1>7 DEF Moved
<1> QED
  BY <1>2, <1>8, <1>9, <1>10, <1>11, TwoSlotStep

(* The destination's members after "if (valid) free(...)" at the top of a  *)
(* move assignment (PosixFd swaps and frees nothing here).                 *)
LEMMA ClearFirst ==
  ASSUME IInv, NEW w \in Slots, obj[w].alive, NEW d1,
         d1 = IF KindOf[w] # "fd" /\ Valid(obj[w], KindOf[w])
                THEN Cleared(obj[w], KindOf[w]) ELSE obj[w]
  PROVE  /\ d1 \in Obj /\ d1.alive
         /\ KindOf[w] \in NullChecked => d1.f = "set"
         /\ KindOf[w] # "fd" => \A r \in Res : ~OwnsObj(d1, KindOf[w], r)
         /\ KindOf[w] = "fd" => d1 = obj[w]
<1>1. KindOf[w] \in Kinds /\ obj[w] \in Obj
      /\ (KindOf[w] \in NullChecked => obj[w].f = "set")
  BY KindOfAssumption DEF IInv, TypeOK, MembersOK
<1>2. CASE KindOf[w] # "fd" /\ Valid(obj[w], KindOf[w])
  BY <1>1, <1>2, ClearedOwnsNothing
<1>3. CASE ~(KindOf[w] # "fd" /\ Valid(obj[w], KindOf[w]))
  BY <1>1, <1>3 DEF OwnsObj
<1> QED
  BY <1>2, <1>3

(* OneSlotStep for a step that frees what w owned and hands out nothing. *)
LEMMA FreeStep ==
  ASSUME IInv, NEW w \in Slots, NEW o,
         /\ o \in Obj
         /\ obj' \in [Slots -> Obj]
         /\ obj'[w] = o
         /\ \A v \in Slots \ {w} : obj'[v] = obj[v]
         /\ ~o.alive => o = Dead
         /\ o.alive /\ KindOf[w] \in NullChecked => o.f = "set"
         /\ {} \in SUBSET (Res \ acquired)
         /\ acquired' = acquired \cup {}
         /\ freed' \in [Res -> 0..FreeCap]
         /\ ub' \in BOOLEAN,
         \A r \in Res : OwnsObj(o, KindOf[w], r) <=> r \in {} \/ ("free" = "keep" /\ Owns(w, r)),
         \A r \in Res : freed'[r] = IF "free" = "free" /\ Owns(w, r) THEN 1 ELSE freed[r],
         detached' = IF "free" = "detach" THEN detached \cup {r \in Res : Owns(w, r)}
                                          ELSE detached,
         "free" \in {"free", "detach", "keep"}
  PROVE  IInv'
BY OneSlotStep, ZenonT(60)

(* A step that leaves every wrapper owning what it owned.                  *)
LEMMA KeepStep ==
  ASSUME IInv, NEW w \in Slots, NEW o,
         /\ o \in Obj
         /\ obj' \in [Slots -> Obj]
         /\ obj'[w] = o
         /\ \A v \in Slots \ {w} : obj'[v] = obj[v]
         /\ ~o.alive => o = Dead
         /\ o.alive /\ KindOf[w] \in NullChecked => o.f = "set"
         /\ {} \in SUBSET (Res \ acquired)
         /\ acquired' = acquired \cup {}
         /\ freed' \in [Res -> 0..FreeCap]
         /\ ub' \in BOOLEAN,
         \A r \in Res : OwnsObj(o, KindOf[w], r) <=> r \in {} \/ ("keep" = "keep" /\ Owns(w, r)),
         \A r \in Res : freed'[r] = IF "keep" = "free" /\ Owns(w, r) THEN 1 ELSE freed[r],
         detached' = IF "keep" = "detach" THEN detached \cup {r \in Res : Owns(w, r)}
                                          ELSE detached,
         "keep" \in {"free", "detach", "keep"}
  PROVE  IInv'
<1>1. \A v \in Slots, r \in Res : Owns(v, r)' <=> Owns(v, r)
  BY DEF Owns
<1>2. \A r \in Res : HasOwner(r)' <=> HasOwner(r)
  BY <1>1 DEF HasOwner
<1>3. /\ \A r \in Res : freed'[r] = freed[r]
      /\ detached' = detached /\ acquired' = acquired
  OBVIOUS
<1>4. TypeOK' /\ MembersOK'
  BY DEF IInv, TypeOK, MembersOK
<1>5. \A r \in Res \ acquired' : freed'[r] = 0 /\ r \notin detached' /\ ~HasOwner(r)'
  BY <1>2, <1>3 DEF IInv
<1>6. \A r \in acquired' : OneFate(r)'
  <2>1. acquired \subseteq Res
    BY DEF IInv, TypeOK
  <2> QED
    BY <1>2, <1>3, <2>1 DEF IInv, OneFate
<1>7. \A r \in Res, w1, w2 \in Slots : Owns(w1, r)' /\ Owns(w2, r)' => w1 = w2
  BY <1>1 DEF IInv
<1> QED
  BY <1>4, <1>5, <1>6, <1>7 DEF IInv

LEMMA MoveAssignIInv ==
  ASSUME IInv, NEW dst \in Slots, NEW src \in Slots, MoveAssign(dst, src)
  PROVE  IInv'
<1> DEFINE kd == KindOf[dst]
           ks == KindOf[src]
           freeFirst == kd # "fd"
           d1 == IF freeFirst /\ Valid(obj[dst], kd) THEN Cleared(obj[dst], kd)
                                                     ELSE obj[dst]
           o1 == [obj EXCEPT ![dst] = d1]
           t == Take(o1[dst], kd, o1[src], ks)
<1>1. /\ obj[dst].alive /\ obj[src].alive /\ Convertible(kd, ks)
      /\ obj' = [[o1 EXCEPT ![src] = t[2]] EXCEPT ![dst] = t[1]]
      /\ freed' = IF freeFirst THEN FreedBy(obj[dst], kd) ELSE freed
      /\ ub' \in BOOLEAN
      /\ acquired' = acquired /\ detached' = detached
  BY DEF MoveAssign
<1>0. ub' \in BOOLEAN /\ acquired' = acquired /\ detached' = detached
  BY <1>1
<1>2. /\ kd \in Kinds /\ ks \in Kinds /\ obj \in [Slots -> Obj]
      /\ freed \in [Res -> 0..FreeCap]
  BY KindOfAssumption DEF IInv, TypeOK
<1>3. /\ d1 \in Obj /\ d1.alive
      /\ kd \in NullChecked => d1.f = "set"
      /\ kd # "fd" => \A r \in Res : ~OwnsObj(d1, kd, r)
      /\ kd = "fd" => d1 = obj[dst]
  BY <1>1, ClearFirst
<1>4. /\ freed' \in [Res -> 0..FreeCap]
      /\ \A r \in Res : freed'[r] = IF freeFirst /\ Owns(dst, r) THEN 1 ELSE freed[r]
  <2>1. CASE freeFirst
    BY <1>1, <2>1, FreeOwned
  <2>2. CASE ~freeFirst
    BY <1>1, <1>2, <2>2
  <2> QED
    BY <2>1, <2>2
<1>5. CASE dst = src
  <2>0. o1[dst] = d1 /\ o1[src] = d1 /\ ks = kd
    BY <1>2, <1>5
  <2>1. t = Take(d1, kd, d1, kd)
    BY <2>0
  <2>2. t[1] \in Obj /\ t[1].alive = d1.alive /\ t[1].h = d1.h /\ t[1].f = d1.f
    <3>1. d1 \in Obj /\ kd \in Kinds
      BY <1>2, <1>3
    <3> HIDE DEF t, o1, d1
    <3> QED
      BY <3>1, <2>1, SelfTake
  <2>3. obj' \in [Slots -> Obj] /\ obj'[dst] = t[1]
        /\ \A v \in Slots \ {dst} : obj'[v] = obj[v]
    BY <1>1, <1>2, <1>5, <2>2
  <2>4. \A r \in Res : OwnsObj(t[1], kd, r) <=> OwnsObj(d1, kd, r)
    BY <1>2, <1>3, <2>2 DEF OwnsObj, Valid, Obj, NullChecked, Kinds
  <2>5. PICK a : a = t[1]
    OBVIOUS
  <2>6. /\ a \in Obj /\ a.alive
        /\ kd \in NullChecked => a.f = "set"
        /\ obj' \in [Slots -> Obj] /\ obj'[dst] = a
        /\ \A v \in Slots \ {dst} : obj'[v] = obj[v]
        /\ \A r \in Res : OwnsObj(a, kd, r) <=> OwnsObj(d1, kd, r)
    BY <1>3, <2>2, <2>3, <2>4, <2>5
  <2>7. /\ a \in Obj
        /\ obj' \in [Slots -> Obj]
        /\ obj'[dst] = a
        /\ \A v \in Slots \ {dst} : obj'[v] = obj[v]
        /\ ~a.alive => a = Dead
        /\ a.alive /\ KindOf[dst] \in NullChecked => a.f = "set"
        /\ {} \in SUBSET (Res \ acquired)
        /\ acquired' = acquired \cup {}
        /\ freed' \in [Res -> 0..FreeCap]
        /\ ub' \in BOOLEAN
    BY <1>0, <1>4, <2>6
  <2>8. CASE freeFirst
    <3>1. \A r \in Res : OwnsObj(a, KindOf[dst], r) <=> r \in {} \/ ("free" = "keep" /\ Owns(dst, r))
      BY <1>3, <2>6, <2>8
    <3>2. \A r \in Res : freed'[r] = IF "free" = "free" /\ Owns(dst, r) THEN 1 ELSE freed[r]
      BY <1>4, <2>8
    <3>3. detached' = IF "free" = "detach" THEN detached \cup {r \in Res : Owns(dst, r)}
                                          ELSE detached
      BY <1>0
    <3>4. "free" \in {"free", "detach", "keep"}
      OBVIOUS
    <3> HIDE DEF kd, ks, freeFirst, d1, o1, t
    <3> QED
      BY <2>7, <3>1, <3>2, <3>3, <3>4, FreeStep
  <2>9. CASE ~freeFirst
    <3>1. \A r \in Res : OwnsObj(a, KindOf[dst], r) <=> r \in {} \/ ("keep" = "keep" /\ Owns(dst, r))
      BY <1>3, <2>6, <2>9 DEF Owns
    <3>2. \A r \in Res : freed'[r] = IF "keep" = "free" /\ Owns(dst, r) THEN 1 ELSE freed[r]
      BY <1>4, <2>9
    <3>3. detached' = IF "keep" = "detach" THEN detached \cup {r \in Res : Owns(dst, r)}
                                          ELSE detached
      BY <1>0
    <3>4. "keep" \in {"free", "detach", "keep"}
      OBVIOUS
    <3> HIDE DEF kd, ks, freeFirst, d1, o1, t
    <3> QED
      BY <2>7, <3>1, <3>2, <3>3, <3>4, KeepStep
  <2> QED
    BY <2>8, <2>9
<1>6. CASE dst # src
  <2>1. t = Take(d1, kd, obj[src], ks)
    BY <1>2, <1>6
  <2>2. MoveReady(d1, kd, obj[src], ks)
    <3>1. obj[src] \in Obj /\ (ks \in NullChecked => obj[src].f = "set")
      BY <1>1 DEF IInv, TypeOK, MembersOK
    <3>2. \A r \in Res : ~(OwnsObj(d1, kd, r) /\ OwnsObj(obj[src], ks, r))
      <4>1. CASE kd = "fd"
        BY <1>3, <1>6, <4>1, OwnedFresh DEF Owns
      <4>2. CASE kd # "fd"
        BY <1>3, <4>2
      <4> QED
        BY <4>1, <4>2
    <3> QED
      BY <1>1, <1>2, <1>3, <3>1, <3>2 DEF MoveReady
  <2>3. Moved(d1, kd, obj[src], ks, t)
    BY <2>1, <2>2, TakeMoves
  <2>4. /\ t[1] \in Obj /\ t[2] \in Obj /\ t[1].alive /\ t[2].alive
        /\ kd \in NullChecked => t[1].f = "set"
        /\ ks \in NullChecked => t[2].f = "set"
        /\ \A r \in Res : ~(OwnsObj(t[1], kd, r) /\ OwnsObj(t[2], ks, r))
        /\ \A r \in Res : OwnsObj(t[1], kd, r) \/ OwnsObj(t[2], ks, r)
                            <=> OwnsObj(d1, kd, r) \/ Owns(src, r)
    BY <2>3 DEF Moved, Owns
  <2>5. PICK a, b : a = t[1] /\ b = t[2]
    OBVIOUS
  <2>6. /\ a \in Obj /\ b \in Obj /\ a.alive /\ b.alive
        /\ KindOf[dst] \in NullChecked => a.f = "set"
        /\ KindOf[src] \in NullChecked => b.f = "set"
        /\ \A r \in Res : ~(OwnsObj(a, KindOf[dst], r) /\ OwnsObj(b, KindOf[src], r))
        /\ \A r \in Res : OwnsObj(a, KindOf[dst], r) \/ OwnsObj(b, KindOf[src], r)
                            <=> Owns(src, r) \/ (~freeFirst /\ Owns(dst, r))
    BY <1>3, <2>4, <2>5 DEF Owns
  <2>7. obj' \in [Slots -> Obj] /\ obj'[dst] = a /\ obj'[src] = b
        /\ \A v \in Slots \ {dst, src} : obj'[v] = obj[v]
    BY <1>1, <1>2, <1>6, <2>4, <2>5
  <2>8. freeFirst \in BOOLEAN
    OBVIOUS
  <2> QED
    BY <1>0, <1>4, <1>6, <2>6, <2>7, <2>8, TwoSlotStep
<1> QED
  BY <1>5, <1>6

(* Every step preserves the inductive invariant.                           *)
LEMMA NextIInv == IInv /\ [Next]_vars => IInv'
<1> SUFFICES ASSUME IInv, [Next]_vars PROVE IInv'
  OBVIOUS
<1>1. ASSUME NEW w \in Slots, NEW r \in Res, Construct(w, r) PROVE IInv'
  BY <1>1, ConstructIInv
<1>2. ASSUME NEW w \in Slots, NEW r \in Res, AssignWrapped(w, r) PROVE IInv'
  BY <1>2, AssignWrappedIInv
<1>3. ASSUME NEW w \in Slots, DefaultConstruct(w) PROVE IInv'
  BY <1>3, DefaultConstructIInv
<1>4. ASSUME NEW w \in Slots, NEW src \in Slots, MoveConstruct(w, src) PROVE IInv'
  BY <1>4, MoveConstructIInv
<1>5. ASSUME NEW w \in Slots, NEW src \in Slots, MoveAssign(w, src) PROVE IInv'
  BY <1>5, MoveAssignIInv
<1>6. ASSUME NEW w \in Slots, Detach(w) PROVE IInv'
  BY <1>6, DetachIInv
<1>7. ASSUME NEW w \in Slots, Destroy(w) PROVE IInv'
  BY <1>7, DestroyIInv
<1>8. CASE UNCHANGED vars
  <2>1. \A w \in Slots, r \in Res : Owns(w, r)' <=> Owns(w, r)
    BY <1>8 DEF vars, Owns
  <2>2. \A r \in Res : HasOwner(r)' <=> HasOwner(r)
    BY <2>1 DEF HasOwner
  <2>3. acquired \subseteq Res
    BY DEF IInv, TypeOK
  <2> QED
    BY <1>8, <2>1, <2>2, <2>3 DEF vars, IInv, TypeOK, MembersOK, OneFate
<1> QED
  BY <1>1, <1>2, <1>3, <1>4, <1>5, <1>6, <1>7, <1>8 DEF Next

(* The invariant counts: the owners of a resource handed out are none or  *)
(* one wrapper, so the sum of OwnedExactlyOnce is the fate OneFate names.  *)
LEMMA IInvCounts == IInv => NoDoubleFree /\ OwnedExactlyOnce
<1> SUFFICES ASSUME IInv PROVE NoDoubleFree /\ OwnedExactlyOnce
  OBVIOUS
<1>1. NoDoubleFree
  BY DEF IInv, OneFate, NoDoubleFree
<1>2. ASSUME NEW r \in acquired
      PROVE  freed[r] + (IF r \in detached THEN 1 ELSE 0)
               + Cardinality({w \in Slots : Owns(w, r)}) = 1
  <2>0. r \in Res /\ OneFate(r) /\ freed[r] \in 0..FreeCap
    BY DEF IInv, TypeOK
  <2>1. CASE HasOwner(r)
    <3>1. PICK w \in Slots : Owns(w, r)
      BY <2>1 DEF HasOwner
    <3>2. {v \in Slots : Owns(v, r)} = {w}
      BY <2>0, <3>1 DEF IInv
    <3>3. Cardinality({v \in Slots : Owns(v, r)}) = 1
      BY <3>2, FS_Singleton
    <3>4. freed[r] = 0 /\ r \notin detached
      BY <2>0, <2>1 DEF OneFate
    <3> QED
      BY <3>3, <3>4
  <2>2. CASE ~HasOwner(r)
    <3>1. {v \in Slots : Owns(v, r)} = {}
      BY <2>2 DEF HasOwner
    <3>2. Cardinality({v \in Slots : Owns(v, r)}) = 0
      BY <3>1, FS_EmptySet
    <3>3. freed[r] + (IF r \in detached THEN 1 ELSE 0) = 1
      BY <2>0, <2>2 DEF OneFate
    <3> QED
      BY <3>2, <3>3
  <2> QED
    BY <2>1, <2>2
<1> QED
  BY <1>1, <1>2 DEF OwnedExactlyOnce

(* Whatever sequence of constructions, moves (self-moves and conversions   *)
(* to the std::function specialisation included), assignments, detaches   *)
(* and destructions the wrappers go through, for every set of wrappers and *)
(* resources: no resource is freed twice, and every resource handed out is *)
(* owned by exactly one wrapper, or freed once, or detached.               *)
THEOREM OwnershipInvariant == Spec => [](NoDoubleFree /\ OwnedExactlyOnce)
<1>1. Init => IInv
  BY InitIInv
<1>2. IInv /\ [Next]_vars => IInv'
  BY NextIInv
<1>3. IInv => NoDoubleFree /\ OwnedExactlyOnce
  BY IInvCounts
<1> QED
  BY <1>1, <1>2, <1>3, PTL DEF Spec

(* No resource is freed twice, whatever the wrappers do: each free        *)
(* function runs at most once per handle, through every move, self-move,   *)
(* assignment and detach.                                                  *)
THEOREM NoDoubleFreeInvariant == Spec => []NoDoubleFree
<1>1. IInv => NoDoubleFree
  BY IInvCounts
<1> QED
  BY <1>1, InitIInv, NextIInv, PTL DEF Spec

=============================================================================

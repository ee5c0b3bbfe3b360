--------------------------- MODULE HandleOwnership ---------------------------
(***************************************************************************)
(* The RAII handle wrappers of src/common/src/builtin/util.h (the four     *)
(* raii_t specialisations) and PosixFd (src/daemon/src/posix/             *)
(* posix_objects.h), as a set of wrapper variables over a pool of          *)
(* resources.  A wrapper variable is constructed, moved from, moved into,  *)
(* detached and destroyed; every call of its free function is counted.     *)
(*                                                                         *)
(* Kinds (one per specialisation):                                         *)
(*   "static"   raii_t<Handle, FreeFnType, FreeFn>   valid iff handle set  *)
(*   "functor"  raii_t<Handle, FreeFnType>           valid iff handle set  *)
(*   "fnptr"    raii_t<Handle, FreeFnType*>          valid iff _free set   *)
(*   "function" raii_t<Handle, int>  (std::function) valid iff _free set   *)
(*   "fd"       PosixFd                              valid iff not Invalid *)
(* A slot's handle is a resource, Null (nullptr / Invalid), or Garbage: an *)
(* indeterminate value left by a default constructor.  Its free function   *)
(* is "set", "none" (nullptr / empty) or "garbage" (indeterminate).        *)
(***************************************************************************)
EXTENDS Naturals, FiniteSets

CONSTANTS
  Slots,          \* wrapper variables
  KindOf,         \* the specialisation of each slot
  Res,            \* resources (handles a wrapper can be given)
  PointerHandle   \* TRUE: Handle is a pointer type (get_nullable_t<T*> = T*)

Kinds == {"static", "functor", "fnptr", "function", "fd"}
NullChecked == {"static", "functor", "fd"}

ASSUME KindOfAssumption == KindOf \in [Slots -> Kinds]
ASSUME PointerHandleAssumption == PointerHandle \in BOOLEAN

Null == "null"
Garbage == "garbage"

\* nullptr and an indeterminate value are not resources.
ASSUME ResAssumption == Null \notin Res /\ Garbage \notin Res

Handles == Res \cup {Null, Garbage}
FreeFns == {"set", "none", "garbage"}
Obj == [alive : BOOLEAN, h : Handles, f : FreeFns]

\* Free-function calls counted per resource: 2 already means a double free.
FreeCap == 2

VARIABLES
  obj,       \* obj[w]: is w in scope, its handle, its free function
  acquired,  \* resources ever handed to a wrapper
  freed,     \* freed[r]: calls of a free function on r (capped at FreeCap)
  detached,  \* resources handed back to the caller by detach()
  ub         \* a free function was called on garbage, or a call hit UB

vars == <<obj, acquired, freed, detached, ub>>

TypeOK ==
  /\ obj \in [Slots -> Obj]
  /\ acquired \subseteq Res
  /\ freed \in [Res -> 0..FreeCap]
  /\ detached \subseteq Res
  /\ ub \in BOOLEAN

(* valid(): the handle is not null, or a free function is stored.          *)
Valid(o, k) == IF k \in NullChecked THEN o.h # Null ELSE o.f # "none"

(* Members o of a kind-k wrapper own r when it is in scope and its         *)
(* destructor would free r.                                                *)
OwnsObj(o, k, r) == o.alive /\ Valid(o, k) /\ o.h = r /\ o.f = "set"

(* Wrapper w owns r.                                                        *)
Owns(w, r) == OwnsObj(obj[w], KindOf[w], r)

(* The free function called on o (only when o is valid): it releases o's   *)
(* resource, or it is a call through garbage or on garbage.                *)
Released(o) == IF o.h \in Res /\ o.f = "set" THEN {o.h} ELSE {}
Wild(o) == ~(o.h \in Res /\ o.f = "set")

Bump(fr, S) ==
  [r \in Res |-> IF r \in S /\ fr[r] < FreeCap THEN fr[r] + 1 ELSE fr[r]]

(* "if (valid) free(exchange(handle-or-_free, nullptr))": the object after *)
(* the call, and the call's effect on freed and ub.                        *)
Cleared(o, k) ==
  IF k \in NullChecked THEN [o EXCEPT !.h = Null] ELSE [o EXCEPT !.f = "none"]
FreedBy(o, k) == IF Valid(o, k) THEN Bump(freed, Released(o)) ELSE freed
UbBy(o, k) == ub \/ (Valid(o, k) /\ Wild(o))

(* The handle member is a get_nullable_t<Handle>: a raw T* for a pointer   *)
(* Handle, left indeterminate by a constructor with no initializer, and a  *)
(* nullable_t (empty by default) for any other Handle.                     *)
DefaultHandles == IF PointerHandle THEN {Null, Garbage} ELSE {Null}

(* Members of a default-constructed wrapper.  A pointer handle or a        *)
(* function pointer with no initializer is indeterminate: null or not.     *)
DefaultObjs(k) ==
  CASE k \in {"static", "functor"} ->
         {[alive |-> TRUE, h |-> hv, f |-> "set"] : hv \in DefaultHandles}
    [] k = "fnptr" ->
         {[alive |-> TRUE, h |-> Garbage, f |-> fv] : fv \in {"none", "garbage"}}
    [] k = "function" -> {[alive |-> TRUE, h |-> Garbage, f |-> "none"]}
    [] k = "fd" -> {[alive |-> TRUE, h |-> Null, f |-> "set"]}

(* Which kinds can be moved into which: the same specialisation, and the   *)
(* std::function one from any raii_t.                                      *)
Convertible(kd, ks) == kd = ks \/ (kd = "function" /\ ks # "fd")

(* PosixFd's move: PosixFd(PosixFd&&) default-constructs (Invalid) and    *)
(* move-assigns, and operator=(PosixFd&&) swaps the two descriptors.       *)
FdSwap(d, s) == <<[d EXCEPT !.h = s.h], [s EXCEPT !.h = d.h]>>

(* Mutant: the move leaves the source owning its handle too.               *)
TakeCopies(d, kd, s, ks) == <<[d EXCEPT !.h = s.h, !.f = s.f], s>>

(* The members move(d, s) leaves in the destination and the source, from  *)
(* the destination's members before it: <<d', s'>>.                        *)
Take(d, kd, s, ks) ==
  CASE kd = "fd" -> FdSwap(d, s)
    [] kd = ks /\ kd \in {"static", "functor"} ->
         <<[d EXCEPT !.h = s.h, !.f = s.f], [s EXCEPT !.h = Null]>>
    [] kd = ks /\ kd \in {"fnptr", "function"} ->
         <<[d EXCEPT !.h = s.h, !.f = s.f], [s EXCEPT !.f = "none"]>>
    [] kd = "function" /\ ks \in {"static", "functor"} ->
         IF s.h # Null
           THEN <<[d EXCEPT !.h = s.h, !.f = "set"], [s EXCEPT !.h = Null]>>
           ELSE <<d, s>>
    [] kd = "function" /\ ks = "fnptr" ->
         IF s.f # "none"
           THEN <<[d EXCEPT !.h = s.h, !.f = s.f], [s EXCEPT !.f = "none"]>>
           ELSE <<d, s>>

-----------------------------------------------------------------------------
(* The members of a wrapper variable out of scope.                          *)
Dead == [alive |-> FALSE, h |-> Null, f |-> "none"]

Init ==
  /\ obj = [w \in Slots |-> Dead]
  /\ acquired = {}
  /\ freed = [r \in Res |-> 0]
  /\ detached = {}
  /\ ub = FALSE

(* A wrapper in scope that owns r: what RAII_WRAP(r, free) (through       *)
(* raii_static_helper::make) and raii_wrap(r, free) return.                *)
Wrap(r) == [alive |-> TRUE, h |-> r, f |-> "set"]

(* raii_t(handle[, free]), RAII_WRAP / raii_wrap, PosixFd(int): a fresh   *)
(* resource handed to a new wrapper.                                       *)
Construct(w, r) ==
  /\ ~obj[w].alive
  /\ r \in Res \ acquired
  /\ obj' = [obj EXCEPT ![w] = Wrap(r)]
  /\ acquired' = acquired \cup {r}
  /\ UNCHANGED <<freed, detached, ub>>

(* raii_t() / PosixFd().                                                   *)
DefaultConstruct(w) ==
  /\ ~obj[w].alive
  /\ \E o \in DefaultObjs(KindOf[w]) : obj' = [obj EXCEPT ![w] = o]
  /\ UNCHANGED <<acquired, freed, detached, ub>>

(* Move constructor (and the converting constructors of the std::function *)
(* specialisation): dst starts with default members, then takes src's.    *)
MoveConstruct(dst, src) ==
  /\ ~obj[dst].alive
  /\ obj[src].alive
  /\ Convertible(KindOf[dst], KindOf[src])
  /\ \E d0 \in DefaultObjs(KindOf[dst]) :
       LET t == Take(d0, KindOf[dst], obj[src], KindOf[src])
       IN  obj' = [obj EXCEPT ![src] = t[2], ![dst] = t[1]]
  /\ UNCHANGED <<acquired, freed, detached, ub>>

(* Move assignment (self-assignment included): free dst's own resource if *)
(* valid, then take src's.  PosixFd's swaps instead.  The std::function    *)
(* specialisation's operator= from raii_t<Handle, F*> flows off its end    *)
(* without a return.                                                       *)
MoveAssign(dst, src) ==
  LET kd == KindOf[dst]
      ks == KindOf[src]
      freeFirst == kd # "fd"
      d1 == IF freeFirst /\ Valid(obj[dst], kd) THEN Cleared(obj[dst], kd)
                                                  ELSE obj[dst]
      o1 == [obj EXCEPT ![dst] = d1]
      t == Take(o1[dst], kd, o1[src], ks)
  IN /\ obj[dst].alive /\ obj[src].alive
     /\ Convertible(kd, ks)
     /\ obj' = [[o1 EXCEPT ![src] = t[2]] EXCEPT ![dst] = t[1]]
     /\ freed' = IF freeFirst THEN FreedBy(obj[dst], kd) ELSE freed
     /\ ub' = \/ freeFirst /\ UbBy(obj[dst], kd)
              \/ ub
              \/ kd = "function" /\ ks = "fnptr"
     /\ UNCHANGED <<acquired, detached>>

(* raii_t<Handle, F, FreeFn>::operator=(wrapped_handle&&): free the own    *)
(* resource if valid, then take the wrapped one.                           *)
AssignWrapped(w, r) ==
  /\ obj[w].alive
  /\ KindOf[w] = "static"
  /\ r \in Res \ acquired
  /\ obj' = [obj EXCEPT ![w].h = r]
  /\ freed' = FreedBy(obj[w], "static")
  /\ ub' = UbBy(obj[w], "static")
  /\ acquired' = acquired \cup {r}
  /\ UNCHANGED detached

(* Mutant: detach() returns the handle without clearing it.               *)
DetachKeeps(w) ==
  LET o == obj[w]
  IN /\ o.alive
     /\ KindOf[w] # "fd"
     /\ UNCHANGED obj
     /\ detached' = detached \cup Released(o)
     /\ UNCHANGED <<acquired, freed, ub>>

(* detach(): give the handle back to the caller and stop owning it.        *)
Detach(w) ==
  LET o == obj[w]
  IN /\ o.alive
     /\ KindOf[w] # "fd"
     /\ obj' = [obj EXCEPT ![w] = Cleared(o, KindOf[w])]
     /\ detached' = detached \cup Released(o)
     /\ UNCHANGED <<acquired, freed, ub>>

(* Destructor: "if (valid) free(...)"; ~PosixFd closes a valid fd.         *)
Destroy(w) ==
  /\ obj[w].alive
  /\ obj' = [obj EXCEPT ![w] = Dead]
  /\ freed' = FreedBy(obj[w], KindOf[w])
  /\ ub' = UbBy(obj[w], KindOf[w])
  /\ UNCHANGED <<acquired, detached>>

Next ==
  \E w \in Slots :
    \/ \E r \in Res : Construct(w, r) \/ AssignWrapped(w, r)
    \/ DefaultConstruct(w)
    \/ \E src \in Slots : MoveConstruct(w, src) \/ MoveAssign(w, src)
    \/ Detach(w)
    \/ Destroy(w)

Spec == Init /\ [][Next]_vars

-----------------------------------------------------------------------------
(* No resource is freed twice, whatever moves, self-moves, conversions     *)
(* between specialisations and detaches the wrappers go through.           *)
NoDoubleFree == \A r \in Res : freed[r] <= 1

(* Every resource handed to a wrapper has exactly one fate at any time:    *)
(* one live owner, or freed once, or detached to the caller.  (The moved-  *)
(* from object of a move no longer owns; an overwritten one was freed.)    *)
OwnedExactlyOnce ==
  \A r \in acquired :
    freed[r] + (IF r \in detached THEN 1 ELSE 0)
      + Cardinality({w \in Slots : Owns(w, r)}) = 1

(* spec.md 7: the wrapper's only semantics are "present or absent, and     *)
(* free exactly once on scope exit": no free function is ever called       *)
(* through or on an indeterminate value, and no call is undefined.         *)
NoUndefinedBehaviour == ~ub

(* The inductive invariant of HandleOwnershipProofs, without counting:     *)
(* a wrapper out of scope has no members, a null-checked one always holds  *)
(* its free function, a resource never handed out has no fate yet, one     *)
(* handed out has exactly one of the three fates, and no two wrappers own  *)
(* the same resource.                                                      *)
HasOwner(r) == \E w \in Slots : Owns(w, r)

OneFate(r) ==
  \/ freed[r] = 1 /\ r \notin detached /\ ~HasOwner(r)
  \/ freed[r] = 0 /\ r \in detached /\ ~HasOwner(r)
  \/ freed[r] = 0 /\ r \notin detached /\ HasOwner(r)

MembersOK ==
  \A w \in Slots :
    /\ ~obj[w].alive => obj[w] = Dead
    /\ obj[w].alive /\ KindOf[w] \in NullChecked => obj[w].f = "set"

IInv ==
  /\ TypeOK
  /\ MembersOK
  /\ \A r \in Res \ acquired : freed[r] = 0 /\ r \notin detached /\ ~HasOwner(r)
  /\ \A r \in acquired : OneFate(r)
  /\ \A r \in Res, w1, w2 \in Slots : Owns(w1, r) /\ Owns(w2, r) => w1 = w2
=============================================================================

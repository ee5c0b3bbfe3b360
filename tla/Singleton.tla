------------------------------ MODULE Singleton ------------------------------
(***************************************************************************)
(* Singleton<Derived> and AutoSingleton<Derived>                           *)
(* (src/common/src/builtin/util.h): the base-class constructor records     *)
(* `this` in the static _instance (after Q_ASSERT that none is recorded)   *)
(* and the base-class destructor resets it to nullptr.  AutoSingleton's    *)
(* instance() creates the object on the heap when none is recorded.        *)
(*                                                                         *)
(* Objects are a small set of candidate Derived objects.  Destruction is   *)
(* two steps, as in C++: ~Derived() runs while _instance still points at  *)
(* the object, then ~Singleton() resets _instance.  A failed Q_ASSERT      *)
(* (debug builds) aborts the process.                                      *)
(***************************************************************************)
EXTENDS Naturals

CONSTANTS
  Objs,       \* candidate Derived objects
  AssertsOn   \* Q_ASSERT compiled in (debug build)

ASSUME AssertsOnAssumption == AssertsOn \in BOOLEAN

Null == "null"

\* nullptr is not an object.
ASSUME ObjsAssumption == Null \notin Objs
Lives == {"unborn", "live", "destroying", "dead"}

VARIABLES
  life,      \* life[o]: where object o is in its lifetime
  instance,  \* Singleton<Derived>::_instance
  aborted    \* the process aborted on a failed Q_ASSERT

vars == <<life, instance, aborted>>

TypeOK ==
  /\ life \in [Objs -> Lives]
  /\ instance \in Objs \cup {Null}
  /\ aborted \in BOOLEAN

(* _instance is zero-initialised static storage.                           *)
Init ==
  /\ life = [o \in Objs |-> "unborn"]
  /\ instance = Null
  /\ aborted = FALSE

(* Singleton(): Q_ASSERT(_instance == nullptr); _instance = this.  Used by *)
(* `new Derived(...)` or a Derived on the stack.                           *)
Construct(o) ==
  /\ ~aborted
  /\ life[o] = "unborn"
  /\ IF AssertsOn /\ instance # Null
       THEN aborted' = TRUE /\ UNCHANGED <<life, instance>>
       ELSE /\ instance' = o
            /\ life' = [life EXCEPT ![o] = "live"]
            /\ UNCHANGED aborted

(* AutoSingleton::instance(): return the recorded instance, or `new        *)
(* Derived()` when there is none.                                          *)
AutoInstance ==
  /\ ~aborted
  /\ instance = Null
  /\ \E o \in Objs : life[o] = "unborn" /\ Construct(o)

(* ~Derived() starts: _instance still points at the object.               *)
BeginDestroy(o) ==
  /\ ~aborted
  /\ life[o] = "live"
  /\ life' = [life EXCEPT ![o] = "destroying"]
  /\ UNCHANGED <<instance, aborted>>

(* Mutant: ~Singleton() leaves _instance alone.                             *)
EndDestroyKeepsInstance(o) ==
  /\ ~aborted
  /\ life[o] = "destroying"
  /\ life' = [life EXCEPT ![o] = "dead"]
  /\ UNCHANGED <<instance, aborted>>

(* ~Singleton(): _instance = nullptr, whichever object is recorded.        *)
EndDestroy(o) ==
  /\ ~aborted
  /\ life[o] = "destroying"
  /\ life' = [life EXCEPT ![o] = "dead"]
  /\ instance' = Null
  /\ UNCHANGED aborted

Next ==
  \/ AutoInstance
  \/ \E o \in Objs : Construct(o) \/ BeginDestroy(o) \/ EndDestroy(o)

Spec == Init /\ [][Next]_vars

-----------------------------------------------------------------------------
(* util.h: "there should only be a single instance ... its instance will   *)
(* be tracked by the class": unless the process aborted, an object is      *)
(* alive (constructed, not yet through ~Singleton) exactly when it is      *)
(* Singleton::instance(), so instance() never returns null, a dead object  *)
(* or another object while one lives, and AutoSingleton never creates a    *)
(* second one.                                                             *)
SingleTrackedInstance ==
  ~aborted =>
    \A o \in Objs : life[o] \in {"live", "destroying"} <=> instance = o

(* The inductive invariant of the proofs (SingletonProofs): the types and  *)
(* SingleTrackedInstance.                                                  *)
IInv == TypeOK /\ SingleTrackedInstance
=============================================================================

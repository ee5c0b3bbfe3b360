-------------------------- MODULE SingletonProofs --------------------------
(***************************************************************************)
(* SingleTrackedInstance holds for every set of candidate objects in a     *)
(* build with Q_ASSERT compiled in.  It is inductive together with the     *)
(* type invariant: while no assertion failed, _instance names the one      *)
(* object between its constructor and ~Singleton(), so EndDestroy resets  *)
(* the pointer of the object being destroyed and Construct only runs when  *)
(* the pointer is null.                                                    *)
(***************************************************************************)
EXTENDS Singleton, TLAPS

USE AssertsOnAssumption, ObjsAssumption

Alive == {"live", "destroying"}

(* The initial state satisfies the inductive invariant.                    *)
LEMMA InitIInv == Init => IInv
BY DEF Init, IInv, TypeOK, SingleTrackedInstance, Lives

(* A constructor that passes the assertion records the only live object:  *)
(* with _instance null, no object was alive before it.                     *)
LEMMA ConstructIInv ==
  ASSUME IInv, AssertsOn, NEW o \in Objs, Construct(o)
  PROVE  IInv'
<1>1. CASE instance # Null
  BY <1>1, AssertsOn DEF IInv, TypeOK, SingleTrackedInstance, Construct
<1>2. CASE instance = Null
  <2>1. ~aborted /\ instance' = o /\ life' = [life EXCEPT ![o] = "live"]
        /\ aborted' = aborted
    BY <1>2 DEF Construct
  <2>2. \A p \in Objs : life[p] \notin Alive
    BY <1>2, <2>1 DEF IInv, SingleTrackedInstance, Alive
  <2>3. QED
    BY <2>1, <2>2 DEF IInv, TypeOK, SingleTrackedInstance, Alive, Lives
<1>3. QED
  BY <1>1, <1>2

(* Every step preserves the inductive invariant when Q_ASSERT is on.       *)
LEMMA NextIInv ==
  ASSUME AssertsOn
  PROVE  IInv /\ [Next]_vars => IInv'
<1> SUFFICES ASSUME IInv, [Next]_vars PROVE IInv'
  OBVIOUS
<1>1. CASE AutoInstance
  BY <1>1, ConstructIInv DEF AutoInstance
<1>2. ASSUME NEW o \in Objs, Construct(o) PROVE IInv'
  BY <1>2, ConstructIInv
<1>3. ASSUME NEW o \in Objs, BeginDestroy(o) PROVE IInv'
  BY <1>3 DEF BeginDestroy, IInv, TypeOK, SingleTrackedInstance, Lives
<1>4. ASSUME NEW o \in Objs, EndDestroy(o) PROVE IInv'
  <2>1. instance = o
    BY <1>4 DEF EndDestroy, IInv, SingleTrackedInstance
  <2>2. \A p \in Objs \ {o} : life[p] \notin Alive
    BY <2>1, <1>4 DEF EndDestroy, IInv, SingleTrackedInstance, Alive
  <2>3. QED
    BY <1>4, <2>2 DEF EndDestroy, IInv, TypeOK, SingleTrackedInstance, Alive, Lives
<1>5. CASE UNCHANGED vars
  BY <1>5 DEF vars, IInv, TypeOK, SingleTrackedInstance
<1>6. QED
  BY <1>1, <1>2, <1>3, <1>4, <1>5 DEF Next

(* In a build with Q_ASSERT, unless an assertion aborted the process, an   *)
(* object is alive exactly when Singleton::instance() returns it: the      *)
(* base constructor and destructor keep _instance on the one live object.  *)
THEOREM SingleInstanceTracked ==
  ASSUME AssertsOn
  PROVE  Spec => []SingleTrackedInstance
<1>1. Init => IInv
  BY InitIInv
<1>2. IInv /\ [Next]_vars => IInv'
  BY NextIInv
<1>3. IInv => SingleTrackedInstance
  BY DEF IInv
<1>4. QED
  BY <1>1, <1>2, <1>3, PTL DEF Spec

=============================================================================

------------------------ MODULE NullableValueProofs ------------------------
(***************************************************************************)
(* LifetimeBalanced holds for every set of nullable_t variables and values *)
(* of T, whether or not T's operations throw.  With the type invariant it  *)
(* is inductive: each operation that places a T in _data sets _valid, and  *)
(* each that sets _valid false destroys the T through clear() first.       *)
(* ComparisonsMatchValue then needs only the type invariant and that the  *)
(* empty marker is no value of T.                                          *)
(***************************************************************************)
EXTENDS NullableValue, TLAPS

USE MayThrowAssumption, ValsAssumption

(* clear() leaves no T behind in a live nullable_t.                        *)
LEMMA ClearedLiveZero ==
  ASSUME IInv, NEW w \in Slots, alive[w]
  PROVE  ClearedLive(w) = 0
BY DEF IInv, TypeOK, LifetimeBalanced, ClearedLive

(* The initial state satisfies the inductive invariant.                    *)
LEMMA InitIInv == Init => IInv
BY DEF Init, IInv, TypeOK, LifetimeBalanced, Values, MovedFrom

(* Every step preserves the inductive invariant.                           *)
LEMMA NextIInv == IInv /\ [Next]_vars => IInv'
<1> SUFFICES ASSUME IInv, [Next]_vars PROVE IInv'
  OBVIOUS
<1> USE DEF IInv, TypeOK, LifetimeBalanced, Values
<1>1. ASSUME NEW w \in Slots, ConstructNull(w) PROVE IInv'
  BY <1>1 DEF ConstructNull
<1>2. ASSUME NEW w \in Slots, Clear(w) PROVE IInv'
  BY <1>2, ClearedLiveZero DEF Clear
<1>3. ASSUME NEW w \in Slots, Destroy(w) PROVE IInv'
  BY <1>3, ClearedLiveZero DEF Destroy
<1>4. ASSUME NEW w \in Slots, NEW v \in Vals, ConstructValue(w, v) PROVE IInv'
  BY <1>4 DEF ConstructValue
<1>5. ASSUME NEW w \in Slots, NEW v \in Vals, NEW t \in Throws,
             AssignValue(w, v, t)
      PROVE IInv'
  <2>1. CASE valid[w]
    <3>1. UNCHANGED <<alive, valid, live>>
      BY <1>5, <2>1 DEF AssignValue
    <3>2. \E nv \in Values : val' = [val EXCEPT ![w] = nv]
      BY <1>5, <2>1 DEF AssignValue
    <3>3. QED
      BY <3>1, <3>2
  <2>2. CASE ~valid[w] /\ t
    BY <1>5, <2>2 DEF AssignValue
  <2>3. CASE ~valid[w] /\ ~t
    <3>1. /\ val' = [val EXCEPT ![w] = v]
          /\ live' = [live EXCEPT ![w] = @ + 1]
          /\ valid' = [valid EXCEPT ![w] = TRUE]
          /\ UNCHANGED alive /\ alive[w]
      BY <1>5, <2>3, Zenon DEF AssignValue
    <3>2. QED
      BY <2>3, <3>1
  <2>4. QED
    BY <2>1, <2>2, <2>3 DEF Throws
<1>6. ASSUME NEW w \in Slots, NEW v \in Vals, NEW t \in Throws,
             Emplace(w, v, t)
      PROVE IInv'
  <2>1. alive[w] /\ UNCHANGED alive /\ ClearedLive(w) = 0
    BY <1>6, ClearedLiveZero DEF Emplace
  <2>2. CASE t
    <3>1. /\ valid' = [valid EXCEPT ![w] = FALSE]
          /\ live' = [live EXCEPT ![w] = ClearedLive(w)]
          /\ UNCHANGED val
      BY <1>6, <2>2, Zenon DEF Emplace
    <3>2. QED
      BY <2>1, <3>1
  <2>3. CASE ~t
    <3>1. /\ valid' = [valid EXCEPT ![w] = TRUE]
          /\ val' = [val EXCEPT ![w] = v]
          /\ live' = [live EXCEPT ![w] = ClearedLive(w) + 1]
      BY <1>6, <2>3, Zenon DEF Emplace
    <3>2. QED
      BY <2>1, <3>1
  <2>4. QED
    BY <2>2, <2>3 DEF Throws
<1>7. ASSUME NEW w \in Slots, NEW src \in Slots, NEW mv \in BOOLEAN,
             ConstructFrom(w, src, mv)
      PROVE IInv'
  <2>1. ~alive[w] /\ w # src /\ alive' = [alive EXCEPT ![w] = TRUE]
        /\ valid' = [valid EXCEPT ![w] = valid[src]]
    BY <1>7 DEF ConstructFrom
  <2>2. CASE valid[src]
    <3>1. live' = [live EXCEPT ![w] = @ + 1]
      BY <1>7, <2>2 DEF ConstructFrom
    <3>2. val' = [val EXCEPT ![w] = val[src],
                             ![src] = IF mv THEN MovedFrom ELSE @]
      BY <1>7, <2>2 DEF ConstructFrom
    <3>3. QED
      BY <2>1, <2>2, <3>1, <3>2 DEF MovedFrom
  <2>3. CASE ~valid[src]
    BY <1>7, <2>1, <2>3 DEF ConstructFrom
  <2>4. QED
    BY <2>2, <2>3
<1>8. ASSUME NEW w \in Slots, NEW src \in Slots, NEW mv \in BOOLEAN,
             AssignFrom(w, src, mv)
      PROVE IInv'
  <2>1. CASE valid[src] /\ valid[w]
    <3>1. UNCHANGED <<alive, valid, live>>
      BY <1>8, <2>1 DEF AssignFrom
    <3>2. \E nv \in Values :
            val' = [val EXCEPT ![src] = IF mv THEN MovedFrom ELSE @, ![w] = nv]
      BY <1>8, <2>1 DEF AssignFrom, MovedFrom
    <3>3. QED
      BY <3>1, <3>2 DEF MovedFrom
  <2>2. CASE valid[src] /\ ~valid[w]
    <3>1. PICK t \in Throws :
            IF t THEN UNCHANGED <<valid, val, live>>
                 ELSE /\ val' = [val EXCEPT ![src] = IF mv THEN MovedFrom ELSE @,
                                            ![w] = val[src]]
                      /\ live' = [live EXCEPT ![w] = @ + 1]
                      /\ valid' = [valid EXCEPT ![w] = TRUE]
      BY <1>8, <2>2 DEF AssignFrom
    <3>2. UNCHANGED alive /\ alive[w]
      BY <1>8 DEF AssignFrom
    <3>3. CASE t
      BY <3>1, <3>2, <3>3
    <3>4. CASE ~t
      <4>1. /\ val' = [val EXCEPT ![src] = IF mv THEN MovedFrom ELSE @,
                                  ![w] = val[src]]
            /\ live' = [live EXCEPT ![w] = @ + 1]
            /\ valid' = [valid EXCEPT ![w] = TRUE]
        BY <3>1, <3>4, Zenon
      <4>2. QED
        BY <2>2, <3>2, <4>1 DEF MovedFrom
    <3>5. QED
      BY <3>3, <3>4 DEF Throws
  <2>3. CASE ~valid[src]
    <3>1. /\ valid' = [valid EXCEPT ![w] = FALSE]
          /\ live' = [live EXCEPT ![w] = ClearedLive(w)]
          /\ UNCHANGED <<val, alive>>
      BY <1>8, <2>3 DEF AssignFrom
    <3>2. alive[w]
      BY <1>8 DEF AssignFrom
    <3>3. QED
      BY <3>1, <3>2, ClearedLiveZero
  <2>4. QED
    BY <2>1, <2>2, <2>3
<1>9. CASE UNCHANGED vars
  BY <1>9 DEF vars
<1>10. QED
  BY <1>1, <1>2, <1>3, <1>4, <1>5, <1>6, <1>7, <1>8, <1>9 DEF Next

(* Whatever sequence of constructions, copies, moves, self-assignments,    *)
(* emplaces, clears and destructions runs, and whichever of T's            *)
(* operations throw, a nullable_t holds one live T exactly when it is      *)
(* alive and _valid, and none otherwise.                                   *)
THEOREM LifetimeAlwaysBalanced == Spec => []LifetimeBalanced
<1>1. Init => IInv
  BY InitIInv
<1>2. IInv /\ [Next]_vars => IInv'
  BY NextIInv
<1>3. IInv => LifetimeBalanced
  BY DEF IInv
<1>4. QED
  BY <1>1, <1>2, <1>3, PTL DEF Spec

(* In a well-typed state each comparison agrees with the optional values: *)
(* a valid nullable_t stands for a value of T or a moved-from T, never     *)
(* for the empty marker, so the empty and the valid cases never meet.      *)
LEMMA TypeComparisons == TypeOK => ComparisonsMatchValue
<1> SUFFICES ASSUME TypeOK,
                    NEW a \in {w \in Slots : alive[w]},
                    NEW b \in {w \in Slots : alive[w]},
                    NEW v \in Vals
             PROVE  /\ NullableEq(a, b) <=> Opt(a) = Opt(b)
                    /\ NullableNe(a, b) <=> Opt(a) # Opt(b)
                    /\ ValueEq(a, v) <=> Opt(a) = v
                    /\ ValueNe(a, v) <=> Opt(a) # v
                    /\ IsNull(a) <=> Opt(a) = NoValue
  BY DEF ComparisonsMatchValue
<1>1. val[a] \in Values /\ val[b] \in Values
      /\ valid[a] \in BOOLEAN /\ valid[b] \in BOOLEAN
  BY DEF TypeOK
<1>2. val[a] # NoValue /\ val[b] # NoValue /\ v # NoValue
  BY <1>1 DEF Values, MovedFrom, NoValue
<1>3. QED
  BY <1>1, <1>2, Zenon
     DEF NullableEq, NullableNe, ValueEq, ValueNe, IsNull, Opt

(* Whatever the operations did before, the ten comparison operators of     *)
(* nullable_t agree with comparing the optional values the operands stand  *)
(* for, and != is the negation of ==.                                      *)
THEOREM ComparisonsAlwaysMatch == Spec => []ComparisonsMatchValue
<1>1. Init => IInv
  BY InitIInv
<1>2. IInv /\ [Next]_vars => IInv'
  BY NextIInv
<1>3. IInv => ComparisonsMatchValue
  BY TypeComparisons DEF IInv
<1>4. QED
  BY <1>1, <1>2, <1>3, PTL DEF Spec
=============================================================================

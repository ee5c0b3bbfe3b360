---------------------------- MODULE NullableValue ----------------------------
(***************************************************************************)
(* nullable_t<T> (src/common/src/builtin/util.h): an optional T held in    *)
(* raw aligned storage plus a _valid flag, with T constructed by placement *)
(* new and destroyed by an explicit ~T() call.  Variables of the type are  *)
(* constructed, copied and moved from one another (self-assignment         *)
(* included), assigned values and nullptr, emplaced, cleared and           *)
(* destroyed.  T's constructors and assignments may throw.                 *)
(*                                                                         *)
(* live[w] counts the T objects alive in w's storage (placement-new calls  *)
(* minus ~T() calls); a value is a model value, or MovedFrom after         *)
(* std::move took it.                                                      *)
(***************************************************************************)
EXTENDS Integers

CONSTANTS
  Slots,     \* nullable_t variables
  Vals,      \* values of T
  MayThrow   \* TRUE: T's constructors and assignments can throw

ASSUME MayThrowAssumption == MayThrow \in BOOLEAN

MovedFrom == "movedFrom"
Values == Vals \cup {MovedFrom}
Throws == IF MayThrow THEN BOOLEAN ELSE {FALSE}

VARIABLES
  alive,  \* alive[w]: the nullable_t itself is constructed and not destroyed
  valid,  \* _valid
  val,    \* the value of the T in _data (meaningful when live[w] = 1)
  live    \* T objects constructed in _data and not yet destroyed

vars == <<alive, valid, val, live>>

TypeOK ==
  /\ alive \in [Slots -> BOOLEAN]
  /\ valid \in [Slots -> BOOLEAN]
  /\ val \in [Slots -> Values]
  /\ live \in [Slots -> Int]

Init ==
  /\ alive = [w \in Slots |-> FALSE]
  /\ valid = [w \in Slots |-> FALSE]
  /\ val = [w \in Slots |-> MovedFrom]
  /\ live = [w \in Slots |-> 0]

(* clear(): if (_valid) { _valid = false; get().~T(); }                    *)
ClearedLive(w) == IF valid[w] THEN live[w] - 1 ELSE live[w]

(* nullable_t() and nullable_t(nullptr).                                   *)
ConstructNull(w) ==
  /\ ~alive[w]
  /\ alive' = [alive EXCEPT ![w] = TRUE]
  /\ valid' = [valid EXCEPT ![w] = FALSE]
  /\ UNCHANGED <<val, live>>

(* nullable_t(const T&) / nullable_t(T&&): placement-new a T (a throwing   *)
(* constructor leaves no nullable_t at all: nothing changes).              *)
ConstructValue(w, v) ==
  /\ ~alive[w]
  /\ alive' = [alive EXCEPT ![w] = TRUE]
  /\ valid' = [valid EXCEPT ![w] = TRUE]
  /\ val' = [val EXCEPT ![w] = v]
  /\ live' = [live EXCEPT ![w] = @ + 1]

(* Copy and move constructors (and the converting ones): _valid from the   *)
(* source, and a T copied or moved from the source's when it is valid.     *)
ConstructFrom(dst, src, move) ==
  /\ ~alive[dst] /\ alive[src] /\ dst # src
  /\ alive' = [alive EXCEPT ![dst] = TRUE]
  /\ valid' = [valid EXCEPT ![dst] = valid[src]]
  /\ IF valid[src]
       THEN /\ live' = [live EXCEPT ![dst] = @ + 1]
            /\ val' = [val EXCEPT ![dst] = val[src],
                                  ![src] = IF move THEN MovedFrom ELSE @]
       ELSE UNCHANGED <<val, live>>

(* operator=(nullptr) and clear().                                         *)
Clear(w) ==
  /\ alive[w]
  /\ valid' = [valid EXCEPT ![w] = FALSE]
  /\ live' = [live EXCEPT ![w] = ClearedLive(w)]
  /\ UNCHANGED <<alive, val>>

(* operator=(const T&) / operator=(T&&) with the value v of an outside T:  *)
(* assign into the held T, or placement-new one and set _valid.  A         *)
(* throwing assignment leaves the held T with some valid value; a          *)
(* throwing construction leaves the nullable_t empty.                      *)
AssignValue(w, v, throws) ==
  /\ alive[w]
  /\ IF valid[w]
       THEN /\ \E nv \in IF throws THEN {val[w], v} ELSE {v} :
                 val' = [val EXCEPT ![w] = nv]
            /\ UNCHANGED <<valid, live>>
       ELSE IF throws
              THEN UNCHANGED <<valid, val, live>>
              ELSE /\ val' = [val EXCEPT ![w] = v]
                   /\ live' = [live EXCEPT ![w] = @ + 1]
                   /\ valid' = [valid EXCEPT ![w] = TRUE]
  /\ UNCHANGED alive

(* operator=(const nullable_t&) / operator=(nullable_t&&), self-assignment *)
(* included: if the source is valid, assign its T (moving leaves it        *)
(* MovedFrom; a self-move leaves an unspecified value), else clear().      *)
AssignFrom(dst, src, move) ==
  /\ alive[dst] /\ alive[src]
  /\ IF valid[src]
       THEN \E throws \in Throws :
              LET v == val[src]
              IN IF valid[dst]
                   THEN /\ \E nv \in (IF throws THEN {val[dst], v} ELSE {v})
                                     \cup (IF move /\ dst = src THEN {MovedFrom} ELSE {}) :
                             val' = [val EXCEPT ![src] = IF move THEN MovedFrom ELSE @,
                                                ![dst] = nv]
                        /\ UNCHANGED <<valid, live>>
                   ELSE IF throws
                          THEN UNCHANGED <<valid, val, live>>
                          ELSE /\ val' = [val EXCEPT ![src] = IF move THEN MovedFrom ELSE @,
                                                     ![dst] = v]
                               /\ live' = [live EXCEPT ![dst] = @ + 1]
                               /\ valid' = [valid EXCEPT ![dst] = TRUE]
       ELSE /\ valid' = [valid EXCEPT ![dst] = FALSE]
            /\ live' = [live EXCEPT ![dst] = ClearedLive(dst)]
            /\ UNCHANGED val
  /\ UNCHANGED alive

(* Mutant: emplace() constructs over the held T without clearing it.       *)
EmplaceNoClear(w, v, throws) ==
  /\ alive[w]
  /\ IF throws
       THEN /\ valid' = [valid EXCEPT ![w] = FALSE]
            /\ UNCHANGED <<val, live>>
       ELSE /\ valid' = [valid EXCEPT ![w] = TRUE]
            /\ val' = [val EXCEPT ![w] = v]
            /\ live' = [live EXCEPT ![w] = @ + 1]
  /\ UNCHANGED alive

(* emplace(args...) (and defaultConstructIfNull() on an empty one):       *)
(* clear(), then placement-new a T and set _valid; "if the new T's         *)
(* constructor throws, the nullable_t becomes empty".                      *)
Emplace(w, v, throws) ==
  /\ alive[w]
  /\ IF throws
       THEN /\ valid' = [valid EXCEPT ![w] = FALSE]
            /\ live' = [live EXCEPT ![w] = ClearedLive(w)]
            /\ UNCHANGED val
       ELSE /\ valid' = [valid EXCEPT ![w] = TRUE]
            /\ val' = [val EXCEPT ![w] = v]
            /\ live' = [live EXCEPT ![w] = ClearedLive(w) + 1]
  /\ UNCHANGED alive

(* ~nullable_t(): clear().                                                 *)
Destroy(w) ==
  /\ alive[w]
  /\ alive' = [alive EXCEPT ![w] = FALSE]
  /\ valid' = [valid EXCEPT ![w] = FALSE]
  /\ live' = [live EXCEPT ![w] = ClearedLive(w)]
  /\ UNCHANGED val

-----------------------------------------------------------------------------
(* The comparison operators of nullable_t (free functions in util.h).      *)

(* a == b between two nullable_t: a ? b && *a == *b : !b                   *)
NullableEq(a, b) == IF valid[a] THEN valid[b] /\ val[a] = val[b] ELSE ~valid[b]

(* Mutant: a != b with the empty branch copied from operator==.            *)
NullableNeCopied(a, b) ==
  IF valid[a] THEN ~valid[b] \/ val[a] # val[b] ELSE ~valid[b]

(* a != b between two nullable_t: a ? !b || *a != *b : !!b                 *)
NullableNe(a, b) == IF valid[a] THEN ~valid[b] \/ val[a] # val[b] ELSE valid[b]

(* a == b and b == a with a plain U: a && *a == b                          *)
ValueEq(a, v) == valid[a] /\ val[a] = v

(* a != b and b != a with a plain U: !a || *a != b                         *)
ValueNe(a, v) == ~valid[a] \/ val[a] # v

(* a == nullptr and nullptr == a: !a (and != is !!a).                      *)
IsNull(a) == ~valid[a]

Next ==
  \E w \in Slots :
    \/ ConstructNull(w) \/ Clear(w) \/ Destroy(w)
    \/ \E v \in Vals : ConstructValue(w, v)
    \/ \E v \in Vals, throws \in Throws : AssignValue(w, v, throws) \/ Emplace(w, v, throws)
    \/ \E src \in Slots, move \in BOOLEAN :
         ConstructFrom(w, src, move) \/ AssignFrom(w, src, move)

Spec == Init /\ [][Next]_vars

-----------------------------------------------------------------------------
(* Every T constructed in a nullable_t's storage is destroyed exactly      *)
(* once, and _valid says whether one is there: after any sequence of       *)
(* copies, moves, self-assignments, emplaces and throwing constructors or  *)
(* assignments, a live nullable_t holds one T exactly when it is valid,    *)
(* and a destroyed one holds none (no leak, no double ~T(), no get() on    *)
(* raw storage while _valid says a T is there).                            *)
LifetimeBalanced ==
  \A w \in Slots : live[w] = IF alive[w] /\ valid[w] THEN 1 ELSE 0

(* The inductive invariant of the proofs (NullableValueProofs).            *)
IInv == TypeOK /\ LifetimeBalanced

\* The value a nullable_t stands for: its T's value, or NoValue when empty.
NoValue == "noValue"
Opt(w) == IF valid[w] THEN val[w] ELSE NoValue

\* The empty marker is no value of T.
ASSUME ValsAssumption == NoValue \notin Vals

(* The ten comparison operators agree with comparing the optional values   *)
(* they stand for (empty equals only empty and nullptr, never a T), in     *)
(* every state the nullable_t operations reach, and != is always the      *)
(* negation of ==, so code that tests a nullable_t either way takes the    *)
(* same branch.                                                            *)
ComparisonsMatchValue ==
  \A a, b \in {w \in Slots : alive[w]}, v \in Vals :
    /\ NullableEq(a, b) <=> Opt(a) = Opt(b)
    /\ NullableNe(a, b) <=> Opt(a) # Opt(b)
    /\ ValueEq(a, v) <=> Opt(a) = v
    /\ ValueNe(a, v) <=> Opt(a) # v
    /\ IsNull(a) <=> Opt(a) = NoValue
=============================================================================

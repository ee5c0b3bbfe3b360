---------------------------- MODULE ScopeSentinel ----------------------------
(***************************************************************************)
(* RAII_SENTINEL / AT_SCOPE_EXIT and raii_sentinel_t                       *)
(* (src/common/src/builtin/util.h): a block of code, captured by reference *)
(* in a lambda, is held by a sentinel object whose destructor calls it.    *)
(* A sentinel can be move-constructed into another (returned from a        *)
(* function, stored in a member or a container); a moved-from closure      *)
(* with reference captures still runs the same block.                      *)
(***************************************************************************)
EXTENDS Naturals

CONSTANTS
  Sentinels,  \* raii_sentinel_t objects
  Blocks      \* scheduled blocks of code

\* Calls of a block counted up to 2: 2 already means it ran twice.
RunCap == 2

VARIABLES
  alive,      \* alive[g]: sentinel g is constructed and not destroyed
  fn,         \* fn[g]: the block sentinel g's _fn runs
  scheduled,  \* blocks a RAII_SENTINEL has scheduled
  runs        \* runs[x]: calls of block x

vars == <<alive, fn, scheduled, runs>>

TypeOK ==
  /\ alive \in [Sentinels -> BOOLEAN]
  /\ fn \in [Sentinels -> Blocks]
  /\ scheduled \subseteq Blocks
  /\ runs \in [Blocks -> 0..RunCap]

Init ==
  /\ alive = [g \in Sentinels |-> FALSE]
  /\ fn = [g \in Sentinels |-> CHOOSE x \in Blocks : TRUE]
  /\ scheduled = {}
  /\ runs = [x \in Blocks |-> 0]

(* RAII_SENTINEL(block): raii_sentinel() converts the lambda into the      *)
(* returned raii_sentinel_t, which initialises the variable (no move: the  *)
(* returned prvalue is the variable).                                      *)
Schedule(g, x) ==
  /\ ~alive[g]
  /\ x \notin scheduled
  /\ alive' = [alive EXCEPT ![g] = TRUE]
  /\ fn' = [fn EXCEPT ![g] = x]
  /\ scheduled' = scheduled \cup {x}
  /\ UNCHANGED runs

(* raii_sentinel_t(raii_sentinel_t&&): _fn(std::move(move._fn)); the      *)
(* source keeps a closure that runs the same block.                        *)
MoveConstruct(dst, src) ==
  /\ ~alive[dst] /\ alive[src]
  /\ alive' = [alive EXCEPT ![dst] = TRUE]
  /\ fn' = [fn EXCEPT ![dst] = fn[src]]
  /\ UNCHANGED <<scheduled, runs>>

(* ~raii_sentinel_t(): _fn().                                              *)
ScopeExit(g) ==
  /\ alive[g]
  /\ alive' = [alive EXCEPT ![g] = FALSE]
  /\ runs' = [runs EXCEPT ![fn[g]] = IF @ < RunCap THEN @ + 1 ELSE @]
  /\ UNCHANGED <<fn, scheduled>>

Next ==
  \E g \in Sentinels :
    \/ \E x \in Blocks : Schedule(g, x)
    \/ \E src \in Sentinels : MoveConstruct(g, src)
    \/ ScopeExit(g)

Spec == Init /\ [][Next]_vars

-----------------------------------------------------------------------------
(* util.h: RAII_SENTINEL schedules a block "to run at the end of the       *)
(* current scope", once; spec.md 7 gives the RAII helpers the semantics    *)
(* "free exactly once on scope exit": no block runs twice, wherever its    *)
(* sentinel is moved.                                                      *)
RunsOnce == \A x \in Blocks : runs[x] <= 1
=============================================================================

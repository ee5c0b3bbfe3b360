------------------------------ MODULE DaemonMain ------------------------------
(***************************************************************************)
(* The POSIX daemon's entry point (src/daemon/src/posix/posix_main.cpp):   *)
(* set up the application and the terminate handler, parse the command     *)
(* line (errors, --help and --version return early), then construct and   *)
(* start PosixDaemon, whose `started` signal runs the Qt event loop and    *)
(* whose `stopped` signal quits it.  An Error thrown by the daemon is      *)
(* caught and logged; any other exception reaches terminateHandler(),      *)
(* which aborts the process through qFatal().                              *)
(*                                                                         *)
(* PosixDaemon's bodies are not under src/: what the daemon does is a      *)
(* choice among the outcomes main() handles.                               *)
(***************************************************************************)
EXTENDS Integers

Arguments == {"invalid", "help", "version", "run"}
\* How PosixDaemon's construction or start() ends before the event loop.
StartOutcomes == {"started", "throwsError", "throwsOther"}
\* What an exception escaping the event loop is.
LoopExceptions == {"Error", "other"}

\* exitCode before main() declares it.
Undeclared == -1

VARIABLES
  pc,        \* where main() is
  handler,   \* the installed std::terminate handler
  exitCode,  \* main()'s local exitCode
  loop,      \* the Qt event loop: "none", "running", or "quit" requested
  ended,     \* "running", "exited" (main returned) or "signalled" (abort)
  status     \* the exit status main() returned, once it returned

vars == <<pc, handler, exitCode, loop, ended, status>>

TypeOK ==
  /\ pc \in {"init", "parse", "daemon", "loop", "afterTry", "exited"}
  /\ handler \in {"default", "terminateHandler"}
  /\ exitCode \in {Undeclared, 0, 1}
  /\ loop \in {"none", "running", "quit"}
  /\ ended \in {"running", "exited", "signalled"}
  /\ status \in 0..255

Init ==
  /\ pc = "init"
  /\ handler = "default"
  /\ exitCode = Undeclared
  /\ loop = "none"
  /\ ended = "running"
  /\ status = 0

(* terminateHandler(): restore the previous handler, then qFatal().        *)
Terminate ==
  /\ pc' = "exited"
  /\ handler' = "default"
  /\ ended' = "signalled"
  /\ UNCHANGED <<exitCode, loop, status>>

(* Locale, logger, umask, paths, QCoreApplication, and                     *)
(* g_oldTerminateHandler = std::set_terminate(terminateHandler).           *)
InitializeApp ==
  /\ pc = "init"
  /\ pc' = "parse"
  /\ handler' = "terminateHandler"
  /\ UNCHANGED <<exitCode, loop, ended, status>>

(* Parse the arguments: a parse error returns -1 (exit status 255),        *)
(* --help and --version return 0; otherwise set up the log file, drop     *)
(* privileges and set exitCode = 1.                                        *)
ParseArguments(arg) ==
  /\ pc = "parse"
  /\ IF arg = "run"
       THEN pc' = "daemon" /\ exitCode' = 1 /\ UNCHANGED <<ended, status>>
       ELSE /\ pc' = "exited"
            /\ ended' = "exited"
            /\ status' = IF arg = "invalid" THEN (-1) % 256 ELSE 0
            /\ UNCHANGED exitCode
  /\ UNCHANGED <<handler, loop>>

(* PosixDaemon daemon; daemon.start(): `started` runs exec(), or an        *)
(* exception leaves the try block before the loop runs.                    *)
StartDaemon(outcome) ==
  /\ pc = "daemon"
  /\ CASE outcome = "started" ->
            pc' = "loop" /\ loop' = "running"
            /\ UNCHANGED <<handler, exitCode, ended, status>>
       [] outcome = "throwsError" ->
            pc' = "afterTry" /\ UNCHANGED <<handler, exitCode, loop, ended, status>>
       [] outcome = "throwsOther" -> Terminate

(* The daemon emits `stopped`: QCoreApplication::quit().                   *)
DaemonStopped ==
  /\ pc = "loop" /\ loop = "running"
  /\ loop' = "quit"
  /\ UNCHANGED <<pc, handler, exitCode, ended, status>>

(* exec() returns, then start() does, the daemon is destroyed and          *)
(* exitCode = 0.                                                           *)
LoopReturns ==
  /\ pc = "loop" /\ loop = "quit"
  /\ pc' = "afterTry"
  /\ loop' = "none"
  /\ exitCode' = 0
  /\ UNCHANGED <<handler, ended, status>>

(* An exception escapes a slot run by the event loop and unwinds through   *)
(* exec() and start(): an Error is caught by main(), anything else        *)
(* terminates.                                                             *)
LoopThrows(e) ==
  /\ pc = "loop" /\ loop = "running"
  /\ IF e = "Error"
       THEN /\ pc' = "afterTry" /\ loop' = "none"
            /\ UNCHANGED <<handler, exitCode, ended, status>>
       ELSE Terminate

(* Restore the terminate handler, log the exit code, and fall off the end  *)
(* of main(), which returns 0.                                             *)
Finish ==
  /\ pc = "afterTry"
  /\ pc' = "exited"
  /\ handler' = "default"
  /\ ended' = "exited"
  /\ status' = 0
  /\ UNCHANGED <<exitCode, loop>>

Next ==
  \/ InitializeApp
  \/ \E arg \in Arguments : ParseArguments(arg)
  \/ \E o \in StartOutcomes : StartDaemon(o)
  \/ DaemonStopped
  \/ LoopReturns
  \/ \E e \in LoopExceptions : LoopThrows(e)
  \/ Finish

Spec == Init /\ [][Next]_vars

-----------------------------------------------------------------------------
(* main() logs "Exited daemon with error code" when the daemon failed with *)
(* an Error: the process's exit status then reports a failure too, so the *)
(* init system or the install script that runs the daemon can see it.     *)
ExitStatusReflectsFailure ==
  (ended = "exited" /\ exitCode = 1) => status # 0
=============================================================================

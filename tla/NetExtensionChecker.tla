------------------------- MODULE NetExtensionChecker -------------------------
(***************************************************************************)
(* NetExtensionChecker (src/daemon/src/mac/net_extension_checker.cpp): a   *)
(* QTimer polls the transparent-proxy CLI and emits stateChanged() when    *)
(* the installed state differs from _lastState.                            *)
(*                                                                         *)
(* The slot runs on the daemon's thread, so start(), stop() and            *)
(* updateTimer() never interleave with a poll.  The two CLI commands of    *)
(* isInstalled() are separate processes, and the system extension and the  *)
(* proxy can change between them: a poll is two steps with environment     *)
(* steps allowed in between.                                               *)
(*                                                                         *)
(* A CLI output is abstracted to the set of markers it contains, so        *)
(* std::string::find(m) != npos is m \in out.                              *)
(***************************************************************************)
EXTENDS Naturals

Installed == "Installed"
NotInstalled == "NotInstalled"
States == {Installed, NotInstalled}

\* Markers isNetExtensionInstalled() and isProxyInstalled() search for.
SysextMarkers == {"bundled installed", "other installed"}
ProxyMarkers == {"uninstalled", "invalid"}

\* _shortInterval and _longInterval; "unset" is QTimer's default interval.
Intervals == {"unset", "short", "long"}

VARIABLES
  timerActive,  \* _timer.isActive()
  interval,     \* _timer.interval()
  lastState,    \* _lastState
  sysextOut,    \* what "sysext status" prints now (environment)
  proxyOut,     \* what "proxy status" prints now (environment)
  pc,           \* "idle", or "proxy": the slot has read the sysext status
  sysextSeen,   \* isNetExtensionInstalled() result held by a running slot
  known         \* the listener's view: the last stateChanged() argument

vars == <<timerActive, interval, lastState, sysextOut, proxyOut, pc,
          sysextSeen, known>>

TypeOK ==
  /\ timerActive \in BOOLEAN
  /\ interval \in Intervals
  /\ lastState \in States
  /\ sysextOut \subseteq SysextMarkers
  /\ proxyOut \subseteq ProxyMarkers
  /\ pc \in {"idle", "proxy"}
  /\ sysextSeen \in BOOLEAN
  /\ known \in States

(* isNetExtensionInstalled(): either accepted marker is in the output.     *)
isNetExtensionInstalled(out) ==
  "bundled installed" \in out \/ "other installed" \in out

(* isProxyInstalled(): any status except uninstalled or invalid.           *)
isProxyInstalled(out) ==
  "uninstalled" \notin out /\ "invalid" \notin out

(* The installed state the CLI reports at this instant.                    *)
Actual ==
  IF isNetExtensionInstalled(sysextOut) /\ isProxyInstalled(proxyOut)
    THEN Installed ELSE NotInstalled

(* Constructor: timer connected, not started.  _lastState is declared in   *)
(* the header (not under src/): any value.  The listener starts with the   *)
(* state the daemon has.                                                   *)
Init ==
  /\ timerActive = FALSE
  /\ interval = "unset"
  /\ lastState \in States
  /\ sysextOut \in SUBSET SysextMarkers
  /\ proxyOut \in SUBSET ProxyMarkers
  /\ pc = "idle"
  /\ sysextSeen = FALSE
  /\ known \in States

(* updateTimer(s): long interval when installed, short otherwise.          *)
updateTimer(s) ==
  /\ pc = "idle"
  /\ interval' = IF s # Installed THEN "short" ELSE "long"
  /\ UNCHANGED <<timerActive, lastState, sysextOut, proxyOut, pc, sysextSeen,
                 known>>

(* start(s): only if the timer is not running; records s, sets the         *)
(* interval for s and starts the timer.                                    *)
start(s) ==
  /\ pc = "idle"
  /\ ~timerActive
  /\ lastState' = s
  /\ interval' = IF s # Installed THEN "short" ELSE "long"
  /\ timerActive' = TRUE
  /\ UNCHANGED <<sysextOut, proxyOut, pc, sysextSeen, known>>

(* stop(): stops an active timer.                                          *)
stop ==
  /\ pc = "idle"
  /\ timerActive
  /\ timerActive' = FALSE
  /\ UNCHANGED <<interval, lastState, sysextOut, proxyOut, pc, sysextSeen,
                 known>>

(* Timer slot, first half: isInstalled() runs "sysext status".             *)
readSysext ==
  /\ timerActive
  /\ pc = "idle"
  /\ pc' = "proxy"
  /\ sysextSeen' = isNetExtensionInstalled(sysextOut)
  /\ UNCHANGED <<timerActive, interval, lastState, sysextOut, proxyOut, known>>

(* Mutant: isInstalled() accepts either component.                          *)
isInstalledEither(ext, proxy) == ext \/ proxy

(* isInstalled(): both commands ran; both must report installed.           *)
isInstalled(ext, proxy) == ext /\ proxy

(* Timer slot, second half: "proxy status", then checkInstallationState()  *)
(* and checkIfNetExtensionStateChanged(): on a difference, record it and   *)
(* emit stateChanged() to the listener.                                    *)
readProxyAndCompare ==
  LET current == IF isInstalled(sysextSeen, isProxyInstalled(proxyOut))
                   THEN Installed ELSE NotInstalled
  IN /\ pc = "proxy"
     /\ pc' = "idle"
     /\ sysextSeen' = FALSE
     /\ IF current # lastState
          THEN lastState' = current /\ known' = current
          ELSE UNCHANGED <<lastState, known>>
     /\ UNCHANGED <<timerActive, interval, sysextOut, proxyOut>>

(* The extension or the proxy is installed, removed or invalidated.        *)
environmentChanges ==
  /\ \/ \E out \in SUBSET SysextMarkers :
          out # sysextOut /\ sysextOut' = out /\ UNCHANGED proxyOut
     \/ \E out \in SUBSET ProxyMarkers :
          out # proxyOut /\ proxyOut' = out /\ UNCHANGED sysextOut
  /\ UNCHANGED <<timerActive, interval, lastState, pc, sysextSeen, known>>

Next ==
  \/ \E s \in States : start(s) \/ updateTimer(s)
  \/ stop
  \/ readSysext
  \/ readProxyAndCompare
  \/ environmentChanges

(* An active QTimer keeps firing and a started command returns; the daemon *)
(* and the environment are under no obligation.                            *)
Fairness == WF_vars(readSysext) /\ WF_vars(readProxyAndCompare)

Spec == Init /\ [][Next]_vars /\ Fairness

-----------------------------------------------------------------------------
(* Once the timer keeps running and the CLI outputs stop changing,        *)
(* _lastState (what the listener was last told, unless start() replaced   *)
(* it) settles on the state the CLI reports: a torn read of the two        *)
(* commands in isInstalled() is only transient.  (While the outputs keep   *)
(* changing, torn reads can report Installed forever even though the CLI   *)
(* never reports both parts installed at once: the premise is needed.)     *)
DetectsChange ==
  (<>[]timerActive /\ <>[][UNCHANGED <<sysextOut, proxyOut>>]_vars)
    => <>[](lastState = Actual)
=============================================================================

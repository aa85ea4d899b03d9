----------------------------- MODULE Connection -----------------------------
(***************************************************************************)
(* Connecting and disconnecting as the Dart app does it: ConnectionNotifier*)
(* drives StartVpnUseCase and StopVpnUseCase, which drive the engine and   *)
(* the operating system through IVpnPlatform.                              *)
(*                                                                         *)
(* A task is one asynchronous call running on the main isolate: a press of *)
(* the connection button, a Wi-Fi event, a flip of the kill-switch setting.*)
(* Tasks interleave at their awaits.  StartEngine runs in a worker isolate;*)
(* StopEngine runs on the main isolate and blocks it while the engine's    *)
(* mutex is taken.  The engine is the one of EngineLifecycle.              *)
(***************************************************************************)
EXTENDS Naturals, FiniteSets

CONSTANTS
    Tasks,      \* asynchronous calls in flight at the same time
    Devices,    \* the devices the app may run on
    MaxStarts,  \* bound: connection attempts
    Events,     \* what may happen besides presses of the button
    Faults,     \* what may go wrong
    Booted      \* vpnBoot has connected before the UI was opened

ASSUME DevicesAssumption == Devices \subseteq {"android", "windowsTun", "windowsProxy"}
ASSUME EventsAssumption == Events \subseteq {"wifi", "toggle"}
ASSUME FaultsAssumption ==
    Faults \subseteq {"denied", "establish", "engine", "noDaemon", "daemonError", "revoke"}
ASSUME BoundAssumption == MaxStarts \in Nat \ {0} /\ Booted \in BOOLEAN

VARIABLES
    device,                 \* the platform, and what resolveInboundMode returns on it
    ui, poll,               \* ConnectionState.status, the polling timer
    pc, flag, attempt,      \* each task: where it is, the kill-switch value it
                            \* holds, the number of its connection attempt
    starts,                 \* attempts so far
    eng, port, engFd,       \* the engine: status, session it serves, fd it owns
    tunFd, fds,             \* engine.tunFd; detached descriptors that are open
    service,                \* VpnService is up
    proxyOn, proxyPort,     \* ProxyEnable and ProxyServer in the registry
    block,                  \* firewall block (Windows), killSwitch flag (Android)
    killSwitch, activeId    \* persisted settings

uiVars == <<ui, poll>>
taskVars == <<pc, flag, attempt>>
engineVars == <<eng, port, engFd, tunFd>>
osVars == <<fds, service, proxyOn, proxyPort, block>>
storeVars == <<killSwitch, activeId>>
vars == <<device, uiVars, taskVars, starts, engineVars, osVars, storeVars>>

None == 0
Attempts == 1 .. MaxStarts
Android == device = "android"
SystemProxy == device = "windowsProxy"

ConnectionStatus == {"disconnected", "connecting", "connected", "disconnecting", "error"}
ConnectPoints == {"load", "prepare", "establish", "engine", "starting", "failed", "rolledBack",
                  "proxyServer", "proxyEnable", "block", "saveId", "success"}
StopPoints == {"stopEngine", "clearProxy", "lift", "teardown", "initial"}
OtherPoints == {"idle", "wifi", "wifiProfile", "toggleSave", "toggleApply", "toggleSet"}

TypeOK ==
    /\ device \in Devices
    /\ ui \in ConnectionStatus /\ poll \in BOOLEAN
    /\ pc \in [Tasks -> ConnectPoints \cup StopPoints \cup OtherPoints]
    /\ flag \in [Tasks -> BOOLEAN]
    /\ attempt \in [Tasks -> Attempts \cup {None}]
    /\ starts \in Attempts \cup {None}
    /\ eng \in {"stopped", "starting", "running", "stopping", "error"}
    /\ {port, engFd, tunFd, proxyPort} \subseteq Attempts \cup {None}
    /\ fds \subseteq Attempts
    /\ {service, proxyOn, block, killSwitch, activeId} \subseteq BOOLEAN

\* After vpnBoot: attempt 1 was made by the headless entry point.
Init ==
    /\ device \in Devices
    /\ ui = "disconnected" /\ poll = FALSE
    /\ pc = [t \in Tasks |-> "idle"]
    /\ flag = [t \in Tasks |-> FALSE]
    /\ attempt = [t \in Tasks |-> None]
    /\ killSwitch \in BOOLEAN
    /\ proxyOn = FALSE /\ proxyPort = None
    /\ IF Booted
       THEN /\ starts = 1 /\ eng = "running" /\ port = 1 /\ engFd = 1 /\ tunFd = 1
            /\ fds = {1} /\ service = TRUE /\ block = killSwitch /\ activeId = TRUE
       ELSE /\ starts = 0 /\ eng = "stopped" /\ port = None /\ engFd = None /\ tunFd = None
            /\ fds = {} /\ service = FALSE /\ block = FALSE /\ activeId = FALSE

-----------------------------------------------------------------------------
(* Helpers.                                                                *)

Busy == ui \in {"connecting", "disconnecting"}
Active == ui = "connected" \/ Busy

\* Mutant: the engine's word is taken as it is.
FromEngineRaw(s) == s

\* ConnectionStatus.fromEngine
FromEngine(s) ==
    CASE s = "starting" -> "connecting"
      [] s = "running" -> "connected"
      [] s = "stopping" -> "disconnecting"
      [] s = "error" -> "error"
      [] OTHER -> "disconnected"

\* The main isolate runs one task at a time, and none while StopEngine blocks it.
MainFree == \A t \in Tasks : pc[t] # "stopEngine"

Goto(t, from, to) ==
    /\ MainFree
    /\ pc[t] = from
    /\ pc' = [pc EXCEPT ![t] = to]

\* IVpnPlatform.teardown: Windows disables the proxy, Android stops the service
\* (closing a detached descriptor does nothing).
Teardown ==
    IF Android
    THEN service' = FALSE /\ UNCHANGED proxyOn
    ELSE proxyOn' = FALSE /\ UNCHANGED service

\* IVpnPlatform.setKillSwitch: an unelevated Windows app that finds no daemon
\* returns without doing anything.
SetKillSwitch(v) ==
    \/ block' = v
    \/ ~Android /\ "noDaemon" \in Faults /\ UNCHANGED block

\* The exception of a daemon call that failed or timed out ends the task where it
\* is; the daemon may have carried the request out all the same.
KillSwitchThrows(t, from, v) ==
    /\ ~Android /\ "daemonError" \in Faults
    /\ Goto(t, from, "idle")
    /\ block' \in {v, block}
    /\ UNCHANGED <<uiVars, flag, attempt, starts, engineVars, fds, service,
                   proxyOn, proxyPort, storeVars>>

-----------------------------------------------------------------------------
(* ConnectionNotifier.connect and StartVpnUseCase.execute.                 *)

Connect(t, from) ==
    /\ ~Busy
    /\ starts < MaxStarts
    /\ Goto(t, from, "load")
    /\ ui' = "connecting"
    /\ starts' = starts + 1
    /\ attempt' = [attempt EXCEPT ![t] = starts + 1]
    /\ UNCHANGED <<poll, flag, engineVars, osVars, storeVars>>

Load(t) ==
    /\ Goto(t, "load", "prepare")
    /\ flag' = [flag EXCEPT ![t] = killSwitch]
    /\ UNCHANGED <<uiVars, attempt, starts, engineVars, osVars, storeVars>>

Prepare(t) ==
    /\ Goto(t, "prepare", IF Android THEN "establish" ELSE "engine")
    /\ UNCHANGED <<uiVars, flag, attempt, starts, engineVars, osVars, storeVars>>

PrepareDenied(t) ==
    /\ Android /\ "denied" \in Faults
    /\ Goto(t, "prepare", "idle")
    /\ ui' = "error"
    /\ UNCHANGED <<poll, flag, attempt, starts, engineVars, osVars, storeVars>>

\* Mutant: setTunFd is forgotten.
EstablishUnhanded(t) ==
    /\ Goto(t, "establish", "engine")
    /\ service' = TRUE
    /\ fds' = fds \cup {attempt[t]}
    /\ UNCHANGED <<uiVars, flag, attempt, starts, engineVars, proxyOn, proxyPort, block, storeVars>>

SetTunFd(n) == tunFd' = n

\* FastFlowVpnService.establish: the detached descriptor goes to the engine.
Establish(t) ==
    /\ Goto(t, "establish", "engine")
    /\ service' = TRUE
    /\ fds' = fds \cup {attempt[t]}
    /\ SetTunFd(attempt[t])
    /\ UNCHANGED <<uiVars, flag, attempt, starts, eng, port, engFd, proxyOn, proxyPort, block,
                   storeVars>>

\* establish() returned null: the channel answers establish_failed, which
\* invokeMethod throws, and nothing on the way up catches it.
EstablishThrows(t) ==
    /\ "establish" \in Faults
    /\ Goto(t, "establish", "idle")
    /\ service' = TRUE
    /\ UNCHANGED <<uiVars, flag, attempt, starts, engineVars, fds, proxyOn, proxyPort,
                   block, storeVars>>

\* The worker isolate enters StartEngine; it does not need the main isolate.
EngineAlreadyRunning(t) ==
    /\ pc[t] = "engine" /\ eng = "running"
    /\ pc' = [pc EXCEPT ![t] = "failed"]
    /\ UNCHANGED <<uiVars, flag, attempt, starts, engineVars, osVars, storeVars>>

EngineStarts(t) ==
    /\ pc[t] = "engine" /\ eng \in {"stopped", "error"}
    /\ pc' = [pc EXCEPT ![t] = "starting"]
    /\ eng' = "starting"
    /\ UNCHANGED <<uiVars, flag, attempt, starts, port, engFd, tunFd, osVars, storeVars>>

\* The core owns the descriptor it was handed; off Android there is none.
OpenTun == engFd' = tunFd

EngineUp(t) ==
    /\ pc[t] = "starting"
    /\ pc' = [pc EXCEPT ![t] = IF SystemProxy THEN "proxyServer" ELSE "block"]
    /\ eng' = "running"
    /\ port' = attempt[t]
    /\ OpenTun
    /\ UNCHANGED <<uiVars, flag, attempt, starts, tunFd, osVars, storeVars>>

\* The core gives up before or after OpenTun took the descriptor over.
EngineFails(t) ==
    /\ "engine" \in Faults
    /\ pc[t] = "starting"
    /\ pc' = [pc EXCEPT ![t] = "failed"]
    /\ eng' = "error"
    /\ fds' \in {fds, fds \ {tunFd}}
    /\ UNCHANGED <<uiVars, flag, attempt, starts, port, engFd, tunFd, service,
                   proxyOn, proxyPort, block, storeVars>>

\* Mutant: a failed start does not roll the OS state back.
RollbackNothing(t) ==
    /\ Goto(t, "failed", "rolledBack")
    /\ UNCHANGED <<uiVars, flag, attempt, starts, engineVars, osVars, storeVars>>

Rollback(t) ==
    /\ Goto(t, "failed", "rolledBack")
    /\ Teardown
    /\ UNCHANGED <<uiVars, flag, attempt, starts, engineVars, fds, proxyPort, block,
                   storeVars>>

ConnectFailed(t) ==
    /\ Goto(t, "rolledBack", "idle")
    /\ ui' = "error"
    /\ UNCHANGED <<poll, flag, attempt, starts, engineVars, osVars, storeVars>>

\* WindowsSystemProxyManager.enable: the address, then the switch.
SetProxyServer(t) ==
    /\ Goto(t, "proxyServer", "proxyEnable")
    /\ proxyPort' = attempt[t]
    /\ UNCHANGED <<uiVars, flag, attempt, starts, engineVars, fds, service, proxyOn,
                   block, storeVars>>

\* Mutant: the switch is never set.
EnableProxyNot(t) ==
    /\ Goto(t, "proxyEnable", "block")
    /\ UNCHANGED <<uiVars, flag, attempt, starts, engineVars, osVars, storeVars>>

EnableProxy(t) ==
    /\ Goto(t, "proxyEnable", "block")
    /\ proxyOn' = TRUE
    /\ UNCHANGED <<uiVars, flag, attempt, starts, engineVars, fds, service, proxyPort,
                   block, storeVars>>

\* Step 5 of StartVpnUseCase, with the settings loaded at its beginning.
EngageKillSwitch(t) ==
    /\ Goto(t, "block", "saveId")
    /\ IF flag[t] THEN SetKillSwitch(TRUE) ELSE UNCHANGED block
    /\ UNCHANGED <<uiVars, flag, attempt, starts, engineVars, fds, service, proxyOn,
                   proxyPort, storeVars>>

EngageThrows(t) == flag[t] /\ KillSwitchThrows(t, "block", TRUE)

SaveActiveId(t) ==
    /\ Goto(t, "saveId", "success")
    /\ activeId' = TRUE
    /\ UNCHANGED <<uiVars, flag, attempt, starts, engineVars, osVars, killSwitch>>

Connected(t) ==
    /\ Goto(t, "success", "idle")
    /\ ui' = "connected"
    /\ poll' = TRUE
    /\ UNCHANGED <<flag, attempt, starts, engineVars, osVars, storeVars>>

-----------------------------------------------------------------------------
(* ConnectionNotifier.disconnect and StopVpnUseCase.execute.               *)

\* Synchronous up to and including StopEngine.
Disconnect(t) ==
    /\ Goto(t, "idle", "stopEngine")
    /\ ui' = "disconnecting"
    /\ poll' = FALSE
    /\ UNCHANGED <<flag, attempt, starts, engineVars, osVars, storeVars>>

\* StopEngine waits for the engine's mutex.
StopEngine(t) ==
    /\ pc[t] = "stopEngine" /\ eng # "starting"
    /\ pc' = [pc EXCEPT ![t] = "clearProxy"]
    /\ eng' = "stopped"
    /\ port' = None /\ engFd' = None
    /\ fds' = fds \ {engFd}
    /\ UNCHANGED <<uiVars, flag, attempt, starts, tunFd, service, proxyOn, proxyPort,
                   block, storeVars>>

\* Mutant: the proxy is left to teardown, which comes after the firewall.
ClearProxyLater(t) ==
    /\ Goto(t, "clearProxy", "lift")
    /\ UNCHANGED <<uiVars, flag, attempt, starts, engineVars, osVars, storeVars>>

ClearProxy(t) ==
    /\ Goto(t, "clearProxy", "lift")
    /\ IF Android THEN UNCHANGED proxyOn ELSE proxyOn' = FALSE
    /\ UNCHANGED <<uiVars, flag, attempt, starts, engineVars, fds, service, proxyPort,
                   block, storeVars>>

LiftKillSwitch(t) ==
    /\ Goto(t, "lift", "teardown")
    /\ SetKillSwitch(FALSE)
    /\ UNCHANGED <<uiVars, flag, attempt, starts, engineVars, fds, service, proxyOn,
                   proxyPort, storeVars>>

LiftThrows(t) == KillSwitchThrows(t, "lift", FALSE)

StopTeardown(t) ==
    /\ Goto(t, "teardown", "initial")
    /\ Teardown
    /\ UNCHANGED <<uiVars, flag, attempt, starts, engineVars, fds, proxyPort, block,
                   storeVars>>

\* Mutant: the state is left at "disconnecting".
DisconnectedNever(t) ==
    /\ Goto(t, "initial", "idle")
    /\ UNCHANGED <<uiVars, flag, attempt, starts, engineVars, osVars, storeVars>>

Disconnected(t) ==
    /\ Goto(t, "initial", "idle")
    /\ ui' = "disconnected"
    /\ UNCHANGED <<poll, flag, attempt, starts, engineVars, osVars, storeVars>>

-----------------------------------------------------------------------------
(* What sets tasks off: the button, the timer, Wi-Fi, the settings form.   *)

\* ConnectionFab is disabled while busy; toggle decides.
Press(t) ==
    /\ ~Busy
    /\ IF Active THEN Disconnect(t) ELSE Connect(t, "idle")

Tick ==
    /\ poll /\ MainFree
    /\ ui' = FromEngine(eng)
    /\ poll' = (FromEngine(eng) \notin {"error", "disconnected"})
    /\ UNCHANGED <<taskVars, starts, engineVars, osVars, storeVars>>

\* HandleWifiChangeUseCase.evaluate on an open network: after the settings, the
\* engine's status; then two more awaits before the notifier acts on the decision.
WifiEvent(t) ==
    /\ "wifi" \in Events
    /\ Goto(t, "idle", "wifi")
    /\ UNCHANGED <<uiVars, flag, attempt, starts, engineVars, osVars, storeVars>>

WifiStatus(t) ==
    /\ Goto(t, "wifi", IF FromEngine(eng) \in {"connected", "connecting"} THEN "idle" ELSE "wifiProfile")
    /\ UNCHANGED <<uiVars, flag, attempt, starts, engineVars, osVars, storeVars>>

WifiNothing(t) ==
    /\ ~activeId \/ Busy \/ starts = MaxStarts
    /\ Goto(t, "wifiProfile", "idle")
    /\ UNCHANGED <<uiVars, flag, attempt, starts, engineVars, osVars, storeVars>>

WifiConnect(t) == activeId /\ Connect(t, "wifiProfile")

\* ToggleKillSwitchUseCase.execute: save, then look at the engine and apply.
Toggle(t) ==
    /\ "toggle" \in Events
    /\ Goto(t, "idle", "toggleSave")
    /\ flag' = [flag EXCEPT ![t] = ~killSwitch]
    /\ UNCHANGED <<uiVars, attempt, starts, engineVars, osVars, storeVars>>

ToggleSave(t) ==
    /\ Goto(t, "toggleSave", "toggleApply")
    /\ killSwitch' = flag[t]
    /\ UNCHANGED <<uiVars, flag, attempt, starts, engineVars, osVars, activeId>>

\* Mutant: the block is applied whatever the engine does.
ToggleApplyAlways(t) ==
    /\ Goto(t, "toggleApply", "idle")
    /\ SetKillSwitch(flag[t])
    /\ UNCHANGED <<uiVars, flag, attempt, starts, engineVars, fds, service, proxyOn,
                   proxyPort, storeVars>>

\* On Android the message that sets the flag is queued in the same turn as the
\* check; on Windows the firewall is reached after further awaits.
ToggleApply(t) ==
    /\ Goto(t, "toggleApply", IF FromEngine(eng) = "connected" /\ ~Android THEN "toggleSet" ELSE "idle")
    /\ block' = (IF FromEngine(eng) = "connected" /\ Android THEN flag[t] ELSE block)
    /\ UNCHANGED <<uiVars, flag, attempt, starts, engineVars, fds, service, proxyOn,
                   proxyPort, storeVars>>

ToggleSet(t) ==
    /\ Goto(t, "toggleSet", "idle")
    /\ SetKillSwitch(flag[t])
    /\ UNCHANGED <<uiVars, flag, attempt, starts, engineVars, fds, service, proxyOn,
                   proxyPort, storeVars>>

ToggleThrows(t) == KillSwitchThrows(t, "toggleSet", flag[t])

\* FastFlowVpnService.onRevoke: another VPN app took over; nobody tells Dart.
Revoke ==
    /\ Android /\ "revoke" \in Faults
    /\ service
    /\ service' = FALSE
    /\ UNCHANGED <<uiVars, taskVars, starts, engineVars, fds, proxyOn, proxyPort, block,
                   storeVars>>

-----------------------------------------------------------------------------

\* The steps a task takes by itself once it was set off.
StartStep(t) ==
    \/ Load(t) \/ Prepare(t) \/ PrepareDenied(t) \/ Establish(t) \/ EstablishThrows(t)
    \/ EngineAlreadyRunning(t) \/ EngineStarts(t)
    \/ Rollback(t) \/ ConnectFailed(t) \/ SetProxyServer(t) \/ EnableProxy(t)
    \/ EngageKillSwitch(t) \/ EngageThrows(t) \/ SaveActiveId(t) \/ Connected(t)

\* What StartEngine answers, when it does.
EngineStep(t) == EngineUp(t) \/ EngineFails(t)

StopStep(t) ==
    \/ StopEngine(t) \/ ClearProxy(t) \/ LiftKillSwitch(t) \/ LiftThrows(t)
    \/ StopTeardown(t) \/ Disconnected(t)

OtherStep(t) ==
    \/ WifiStatus(t) \/ WifiNothing(t) \/ WifiConnect(t)
    \/ ToggleSave(t) \/ ToggleApply(t) \/ ToggleSet(t) \/ ToggleThrows(t)

TaskStep(t) == StartStep(t) \/ StopStep(t) \/ OtherStep(t)

Next ==
    /\ UNCHANGED device
    /\ \/ \E t \in Tasks : Press(t) \/ WifiEvent(t) \/ Toggle(t) \/ TaskStep(t) \/ EngineStep(t)
       \/ Tick
       \/ Revoke

Spec == Init /\ [][Next]_vars

\* Futures complete and the event loop serves every ready task; the timer fires.
\* Nothing says that the core ever returns from StartEngine: EngineStep is not fair.
Fairness ==
    /\ \A t \in Tasks : SF_vars(TaskStep(t) /\ UNCHANGED device)
    /\ WF_vars(Tick /\ UNCHANGED device)

FairSpec == Spec /\ Fairness

-----------------------------------------------------------------------------
(* Properties.                                                             *)

Quiet == \A t \in Tasks : pc[t] = "idle"

\* The OS state that carries an app's traffic to the engine's session.
Routed ==
    /\ Android => service
    /\ SystemProxy => proxyOn /\ proxyPort = port

\* When nothing is in flight, "connected" is backed by a running engine, the OS
\* sends traffic to the very session the engine serves, and the timer is watching,
\* whatever tasks have overlapped before.
ConnectedIsReal == Quiet /\ ui = "connected" => eng = "running" /\ Routed /\ poll

\* When nothing is in flight and the attempt failed, no engine runs and neither
\* the proxy nor the service is left behind.
ErrorIsRolledBack ==
    Quiet /\ ui = "error" => eng # "running" /\ ~proxyOn /\ ~service

\* Where the firewall can be reached, and no flip of the setting reaches it late.
Liftable == Android \/ ("toggle" \notin Events /\ "noDaemon" \notin Faults)

\* After a disconnect nothing is left: no engine, no proxy, no service, and no block
\* that could be lifted, although on Android the setting may have been flipped
\* meanwhile.
DisconnectedIsClean ==
    Quiet /\ ui = "disconnected" =>
        eng = "stopped" /\ ~proxyOn /\ ~service /\ (Liftable => ~block)

\* Whatever attempts overlapped or failed before, a running engine reads the
\* descriptor that was established for its own attempt, and nobody has closed it.
TunIsOwn == Android /\ eng = "running" => engFd = port /\ engFd \in fds

\* A disconnect that the firewall step aborted has stopped the engine and dropped
\* the proxy by then: the machine is offline at worst, never sent to a dead port.
AbortedStopIsOff == Quiet /\ ui = "disconnecting" => eng = "stopped" /\ ~proxyOn

\* Every connect and every disconnect comes to an end on the screen, unless
\* StartEngine never returns.
BusyEnds ==
    \/ \E t \in Tasks : <>[](pc[t] = "starting")
    \/ Busy ~> ~Busy

-----------------------------------------------------------------------------
(* What the comments promise and the code does not keep.                   *)

\* main.dart:72 "the engine must keep running under the AutoConnectService foreground
\* notification": a running engine keeps the OS state that routes to it.
LiveTunnelIsRouted == Quiet /\ eng = "running" => Routed
=============================================================================

-------------------------- MODULE ConnectionProofs --------------------------
(***************************************************************************)
(* Proofs about Connection, for any set of tasks, any number of attempts   *)
(* and any set of faults.  The invariant follows the one task that         *)
(* connects or disconnects; the others can only flip the kill switch.      *)
(***************************************************************************)
EXTENDS Connection, TLAPS

-----------------------------------------------------------------------------
(* The invariant.                                                          *)

Early == {"load", "prepare", "establish", "engine"}
Failed == {"failed", "rolledBack"}
Late == {"proxyServer", "proxyEnable", "block", "saveId", "success"}
Stopping == {"clearProxy", "lift", "teardown", "initial"}
Flow == ConnectPoints \cup StopPoints

\* The engine while nobody uses it: what vpnBoot started runs on.
AtRest == IF Booted THEN {"running"} ELSE {"stopped", "error"}

\* Only one task connects or disconnects; the screen says which, and what it says
\* of the engine otherwise is true.
OneFlow == \A t, u \in Tasks : pc[t] \in Flow /\ pc[u] \in Flow => t = u
UiInv ==
    /\ \A t \in Tasks : pc[t] \in ConnectPoints => ui = "connecting"
    /\ \A t \in Tasks : pc[t] \in StopPoints => ui = "disconnecting"
    /\ \A t \in Tasks : pc[t] \notin {"wifi", "wifiProfile"}
    /\ poll <=> ui = "connected"

\* The engine at each point of that task.
EngineInv ==
    /\ \A t \in Tasks :
        /\ pc[t] \in Early => eng \in AtRest
        /\ pc[t] = "starting" => eng = "starting" /\ ~Booted
        /\ pc[t] \in Failed => eng \in AtRest
        /\ pc[t] \in Late => eng = "running" /\ port = attempt[t] /\ ~Booted
        /\ pc[t] = "stopEngine" => eng = "running" /\ ~Booted
        /\ pc[t] \in Stopping => eng = "stopped" /\ ~Booted
    /\ ui = "connected" => eng = "running" /\ ~Booted
    /\ ui = "disconnected" => eng = (IF Booted THEN "running" ELSE "stopped")
    /\ ui = "error" => eng \in AtRest
    /\ ui = "disconnecting" => eng = "stopped" \/ \E t \in Tasks : pc[t] = "stopEngine"

\* The descriptor is handed over and used by the same attempt.
FdInv ==
    Android =>
        /\ \A t \in Tasks : pc[t] \in {"engine", "starting"} => tunFd = attempt[t] /\ tunFd \in fds
        /\ eng = "running" => engFd = port /\ engFd \in fds

\* The proxy is on between its enabling and its clearing, for the engine's port.
ProxyInv ==
    /\ proxyOn => SystemProxy
    /\ \A t \in Tasks :
        /\ pc[t] = "establish" => Android
        /\ pc[t] \in {"proxyServer", "proxyEnable"} => SystemProxy
        /\ pc[t] \in Early \cup Failed \cup {"starting", "proxyServer", "proxyEnable"} => ~proxyOn
        /\ pc[t] \in Stopping \ {"clearProxy"} => ~proxyOn
        /\ pc[t] = "proxyEnable" => proxyPort = attempt[t]
        /\ pc[t] \in {"block", "saveId", "success"} /\ SystemProxy => proxyOn /\ proxyPort = port
    /\ ui = "connected" /\ SystemProxy => proxyOn /\ proxyPort = port
    /\ ui \in {"disconnected", "error"} => ~proxyOn
    /\ ui = "disconnecting" => ~proxyOn \/ \E t \in Tasks : pc[t] \in {"stopEngine", "clearProxy"}

\* The service is up between establish and teardown.
ServiceInv ==
    /\ ~Android /\ ~Booted => ~service
    /\ Android /\ "revoke" \notin Faults =>
        /\ \A t \in Tasks : pc[t] \in {"engine", "starting"} \cup Late => service
        /\ ui = "connected" => service
    /\ ~Booted =>
        /\ \A t \in Tasks : pc[t] \in {"load", "prepare", "establish", "rolledBack", "initial"} => ~service
        /\ ui \in {"disconnected", "error"} => ~service

\* Where the toggle cannot reach the firewall late, and the firewall can be reached,
\* nothing is blocked outside a session.
BlockInv ==
    ~Booted /\ Liftable =>
        /\ \A t \in Tasks :
            /\ pc[t] \in Early \cup Failed \cup {"starting", "proxyServer", "proxyEnable"} => ~block
            /\ pc[t] \in {"teardown", "initial"} => ~block
            /\ pc[t] \in {"toggleSave", "toggleApply", "toggleSet"} => "toggle" \in Events
            /\ pc[t] = "toggleSet" => ~Android
        /\ ui \in {"disconnected", "error"} => ~block

IInv ==
    /\ TypeOK /\ OneFlow /\ UiInv /\ EngineInv /\ FdInv /\ ProxyInv /\ ServiceInv /\ BlockInv

-----------------------------------------------------------------------------
(* Types.                                                                  *)

\* A task that connects has its attempt number.
TypeInv == TypeOK /\ \A t \in Tasks : pc[t] \in ConnectPoints => attempt[t] \in Attempts

\* Every action keeps the variables in their types.
LEMMA TypeStep == TypeInv /\ [Next]_vars => TypeInv'
<1> SUFFICES ASSUME TypeInv, [Next]_vars PROVE TypeInv'
  OBVIOUS
<1> USE DEF TypeInv, TypeOK, Android, SystemProxy, Goto, uiVars, taskVars, engineVars, osVars, storeVars, ConnectionStatus, ConnectPoints, StopPoints, OtherPoints
<1>0. UNCHANGED device
  BY DEF Next, vars
<1>1. ASSUME NEW t \in Tasks, Load(t) PROVE TypeInv'
  BY <1>1, <1>0 DEF Load
<1>2. ASSUME NEW t \in Tasks, Prepare(t) PROVE TypeInv'
  BY <1>2, <1>0 DEF Prepare
<1>3. ASSUME NEW t \in Tasks, PrepareDenied(t) PROVE TypeInv'
  BY <1>3, <1>0 DEF PrepareDenied
<1>4. ASSUME NEW t \in Tasks, Establish(t) PROVE TypeInv'
  BY <1>4, <1>0 DEF Establish, SetTunFd
<1>5. ASSUME NEW t \in Tasks, EstablishThrows(t) PROVE TypeInv'
  BY <1>5, <1>0 DEF EstablishThrows
<1>6. ASSUME NEW t \in Tasks, EngineAlreadyRunning(t) PROVE TypeInv'
  BY <1>6, <1>0 DEF EngineAlreadyRunning
<1>7. ASSUME NEW t \in Tasks, EngineStarts(t) PROVE TypeInv'
  BY <1>7, <1>0 DEF EngineStarts
<1>8. ASSUME NEW t \in Tasks, EngineUp(t) PROVE TypeInv'
  BY <1>8, <1>0 DEF EngineUp, OpenTun
<1>9. ASSUME NEW t \in Tasks, EngineFails(t) PROVE TypeInv'
  BY <1>9, <1>0 DEF EngineFails
<1>10. ASSUME NEW t \in Tasks, Rollback(t) PROVE TypeInv'
  BY <1>10, <1>0 DEF Rollback, Teardown
<1>11. ASSUME NEW t \in Tasks, ConnectFailed(t) PROVE TypeInv'
  BY <1>11, <1>0 DEF ConnectFailed
<1>12. ASSUME NEW t \in Tasks, SetProxyServer(t) PROVE TypeInv'
  BY <1>12, <1>0 DEF SetProxyServer
<1>13. ASSUME NEW t \in Tasks, EnableProxy(t) PROVE TypeInv'
  BY <1>13, <1>0 DEF EnableProxy
<1>14. ASSUME NEW t \in Tasks, EngageKillSwitch(t) PROVE TypeInv'
  BY <1>14, <1>0 DEF EngageKillSwitch, SetKillSwitch
<1>15. ASSUME NEW t \in Tasks, EngageThrows(t) PROVE TypeInv'
  BY <1>15, <1>0 DEF EngageThrows, KillSwitchThrows
<1>16. ASSUME NEW t \in Tasks, SaveActiveId(t) PROVE TypeInv'
  BY <1>16, <1>0 DEF SaveActiveId
<1>17. ASSUME NEW t \in Tasks, Connected(t) PROVE TypeInv'
  BY <1>17, <1>0 DEF Connected
<1>18. ASSUME NEW t \in Tasks, StopEngine(t) PROVE TypeInv'
  BY <1>18, <1>0 DEF StopEngine
<1>19. ASSUME NEW t \in Tasks, ClearProxy(t) PROVE TypeInv'
  BY <1>19, <1>0 DEF ClearProxy
<1>20. ASSUME NEW t \in Tasks, LiftKillSwitch(t) PROVE TypeInv'
  BY <1>20, <1>0 DEF LiftKillSwitch, SetKillSwitch
<1>21. ASSUME NEW t \in Tasks, LiftThrows(t) PROVE TypeInv'
  BY <1>21, <1>0 DEF LiftThrows, KillSwitchThrows
<1>22. ASSUME NEW t \in Tasks, StopTeardown(t) PROVE TypeInv'
  BY <1>22, <1>0 DEF StopTeardown, Teardown
<1>23. ASSUME NEW t \in Tasks, Disconnected(t) PROVE TypeInv'
  BY <1>23, <1>0 DEF Disconnected
<1>24. ASSUME NEW t \in Tasks, WifiStatus(t) PROVE TypeInv'
  BY <1>24, <1>0 DEF WifiStatus
<1>25. ASSUME NEW t \in Tasks, WifiNothing(t) PROVE TypeInv'
  BY <1>25, <1>0 DEF WifiNothing
<1>26. ASSUME NEW t \in Tasks, ToggleSave(t) PROVE TypeInv'
  BY <1>26, <1>0 DEF ToggleSave
<1>27. ASSUME NEW t \in Tasks, ToggleApply(t) PROVE TypeInv'
  BY <1>27, <1>0 DEF ToggleApply
<1>28. ASSUME NEW t \in Tasks, ToggleSet(t) PROVE TypeInv'
  BY <1>28, <1>0 DEF ToggleSet, SetKillSwitch
<1>29. ASSUME NEW t \in Tasks, ToggleThrows(t) PROVE TypeInv'
  BY <1>29, <1>0 DEF ToggleThrows, KillSwitchThrows
<1>30. ASSUME NEW t \in Tasks, WifiEvent(t) PROVE TypeInv'
  BY <1>30, <1>0 DEF WifiEvent
<1>31. ASSUME NEW t \in Tasks, Toggle(t) PROVE TypeInv'
  BY <1>31, <1>0 DEF Toggle
<1>32. ASSUME NEW t \in Tasks, NEW from \in {"idle", "wifiProfile"}, Connect(t, from) PROVE TypeInv'
  <2>1. starts + 1 \in Attempts
    BY <1>32, BoundAssumption DEF Connect, Attempts, None
  <2> QED
    BY <1>32, <2>1, <1>0 DEF Connect
<1>33. ASSUME NEW t \in Tasks, Disconnect(t), ui = "connected" PROVE TypeInv'
  BY <1>33, <1>0 DEF Disconnect
<1>34. CASE Tick
  BY <1>34, <1>0 DEF Tick, FromEngine
<1>35. CASE Revoke
  BY <1>35, <1>0 DEF Revoke
<1>36. CASE UNCHANGED vars
  BY <1>36, <1>0 DEF vars
<1>37. ASSUME NEW t \in Tasks, Press(t) PROVE TypeInv'
  BY <1>37, <1>32, <1>33 DEF Press, Active
<1> QED
  BY <1>1, <1>2, <1>3, <1>4, <1>5, <1>6, <1>7, <1>8, <1>9, <1>10,
     <1>11, <1>12, <1>13, <1>14, <1>15, <1>16, <1>17, <1>18, <1>19, <1>20,
     <1>21, <1>22, <1>23, <1>24, <1>25, <1>26, <1>27, <1>28, <1>29, <1>30,
     <1>31, <1>32, <1>33, <1>34, <1>35, <1>36, <1>37
  DEF Next, TaskStep, StartStep, StopStep, OtherStep, EngineStep, WifiConnect

\* The screen calls the engine connected exactly while it runs.
LEMMA FromEngineIs == FromEngine(eng) = "connected" <=> eng = "running"
BY DEF FromEngine

\* OneFlow is kept by every step.
LEMMA KeepsOneFlow ==
    ASSUME IInv, "wifi" \notin Events, [Next]_vars PROVE OneFlow'
<1> USE DEF Android, SystemProxy, Goto, uiVars, taskVars, engineVars, osVars, storeVars, Early, Failed, Late, Stopping, Flow, ConnectPoints, StopPoints
<1>0. /\ TypeOK /\ OneFlow /\ UiInv /\ EngineInv /\ FdInv /\ ProxyInv /\ ServiceInv /\ BlockInv
      /\ UNCHANGED device
  BY DEF IInv, Next, vars
<1>1. ASSUME NEW t \in Tasks, Load(t) PROVE OneFlow'
  BY <1>1, <1>0 DEF Load, TypeOK, OneFlow, UiInv
<1>2. ASSUME NEW t \in Tasks, Prepare(t) PROVE OneFlow'
  BY <1>2, <1>0 DEF Prepare, TypeOK, OneFlow, UiInv
<1>3. ASSUME NEW t \in Tasks, PrepareDenied(t) PROVE OneFlow'
  BY <1>3, <1>0 DEF PrepareDenied, TypeOK, OneFlow, UiInv
<1>4. ASSUME NEW t \in Tasks, Establish(t) PROVE OneFlow'
  BY <1>4, <1>0 DEF Establish, SetTunFd, TypeOK, OneFlow, UiInv
<1>5. ASSUME NEW t \in Tasks, EstablishThrows(t) PROVE OneFlow'
  BY <1>5, <1>0 DEF EstablishThrows, TypeOK, OneFlow, UiInv
<1>6. ASSUME NEW t \in Tasks, EngineAlreadyRunning(t) PROVE OneFlow'
  BY <1>6, <1>0 DEF EngineAlreadyRunning, TypeOK, OneFlow, UiInv
<1>7. ASSUME NEW t \in Tasks, EngineStarts(t) PROVE OneFlow'
  BY <1>7, <1>0 DEF EngineStarts, TypeOK, OneFlow, UiInv
<1>8. ASSUME NEW t \in Tasks, EngineUp(t) PROVE OneFlow'
  BY <1>8, <1>0 DEF EngineUp, OpenTun, TypeOK, OneFlow, UiInv
<1>9. ASSUME NEW t \in Tasks, EngineFails(t) PROVE OneFlow'
  BY <1>9, <1>0 DEF EngineFails, TypeOK, OneFlow, UiInv
<1>10. ASSUME NEW t \in Tasks, Rollback(t) PROVE OneFlow'
  BY <1>10, <1>0 DEF Rollback, Teardown, TypeOK, OneFlow, UiInv
<1>11. ASSUME NEW t \in Tasks, ConnectFailed(t) PROVE OneFlow'
  BY <1>11, <1>0 DEF ConnectFailed, TypeOK, OneFlow, UiInv
<1>12. ASSUME NEW t \in Tasks, SetProxyServer(t) PROVE OneFlow'
  BY <1>12, <1>0 DEF SetProxyServer, TypeOK, OneFlow, UiInv
<1>13. ASSUME NEW t \in Tasks, EnableProxy(t) PROVE OneFlow'
  BY <1>13, <1>0 DEF EnableProxy, TypeOK, OneFlow, UiInv
<1>14. ASSUME NEW t \in Tasks, EngageKillSwitch(t) PROVE OneFlow'
  BY <1>14, <1>0 DEF EngageKillSwitch, SetKillSwitch, TypeOK, OneFlow, UiInv
<1>15. ASSUME NEW t \in Tasks, EngageThrows(t) PROVE OneFlow'
  BY <1>15, <1>0 DEF EngageThrows, KillSwitchThrows, TypeOK, OneFlow, UiInv
<1>16. ASSUME NEW t \in Tasks, SaveActiveId(t) PROVE OneFlow'
  BY <1>16, <1>0 DEF SaveActiveId, TypeOK, OneFlow, UiInv
<1>17. ASSUME NEW t \in Tasks, Connected(t) PROVE OneFlow'
  BY <1>17, <1>0 DEF Connected, TypeOK, OneFlow, UiInv
<1>18. ASSUME NEW t \in Tasks, StopEngine(t) PROVE OneFlow'
  BY <1>18, <1>0 DEF StopEngine, TypeOK, OneFlow, UiInv
<1>19. ASSUME NEW t \in Tasks, ClearProxy(t) PROVE OneFlow'
  BY <1>19, <1>0 DEF ClearProxy, TypeOK, OneFlow, UiInv
<1>20. ASSUME NEW t \in Tasks, LiftKillSwitch(t) PROVE OneFlow'
  BY <1>20, <1>0 DEF LiftKillSwitch, SetKillSwitch, TypeOK, OneFlow, UiInv
<1>21. ASSUME NEW t \in Tasks, LiftThrows(t) PROVE OneFlow'
  BY <1>21, <1>0 DEF LiftThrows, KillSwitchThrows, TypeOK, OneFlow, UiInv
<1>22. ASSUME NEW t \in Tasks, StopTeardown(t) PROVE OneFlow'
  BY <1>22, <1>0 DEF StopTeardown, Teardown, TypeOK, OneFlow, UiInv
<1>23. ASSUME NEW t \in Tasks, Disconnected(t) PROVE OneFlow'
  BY <1>23, <1>0 DEF Disconnected, TypeOK, OneFlow, UiInv
<1>24. ASSUME NEW t \in Tasks, ToggleSave(t) PROVE OneFlow'
  BY <1>24, <1>0 DEF ToggleSave, TypeOK, OneFlow, UiInv
<1>25. ASSUME NEW t \in Tasks, ToggleApply(t) PROVE OneFlow'
  BY <1>25, <1>0 DEF ToggleApply, TypeOK, OneFlow, UiInv
<1>26. ASSUME NEW t \in Tasks, ToggleSet(t) PROVE OneFlow'
  BY <1>26, <1>0 DEF ToggleSet, SetKillSwitch, TypeOK, OneFlow, UiInv
<1>27. ASSUME NEW t \in Tasks, ToggleThrows(t) PROVE OneFlow'
  BY <1>27, <1>0 DEF ToggleThrows, KillSwitchThrows, TypeOK, OneFlow, UiInv
<1>28. ASSUME NEW t \in Tasks, Toggle(t) PROVE OneFlow'
  BY <1>28, <1>0 DEF Toggle, TypeOK, OneFlow, UiInv
<1>29. ASSUME NEW t \in Tasks, Connect(t, "idle"), ~Active PROVE OneFlow'
  BY <1>29, <1>0 DEF Connect, Active, Busy, TypeOK, OneFlow, UiInv
<1>30. ASSUME NEW t \in Tasks, Disconnect(t), ui = "connected" PROVE OneFlow'
  BY <1>30, <1>0 DEF Disconnect, TypeOK, OneFlow, UiInv
<1>31. CASE Tick
  BY <1>31, <1>0 DEF Tick, FromEngine, TypeOK, OneFlow, UiInv
<1>32. CASE Revoke
  BY <1>32, <1>0 DEF Revoke, TypeOK, OneFlow, UiInv
<1>33. CASE UNCHANGED vars
  BY <1>33, <1>0 DEF vars, TypeOK, OneFlow, UiInv
<1>34. ASSUME NEW t \in Tasks, WifiEvent(t) \/ WifiStatus(t) \/ WifiNothing(t) \/ WifiConnect(t) PROVE FALSE
  BY <1>34, <1>0 DEF WifiEvent, WifiStatus, WifiNothing, WifiConnect, Connect, UiInv, Goto
<1>35. ASSUME NEW t \in Tasks, Press(t) PROVE OneFlow'
  BY <1>35, <1>29, <1>30 DEF Press, Active
<1> QED
  BY <1>1, <1>2, <1>3, <1>4, <1>5, <1>6, <1>7, <1>8, <1>9, <1>10,
     <1>11, <1>12, <1>13, <1>14, <1>15, <1>16, <1>17, <1>18, <1>19, <1>20,
     <1>21, <1>22, <1>23, <1>24, <1>25, <1>26, <1>27, <1>28, <1>29, <1>30,
     <1>31, <1>32, <1>33, <1>34, <1>35
  DEF Next, TaskStep, StartStep, StopStep, OtherStep, EngineStep

\* UiInv is kept by every step.
LEMMA KeepsUiInv ==
    ASSUME IInv, "wifi" \notin Events, [Next]_vars PROVE UiInv'
<1> USE DEF Android, SystemProxy, Goto, uiVars, taskVars, engineVars, osVars, storeVars, Early, Failed, Late, Stopping, Flow, ConnectPoints, StopPoints
<1>0. /\ TypeOK /\ OneFlow /\ UiInv /\ EngineInv /\ FdInv /\ ProxyInv /\ ServiceInv /\ BlockInv
      /\ UNCHANGED device
  BY DEF IInv, Next, vars
<1>1. ASSUME NEW t \in Tasks, Load(t) PROVE UiInv'
  BY <1>1, <1>0 DEF Load, TypeOK, UiInv, OneFlow, EngineInv
<1>2. ASSUME NEW t \in Tasks, Prepare(t) PROVE UiInv'
  BY <1>2, <1>0 DEF Prepare, TypeOK, UiInv, OneFlow, EngineInv
<1>3. ASSUME NEW t \in Tasks, PrepareDenied(t) PROVE UiInv'
  BY <1>3, <1>0 DEF PrepareDenied, TypeOK, UiInv, OneFlow, EngineInv
<1>4. ASSUME NEW t \in Tasks, Establish(t) PROVE UiInv'
  BY <1>4, <1>0 DEF Establish, SetTunFd, TypeOK, UiInv, OneFlow, EngineInv
<1>5. ASSUME NEW t \in Tasks, EstablishThrows(t) PROVE UiInv'
  BY <1>5, <1>0 DEF EstablishThrows, TypeOK, UiInv, OneFlow, EngineInv
<1>6. ASSUME NEW t \in Tasks, EngineAlreadyRunning(t) PROVE UiInv'
  BY <1>6, <1>0 DEF EngineAlreadyRunning, TypeOK, UiInv, OneFlow, EngineInv
<1>7. ASSUME NEW t \in Tasks, EngineStarts(t) PROVE UiInv'
  BY <1>7, <1>0 DEF EngineStarts, TypeOK, UiInv, OneFlow, EngineInv
<1>8. ASSUME NEW t \in Tasks, EngineUp(t) PROVE UiInv'
  BY <1>8, <1>0 DEF EngineUp, OpenTun, TypeOK, UiInv, OneFlow, EngineInv
<1>9. ASSUME NEW t \in Tasks, EngineFails(t) PROVE UiInv'
  BY <1>9, <1>0 DEF EngineFails, TypeOK, UiInv, OneFlow, EngineInv
<1>10. ASSUME NEW t \in Tasks, Rollback(t) PROVE UiInv'
  BY <1>10, <1>0 DEF Rollback, Teardown, TypeOK, UiInv, OneFlow, EngineInv
<1>11. ASSUME NEW t \in Tasks, ConnectFailed(t) PROVE UiInv'
  BY <1>11, <1>0 DEF ConnectFailed, TypeOK, UiInv, OneFlow, EngineInv
<1>12. ASSUME NEW t \in Tasks, SetProxyServer(t) PROVE UiInv'
  BY <1>12, <1>0 DEF SetProxyServer, TypeOK, UiInv, OneFlow, EngineInv
<1>13. ASSUME NEW t \in Tasks, EnableProxy(t) PROVE UiInv'
  BY <1>13, <1>0 DEF EnableProxy, TypeOK, UiInv, OneFlow, EngineInv
<1>14. ASSUME NEW t \in Tasks, EngageKillSwitch(t) PROVE UiInv'
  BY <1>14, <1>0 DEF EngageKillSwitch, SetKillSwitch, TypeOK, UiInv, OneFlow, EngineInv
<1>15. ASSUME NEW t \in Tasks, EngageThrows(t) PROVE UiInv'
  BY <1>15, <1>0 DEF EngageThrows, KillSwitchThrows, TypeOK, UiInv, OneFlow, EngineInv
<1>16. ASSUME NEW t \in Tasks, SaveActiveId(t) PROVE UiInv'
  BY <1>16, <1>0 DEF SaveActiveId, TypeOK, UiInv, OneFlow, EngineInv
<1>17. ASSUME NEW t \in Tasks, Connected(t) PROVE UiInv'
  BY <1>17, <1>0 DEF Connected, TypeOK, UiInv, OneFlow, EngineInv
<1>18. ASSUME NEW t \in Tasks, StopEngine(t) PROVE UiInv'
  BY <1>18, <1>0 DEF StopEngine, TypeOK, UiInv, OneFlow, EngineInv
<1>19. ASSUME NEW t \in Tasks, ClearProxy(t) PROVE UiInv'
  BY <1>19, <1>0 DEF ClearProxy, TypeOK, UiInv, OneFlow, EngineInv
<1>20. ASSUME NEW t \in Tasks, LiftKillSwitch(t) PROVE UiInv'
  BY <1>20, <1>0 DEF LiftKillSwitch, SetKillSwitch, TypeOK, UiInv, OneFlow, EngineInv
<1>21. ASSUME NEW t \in Tasks, LiftThrows(t) PROVE UiInv'
  BY <1>21, <1>0 DEF LiftThrows, KillSwitchThrows, TypeOK, UiInv, OneFlow, EngineInv
<1>22. ASSUME NEW t \in Tasks, StopTeardown(t) PROVE UiInv'
  BY <1>22, <1>0 DEF StopTeardown, Teardown, TypeOK, UiInv, OneFlow, EngineInv
<1>23. ASSUME NEW t \in Tasks, Disconnected(t) PROVE UiInv'
  BY <1>23, <1>0 DEF Disconnected, TypeOK, UiInv, OneFlow, EngineInv
<1>24. ASSUME NEW t \in Tasks, ToggleSave(t) PROVE UiInv'
  BY <1>24, <1>0 DEF ToggleSave, TypeOK, UiInv, OneFlow, EngineInv
<1>25. ASSUME NEW t \in Tasks, ToggleApply(t) PROVE UiInv'
  BY <1>25, <1>0 DEF ToggleApply, TypeOK, UiInv, OneFlow, EngineInv
<1>26. ASSUME NEW t \in Tasks, ToggleSet(t) PROVE UiInv'
  BY <1>26, <1>0 DEF ToggleSet, SetKillSwitch, TypeOK, UiInv, OneFlow, EngineInv
<1>27. ASSUME NEW t \in Tasks, ToggleThrows(t) PROVE UiInv'
  BY <1>27, <1>0 DEF ToggleThrows, KillSwitchThrows, TypeOK, UiInv, OneFlow, EngineInv
<1>28. ASSUME NEW t \in Tasks, Toggle(t) PROVE UiInv'
  BY <1>28, <1>0 DEF Toggle, TypeOK, UiInv, OneFlow, EngineInv
<1>29. ASSUME NEW t \in Tasks, Connect(t, "idle"), ~Active PROVE UiInv'
  BY <1>29, <1>0 DEF Connect, Active, Busy, TypeOK, UiInv, OneFlow, EngineInv
<1>30. ASSUME NEW t \in Tasks, Disconnect(t), ui = "connected" PROVE UiInv'
  BY <1>30, <1>0 DEF Disconnect, TypeOK, UiInv, OneFlow, EngineInv
<1>31. CASE Tick
  BY <1>31, <1>0 DEF Tick, FromEngine, TypeOK, UiInv, OneFlow, EngineInv
<1>32. CASE Revoke
  BY <1>32, <1>0 DEF Revoke, TypeOK, UiInv, OneFlow, EngineInv
<1>33. CASE UNCHANGED vars
  BY <1>33, <1>0 DEF vars, TypeOK, UiInv, OneFlow, EngineInv
<1>34. ASSUME NEW t \in Tasks, WifiEvent(t) \/ WifiStatus(t) \/ WifiNothing(t) \/ WifiConnect(t) PROVE FALSE
  BY <1>34, <1>0 DEF WifiEvent, WifiStatus, WifiNothing, WifiConnect, Connect, UiInv, Goto
<1>35. ASSUME NEW t \in Tasks, Press(t) PROVE UiInv'
  BY <1>35, <1>29, <1>30 DEF Press, Active
<1> QED
  BY <1>1, <1>2, <1>3, <1>4, <1>5, <1>6, <1>7, <1>8, <1>9, <1>10,
     <1>11, <1>12, <1>13, <1>14, <1>15, <1>16, <1>17, <1>18, <1>19, <1>20,
     <1>21, <1>22, <1>23, <1>24, <1>25, <1>26, <1>27, <1>28, <1>29, <1>30,
     <1>31, <1>32, <1>33, <1>34, <1>35
  DEF Next, TaskStep, StartStep, StopStep, OtherStep, EngineStep

\* EngineInv is kept by every step.
LEMMA KeepsEngineInv ==
    ASSUME IInv, "wifi" \notin Events, [Next]_vars PROVE EngineInv'
<1> USE DEF Android, SystemProxy, Goto, uiVars, taskVars, engineVars, osVars, storeVars, Early, Failed, Late, Stopping, Flow, ConnectPoints, StopPoints
<1>0. /\ TypeOK /\ OneFlow /\ UiInv /\ EngineInv /\ FdInv /\ ProxyInv /\ ServiceInv /\ BlockInv
      /\ UNCHANGED device
  BY DEF IInv, Next, vars
<1>1. ASSUME NEW t \in Tasks, Load(t) PROVE EngineInv'
  BY <1>1, <1>0 DEF Load, TypeOK, EngineInv, OneFlow, UiInv, AtRest
<1>2. ASSUME NEW t \in Tasks, Prepare(t) PROVE EngineInv'
  BY <1>2, <1>0 DEF Prepare, TypeOK, EngineInv, OneFlow, UiInv, AtRest
<1>3. ASSUME NEW t \in Tasks, PrepareDenied(t) PROVE EngineInv'
  BY <1>3, <1>0 DEF PrepareDenied, TypeOK, EngineInv, OneFlow, UiInv, AtRest
<1>4. ASSUME NEW t \in Tasks, Establish(t) PROVE EngineInv'
  BY <1>4, <1>0 DEF Establish, SetTunFd, TypeOK, EngineInv, OneFlow, UiInv, AtRest
<1>5. ASSUME NEW t \in Tasks, EstablishThrows(t) PROVE EngineInv'
  BY <1>5, <1>0 DEF EstablishThrows, TypeOK, EngineInv, OneFlow, UiInv, AtRest
<1>6. ASSUME NEW t \in Tasks, EngineAlreadyRunning(t) PROVE EngineInv'
  BY <1>6, <1>0 DEF EngineAlreadyRunning, TypeOK, EngineInv, OneFlow, UiInv, AtRest
<1>7. ASSUME NEW t \in Tasks, EngineStarts(t) PROVE EngineInv'
  BY <1>7, <1>0 DEF EngineStarts, TypeOK, EngineInv, OneFlow, UiInv, AtRest
<1>8. ASSUME NEW t \in Tasks, EngineUp(t) PROVE EngineInv'
  BY <1>8, <1>0 DEF EngineUp, OpenTun, TypeOK, EngineInv, OneFlow, UiInv, AtRest
<1>9. ASSUME NEW t \in Tasks, EngineFails(t) PROVE EngineInv'
  BY <1>9, <1>0 DEF EngineFails, TypeOK, EngineInv, OneFlow, UiInv, AtRest
<1>10. ASSUME NEW t \in Tasks, Rollback(t) PROVE EngineInv'
  BY <1>10, <1>0 DEF Rollback, Teardown, TypeOK, EngineInv, OneFlow, UiInv, AtRest
<1>11. ASSUME NEW t \in Tasks, ConnectFailed(t) PROVE EngineInv'
  BY <1>11, <1>0 DEF ConnectFailed, TypeOK, EngineInv, OneFlow, UiInv, AtRest
<1>12. ASSUME NEW t \in Tasks, SetProxyServer(t) PROVE EngineInv'
  BY <1>12, <1>0 DEF SetProxyServer, TypeOK, EngineInv, OneFlow, UiInv, AtRest
<1>13. ASSUME NEW t \in Tasks, EnableProxy(t) PROVE EngineInv'
  BY <1>13, <1>0 DEF EnableProxy, TypeOK, EngineInv, OneFlow, UiInv, AtRest
<1>14. ASSUME NEW t \in Tasks, EngageKillSwitch(t) PROVE EngineInv'
  BY <1>14, <1>0 DEF EngageKillSwitch, SetKillSwitch, TypeOK, EngineInv, OneFlow, UiInv, AtRest
<1>15. ASSUME NEW t \in Tasks, EngageThrows(t) PROVE EngineInv'
  BY <1>15, <1>0 DEF EngageThrows, KillSwitchThrows, TypeOK, EngineInv, OneFlow, UiInv, AtRest
<1>16. ASSUME NEW t \in Tasks, SaveActiveId(t) PROVE EngineInv'
  BY <1>16, <1>0 DEF SaveActiveId, TypeOK, EngineInv, OneFlow, UiInv, AtRest
<1>17. ASSUME NEW t \in Tasks, Connected(t) PROVE EngineInv'
  BY <1>17, <1>0 DEF Connected, TypeOK, EngineInv, OneFlow, UiInv, AtRest
<1>18. ASSUME NEW t \in Tasks, StopEngine(t) PROVE EngineInv'
  BY <1>18, <1>0 DEF StopEngine, TypeOK, EngineInv, OneFlow, UiInv, AtRest
<1>19. ASSUME NEW t \in Tasks, ClearProxy(t) PROVE EngineInv'
  BY <1>19, <1>0 DEF ClearProxy, TypeOK, EngineInv, OneFlow, UiInv, AtRest
<1>20. ASSUME NEW t \in Tasks, LiftKillSwitch(t) PROVE EngineInv'
  BY <1>20, <1>0 DEF LiftKillSwitch, SetKillSwitch, TypeOK, EngineInv, OneFlow, UiInv, AtRest
<1>21. ASSUME NEW t \in Tasks, LiftThrows(t) PROVE EngineInv'
  BY <1>21, <1>0 DEF LiftThrows, KillSwitchThrows, TypeOK, EngineInv, OneFlow, UiInv, AtRest
<1>22. ASSUME NEW t \in Tasks, StopTeardown(t) PROVE EngineInv'
  BY <1>22, <1>0 DEF StopTeardown, Teardown, TypeOK, EngineInv, OneFlow, UiInv, AtRest
<1>23. ASSUME NEW t \in Tasks, Disconnected(t) PROVE EngineInv'
  BY <1>23, <1>0 DEF Disconnected, TypeOK, EngineInv, OneFlow, UiInv, AtRest
<1>24. ASSUME NEW t \in Tasks, ToggleSave(t) PROVE EngineInv'
  BY <1>24, <1>0 DEF ToggleSave, TypeOK, EngineInv, OneFlow, UiInv, AtRest
<1>25. ASSUME NEW t \in Tasks, ToggleApply(t) PROVE EngineInv'
  BY <1>25, <1>0 DEF ToggleApply, TypeOK, EngineInv, OneFlow, UiInv, AtRest
<1>26. ASSUME NEW t \in Tasks, ToggleSet(t) PROVE EngineInv'
  BY <1>26, <1>0 DEF ToggleSet, SetKillSwitch, TypeOK, EngineInv, OneFlow, UiInv, AtRest
<1>27. ASSUME NEW t \in Tasks, ToggleThrows(t) PROVE EngineInv'
  BY <1>27, <1>0 DEF ToggleThrows, KillSwitchThrows, TypeOK, EngineInv, OneFlow, UiInv, AtRest
<1>28. ASSUME NEW t \in Tasks, Toggle(t) PROVE EngineInv'
  BY <1>28, <1>0 DEF Toggle, TypeOK, EngineInv, OneFlow, UiInv, AtRest
<1>29. ASSUME NEW t \in Tasks, Connect(t, "idle"), ~Active PROVE EngineInv'
  <2>1. ui \in {"disconnected", "error"}
    BY <1>29, <1>0 DEF Active, Busy, TypeOK, ConnectionStatus
  <2>2. \A u \in Tasks : pc[u] \notin Flow
    BY <2>1, <1>0 DEF UiInv
  <2>3. /\ ui' = "connecting" /\ pc' = [pc EXCEPT ![t] = "load"]
        /\ UNCHANGED <<poll, engineVars, osVars, storeVars>>
    BY <1>29 DEF Connect
  <2>4. \A u \in Tasks : pc'[u] = (IF u = t THEN "load" ELSE pc[u])
    BY <2>3, <1>0 DEF TypeOK
  <2> QED
    BY <2>1, <2>2, <2>3, <2>4, <1>0 DEF EngineInv, OneFlow, UiInv, AtRest
<1>30. ASSUME NEW t \in Tasks, Disconnect(t), ui = "connected" PROVE EngineInv'
  BY <1>30, <1>0 DEF Disconnect, TypeOK, EngineInv, OneFlow, UiInv, AtRest
<1>31. CASE Tick
  BY <1>31, <1>0 DEF Tick, FromEngine, TypeOK, EngineInv, OneFlow, UiInv, AtRest
<1>32. CASE Revoke
  BY <1>32, <1>0 DEF Revoke, TypeOK, EngineInv, OneFlow, UiInv, AtRest
<1>33. CASE UNCHANGED vars
  BY <1>33, <1>0 DEF vars, TypeOK, EngineInv, OneFlow, UiInv, AtRest
<1>34. ASSUME NEW t \in Tasks, WifiEvent(t) \/ WifiStatus(t) \/ WifiNothing(t) \/ WifiConnect(t) PROVE FALSE
  BY <1>34, <1>0 DEF WifiEvent, WifiStatus, WifiNothing, WifiConnect, Connect, UiInv, Goto
<1>35. ASSUME NEW t \in Tasks, Press(t) PROVE EngineInv'
  BY <1>35, <1>29, <1>30 DEF Press, Active
<1> QED
  BY <1>1, <1>2, <1>3, <1>4, <1>5, <1>6, <1>7, <1>8, <1>9, <1>10,
     <1>11, <1>12, <1>13, <1>14, <1>15, <1>16, <1>17, <1>18, <1>19, <1>20,
     <1>21, <1>22, <1>23, <1>24, <1>25, <1>26, <1>27, <1>28, <1>29, <1>30,
     <1>31, <1>32, <1>33, <1>34, <1>35
  DEF Next, TaskStep, StartStep, StopStep, OtherStep, EngineStep

\* FdInv is kept by every step.
LEMMA KeepsFdInv ==
    ASSUME IInv, "wifi" \notin Events, [Next]_vars PROVE FdInv'
<1> USE DEF Android, SystemProxy, Goto, uiVars, taskVars, engineVars, osVars, storeVars, Early, Failed, Late, Stopping, Flow, ConnectPoints, StopPoints
<1>0. /\ TypeOK /\ OneFlow /\ UiInv /\ EngineInv /\ FdInv /\ ProxyInv /\ ServiceInv /\ BlockInv
      /\ UNCHANGED device
  BY DEF IInv, Next, vars
<1>1. ASSUME NEW t \in Tasks, Load(t) PROVE FdInv'
  BY <1>1, <1>0 DEF Load, TypeOK, FdInv, OneFlow, EngineInv, AtRest
<1>2. ASSUME NEW t \in Tasks, Prepare(t) PROVE FdInv'
  BY <1>2, <1>0 DEF Prepare, TypeOK, FdInv, OneFlow, EngineInv, AtRest
<1>3. ASSUME NEW t \in Tasks, PrepareDenied(t) PROVE FdInv'
  BY <1>3, <1>0 DEF PrepareDenied, TypeOK, FdInv, OneFlow, EngineInv, AtRest
<1>4. ASSUME NEW t \in Tasks, Establish(t) PROVE FdInv'
  BY <1>4, <1>0 DEF Establish, SetTunFd, TypeOK, FdInv, OneFlow, EngineInv, AtRest
<1>5. ASSUME NEW t \in Tasks, EstablishThrows(t) PROVE FdInv'
  BY <1>5, <1>0 DEF EstablishThrows, TypeOK, FdInv, OneFlow, EngineInv, AtRest
<1>6. ASSUME NEW t \in Tasks, EngineAlreadyRunning(t) PROVE FdInv'
  BY <1>6, <1>0 DEF EngineAlreadyRunning, TypeOK, FdInv, OneFlow, EngineInv, AtRest
<1>7. ASSUME NEW t \in Tasks, EngineStarts(t) PROVE FdInv'
  BY <1>7, <1>0 DEF EngineStarts, TypeOK, FdInv, OneFlow, EngineInv, AtRest
<1>8. ASSUME NEW t \in Tasks, EngineUp(t) PROVE FdInv'
  BY <1>8, <1>0 DEF EngineUp, OpenTun, TypeOK, FdInv, OneFlow, EngineInv, AtRest
<1>9. ASSUME NEW t \in Tasks, EngineFails(t) PROVE FdInv'
  BY <1>9, <1>0 DEF EngineFails, TypeOK, FdInv, OneFlow, EngineInv, AtRest
<1>10. ASSUME NEW t \in Tasks, Rollback(t) PROVE FdInv'
  BY <1>10, <1>0 DEF Rollback, Teardown, TypeOK, FdInv, OneFlow, EngineInv, AtRest
<1>11. ASSUME NEW t \in Tasks, ConnectFailed(t) PROVE FdInv'
  BY <1>11, <1>0 DEF ConnectFailed, TypeOK, FdInv, OneFlow, EngineInv, AtRest
<1>12. ASSUME NEW t \in Tasks, SetProxyServer(t) PROVE FdInv'
  BY <1>12, <1>0 DEF SetProxyServer, TypeOK, FdInv, OneFlow, EngineInv, AtRest
<1>13. ASSUME NEW t \in Tasks, EnableProxy(t) PROVE FdInv'
  BY <1>13, <1>0 DEF EnableProxy, TypeOK, FdInv, OneFlow, EngineInv, AtRest
<1>14. ASSUME NEW t \in Tasks, EngageKillSwitch(t) PROVE FdInv'
  BY <1>14, <1>0 DEF EngageKillSwitch, SetKillSwitch, TypeOK, FdInv, OneFlow, EngineInv, AtRest
<1>15. ASSUME NEW t \in Tasks, EngageThrows(t) PROVE FdInv'
  BY <1>15, <1>0 DEF EngageThrows, KillSwitchThrows, TypeOK, FdInv, OneFlow, EngineInv, AtRest
<1>16. ASSUME NEW t \in Tasks, SaveActiveId(t) PROVE FdInv'
  BY <1>16, <1>0 DEF SaveActiveId, TypeOK, FdInv, OneFlow, EngineInv, AtRest
<1>17. ASSUME NEW t \in Tasks, Connected(t) PROVE FdInv'
  BY <1>17, <1>0 DEF Connected, TypeOK, FdInv, OneFlow, EngineInv, AtRest
<1>18. ASSUME NEW t \in Tasks, StopEngine(t) PROVE FdInv'
  BY <1>18, <1>0 DEF StopEngine, TypeOK, FdInv, OneFlow, EngineInv, AtRest
<1>19. ASSUME NEW t \in Tasks, ClearProxy(t) PROVE FdInv'
  BY <1>19, <1>0 DEF ClearProxy, TypeOK, FdInv, OneFlow, EngineInv, AtRest
<1>20. ASSUME NEW t \in Tasks, LiftKillSwitch(t) PROVE FdInv'
  BY <1>20, <1>0 DEF LiftKillSwitch, SetKillSwitch, TypeOK, FdInv, OneFlow, EngineInv, AtRest
<1>21. ASSUME NEW t \in Tasks, LiftThrows(t) PROVE FdInv'
  BY <1>21, <1>0 DEF LiftThrows, KillSwitchThrows, TypeOK, FdInv, OneFlow, EngineInv, AtRest
<1>22. ASSUME NEW t \in Tasks, StopTeardown(t) PROVE FdInv'
  BY <1>22, <1>0 DEF StopTeardown, Teardown, TypeOK, FdInv, OneFlow, EngineInv, AtRest
<1>23. ASSUME NEW t \in Tasks, Disconnected(t) PROVE FdInv'
  BY <1>23, <1>0 DEF Disconnected, TypeOK, FdInv, OneFlow, EngineInv, AtRest
<1>24. ASSUME NEW t \in Tasks, ToggleSave(t) PROVE FdInv'
  BY <1>24, <1>0 DEF ToggleSave, TypeOK, FdInv, OneFlow, EngineInv, AtRest
<1>25. ASSUME NEW t \in Tasks, ToggleApply(t) PROVE FdInv'
  BY <1>25, <1>0 DEF ToggleApply, TypeOK, FdInv, OneFlow, EngineInv, AtRest
<1>26. ASSUME NEW t \in Tasks, ToggleSet(t) PROVE FdInv'
  BY <1>26, <1>0 DEF ToggleSet, SetKillSwitch, TypeOK, FdInv, OneFlow, EngineInv, AtRest
<1>27. ASSUME NEW t \in Tasks, ToggleThrows(t) PROVE FdInv'
  BY <1>27, <1>0 DEF ToggleThrows, KillSwitchThrows, TypeOK, FdInv, OneFlow, EngineInv, AtRest
<1>28. ASSUME NEW t \in Tasks, Toggle(t) PROVE FdInv'
  BY <1>28, <1>0 DEF Toggle, TypeOK, FdInv, OneFlow, EngineInv, AtRest
<1>29. ASSUME NEW t \in Tasks, Connect(t, "idle"), ~Active PROVE FdInv'
  BY <1>29, <1>0 DEF Connect, Active, Busy, TypeOK, FdInv, OneFlow, EngineInv, AtRest
<1>30. ASSUME NEW t \in Tasks, Disconnect(t), ui = "connected" PROVE FdInv'
  BY <1>30, <1>0 DEF Disconnect, TypeOK, FdInv, OneFlow, EngineInv, AtRest
<1>31. CASE Tick
  BY <1>31, <1>0 DEF Tick, FromEngine, TypeOK, FdInv, OneFlow, EngineInv, AtRest
<1>32. CASE Revoke
  BY <1>32, <1>0 DEF Revoke, TypeOK, FdInv, OneFlow, EngineInv, AtRest
<1>33. CASE UNCHANGED vars
  BY <1>33, <1>0 DEF vars, TypeOK, FdInv, OneFlow, EngineInv, AtRest
<1>34. ASSUME NEW t \in Tasks, WifiEvent(t) \/ WifiStatus(t) \/ WifiNothing(t) \/ WifiConnect(t) PROVE FALSE
  BY <1>34, <1>0 DEF WifiEvent, WifiStatus, WifiNothing, WifiConnect, Connect, UiInv, Goto
<1>35. ASSUME NEW t \in Tasks, Press(t) PROVE FdInv'
  BY <1>35, <1>29, <1>30 DEF Press, Active
<1> QED
  BY <1>1, <1>2, <1>3, <1>4, <1>5, <1>6, <1>7, <1>8, <1>9, <1>10,
     <1>11, <1>12, <1>13, <1>14, <1>15, <1>16, <1>17, <1>18, <1>19, <1>20,
     <1>21, <1>22, <1>23, <1>24, <1>25, <1>26, <1>27, <1>28, <1>29, <1>30,
     <1>31, <1>32, <1>33, <1>34, <1>35
  DEF Next, TaskStep, StartStep, StopStep, OtherStep, EngineStep

\* ProxyInv is kept by every step.
LEMMA KeepsProxyInv ==
    ASSUME IInv, "wifi" \notin Events, [Next]_vars PROVE ProxyInv'
<1> USE DEF Android, SystemProxy, Goto, uiVars, taskVars, engineVars, osVars, storeVars, Early, Failed, Late, Stopping, Flow, ConnectPoints, StopPoints
<1>0. /\ TypeOK /\ OneFlow /\ UiInv /\ EngineInv /\ FdInv /\ ProxyInv /\ ServiceInv /\ BlockInv
      /\ UNCHANGED device
  BY DEF IInv, Next, vars
<1>1. ASSUME NEW t \in Tasks, Load(t) PROVE ProxyInv'
  BY <1>1, <1>0 DEF Load, TypeOK, ProxyInv, OneFlow, UiInv, EngineInv, Android
<1>2. ASSUME NEW t \in Tasks, Prepare(t) PROVE ProxyInv'
  BY <1>2, <1>0 DEF Prepare, TypeOK, ProxyInv, OneFlow, UiInv, EngineInv, Android
<1>3. ASSUME NEW t \in Tasks, PrepareDenied(t) PROVE ProxyInv'
  BY <1>3, <1>0 DEF PrepareDenied, TypeOK, ProxyInv, OneFlow, UiInv, EngineInv, Android
<1>4. ASSUME NEW t \in Tasks, Establish(t) PROVE ProxyInv'
  BY <1>4, <1>0 DEF Establish, SetTunFd, TypeOK, ProxyInv, OneFlow, UiInv, EngineInv, Android
<1>5. ASSUME NEW t \in Tasks, EstablishThrows(t) PROVE ProxyInv'
  BY <1>5, <1>0 DEF EstablishThrows, TypeOK, ProxyInv, OneFlow, UiInv, EngineInv, Android
<1>6. ASSUME NEW t \in Tasks, EngineAlreadyRunning(t) PROVE ProxyInv'
  BY <1>6, <1>0 DEF EngineAlreadyRunning, TypeOK, ProxyInv, OneFlow, UiInv, EngineInv, Android
<1>7. ASSUME NEW t \in Tasks, EngineStarts(t) PROVE ProxyInv'
  BY <1>7, <1>0 DEF EngineStarts, TypeOK, ProxyInv, OneFlow, UiInv, EngineInv, Android
<1>8. ASSUME NEW t \in Tasks, EngineUp(t) PROVE ProxyInv'
  BY <1>8, <1>0 DEF EngineUp, OpenTun, TypeOK, ProxyInv, OneFlow, UiInv, EngineInv, Android
<1>9. ASSUME NEW t \in Tasks, EngineFails(t) PROVE ProxyInv'
  BY <1>9, <1>0 DEF EngineFails, TypeOK, ProxyInv, OneFlow, UiInv, EngineInv, Android
<1>10. ASSUME NEW t \in Tasks, Rollback(t) PROVE ProxyInv'
  BY <1>10, <1>0 DEF Rollback, Teardown, TypeOK, ProxyInv, OneFlow, UiInv, EngineInv, Android
<1>11. ASSUME NEW t \in Tasks, ConnectFailed(t) PROVE ProxyInv'
  BY <1>11, <1>0 DEF ConnectFailed, TypeOK, ProxyInv, OneFlow, UiInv, EngineInv, Android
<1>12. ASSUME NEW t \in Tasks, SetProxyServer(t) PROVE ProxyInv'
  BY <1>12, <1>0 DEF SetProxyServer, TypeOK, ProxyInv, OneFlow, UiInv, EngineInv, Android
<1>13. ASSUME NEW t \in Tasks, EnableProxy(t) PROVE ProxyInv'
  BY <1>13, <1>0 DEF EnableProxy, TypeOK, ProxyInv, OneFlow, UiInv, EngineInv, Android
<1>14. ASSUME NEW t \in Tasks, EngageKillSwitch(t) PROVE ProxyInv'
  BY <1>14, <1>0 DEF EngageKillSwitch, SetKillSwitch, TypeOK, ProxyInv, OneFlow, UiInv, EngineInv, Android
<1>15. ASSUME NEW t \in Tasks, EngageThrows(t) PROVE ProxyInv'
  BY <1>15, <1>0 DEF EngageThrows, KillSwitchThrows, TypeOK, ProxyInv, OneFlow, UiInv, EngineInv, Android
<1>16. ASSUME NEW t \in Tasks, SaveActiveId(t) PROVE ProxyInv'
  BY <1>16, <1>0 DEF SaveActiveId, TypeOK, ProxyInv, OneFlow, UiInv, EngineInv, Android
<1>17. ASSUME NEW t \in Tasks, Connected(t) PROVE ProxyInv'
  BY <1>17, <1>0 DEF Connected, TypeOK, ProxyInv, OneFlow, UiInv, EngineInv, Android
<1>18. ASSUME NEW t \in Tasks, StopEngine(t) PROVE ProxyInv'
  BY <1>18, <1>0 DEF StopEngine, TypeOK, ProxyInv, OneFlow, UiInv, EngineInv, Android
<1>19. ASSUME NEW t \in Tasks, ClearProxy(t) PROVE ProxyInv'
  BY <1>19, <1>0 DEF ClearProxy, TypeOK, ProxyInv, OneFlow, UiInv, EngineInv, Android
<1>20. ASSUME NEW t \in Tasks, LiftKillSwitch(t) PROVE ProxyInv'
  BY <1>20, <1>0 DEF LiftKillSwitch, SetKillSwitch, TypeOK, ProxyInv, OneFlow, UiInv, EngineInv, Android
<1>21. ASSUME NEW t \in Tasks, LiftThrows(t) PROVE ProxyInv'
  BY <1>21, <1>0 DEF LiftThrows, KillSwitchThrows, TypeOK, ProxyInv, OneFlow, UiInv, EngineInv, Android
<1>22. ASSUME NEW t \in Tasks, StopTeardown(t) PROVE ProxyInv'
  BY <1>22, <1>0 DEF StopTeardown, Teardown, TypeOK, ProxyInv, OneFlow, UiInv, EngineInv, Android
<1>23. ASSUME NEW t \in Tasks, Disconnected(t) PROVE ProxyInv'
  BY <1>23, <1>0 DEF Disconnected, TypeOK, ProxyInv, OneFlow, UiInv, EngineInv, Android
<1>24. ASSUME NEW t \in Tasks, ToggleSave(t) PROVE ProxyInv'
  BY <1>24, <1>0 DEF ToggleSave, TypeOK, ProxyInv, OneFlow, UiInv, EngineInv, Android
<1>25. ASSUME NEW t \in Tasks, ToggleApply(t) PROVE ProxyInv'
  BY <1>25, <1>0 DEF ToggleApply, TypeOK, ProxyInv, OneFlow, UiInv, EngineInv, Android
<1>26. ASSUME NEW t \in Tasks, ToggleSet(t) PROVE ProxyInv'
  BY <1>26, <1>0 DEF ToggleSet, SetKillSwitch, TypeOK, ProxyInv, OneFlow, UiInv, EngineInv, Android
<1>27. ASSUME NEW t \in Tasks, ToggleThrows(t) PROVE ProxyInv'
  BY <1>27, <1>0 DEF ToggleThrows, KillSwitchThrows, TypeOK, ProxyInv, OneFlow, UiInv, EngineInv, Android
<1>28. ASSUME NEW t \in Tasks, Toggle(t) PROVE ProxyInv'
  BY <1>28, <1>0 DEF Toggle, TypeOK, ProxyInv, OneFlow, UiInv, EngineInv, Android
<1>29. ASSUME NEW t \in Tasks, Connect(t, "idle"), ~Active PROVE ProxyInv'
  <2>1. ui \in {"disconnected", "error"}
    BY <1>29, <1>0 DEF Active, Busy, TypeOK, ConnectionStatus
  <2>2. \A u \in Tasks : pc[u] \notin Flow
    BY <2>1, <1>0 DEF UiInv
  <2>3. /\ ui' = "connecting" /\ pc' = [pc EXCEPT ![t] = "load"]
        /\ UNCHANGED <<poll, engineVars, osVars, storeVars>>
    BY <1>29 DEF Connect
  <2>4. \A u \in Tasks : pc'[u] = (IF u = t THEN "load" ELSE pc[u])
    BY <2>3, <1>0 DEF TypeOK
  <2> QED
    BY <2>1, <2>2, <2>3, <2>4, <1>0 DEF ProxyInv, OneFlow, UiInv, EngineInv, Android
<1>30. ASSUME NEW t \in Tasks, Disconnect(t), ui = "connected" PROVE ProxyInv'
  BY <1>30, <1>0 DEF Disconnect, TypeOK, ProxyInv, OneFlow, UiInv, EngineInv, Android
<1>31. CASE Tick
  BY <1>31, <1>0 DEF Tick, FromEngine, TypeOK, ProxyInv, OneFlow, UiInv, EngineInv, Android
<1>32. CASE Revoke
  BY <1>32, <1>0 DEF Revoke, TypeOK, ProxyInv, OneFlow, UiInv, EngineInv, Android
<1>33. CASE UNCHANGED vars
  BY <1>33, <1>0 DEF vars, TypeOK, ProxyInv, OneFlow, UiInv, EngineInv, Android
<1>34. ASSUME NEW t \in Tasks, WifiEvent(t) \/ WifiStatus(t) \/ WifiNothing(t) \/ WifiConnect(t) PROVE FALSE
  BY <1>34, <1>0 DEF WifiEvent, WifiStatus, WifiNothing, WifiConnect, Connect, UiInv, Goto
<1>35. ASSUME NEW t \in Tasks, Press(t) PROVE ProxyInv'
  BY <1>35, <1>29, <1>30 DEF Press, Active
<1> QED
  BY <1>1, <1>2, <1>3, <1>4, <1>5, <1>6, <1>7, <1>8, <1>9, <1>10,
     <1>11, <1>12, <1>13, <1>14, <1>15, <1>16, <1>17, <1>18, <1>19, <1>20,
     <1>21, <1>22, <1>23, <1>24, <1>25, <1>26, <1>27, <1>28, <1>29, <1>30,
     <1>31, <1>32, <1>33, <1>34, <1>35
  DEF Next, TaskStep, StartStep, StopStep, OtherStep, EngineStep

\* ServiceInv is kept by every step.
LEMMA KeepsServiceInv ==
    ASSUME IInv, "wifi" \notin Events, [Next]_vars PROVE ServiceInv'
<1> USE DEF Android, SystemProxy, Goto, uiVars, taskVars, engineVars, osVars, storeVars, Early, Failed, Late, Stopping, Flow, ConnectPoints, StopPoints
<1>0. /\ TypeOK /\ OneFlow /\ UiInv /\ EngineInv /\ FdInv /\ ProxyInv /\ ServiceInv /\ BlockInv
      /\ UNCHANGED device
  BY DEF IInv, Next, vars
<1>1. ASSUME NEW t \in Tasks, Load(t) PROVE ServiceInv'
  BY <1>1, <1>0 DEF Load, TypeOK, ServiceInv, OneFlow, UiInv, EngineInv, ProxyInv
<1>2. ASSUME NEW t \in Tasks, Prepare(t) PROVE ServiceInv'
  BY <1>2, <1>0 DEF Prepare, TypeOK, ServiceInv, OneFlow, UiInv, EngineInv, ProxyInv
<1>3. ASSUME NEW t \in Tasks, PrepareDenied(t) PROVE ServiceInv'
  BY <1>3, <1>0 DEF PrepareDenied, TypeOK, ServiceInv, OneFlow, UiInv, EngineInv, ProxyInv
<1>4. ASSUME NEW t \in Tasks, Establish(t) PROVE ServiceInv'
  BY <1>4, <1>0 DEF Establish, SetTunFd, TypeOK, ServiceInv, OneFlow, UiInv, EngineInv, ProxyInv
<1>5. ASSUME NEW t \in Tasks, EstablishThrows(t) PROVE ServiceInv'
  BY <1>5, <1>0 DEF EstablishThrows, TypeOK, ServiceInv, OneFlow, UiInv, EngineInv, ProxyInv
<1>6. ASSUME NEW t \in Tasks, EngineAlreadyRunning(t) PROVE ServiceInv'
  BY <1>6, <1>0 DEF EngineAlreadyRunning, TypeOK, ServiceInv, OneFlow, UiInv, EngineInv, ProxyInv
<1>7. ASSUME NEW t \in Tasks, EngineStarts(t) PROVE ServiceInv'
  BY <1>7, <1>0 DEF EngineStarts, TypeOK, ServiceInv, OneFlow, UiInv, EngineInv, ProxyInv
<1>8. ASSUME NEW t \in Tasks, EngineUp(t) PROVE ServiceInv'
  BY <1>8, <1>0 DEF EngineUp, OpenTun, TypeOK, ServiceInv, OneFlow, UiInv, EngineInv, ProxyInv
<1>9. ASSUME NEW t \in Tasks, EngineFails(t) PROVE ServiceInv'
  BY <1>9, <1>0 DEF EngineFails, TypeOK, ServiceInv, OneFlow, UiInv, EngineInv, ProxyInv
<1>10. ASSUME NEW t \in Tasks, Rollback(t) PROVE ServiceInv'
  BY <1>10, <1>0 DEF Rollback, Teardown, TypeOK, ServiceInv, OneFlow, UiInv, EngineInv, ProxyInv
<1>11. ASSUME NEW t \in Tasks, ConnectFailed(t) PROVE ServiceInv'
  BY <1>11, <1>0 DEF ConnectFailed, TypeOK, ServiceInv, OneFlow, UiInv, EngineInv, ProxyInv
<1>12. ASSUME NEW t \in Tasks, SetProxyServer(t) PROVE ServiceInv'
  BY <1>12, <1>0 DEF SetProxyServer, TypeOK, ServiceInv, OneFlow, UiInv, EngineInv, ProxyInv
<1>13. ASSUME NEW t \in Tasks, EnableProxy(t) PROVE ServiceInv'
  BY <1>13, <1>0 DEF EnableProxy, TypeOK, ServiceInv, OneFlow, UiInv, EngineInv, ProxyInv
<1>14. ASSUME NEW t \in Tasks, EngageKillSwitch(t) PROVE ServiceInv'
  BY <1>14, <1>0 DEF EngageKillSwitch, SetKillSwitch, TypeOK, ServiceInv, OneFlow, UiInv, EngineInv, ProxyInv
<1>15. ASSUME NEW t \in Tasks, EngageThrows(t) PROVE ServiceInv'
  BY <1>15, <1>0 DEF EngageThrows, KillSwitchThrows, TypeOK, ServiceInv, OneFlow, UiInv, EngineInv, ProxyInv
<1>16. ASSUME NEW t \in Tasks, SaveActiveId(t) PROVE ServiceInv'
  BY <1>16, <1>0 DEF SaveActiveId, TypeOK, ServiceInv, OneFlow, UiInv, EngineInv, ProxyInv
<1>17. ASSUME NEW t \in Tasks, Connected(t) PROVE ServiceInv'
  BY <1>17, <1>0 DEF Connected, TypeOK, ServiceInv, OneFlow, UiInv, EngineInv, ProxyInv
<1>18. ASSUME NEW t \in Tasks, StopEngine(t) PROVE ServiceInv'
  BY <1>18, <1>0 DEF StopEngine, TypeOK, ServiceInv, OneFlow, UiInv, EngineInv, ProxyInv
<1>19. ASSUME NEW t \in Tasks, ClearProxy(t) PROVE ServiceInv'
  BY <1>19, <1>0 DEF ClearProxy, TypeOK, ServiceInv, OneFlow, UiInv, EngineInv, ProxyInv
<1>20. ASSUME NEW t \in Tasks, LiftKillSwitch(t) PROVE ServiceInv'
  BY <1>20, <1>0 DEF LiftKillSwitch, SetKillSwitch, TypeOK, ServiceInv, OneFlow, UiInv, EngineInv, ProxyInv
<1>21. ASSUME NEW t \in Tasks, LiftThrows(t) PROVE ServiceInv'
  BY <1>21, <1>0 DEF LiftThrows, KillSwitchThrows, TypeOK, ServiceInv, OneFlow, UiInv, EngineInv, ProxyInv
<1>22. ASSUME NEW t \in Tasks, StopTeardown(t) PROVE ServiceInv'
  BY <1>22, <1>0 DEF StopTeardown, Teardown, TypeOK, ServiceInv, OneFlow, UiInv, EngineInv, ProxyInv
<1>23. ASSUME NEW t \in Tasks, Disconnected(t) PROVE ServiceInv'
  BY <1>23, <1>0 DEF Disconnected, TypeOK, ServiceInv, OneFlow, UiInv, EngineInv, ProxyInv
<1>24. ASSUME NEW t \in Tasks, ToggleSave(t) PROVE ServiceInv'
  BY <1>24, <1>0 DEF ToggleSave, TypeOK, ServiceInv, OneFlow, UiInv, EngineInv, ProxyInv
<1>25. ASSUME NEW t \in Tasks, ToggleApply(t) PROVE ServiceInv'
  BY <1>25, <1>0 DEF ToggleApply, TypeOK, ServiceInv, OneFlow, UiInv, EngineInv, ProxyInv
<1>26. ASSUME NEW t \in Tasks, ToggleSet(t) PROVE ServiceInv'
  BY <1>26, <1>0 DEF ToggleSet, SetKillSwitch, TypeOK, ServiceInv, OneFlow, UiInv, EngineInv, ProxyInv
<1>27. ASSUME NEW t \in Tasks, ToggleThrows(t) PROVE ServiceInv'
  BY <1>27, <1>0 DEF ToggleThrows, KillSwitchThrows, TypeOK, ServiceInv, OneFlow, UiInv, EngineInv, ProxyInv
<1>28. ASSUME NEW t \in Tasks, Toggle(t) PROVE ServiceInv'
  BY <1>28, <1>0 DEF Toggle, TypeOK, ServiceInv, OneFlow, UiInv, EngineInv, ProxyInv
<1>29. ASSUME NEW t \in Tasks, Connect(t, "idle"), ~Active PROVE ServiceInv'
  <2>1. ui \in {"disconnected", "error"}
    BY <1>29, <1>0 DEF Active, Busy, TypeOK, ConnectionStatus
  <2>2. \A u \in Tasks : pc[u] \notin Flow
    BY <2>1, <1>0 DEF UiInv
  <2>3. /\ ui' = "connecting" /\ pc' = [pc EXCEPT ![t] = "load"]
        /\ UNCHANGED <<poll, engineVars, osVars, storeVars>>
    BY <1>29 DEF Connect
  <2>4. \A u \in Tasks : pc'[u] = (IF u = t THEN "load" ELSE pc[u])
    BY <2>3, <1>0 DEF TypeOK
  <2> QED
    BY <2>1, <2>2, <2>3, <2>4, <1>0 DEF ServiceInv, OneFlow, UiInv, EngineInv, ProxyInv
<1>30. ASSUME NEW t \in Tasks, Disconnect(t), ui = "connected" PROVE ServiceInv'
  BY <1>30, <1>0 DEF Disconnect, TypeOK, ServiceInv, OneFlow, UiInv, EngineInv, ProxyInv
<1>31. CASE Tick
  BY <1>31, <1>0 DEF Tick, FromEngine, TypeOK, ServiceInv, OneFlow, UiInv, EngineInv, ProxyInv
<1>32. CASE Revoke
  BY <1>32, <1>0 DEF Revoke, TypeOK, ServiceInv, OneFlow, UiInv, EngineInv, ProxyInv
<1>33. CASE UNCHANGED vars
  BY <1>33, <1>0 DEF vars, TypeOK, ServiceInv, OneFlow, UiInv, EngineInv, ProxyInv
<1>34. ASSUME NEW t \in Tasks, WifiEvent(t) \/ WifiStatus(t) \/ WifiNothing(t) \/ WifiConnect(t) PROVE FALSE
  BY <1>34, <1>0 DEF WifiEvent, WifiStatus, WifiNothing, WifiConnect, Connect, UiInv, Goto
<1>35. ASSUME NEW t \in Tasks, Press(t) PROVE ServiceInv'
  BY <1>35, <1>29, <1>30 DEF Press, Active
<1> QED
  BY <1>1, <1>2, <1>3, <1>4, <1>5, <1>6, <1>7, <1>8, <1>9, <1>10,
     <1>11, <1>12, <1>13, <1>14, <1>15, <1>16, <1>17, <1>18, <1>19, <1>20,
     <1>21, <1>22, <1>23, <1>24, <1>25, <1>26, <1>27, <1>28, <1>29, <1>30,
     <1>31, <1>32, <1>33, <1>34, <1>35
  DEF Next, TaskStep, StartStep, StopStep, OtherStep, EngineStep

\* BlockInv is kept by every step.
LEMMA KeepsBlockInv ==
    ASSUME IInv, "wifi" \notin Events, [Next]_vars PROVE BlockInv'
<1> USE DEF Android, SystemProxy, Goto, uiVars, taskVars, engineVars, osVars, storeVars, Early, Failed, Late, Stopping, Flow, ConnectPoints, StopPoints
<1>0. /\ TypeOK /\ OneFlow /\ UiInv /\ EngineInv /\ FdInv /\ ProxyInv /\ ServiceInv /\ BlockInv
      /\ UNCHANGED device
  BY DEF IInv, Next, vars
<1>1. ASSUME NEW t \in Tasks, Load(t) PROVE BlockInv'
  BY <1>1, <1>0, FromEngineIs DEF Load, TypeOK, BlockInv, OneFlow, UiInv, EngineInv, AtRest, Liftable, ProxyInv
<1>2. ASSUME NEW t \in Tasks, Prepare(t) PROVE BlockInv'
  BY <1>2, <1>0, FromEngineIs DEF Prepare, TypeOK, BlockInv, OneFlow, UiInv, EngineInv, AtRest, Liftable, ProxyInv
<1>3. ASSUME NEW t \in Tasks, PrepareDenied(t) PROVE BlockInv'
  BY <1>3, <1>0, FromEngineIs DEF PrepareDenied, TypeOK, BlockInv, OneFlow, UiInv, EngineInv, AtRest, Liftable, ProxyInv
<1>4. ASSUME NEW t \in Tasks, Establish(t) PROVE BlockInv'
  BY <1>4, <1>0, FromEngineIs DEF Establish, SetTunFd, TypeOK, BlockInv, OneFlow, UiInv, EngineInv, AtRest, Liftable, ProxyInv
<1>5. ASSUME NEW t \in Tasks, EstablishThrows(t) PROVE BlockInv'
  BY <1>5, <1>0, FromEngineIs DEF EstablishThrows, TypeOK, BlockInv, OneFlow, UiInv, EngineInv, AtRest, Liftable, ProxyInv
<1>6. ASSUME NEW t \in Tasks, EngineAlreadyRunning(t) PROVE BlockInv'
  BY <1>6, <1>0, FromEngineIs DEF EngineAlreadyRunning, TypeOK, BlockInv, OneFlow, UiInv, EngineInv, AtRest, Liftable, ProxyInv
<1>7. ASSUME NEW t \in Tasks, EngineStarts(t) PROVE BlockInv'
  BY <1>7, <1>0, FromEngineIs DEF EngineStarts, TypeOK, BlockInv, OneFlow, UiInv, EngineInv, AtRest, Liftable, ProxyInv
<1>8. ASSUME NEW t \in Tasks, EngineUp(t) PROVE BlockInv'
  BY <1>8, <1>0, FromEngineIs DEF EngineUp, OpenTun, TypeOK, BlockInv, OneFlow, UiInv, EngineInv, AtRest, Liftable, ProxyInv
<1>9. ASSUME NEW t \in Tasks, EngineFails(t) PROVE BlockInv'
  BY <1>9, <1>0, FromEngineIs DEF EngineFails, TypeOK, BlockInv, OneFlow, UiInv, EngineInv, AtRest, Liftable, ProxyInv
<1>10. ASSUME NEW t \in Tasks, Rollback(t) PROVE BlockInv'
  BY <1>10, <1>0, FromEngineIs DEF Rollback, Teardown, TypeOK, BlockInv, OneFlow, UiInv, EngineInv, AtRest, Liftable, ProxyInv
<1>11. ASSUME NEW t \in Tasks, ConnectFailed(t) PROVE BlockInv'
  BY <1>11, <1>0, FromEngineIs DEF ConnectFailed, TypeOK, BlockInv, OneFlow, UiInv, EngineInv, AtRest, Liftable, ProxyInv
<1>12. ASSUME NEW t \in Tasks, SetProxyServer(t) PROVE BlockInv'
  BY <1>12, <1>0, FromEngineIs DEF SetProxyServer, TypeOK, BlockInv, OneFlow, UiInv, EngineInv, AtRest, Liftable, ProxyInv
<1>13. ASSUME NEW t \in Tasks, EnableProxy(t) PROVE BlockInv'
  BY <1>13, <1>0, FromEngineIs DEF EnableProxy, TypeOK, BlockInv, OneFlow, UiInv, EngineInv, AtRest, Liftable, ProxyInv
<1>14. ASSUME NEW t \in Tasks, EngageKillSwitch(t) PROVE BlockInv'
  BY <1>14, <1>0, FromEngineIs DEF EngageKillSwitch, SetKillSwitch, TypeOK, BlockInv, OneFlow, UiInv, EngineInv, AtRest, Liftable, ProxyInv
<1>15. ASSUME NEW t \in Tasks, EngageThrows(t) PROVE BlockInv'
  BY <1>15, <1>0, FromEngineIs DEF EngageThrows, KillSwitchThrows, TypeOK, BlockInv, OneFlow, UiInv, EngineInv, AtRest, Liftable, ProxyInv
<1>16. ASSUME NEW t \in Tasks, SaveActiveId(t) PROVE BlockInv'
  BY <1>16, <1>0, FromEngineIs DEF SaveActiveId, TypeOK, BlockInv, OneFlow, UiInv, EngineInv, AtRest, Liftable, ProxyInv
<1>17. ASSUME NEW t \in Tasks, Connected(t) PROVE BlockInv'
  BY <1>17, <1>0, FromEngineIs DEF Connected, TypeOK, BlockInv, OneFlow, UiInv, EngineInv, AtRest, Liftable, ProxyInv
<1>18. ASSUME NEW t \in Tasks, StopEngine(t) PROVE BlockInv'
  BY <1>18, <1>0, FromEngineIs DEF StopEngine, TypeOK, BlockInv, OneFlow, UiInv, EngineInv, AtRest, Liftable, ProxyInv
<1>19. ASSUME NEW t \in Tasks, ClearProxy(t) PROVE BlockInv'
  BY <1>19, <1>0, FromEngineIs DEF ClearProxy, TypeOK, BlockInv, OneFlow, UiInv, EngineInv, AtRest, Liftable, ProxyInv
<1>20. ASSUME NEW t \in Tasks, LiftKillSwitch(t) PROVE BlockInv'
  BY <1>20, <1>0, FromEngineIs DEF LiftKillSwitch, SetKillSwitch, TypeOK, BlockInv, OneFlow, UiInv, EngineInv, AtRest, Liftable, ProxyInv
<1>21. ASSUME NEW t \in Tasks, LiftThrows(t) PROVE BlockInv'
  BY <1>21, <1>0, FromEngineIs DEF LiftThrows, KillSwitchThrows, TypeOK, BlockInv, OneFlow, UiInv, EngineInv, AtRest, Liftable, ProxyInv
<1>22. ASSUME NEW t \in Tasks, StopTeardown(t) PROVE BlockInv'
  BY <1>22, <1>0, FromEngineIs DEF StopTeardown, Teardown, TypeOK, BlockInv, OneFlow, UiInv, EngineInv, AtRest, Liftable, ProxyInv
<1>23. ASSUME NEW t \in Tasks, Disconnected(t) PROVE BlockInv'
  BY <1>23, <1>0, FromEngineIs DEF Disconnected, TypeOK, BlockInv, OneFlow, UiInv, EngineInv, AtRest, Liftable, ProxyInv
<1>24. ASSUME NEW t \in Tasks, ToggleSave(t) PROVE BlockInv'
  BY <1>24, <1>0, FromEngineIs DEF ToggleSave, TypeOK, BlockInv, OneFlow, UiInv, EngineInv, AtRest, Liftable, ProxyInv
<1>25. ASSUME NEW t \in Tasks, ToggleApply(t) PROVE BlockInv'
  BY <1>25, <1>0, FromEngineIs DEF ToggleApply, TypeOK, BlockInv, OneFlow, UiInv, EngineInv, AtRest, Liftable, ProxyInv
<1>26. ASSUME NEW t \in Tasks, ToggleSet(t) PROVE BlockInv'
  BY <1>26, <1>0, FromEngineIs DEF ToggleSet, SetKillSwitch, TypeOK, BlockInv, OneFlow, UiInv, EngineInv, AtRest, Liftable, ProxyInv
<1>27. ASSUME NEW t \in Tasks, ToggleThrows(t) PROVE BlockInv'
  BY <1>27, <1>0, FromEngineIs DEF ToggleThrows, KillSwitchThrows, TypeOK, BlockInv, OneFlow, UiInv, EngineInv, AtRest, Liftable, ProxyInv
<1>28. ASSUME NEW t \in Tasks, Toggle(t) PROVE BlockInv'
  BY <1>28, <1>0, FromEngineIs DEF Toggle, TypeOK, BlockInv, OneFlow, UiInv, EngineInv, AtRest, Liftable, ProxyInv
<1>29. ASSUME NEW t \in Tasks, Connect(t, "idle"), ~Active PROVE BlockInv'
  <2>1. ui \in {"disconnected", "error"}
    BY <1>29, <1>0 DEF Active, Busy, TypeOK, ConnectionStatus
  <2>2. \A u \in Tasks : pc[u] \notin Flow
    BY <2>1, <1>0 DEF UiInv
  <2>3. /\ ui' = "connecting" /\ pc' = [pc EXCEPT ![t] = "load"]
        /\ UNCHANGED <<poll, engineVars, osVars, storeVars>>
    BY <1>29 DEF Connect
  <2>4. \A u \in Tasks : pc'[u] = (IF u = t THEN "load" ELSE pc[u])
    BY <2>3, <1>0 DEF TypeOK
  <2> QED
    BY <2>1, <2>2, <2>3, <2>4, <1>0, FromEngineIs DEF BlockInv, OneFlow, UiInv, EngineInv, AtRest, Liftable, ProxyInv
<1>30. ASSUME NEW t \in Tasks, Disconnect(t), ui = "connected" PROVE BlockInv'
  BY <1>30, <1>0, FromEngineIs DEF Disconnect, TypeOK, BlockInv, OneFlow, UiInv, EngineInv, AtRest, Liftable, ProxyInv
<1>31. CASE Tick
  BY <1>31, <1>0, FromEngineIs DEF Tick, FromEngine, TypeOK, BlockInv, OneFlow, UiInv, EngineInv, AtRest, Liftable, ProxyInv
<1>32. CASE Revoke
  BY <1>32, <1>0, FromEngineIs DEF Revoke, TypeOK, BlockInv, OneFlow, UiInv, EngineInv, AtRest, Liftable, ProxyInv
<1>33. CASE UNCHANGED vars
  BY <1>33, <1>0, FromEngineIs DEF vars, TypeOK, BlockInv, OneFlow, UiInv, EngineInv, AtRest, Liftable, ProxyInv
<1>34. ASSUME NEW t \in Tasks, WifiEvent(t) \/ WifiStatus(t) \/ WifiNothing(t) \/ WifiConnect(t) PROVE FALSE
  BY <1>34, <1>0 DEF WifiEvent, WifiStatus, WifiNothing, WifiConnect, Connect, UiInv, Goto
<1>35. ASSUME NEW t \in Tasks, Press(t) PROVE BlockInv'
  BY <1>35, <1>29, <1>30 DEF Press, Active
<1> QED
  BY <1>1, <1>2, <1>3, <1>4, <1>5, <1>6, <1>7, <1>8, <1>9, <1>10,
     <1>11, <1>12, <1>13, <1>14, <1>15, <1>16, <1>17, <1>18, <1>19, <1>20,
     <1>21, <1>22, <1>23, <1>24, <1>25, <1>26, <1>27, <1>28, <1>29, <1>30,
     <1>31, <1>32, <1>33, <1>34, <1>35
  DEF Next, TaskStep, StartStep, StopStep, OtherStep, EngineStep

-----------------------------------------------------------------------------
(* The theorems.                                                           *)

\* The initial states, with and without a tunnel that vpnBoot has brought up.
LEMMA InitTypes == Init => TypeInv
<1> SUFFICES ASSUME Init PROVE TypeInv
  OBVIOUS
<1>1. 1 \in Attempts /\ Booted \in BOOLEAN
  BY BoundAssumption DEF Attempts
<1>2. CASE Booted
  <2>1. starts = 1 /\ port = 1 /\ engFd = 1 /\ tunFd = 1 /\ proxyPort = None /\ fds = {1}
    BY <1>2 DEF Init
  <2>2. {port, engFd, tunFd, proxyPort} \subseteq Attempts \cup {None} /\ fds \subseteq Attempts
    BY <1>1, <2>1
  <2>3. {service, proxyOn, block, killSwitch, activeId} \subseteq BOOLEAN
    BY <1>2 DEF Init
  <2>4. /\ pc \in [Tasks -> OtherPoints] /\ flag \in [Tasks -> BOOLEAN]
        /\ attempt \in [Tasks -> {None}] /\ \A t \in Tasks : pc[t] = "idle"
    BY DEF Init, OtherPoints
  <2> QED
    BY <1>1, <1>2, <2>1, <2>2, <2>3, <2>4
    DEF Init, TypeInv, TypeOK, ConnectionStatus, ConnectPoints
<1>3. CASE ~Booted
  BY <1>1, <1>3 DEF Init, TypeInv, TypeOK, ConnectionStatus, ConnectPoints, StopPoints, OtherPoints, None
<1> QED
  BY <1>1, <1>2, <1>3

LEMMA InitKeeps == Init => IInv
<1> SUFFICES ASSUME Init PROVE IInv
  OBVIOUS
<1> USE DEF Early, Failed, Late, Stopping, Flow, ConnectPoints, StopPoints
<1>1. TypeOK
  BY InitTypes DEF TypeInv
<1>2. \A t \in Tasks : pc[t] = "idle"
  BY DEF Init
<1>3. /\ ui = "disconnected" /\ ~poll /\ ~proxyOn
      /\ Booted => eng = "running" /\ port = 1 /\ engFd = 1 /\ fds = {1}
      /\ ~Booted => eng = "stopped" /\ ~service /\ ~block
  BY DEF Init
<1>4. OneFlow /\ UiInv
  BY <1>2, <1>3 DEF OneFlow, UiInv
<1>5. EngineInv
  BY <1>2, <1>3 DEF EngineInv, AtRest
<1>6. FdInv
  BY <1>2, <1>3 DEF FdInv
<1>7. ProxyInv
  BY <1>2, <1>3 DEF ProxyInv
<1>8. ServiceInv
  BY <1>2, <1>3 DEF ServiceInv
<1>9. BlockInv
  BY <1>2, <1>3 DEF BlockInv, Liftable
<1> QED
  BY <1>1, <1>4, <1>5, <1>6, <1>7, <1>8, <1>9 DEF IInv

\* Whatever overlaps and fails, every variable keeps its type; in particular a task
\* that connects, prepares the descriptor or sets the proxy address has an attempt
\* number to do it with.
THEOREM Types == Spec => []TypeOK
<1>1. TypeInv => TypeOK
  BY DEF TypeInv
<1> QED
  BY InitTypes, TypeStep, <1>1, PTL DEF Spec

\* One connect or disconnect is in flight at a time, and at each of its points the
\* engine, the descriptor, the proxy, the service and the firewall are as far as that
\* point says.  It needs the Wi-Fi rule to be off: that task acts on a status it read
\* two awaits before.
THEOREM Invariance == ASSUME "wifi" \notin Events PROVE Spec => []IInv
<1>1. TypeInv /\ IInv /\ [Next]_vars => IInv'
  <2> SUFFICES ASSUME TypeInv, IInv, [Next]_vars PROVE IInv'
    OBVIOUS
  <2>1. TypeOK'
    BY TypeStep DEF TypeInv
  <2>2. OneFlow' /\ UiInv' /\ EngineInv' /\ FdInv'
    BY KeepsOneFlow, KeepsUiInv, KeepsEngineInv, KeepsFdInv
  <2>3. ProxyInv' /\ ServiceInv' /\ BlockInv'
    BY KeepsProxyInv, KeepsServiceInv, KeepsBlockInv
  <2> QED
    BY <2>1, <2>2, <2>3 DEF IInv
<1> QED
  BY InitTypes, TypeStep, InitKeeps, <1>1, PTL DEF Spec

\* On Windows, and on Android as long as no other VPN app takes the tunnel over,
\* "connected" on the screen is a running engine to which the OS sends the traffic.
THEOREM ConnectedHolds ==
    ASSUME "wifi" \notin Events, "android" \in Devices => "revoke" \notin Faults
    PROVE  Spec => []ConnectedIsReal
<1>1. IInv => ConnectedIsReal
  BY DEF IInv, TypeOK, Android, SystemProxy, ConnectedIsReal, Routed, UiInv, EngineInv, ProxyInv, ServiceInv
<1> QED
  BY Invariance, <1>1, PTL

\* After a failed attempt the engine, the proxy and the service are down, unless the
\* app was opened over the tunnel that vpnBoot keeps up.
THEOREM ErrorHolds ==
    ASSUME "wifi" \notin Events, ~Booted
    PROVE  Spec => []ErrorIsRolledBack
<1>1. IInv => ErrorIsRolledBack
  BY DEF IInv, ErrorIsRolledBack, EngineInv, AtRest, ProxyInv, ServiceInv
<1> QED
  BY Invariance, <1>1, PTL

\* Wherever an exception of the firewall step ends a disconnect, the engine has been
\* stopped and the proxy cleared before.
THEOREM AbortedStopHolds ==
    ASSUME "wifi" \notin Events
    PROVE  Spec => []AbortedStopIsOff
<1>1. IInv => AbortedStopIsOff
  BY DEF IInv, AbortedStopIsOff, Quiet, EngineInv, ProxyInv
<1> QED
  BY Invariance, <1>1, PTL

\* A disconnect leaves no engine, no proxy and no service behind, and no block where the
\* firewall can be reached and is not reached late by a flip of the setting: always on
\* Android.
THEOREM DisconnectedHolds ==
    ASSUME "wifi" \notin Events, ~Booted
    PROVE  Spec => []DisconnectedIsClean
<1>1. IInv => DisconnectedIsClean
  BY DEF IInv, DisconnectedIsClean, Liftable, EngineInv, ProxyInv, ServiceInv, BlockInv
<1> QED
  BY Invariance, <1>1, PTL

\* The engine reads the descriptor that was established for its own attempt, and it is
\* open, also when the app is opened over the tunnel of vpnBoot.
THEOREM TunHolds ==
    ASSUME "wifi" \notin Events
    PROVE  Spec => []TunIsOwn
<1>1. IInv => TunIsOwn
  BY DEF IInv, TunIsOwn, FdInv
<1> QED
  BY Invariance, <1>1, PTL
=============================================================================

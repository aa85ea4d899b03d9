# FastFlow: a TLA+ verification project

FastFlow is a VPN client: a Flutter app (Dart) over a sing-box core embedded as a
Go library, with platform code for Android (Kotlin, JNI) and Windows (an elevated
helper service in Go). This directory holds TLA+ models of its concurrent core,
the configurations that model-check them with TLC, and proofs checked by TLAPS.
`PROJECT.json` maps every definition to the source lines it stands for.

## 1. Inventory

### Components

| Component | State it keeps | Operations | Talks to |
|---|---|---|---|
| Engine controller, `data/vpn_engine/engine_controller.go` | mutex, `instance`, `cancel`, atomic `status` and `lastError`, `tunFd` | StartEngine, StopEngine, GetStatus, GetEngineLastError, GetStats, SetTunFd | sing-box (`box.New`, `Start`, `Close`), the poller |
| Traffic meter, `traffic.go` | atomic pointer to a snapshot; the poller's `last` | pollTraffic (one goroutine per session), newV2RayStatsReader, read, readTraffic | the engine's context |
| Connection notifier and use cases, `presentation/state/connection_state_mgr.dart`, `core/use_cases/connection`, `core/use_cases/automation` | the `ConnectionState` on screen, a polling timer | connect, disconnect, toggle, tick, Wi-Fi event, kill-switch toggle | engine service, platform, settings |
| Engine service and FFI, `vpn_engine_service.dart`, `engine_controller.dart` | inbound session (ports) | start in a worker isolate, stop on the main isolate | the Go library |
| Windows platform, `infrastructure/os_windows` | system proxy in the registry, firewall | setSystemProxy, clearSystemProxy, setKillSwitch | helper service |
| Android platform, `FastFlowVpnService.kt`, `VpnChannels.kt` | the VpnService, its interface, the kill-switch flag | prepare, establish, stop, setKillSwitch, revoke | method channels |
| Network monitor, `NetworkStateMonitor.kt`, `NativeBridge.kt`, `fastflow_jni.cpp`, `platform_android.go` | tracked networks, what was last sent; the registry of interfaces in Go | two ConnectivityManager callbacks, handler thread, replay, final reset; setPlatform, registerCallback, setNetworkManager, Start | JNI downcalls, sing-box callbacks |
| Helper requests, `daemon_ipc_client.dart`, `windows_daemon/ipc.go`, `firewall.go` | pending requests, worker isolates, pipes; the firewall | connect, call, time-out, teardown; enable and disable the kill switch | named pipe, netsh |
| Helper process, `windows_daemon/main.go`, `service.go`, `ipc.go`, `pipe.go`, `routing.go` | `cur` and `stopped` under a mutex, pipe instances, one goroutine per client, the route table | start, stop, acceptLoop, verifyClient, handle, dispatch, addRoute, removeRoute | service manager, named pipe, route.exe |
| Helper's directory, token and image checks, `security.go`, `acl.go`, `authenticode.go`, `install.go` | the data directory and its owner, `daemon.token`; resources a check holds | ensureSecureDir, loadOrCreateToken, installService, uninstallService, processImagePath, verifyAuthenticode, verifySignerCN | Win32, the app's reading of the token |
| Settings, `settings_mgr.dart`, `settings_repository_impl.dart`, `android_boot_config.dart`, `BootReceiver.kt` | settings in memory, one SQLite row, the auto-start flag | load, patch, update, adopt; boot | SQLite, SharedPreferences |
| Profiles, `profile_repository_impl.dart` | rows, a broadcast stream | upsert, delete, watchAll | SQLite |
| Config builders, parsers, models | none (pure) | build, parse, toJson/fromJson | - |
| Updater; UI and texts | - | - | - |

### What is hard in it

* Dart tasks interleave at every `await`; a decision taken before one is acted upon after it.
* StartEngine runs in a worker isolate and StopEngine on the main one; both contend for
  one mutex, and status readers take none.
* Close is bounded by a time-out in one place and unbounded in another; the meter's goroutine is not joined.
* Android delivers two callback streams to a handler thread; downcalls are dropped while
  the library is not bound; a restart brings a second thread.
* Requests to the helper time out while the service goes on executing them; netsh
  sequences fail half way; the service may stop between two commands.
* The helper's accept loop, its handlers and the stop request share handle values
  that the system gives out again once closed; stop and loop both close the same one.
* The service and an installer prepare the same directory at once, call by call, and
  either may be killed between two of them; the app reads the token once in its life.
* The process dies between saving a setting and mirroring it for the boot receiver.

The full list, line by line, is `hazards` in `PROJECT.json`, each with the properties that watch it.

### What makes each part correct

* Engine: when nobody is inside it, the fields agree; a lock-free reader never sees
  "running" without a live instance, and finds a message after "error"; no live core is
  forgotten; the meter's rate is that of the time that passed, and it ends empty; StopEngine returns.
* Connection: when nothing is in flight, the screen and the machine agree (running
  engine, routed traffic, or nothing left behind); every connect and disconnect ends.
* Network monitor: once the queues are empty, the Go registry and the core know what the system knows.
* Helper requests: an "ok" is true of the firewall; every call returns.
* Helper process: no pipe instance leaks or is closed under a client, only the GUI is
  served, every line is answered, a stop ends the loop.
* Token: the running service, the file and the app hold the same one; a check gives
  back every resource it took.
* Settings: the boot flag follows the row, whoever decides about a reboot decides the same,
  and row and memory hold what the user chose as far as the code lets them.

## 2. Modules

| Module | Models | State and actions |
|---|---|---|
| `Engine` | engine controller and traffic meter | One action per step between two points where another thread can look: the lock, each store to `status`, `lastError`, `instance`, `cancel`, box.New, Start, Close, the time-out, the poller's select and its store. `core[i]` is the sing-box instance of session i, known only by how the code calls it. A recovered panic is the jump of the deferred function to setError and cleanup; a core it makes unreachable is an "orphan". A tick takes the time that has passed since the last one, none included, and `perSecond` divides by it. The host loads status and message in two steps (`peek`). |
| `EngineLifecycle` | what the engine promises its callers: status and whether a tunnel is published | The abstract specification `Engine` implements (`RefinesLifecycle`). |
| `EngineProofs` | - | Theorems about `Engine`, see section 5. |
| `Connection`, `ConnectionProofs` | notifier, use cases, platforms, engine service | A task has a program point per await. The engine appears by its lifecycle. Profiles are left out; an attempt number stands for the ports and descriptor drawn for it. `device` is the platform and its inbound mode, fixed for a behaviour; one run takes all three. |
| `Netif`, `NetifProofs` | network monitor, JNI shim, Go registry, the cores that listen to it | The system's networks, two callback queues per monitor, the handler's deduplication, the downcalls under way, the registry, the list of callbacks and the network manager captured under its mutex and called after it. A core is created, initialised, started and closed; a closed one may leave its callback behind, and its manager always stays. A network's link data is a version number. Of the default entry the handle is kept; `setDefault` (`platform_android.go:171`) takes it over in full or, for a network not reported yet, sparse, and the sparse one staying on is not seen. |
| `Helper`, `HelperProofs` | client, worker isolate, service goroutine, firewall | Callers, worker isolates with their command ports, one goroutine per pipe that runs netsh one command at a time. |
| `Service`, `ServiceProofs` | service control, accept loop, handlers, routes | What runs under `s.mu` is one step. A handle value names a pipe instance and is free again once closed; `h`, `cur` and stop's local may hold the same one. A client comes, writes, leaves at any time; the process ends at any time. An address is a number of `Bits` bits, so masking is real arithmetic. |
| `Trust`, `TrustProofs` | data directory, token, installation, image checks | Service and installer are two processes that run ensureSecureDir one Win32 call per step. A token is a number; an empty or short file is its own value. A check is a sequence of calls, each with what it acquires, defers and releases. |
| `Settings`, `SettingsProofs` | notifier, repository, kill-switch use case, flag, boot | Statements and answers are FIFO, as sqflite runs them on one connection. Two settings stand for all: `killSwitch`, written by the use case through the row, and `autoWifi`, patched in memory. A patch is possible whenever the app runs, also before the first load and beside a toggle, and any statement may throw; `overlapped`, `failed` and `thrown` are histories that say whether it was so. |
| `*MC` | - | Instances for TLC. |

`Connection` takes the engine as `EngineLifecycle` gives it, and the kill switch as the
helper's client offers it; `Helper` opens up that call, from the client's side to the
firewall, and `Service` the process that accepts it; `Service` starts with a token and an
image check that pass or fail, and `Trust` opens up both. `Settings` opens up the toggle's
load and save. What a definition abstracts stays in its mapped lines: the map of an
action names the whole handler.

Definitions marked "Mutant" are plausible mistakes in the definition that follows them,
kept to show that a property notices them; no specification uses them.

## 3. Runs

Permutations of the callers, tasks or networks are used as symmetry where no liveness is
checked. Deadlock is checked in the engine, connection and trust runs that are meant to
pass. It is switched off for Netif, Helper, Service and Settings, where the number of
changes, requests or starts is bounded and the end of all work is a legitimate rest.

| Run | Shows | Bounds | States |
|---|---|---|---|
| `EngineSafety` | consistency of the fields and of what readers see, `OneTunnel`, `MeterSteps`, the refinement | 2 threads, 2 sessions, 2 bytes per counter, ticks up to 2 units of half a second apart, panics and slow Closes | 1,882,037 |
| `EngineLive` | `StopReturnsUnlessStuck`, `MeterForgetsSession` | 2 threads, 2 sessions, panics, slow Closes | 19,248 |
| `ConnSafety` | screen and machine agree on every device; a failed attempt is rolled back; nothing is left after a disconnect; a disconnect that throws has stopped the engine and the proxy; the engine reads the descriptor of its own attempt | 3 tasks, 3 attempts, 3 devices, toggles; denied, failed establish, failing engine, missing helper, helper errors | 464,705 |
| `ConnLive` | `BusyEnds` under fairness | 2 tasks, 2 attempts, Wi-Fi, toggles; denied, failing engine, revoke | 42,427 |
| `Netif` | `RegistryAgrees`, `CoreAgrees`, `StoppedIsEmpty` | 2 networks, 1 change of a link, 1 monitor session, 2 pending events, 2 cores, late binding | 3,004,246 |
| `Helper` | `LastAnswerIsTrue`; `EveryCallReturns` under fairness | 2 callers, 2 pipes, 2 requests, netsh failures, service stops | 80,644 |
| `Service` | `OneOwner`, `StopTakesOnlyParked`, `ServedIsVerified`, `RoutesFollow`; `StopEndsLoop`, `LineIsAnswered` under fairness | 2 clients, one of them the GUI, 3 handle values, 2 starts, 2-bit addresses, 2 CIDRs, every fault | 75,695 |
| `Trust` | `TokenAgrees`, `ClientAgrees`, `ChecksRelease` | the registered service and an installer, 3 tokens, every fault but an owner that cannot be read | 225,671 |
| `Settings` | `BootFlagFollows`, `BootAgrees`, `ChoicesAreKept`, `KillSwitchIsShown` | 2 overlapping changes, 3 changes, 3 starts of the app, patches at any time, statements and toggles that throw, crashes, reboots | 682,506 |
| `ConnBoot` | violated: `LiveTunnelIsRouted` | 1 task, 2 attempts, after a boot reconnect | - |
| `NetifRestart` | violated: `RegistryAgrees` | 2 monitor sessions | - |
| `SettingsOverlap` | violated: `MemoryIsSaved` | 2 changes, patches and toggles, nothing fails | - |

Why the bounds are enough. Two threads reach every contention on one mutex: one inside,
one waiting or reading. Two sessions reach a core, a poller and a Close that outlive
their own session into the next; two bytes give two successive differences, and two units of
time a tick on time, a late one and one that comes at once. Three tasks
reach a connect, a disconnect and a toggle in flight together, and three attempts a
failed one, a good one and another after it. Two networks reach a change of default and
a loss of the one that is not, and two cores a callback and a manager left behind by
the first beside those of the second. Three handle values reach an instance parked on,
one being served and one just freed and given out again. Three tokens reach a start
killed in its write, the one that repairs it and one more. Two requests reach a late execution behind which the
other request waits; the safety part was also run with three, with symmetry (777,897 states). Three
starts of the app reach a crash, a reboot and the start that repairs.

### Fairness, and why the code justifies it

* `EngineLive`: a thread inside the engine keeps running and gets the mutex in the end (strong
  fairness per thread of what it does by itself: Go's `sync.Mutex` hands over in starvation mode), a
  poller stores what it has read (weak), and its select sees `ctx.Done` in the end (strong: `select`
  chooses uniformly among ready cases). Nothing is assumed of the core: box.New, Start and every
  Close may hang, the mutex held or not (`CoreStep`, `CloseReturns`).
* `ConnLive`: futures complete and the event loop serves every ready task; the periodic timer fires.
  Nothing is assumed of StartEngine, which may not return (`EngineStep`).
* `Service`: the Go scheduler runs every goroutine that can run, netsh and route.exe come
  back, and stop() goes on to close its handle. Nothing is assumed of the clients, of the
  service manager, nor of the end of the process, which may linger after Execute has returned.
* `Helper`: only the Dart side is fair, its timers included. The service and netsh may hang for ever.

### Disagreements between the code and what is said of it

Shown by runs (findings in `PROJECT.json`):

* `ConnBoot`. `main.dart:72` says the engine of a boot reconnect must keep running. The
  UI opened later starts as disconnected; a press establishes a new interface, StartEngine refuses
  ("already running"), and the rollback stops the service under the live session.
  With Wi-Fi events enabled the same property fails by another way: the decision of
  `handle_wifi_change.dart` is taken before two awaits, and connects over a tunnel that came up meanwhile.
* `NetifRestart`. Each monitor has a handler thread of its own; the final reset of a stopped one can come
  after its successor's reports, against the "strictly ordered" of `NetworkStateMonitor.kt:35`.
* `SettingsOverlap`. The settings notifier "persists every change" (`settings_mgr.dart:10`). A patch made before
  the first load has finished is saved and then replaced in memory by what the load had read; one
  made while a toggle's save is under way is replaced in memory by `adopt`, and saved behind it.
  Memory and row then differ for good, although nothing failed.

Seen while modelling, and the reason why a property says no more than it does:

* A patch made before a toggle has queued its save (`toggle_kill_switch.dart:17`) is undone in the row and in
  memory; one made after that is undone in memory, and its own save undoes the toggle in the row.
  `ChoicesAreKept` says when nothing is lost: as long as no patch was made on settings that are not `Current`, that is,
  before the first load had finished, while a toggle had not yet been adopted, or after a toggle that
  threw. The kill switch on the screen is right in the first two cases as well (`KillSwitchIsShown`).
* An exception of the database ends `update` after the new settings were shown and before they were
  saved (`settings_mgr.dart:26-28`); only what concerns the boot flag is claimed after one.
* After one failed CreateNamedPipe (`ipc.go:77`) the service reports Running and accepts
  nobody; no property says that a running service listens.
* `removeRoute` (`routing.go:33`) deletes by network address without a mask: `RoutesFollow`
  excepts addresses in use with two prefix lengths. The two networks of the run have different
  addresses; `RoutesKept` is proved for any set of them, and a third CIDR that shares an address was
  also run (302,759 states).
* An owner that cannot be read counts as not trusted (`acl.go:58`), and a helper run from a
  console needs no registration: in both cases the purge can remove the token of a running
  service. `TokenAgrees` and `ClientAgrees` hold without them, and TLC finds the
  counterexample as soon as either is allowed.
* StopEngine does not block until closed (`engine_controller.go:8`): after 5 seconds it
  reports stopped with Close still running. `OneTunnel` therefore speaks of live cores, not of closing ones.
* A panic between box.New and the publication of the instance leaves a core that
  nothing closes; the model names it an orphan, and `OneTunnel` speaks of the others.
* box.New, Start and the Close of a failed start (`engine_controller.go:150-162`) have no timer and run with
  the mutex held: `StopReturnsUnlessStuck` says that a start that stays in one of them for ever is
  the only reason for a stop that does not return, and `BusyEnds` the same of the screen.
* The message of an error can be gone when the host asks for it: a start can publish between its
  two loads. `ErrorHasMessage` says that this is the only way.
* An old poller may store its last sample in the next session: `traffic.go:79` ("starts at 0")
  is not a property; `MeterForgetsSession` says that it does not stay.
* An error of the helper is thrown out of `setKillSwitch` through connect and disconnect: the
  screen stays busy and the button disabled. A failed `establish()` on Android ends the
  same way (`VpnChannels.kt:133` answers with an error where `android_vpn_service.dart:33` expects
  null). `BusyEnds` is therefore checked without exceptions; `AbortedStopIsOff` says what such a disconnect leaves.
* On Windows a toggle that saw the tunnel up may set the block after a disconnect has lifted
  it, so `DisconnectedIsClean` claims that no block is left only where it can be lifted (`Liftable`):
  on Android, where check and message are one turn;
  and a toggle while connecting is saved and not applied.
* A start that fails before the core has opened the descriptor leaves it open.
* On Android the kill-switch flag takes effect with the next establish only.
* Two overlapping `connect()` calls of `daemon_ipc_client.dart` open two pipes, whose
  requests the service does not order: `LastAnswerIsTrue` is claimed while there is one.
* After a device restart between a save and the mirroring of the flag, BootReceiver does not re-arm;
  `BootAgrees` is about restarts that find the app at rest.
* The signature checks of `authenticode.go` have no caller at this commit (`security.go:100-105` is commented
  out): `ChecksRelease` covers them as they stand, next to the image-path check that is in use.
* `windows_daemon/README.md` speaks of TCP 127.0.0.1:47654; client and service use a named pipe, and so does the model.

## 4. What is not modelled

Profiles (rows, and a `watchAll` that reads a list and then subscribes); config builders,
parsers and models (pure functions on texts and JSON); the updater; the Wi-Fi monitor
(its events come at any time in `Connection`); a STICKY restart of the VPN service with a
null intent; two establish requests on one `pendingEstablish` slot; the inline netsh
sequence of an elevated app, one step in `Connection`; `protectFd`, which keeps no state;
the wording of security descriptors; the interior of sing-box, which appears only by how
it is called; the UI's layout and texts.

Taken from outside the code, as its comments do: CloseHandle wakes a ConnectNamedPipe that
waits on the handle (`ipc.go:61`); handle values other than pipe instances are not modelled;
Windows does not give a process id away between the kernel's answer and the image check.

## 5. Proofs

`EngineProofs` proves, for every set of calling threads, every number of sessions and
bytes, every measure of time and every set of faults (assumptions `BoundsAssumption`, `CallersAssumption`,
`FaultsAssumption` of `Engine`):

| Theorem | States |
|---|---|
| `Invariance` | `Spec => []IInv` |
| `TypeCorrect`, `QuietAgrees`, `RunningTrue`, `ErrorMessage`, `OneTunnelAtATime`, `MeterOwned` | the invariants of `EngineSafety` |
| `MeterInStep` | the action property `MeterSteps` |
| `Refinement` | `Spec => RefinesLifecycle` |

The argument. `QuietAgreement` speaks of states where the mutex is free, so it is not
inductive: it says nothing of the states in between. `IInv` adds what holds at each
program point of the one call that is inside: `LockInv` (the mutex is held by exactly
the call past Lock), `StartPoint` and `CleanupPoint` (what status, instance, cancel
and the session's core are at each point of a start and of a cleanup), `QuietInv` for the free mutex, `FreshInv` (a
session has no poller before its start ends), and `MeterInv` (a poller's sample is of its own session, no
larger than its counter, and in step with the meter while the meter shows that session;
without it `MeterSteps` fails in a step from an unreachable state where an old sample is
larger than the counter; it is there that `perSecond` is shown to round down what was added per second).
`ErrorHasMessage` spans two loads: `PeekInv` says that a start which is about to publish, and so to empty
the message, began after the first of them. Each group of actions has a lemma per part of
the invariant. `OneTunnel` needs `TunnelInv`: the core of a start is
live only between box.New and the publication, and no other core is live then. The
refinement maps `status` to itself and the abstract `tunnel` to `instance # Nil`; `IInv`
gives the guards of the abstract step each concrete store corresponds to.

`ServiceProofs` proves, for any clients, handle values, CIDRs, number of starts and faults:

| Theorem | States |
|---|---|
| `Invariance` | the strengthened invariant `IInv` |
| `Owners`, `StopIsPrecise`, `Verified` | `OneOwner`, `StopTakesOnlyParked`, `ServedIsVerified` |
| `RoutesKept` | `RoutesFollow` |
| `Types` | `TypeOK`, routes included |

The argument. The properties speak of instances; what keeps them is where the loop is.
`ControlInv` ties the stop flag to the state of the process, `LoopInv` says that `cur` and
stop's local are the loop's own `h` while it is parked or waking, or a value it has closed
already, `HandleInv` that the loop holds a closed value only between a stop and its own
waking, `ClientInv` that both ends of a connected instance agree, and `ServeInv` that the
process id read earlier is that of the client still there. The lemma `Closed` gives one
description of CloseHandle for both its cases. `RoutesFollow` needs only that what is asked
for is the network of some CIDR. `Types` adds that masking stays in the address space; that
powers of two are positive numbers is induction over `^`, which the provers do not know, so
`Service` states it as `PowersAssumption` and TLC evaluates it for the widths it is run with.

`TrustProofs` proves `Types` and `Releasing` (`TypeOK`, `ChecksRelease`) for every mode and
fault, and `TokensAgree` and `CopyStaysGood` (`TokenAgrees`, `ClientAgrees`) under `Usual`:
the owner of a directory can be read, and the helper runs as the registered service.
`HeldInv` says that a check holds what it has deferred and, between two calls of
verifyAuthenticode, the trust state. `DirInv` says that the directory is taken before the
service is registered and that only the first installation purges; `FileInv` that the file
is rewritten only while it holds no token.

`SettingsProofs` proves, for any tasks, any bounds and any choice of what users and devices do, with no
further assumption:

| Theorem | States |
|---|---|
| `Types` | `TypeOK` |
| `FlagFollows`, `BootAgreed` | `BootFlagFollows`, `BootAgrees` |
| `ChoicesKept`, `KillSwitchShown` | `ChoicesAreKept`, `KillSwitchIsShown` |

The overlaps that do harm are steps of the model like any other; what a property excepts, it excepts by the
histories `overlapped`, `failed` and `thrown` of the behaviour. The argument. Answers and
waiting statements are one queue, in which `QueueInv` lets every task stand once, where its
program point says; `Ahead` is the order in it, and a lemma says what each kind of step does to
that order (`Enqueue`, `Move`, `Dequeue`, `Requeue`). The properties speak only of states where
the queue is empty, so the invariants say what the last task of a kind carries. `RowInv` holds
always: the row is what the last finished write wrote (`RowIsLast`), and the flag that will be
stored last follows it as soon as nobody has a write to finish (`FlagRow`). As long as no patch was made on settings that are not `Current` and no statement failed,
`ChoiceInv` adds
that memory is what the last patch in the queue will write (`MemoryLast`), and that what the user
chose is what the last patch, or the last save of a toggle, carries (`ChoiceLast`, `SavedLast`).
A toggle reads the row in between, so it has to be known that no patch is behind a toggle
(`PatchFirst`) and that the row a toggle reads already has the user's other setting
(`WifiRow`, `WifiLast`, `WifiCarried`). `KillInv` needs only that no statement failed: memory, the last toggle to save
and the loader carry the switch as the user left it (`KillMemory`, `KillSaved`, `KillLoad`), whatever
patches do to the row. `BootAgreed` adds that nothing writes the row while the app is down.

`ConnectionProofs` proves, for any tasks, attempts and faults:

| Theorem | States | Where |
|---|---|---|
| `Types` | `TypeOK` | always |
| `Invariance` | the strengthened invariant `IInv` | no Wi-Fi rule |
| `ConnectedHolds` | `ConnectedIsReal` | no Wi-Fi rule; on Android, no revocation |
| `ErrorHolds` | `ErrorIsRolledBack` | no Wi-Fi rule; not over a tunnel of vpnBoot |
| `AbortedStopHolds` | `AbortedStopIsOff` | no Wi-Fi rule |
| `DisconnectedHolds` | `DisconnectedIsClean` | no Wi-Fi rule; not over a tunnel of vpnBoot |
| `TunHolds` | `TunIsOwn` | no Wi-Fi rule |

The conditions are those of the runs, and each is needed. With Wi-Fi events a decision taken
before two awaits connects over a tunnel that came up meanwhile; onRevoke tells Dart nothing;
over a tunnel of vpnBoot the first press fails with the tunnel up (`ConnBoot`); `Liftable` excludes
the toggle that sets the Windows firewall late and the app that finds no helper.
The argument. Each property speaks of one value on the screen; none is inductive. `OneFlow` says
that one task connects or disconnects at a time, which holds because connect and disconnect mark the
screen busy before their first await and every other entry looks at it (`UiInv`). `EngineInv`,
`FdInv`, `ProxyInv`, `ServiceInv` and `BlockInv` then follow that task from point to point: what
it has done so far is what the machine is. The lemma for a step has a case per action and a
step per part of the invariant; the toggle is the one task that runs beside the flow, and touches only `BlockInv`.

`HelperProofs` proves, for any finite set of callers, any bounds and any faults, `Invariance`,
`Types` (`TypeOK`) and `AnswerHolds` (`LastAnswerIsTrue`). The argument. The answer travels: netsh
step, the goroutine's "ok", the pipe, the worker isolate, the port, the caller's future. `AnswerInv`
says that from the goroutine's answer on, nothing is left to run in the one pipe and the
firewall is as the request wants it; before it, `PointInv` says that policy and rules are as far as the
point of the one goroutine. Both need that late requests stand before the latest in its
line (`LineInv`) and that only a worker that got a pipe has work (`PipeInv`). With two pipes this
is false, so both are stated under `Single`, of the workers that ever opened a pipe: `OnePipe` of
the property can become true again, `Single` cannot. `CallerInv` counts the callers that have
been promised a number; its step lemmas use the cardinality theorems.

`NetifProofs` proves, for any finite set of networks and any bounds and faults:

| Theorem | States | Where |
|---|---|---|
| `Threads` | `ThreadInv`, what holds of every thread and of the listening cores | always |
| `Types` | `TypeOK` | always |
| `StoppedHolds` | `StoppedIsEmpty` | always: also when threads of several monitors overlap |
| `Registry` | `RegistryInv` | `[]OneThread` |
| `RegistryHolds`, `CoreHolds` | `RegistryAgrees`, `CoreAgrees` | `[]OneThread` |
| `OneMonitor` | both of them | `MaxSessions = 1`, what the run `Netif` checks |

`OneThread` says that no monitor is started before the thread of the last one has wound down. The
code does not wait for that (`NativeBridge.startMonitor` makes a new HandlerThread at once), and
`NetifRestart` shows what happens then; the theorems say that this overlap is the only way to lose the agreement,
however many sessions come one after the other. The argument has three layers.
`ThreadInv` is about one thread. `OutInv` says which calls may stand behind which, and that a report is only made by a thread
whose final cleanup is still to come; with `EmptyInv` (whatever is in the registry, somebody will wipe
it) that gives `StoppedIsEmpty` however threads overlap. `TrackInv` says that what was sent is what is known in full,
`AwaitInv` that an announced default brings its two halves next in the queue, and `ListenInv` whose
manager and callbacks a downcall can have captured.
The second layer relates the running monitor to the registry: `KnownInv` (the registry holds nothing the monitor does not know
of, or is about to withdraw) and `SentInv` (nothing sent is missing, unless it is under way or a downcall was dropped).
The third relates the queues to the world: `NetqInv` (after the events in the queue each half is what the system says),
`DefqInv` (the last announcement in the queue is the best network, or its loss comes after it) and `LossInv`. For
the core, `IfaceInv` and `DefaultInv` say that what it has read is true, or that somebody will have it read again:
a replay, a cleanup or a call under way. The queue lemmas (`BecomesAppended`, `BecomesTail`, `BecomesAll`,
`ChoiceAppended`, `ChoiceAnnounced`, `ChoiceTail`) describe what appending and taking off an event does.

Only model-checked: the liveness properties (`StopReturnsUnlessStuck`, `MeterForgetsSession`,
`BusyEnds`, `EveryCallReturns`, `StopEndsLoop`, `LineIsAnswered`; fairness and ENABLED are outside the
prover's reach), and the three violated runs. Every invariant and action property of a passing run is stated by a theorem.

## 6. Plan

Done: the engine, the connection, the network monitor, the helper's requests and its process, its
token and the settings, each with its proofs. Next, in this order:

1. Config builders (`RoutingBuilder`, `DnsBuilder`, inbound and outbound): pure functions from
   settings to an ordered list of rules, checked first-match against the policy they
   stand for over every combination of settings.
2. Profiles: upsert, delete, and `watchAll`.
3. The VPN service's own life cycle: `pendingEstablish`, STICKY restart, boot and UI in one process.

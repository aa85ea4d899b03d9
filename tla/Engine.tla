------------------------------- MODULE Engine -------------------------------
(***************************************************************************)
(* The Go engine singleton (data/vpn_engine/engine_controller.go) and its  *)
(* traffic poller (data/vpn_engine/traffic.go), at the granularity of the  *)
(* stores a lock-free reader (GetStatus, GetEngineLastError, GetStats) can *)
(* tell apart.                                                             *)
(*                                                                         *)
(* A caller is a host thread inside StartEngine or StopEngine.  Every      *)
(* StartEngine that gets past the "already running" test opens a new       *)
(* session: a context, perhaps a sing-box core, perhaps a poller goroutine.*)
(* Sessions are numbered in the order of their creation; 0 is Go's nil.    *)
(* The sing-box core itself is external: box.New, Start and Close may      *)
(* succeed, fail, panic, or (Close) take for ever.                         *)
(***************************************************************************)
EXTENDS Integers

CONSTANTS
    Callers,        \* host threads that call the exported functions
    NoCaller,       \* the mutex is free
    MaxSessions,    \* bound: contexts created
    MaxBytes,       \* bound: bytes a session's counters count up to
    MaxTime,        \* bound: time from a poller's first tick to its last
    PerSec,         \* units of time in a second
    Faults          \* which faults of the core are possible

ASSUME CallersAssumption == NoCaller \notin Callers
ASSUME BoundsAssumption == {MaxSessions, MaxBytes, MaxTime} \subseteq Nat /\ PerSec \in Nat \ {0}
ASSUME FaultsAssumption == Faults \subseteq {"panic", "slowClose"}

VARIABLES
    mu,         \* the caller holding e.mu
    op, pc,     \* the exported call each caller is in, and where
    status, lastError, instance, cancel,    \* the fields of engine
    session,    \* number of contexts created so far
    ctx,        \* each session's context
    core,       \* each session's box.Box
    counter,    \* bytes counted by each session's stats service
    poller,     \* each session's pollTraffic goroutine
    last,       \* its local variable last
    traffic,    \* e.traffic
    peek        \* what the host read in the first of two loads, and when

engineVars == <<mu, op, pc, status, lastError, instance, cancel, session, ctx>>
meterVars == <<counter, poller, last, traffic>>
vars == <<engineVars, core, meterVars, peek>>

Sessions == 1 .. MaxSessions
Nil == 0

Status == {"stopped", "starting", "running", "stopping", "error"}

\* The nil snapshot reads as all zeros (readTraffic).
NoSnapshot == [session |-> Nil, total |-> 0, rate |-> 0, at |-> 0]
Snapshot == [session : Sessions, total : 0 .. MaxBytes, rate : 0 .. MaxBytes * PerSec,
             at : 0 .. MaxTime]

\* The host is not between two loads.
NoPeek == -1

\* Program points at which a caller holds e.mu.
InStart == {"parse", "new", "start", "failClose", "setError", "publish",
            "setRunning", "poller", "panicStatus"}
InCleanup == {"close", "wait", "cancel", "finish"}

TypeOK ==
    /\ mu \in Callers \cup {NoCaller}
    /\ op \in [Callers -> {"none", "start", "stop"}]
    /\ pc \in [Callers -> {"idle", "lock"} \cup InStart \cup InCleanup]
    /\ status \in Status
    /\ lastError \in {"", "parse", "create", "start", "panic"}
    /\ instance \in Sessions \cup {Nil}
    /\ cancel \in Sessions \cup {Nil}
    /\ session \in Sessions \cup {Nil}
    /\ ctx \in [Sessions -> {"none", "live", "cancelled"}]
    /\ core \in [Sessions -> {"none", "live", "closing", "closed", "orphan"}]
    /\ counter \in [Sessions -> 0 .. MaxBytes]
    /\ poller \in [Sessions -> {"none", "select", "store", "done"}]
    /\ last \in [Sessions -> Snapshot \cup {NoSnapshot}]
    /\ traffic \in Snapshot \cup {NoSnapshot}
    /\ peek \in Sessions \cup {Nil, NoPeek}

Init ==
    /\ mu = NoCaller
    /\ op = [c \in Callers |-> "none"]
    /\ pc = [c \in Callers |-> "idle"]
    /\ status = "stopped" /\ lastError = ""
    /\ instance = Nil /\ cancel = Nil /\ session = Nil
    /\ ctx = [i \in Sessions |-> "none"]
    /\ core = [i \in Sessions |-> "none"]
    /\ counter = [i \in Sessions |-> 0]
    /\ poller = [i \in Sessions |-> "none"]
    /\ last = [i \in Sessions |-> NoSnapshot]
    /\ traffic = NoSnapshot
    /\ peek = NoPeek

-----------------------------------------------------------------------------
(* Entering and leaving the exported functions.                            *)

Goto(c, from, to) ==
    /\ pc[c] = from
    /\ pc' = [pc EXCEPT ![c] = to]

\* The deferred Unlock and the return to the host.
Return(c, from) ==
    /\ Goto(c, from, "idle")
    /\ op' = [op EXCEPT ![c] = "none"]
    /\ mu' = NoCaller

CallStart(c) ==
    /\ session < MaxSessions
    /\ Goto(c, "idle", "lock")
    /\ op' = [op EXCEPT ![c] = "start"]
    /\ UNCHANGED <<mu, status, lastError, instance, cancel, session, ctx, core, meterVars, peek>>

CallStop(c) ==
    /\ Goto(c, "idle", "lock")
    /\ op' = [op EXCEPT ![c] = "stop"]
    /\ UNCHANGED <<mu, status, lastError, instance, cancel, session, ctx, core, meterVars, peek>>

-----------------------------------------------------------------------------
(* start, under e.mu.                                                      *)

AlreadyRunning(c) ==
    /\ op[c] = "start" /\ mu = NoCaller /\ instance # Nil
    /\ Return(c, "lock")
    /\ UNCHANGED <<status, lastError, instance, cancel, session, ctx, core, meterVars, peek>>

\* Mutant: the "already running" test does not return.
StartBeginUnguarded(c) ==
    /\ op[c] = "start" /\ mu = NoCaller
    /\ session < MaxSessions
    /\ Goto(c, "lock", "parse")
    /\ mu' = c
    /\ status' = "starting"
    /\ session' = session + 1
    /\ ctx' = [ctx EXCEPT ![session + 1] = "live"]
    /\ UNCHANGED <<op, lastError, instance, cancel, core, meterVars, peek>>

StartBegin(c) ==
    /\ op[c] = "start" /\ mu = NoCaller /\ instance = Nil
    /\ session < MaxSessions
    /\ Goto(c, "lock", "parse")
    /\ mu' = c
    /\ status' = "starting"
    /\ session' = session + 1
    /\ ctx' = [ctx EXCEPT ![session + 1] = "live"]
    /\ UNCHANGED <<op, lastError, instance, cancel, core, meterVars, peek>>

\* Mutant: setError stores the status before the message.
FailWithStatusFirst(c, from, msg) ==
    /\ Goto(c, from, "setError")
    /\ ctx' = [ctx EXCEPT ![session] = "cancelled"]
    /\ status' = "error"
    /\ UNCHANGED <<mu, op, lastError, instance, cancel, session, core, meterVars, peek>>

\* cancel() followed by the first store of setError.
FailWith(c, from, msg) ==
    /\ Goto(c, from, "setError")
    /\ ctx' = [ctx EXCEPT ![session] = "cancelled"]
    /\ lastError' = msg
    /\ UNCHANGED <<mu, op, status, instance, cancel, session, core, meterVars, peek>>

ParseFails(c) == FailWith(c, "parse", "parse")

ParseSucceeds(c) ==
    /\ Goto(c, "parse", "new")
    /\ UNCHANGED <<mu, op, status, lastError, instance, cancel, session, ctx, core, meterVars, peek>>

NewFails(c) == FailWith(c, "new", "create")

NewSucceeds(c) ==
    /\ Goto(c, "new", "start")
    /\ core' = [core EXCEPT ![session] = "live"]
    /\ UNCHANGED <<mu, op, status, lastError, instance, cancel, session, ctx, meterVars, peek>>

\* instance.Start() returns an error; instance.Close() runs in this thread.
StartFails(c) ==
    /\ Goto(c, "start", "failClose")
    /\ core' = [core EXCEPT ![session] = "closing"]
    /\ UNCHANGED <<mu, op, status, lastError, instance, cancel, session, ctx, meterVars, peek>>

StartFailed(c) ==
    /\ pc[c] = "failClose" /\ core[session] = "closed"
    /\ FailWith(c, "failClose", "start")

\* The second store of setError, and the return.
SetErrorStatus(c) ==
    /\ Return(c, "setError")
    /\ status' = "error"
    /\ UNCHANGED <<lastError, instance, cancel, session, ctx, core, meterVars, peek>>

\* Mutant: "running" is stored before the instance is published.
StartSucceedsEarly(c) ==
    /\ Goto(c, "start", "publish")
    /\ status' = "running"
    /\ UNCHANGED <<mu, op, lastError, instance, cancel, session, ctx, core, meterVars, peek>>

StartSucceeds(c) ==
    /\ Goto(c, "start", "publish")
    /\ UNCHANGED <<mu, op, status, lastError, instance, cancel, session, ctx, core, meterVars, peek>>

Publish(c) ==
    /\ Goto(c, "publish", "setRunning")
    /\ instance' = session
    /\ cancel' = session
    /\ lastError' = ""
    /\ UNCHANGED <<mu, op, status, session, ctx, core, meterVars, peek>>

SetRunning(c) ==
    /\ Goto(c, "setRunning", "poller")
    /\ status' = "running"
    /\ UNCHANGED <<mu, op, lastError, instance, cancel, session, ctx, core, meterVars, peek>>

\* A reader of session i's stats service, or nil: no server, no service, or one
\* whose GetStats has another shape.
newV2RayStatsReader(i) == {Nil, i}

StartTrafficPoller(c) ==
    /\ Return(c, "poller")
    /\ \E reader \in newV2RayStatsReader(session) :
        poller' = IF reader = Nil THEN poller ELSE [poller EXCEPT ![session] = "select"]
    /\ UNCHANGED <<status, lastError, instance, cancel, session, ctx, core, counter, last, traffic, peek>>

\* A panic inside the core, recovered by start's deferred function: the local
\* cancel and the local instance are out of reach from here on, and a core that is
\* not the published one can never be closed.
StartPanics(c) ==
    /\ "panic" \in Faults
    /\ pc[c] \in {"parse", "new", "start", "failClose", "poller"}
    /\ pc[c] = "failClose" => core[session] = "closing"
    /\ pc' = [pc EXCEPT ![c] = "panicStatus"]
    /\ lastError' = "panic"
    /\ core' = IF pc[c] \in {"start", "failClose"} THEN [core EXCEPT ![session] = "orphan"] ELSE core
    /\ UNCHANGED <<mu, op, status, instance, cancel, session, ctx, meterVars, peek>>

PanicStatus(c) ==
    /\ Goto(c, "panicStatus", "close")
    /\ status' = "error"
    /\ UNCHANGED <<mu, op, lastError, instance, cancel, session, ctx, core, meterVars, peek>>

-----------------------------------------------------------------------------
(* stop and forceCleanupLocked, under e.mu.                                *)

StopIdle(c) ==
    /\ op[c] = "stop" /\ mu = NoCaller /\ instance = Nil
    /\ Return(c, "lock")
    /\ status' = "stopped"
    /\ UNCHANGED <<lastError, instance, cancel, session, ctx, core, meterVars, peek>>

\* Mutant: stop does not announce "stopping".
StopBeginSilent(c) ==
    /\ op[c] = "stop" /\ mu = NoCaller /\ instance # Nil
    /\ Goto(c, "lock", "close")
    /\ mu' = c
    /\ UNCHANGED <<op, status, lastError, instance, cancel, session, ctx, core, meterVars, peek>>

StopBegin(c) ==
    /\ op[c] = "stop" /\ mu = NoCaller /\ instance # Nil
    /\ Goto(c, "lock", "close")
    /\ mu' = c
    /\ status' = "stopping"
    /\ UNCHANGED <<op, lastError, instance, cancel, session, ctx, core, meterVars, peek>>

CleanupClose(c) ==
    /\ instance # Nil
    /\ Goto(c, "close", "wait")
    /\ core' = [core EXCEPT ![instance] = "closing"]
    /\ UNCHANGED <<mu, op, status, lastError, instance, cancel, session, ctx, meterVars, peek>>

CleanupNothing(c) ==
    /\ instance = Nil
    /\ Goto(c, "close", "cancel")
    /\ UNCHANGED <<mu, op, status, lastError, instance, cancel, session, ctx, core, meterVars, peek>>

DropInstance(c) ==
    /\ Goto(c, "wait", "cancel")
    /\ instance' = Nil
    /\ UNCHANGED <<mu, op, status, lastError, cancel, session, ctx, core, meterVars, peek>>

CleanupClosed(c) == DropInstance(c) /\ core[instance] = "closed"

\* Mutant: a plain receive from done, without the timer.
CleanupUnbounded(c) == FALSE /\ DropInstance(c)

\* time.After(5 * time.Second) wins the select.
CleanupTimeout(c) ==
    /\ "slowClose" \in Faults
    /\ DropInstance(c)
    /\ core[instance] = "closing"

\* Mutant: e.cancel is not reset.
CleanupCancelKeeps(c) ==
    /\ Goto(c, "cancel", "finish")
    /\ ctx' = IF cancel = Nil THEN ctx ELSE [ctx EXCEPT ![cancel] = "cancelled"]
    /\ UNCHANGED <<mu, op, status, lastError, instance, cancel, session, core, meterVars, peek>>

CleanupCancel(c) ==
    /\ Goto(c, "cancel", "finish")
    /\ ctx' = IF cancel = Nil THEN ctx ELSE [ctx EXCEPT ![cancel] = "cancelled"]
    /\ cancel' = Nil
    /\ UNCHANGED <<mu, op, status, lastError, instance, session, core, meterVars, peek>>

StopFinish(c) ==
    /\ op[c] = "stop"
    /\ Return(c, "finish")
    /\ status' = "stopped"
    /\ UNCHANGED <<lastError, instance, cancel, session, ctx, core, meterVars, peek>>

PanicFinish(c) ==
    /\ op[c] = "start"
    /\ Return(c, "finish")
    /\ UNCHANGED <<status, lastError, instance, cancel, session, ctx, core, meterVars, peek>>

-----------------------------------------------------------------------------
(* The core: external, seen through what start, stop and the poller use.   *)

CloseReturns(i) ==
    /\ core[i] = "closing"
    /\ core' = [core EXCEPT ![i] = "closed"]
    /\ UNCHANGED <<engineVars, meterVars, peek>>

CountTraffic(i) ==
    /\ core[i] \in {"live", "closing", "orphan"}
    /\ counter[i] < MaxBytes
    /\ counter' = [counter EXCEPT ![i] = @ + 1]
    /\ UNCHANGED <<engineVars, core, poller, last, traffic, peek>>

-----------------------------------------------------------------------------
(* pollTraffic: one goroutine per session, never takes e.mu.               *)

\* Mutant: the interval is taken in milliseconds.
PerMillisecond(delta, dt) ==
    IF delta <= 0 \/ dt <= 0 THEN 0 ELSE (delta * PerSec * 1000) \div dt

\* delta bytes in dt units of time, as bytes per second, rounded down.
perSecond(delta, dt) ==
    IF delta <= 0 \/ dt <= 0 THEN 0 ELSE (delta * PerSec) \div dt

\* What the reader of session i gets: a counter that is not there yet reads as 0.
read(i) == counter[i]

\* Mutant: the rate is computed against nothing.
SampleNoLast(old, i, total, now) ==
    [session |-> i, total |-> total, at |-> now, rate |-> perSecond(total, now - old.at)]

\* The snapshot of a tick, old being the one before.
Sample(old, i, total, now) ==
    [session |-> i, total |-> total, at |-> now,
     rate |-> IF old = NoSnapshot THEN 0 ELSE perSecond(total - old.total, now - old.at)]

\* The ticker case: readTotals, and the new value of last.  The select may take it
\* although ctx is already done.  Ticks come early, late, or not at all when the
\* goroutine lags, so any time may have passed; it counts from the first tick.
PollTick(i) ==
    /\ poller[i] = "select"
    /\ poller' = [poller EXCEPT ![i] = "store"]
    /\ \E now \in last[i].at .. MaxTime :
        /\ last[i] = NoSnapshot => now = 0
        /\ last' = [last EXCEPT ![i] = Sample(@, i, read(i), now)]
    /\ UNCHANGED <<engineVars, core, counter, traffic, peek>>

PollStore(i) ==
    /\ poller[i] = "store"
    /\ poller' = [poller EXCEPT ![i] = "select"]
    /\ traffic' = last[i]
    /\ UNCHANGED <<engineVars, core, counter, last, peek>>

\* Mutant: the poller exits without clearing the meter.
PollDoneKeeps(i) ==
    /\ poller[i] = "select" /\ ctx[i] = "cancelled"
    /\ poller' = [poller EXCEPT ![i] = "done"]
    /\ UNCHANGED <<engineVars, core, counter, last, traffic, peek>>

PollDone(i) ==
    /\ poller[i] = "select" /\ ctx[i] = "cancelled"
    /\ poller' = [poller EXCEPT ![i] = "done"]
    /\ traffic' = NoSnapshot
    /\ UNCHANGED <<engineVars, core, counter, last, peek>>

-----------------------------------------------------------------------------
(* What the host reads, without a lock.                                    *)

GetStatus == status

GetEngineLastError == lastError

readTraffic == [total |-> traffic.total, rate |-> traffic.rate]

GetStats == readTraffic

\* _tick of the Dart notifier: it loads the status and, if that is "error", loads
\* the message in a call of its own.  peek records how many starts had begun by
\* the first load.
ReadStatus ==
    /\ peek = NoPeek /\ GetStatus = "error"
    /\ peek' = session
    /\ UNCHANGED <<engineVars, core, meterVars>>

ReadLastError ==
    /\ peek # NoPeek
    /\ peek' = NoPeek
    /\ UNCHANGED <<engineVars, core, meterVars>>

-----------------------------------------------------------------------------

\* Where StartEngine waits for the core: box.New, instance.Start() and, when that
\* has failed, instance.Close().
CoreStep(c) ==
    \/ NewFails(c) \/ NewSucceeds(c)
    \/ StartFails(c) \/ StartFailed(c) \/ StartSucceeds(c)
    \/ StartPanics(c)

\* What StartEngine does by itself, once it was called.
StartStep(c) ==
    \/ AlreadyRunning(c) \/ StartBegin(c)
    \/ ParseFails(c) \/ ParseSucceeds(c)
    \/ SetErrorStatus(c) \/ Publish(c) \/ SetRunning(c) \/ StartTrafficPoller(c)
    \/ PanicStatus(c) \/ PanicFinish(c)

StopStep(c) == StopIdle(c) \/ StopBegin(c) \/ StopFinish(c)

CleanupStep(c) ==
    \/ CleanupClose(c) \/ CleanupNothing(c) \/ CleanupClosed(c)
    \/ CleanupTimeout(c) \/ CleanupCancel(c)

CallerStep(c) ==
    \/ CallStart(c) \/ CallStop(c)
    \/ StartStep(c) \/ CoreStep(c) \/ StopStep(c) \/ CleanupStep(c)

SessionStep(i) ==
    CloseReturns(i) \/ CountTraffic(i) \/ PollTick(i) \/ PollStore(i) \/ PollDone(i)

HostReads == ReadStatus \/ ReadLastError

Next ==
    \/ \E c \in Callers : CallerStep(c)
    \/ \E i \in Sessions : SessionStep(i)
    \/ HostReads

Spec == Init /\ [][Next]_vars

\* A thread inside an exported call keeps running; sync.Mutex hands the lock to
\* a waiter that has starved; a goroutine runs, and a select with several ready
\* cases takes each of them sooner or later.  Nothing says that the core ever
\* returns from New, Start or Close: CoreStep and CloseReturns are not fair.
Fairness ==
    /\ \A c \in Callers : SF_vars(StartStep(c) \/ StopStep(c) \/ CleanupStep(c))
    /\ \A i \in Sessions : WF_vars(PollStore(i)) /\ SF_vars(PollDone(i))

FairSpec == Spec /\ Fairness

-----------------------------------------------------------------------------
(* Properties.                                                             *)

\* Whatever the order of stores a lock-free reader hits, "running" is only ever
\* reported while the published instance exists, is not being closed and has a
\* live, cancellable context.
RunningIsTrue ==
    GetStatus = "running" =>
        /\ instance # Nil
        /\ core[instance] = "live"
        /\ ctx[instance] = "live" /\ cancel = instance

\* Between calls the three fields agree: an instance is published exactly when
\* the status is running, its cancel function is its own, and no transient status
\* survives the call that set it, whichever error path or panic ended the call.
QuietAgreement ==
    mu = NoCaller =>
        /\ instance # Nil <=> status = "running"
        /\ cancel = instance
        /\ status \in {"stopped", "running", "error"}

\* A host that has loaded the status "error" and now loads the message finds one,
\* unless a later start has been through the core between its two loads: setError
\* stores the message first, and nothing but a published start empties it.
ErrorHasMessage ==
    peek # NoPeek /\ GetEngineLastError = "" =>
        \E i \in Sessions : i > peek /\ core[i] # "none"

\* A core is live only while something will close it: it is the published instance
\* or belongs to the start in progress.  So two tunnels never run side by side, and a
\* second StartEngine does not leak the first one's core; only a panic, which
\* takes the last reference along, leaves one behind ("orphan").
OneTunnel ==
    \A i \in Sessions :
        core[i] = "live" => i = instance \/ (mu # NoCaller /\ i = session /\ instance = Nil)

\* The snapshot on display belongs to a poller that has not exited, so its final
\* Store(nil) is still to come: a stale meter never outlives its goroutine.
MeterHasOwner ==
    traffic # NoSnapshot => poller[traffic.session] \in {"select", "store"}

\* new.rate is what was added since old, per second of the time between their ticks,
\* rounded down; no time, no rate.
InStep(new, old) ==
    LET bytes == new.total - old.total
        time == new.at - old.at
    IN  /\ bytes >= 0 /\ time >= 0
        /\ IF time = 0 THEN new.rate = 0
           ELSE new.rate * time <= bytes * PerSec /\ bytes * PerSec < (new.rate + 1) * time

\* Two snapshots of one session that follow each other on display: the total does
\* not shrink, and the rate shown is that of the bytes and the time between these two,
\* however late the ticks and whatever other pollers are still alive.
MeterSteps ==
    [][ (traffic # NoSnapshot /\ traffic'.session = traffic.session) =>
            InStep(traffic', traffic) ]_traffic

\* StopEngine returns, even when Close hangs for ever: the 5 s timer sees to that.
\* Unless a start never comes back from the core: New, Start and the Close of a failed
\* start have no timer, and are called with the mutex held.
StopReturnsUnlessStuck ==
    \/ \E d \in Callers : <>[](pc[d] \in {"new", "start", "failClose"})
    \/ \A c \in Callers : op[c] = "stop" ~> op[c] = "none"

\* Once a session's context is cancelled its numbers disappear from the meter and
\* never come back, although its poller may still store a sample or two.
MeterForgetsSession ==
    \A i \in Sessions : ctx[i] = "cancelled" ~> [](traffic.session # i)

\* The promise to the host: the status and the existence of a tunnel follow the
\* life cycle of EngineLifecycle.
Lifecycle == INSTANCE EngineLifecycle WITH tunnel <- (instance # Nil)
RefinesLifecycle == Lifecycle!Spec

-----------------------------------------------------------------------------
(* The inductive invariant behind the proofs of EngineProofs.              *)

\* e.mu is held exactly by the caller that is between Lock and Unlock.
LockInv ==
    \A c \in Callers :
        /\ mu = c <=> pc[c] \in InStart \cup InCleanup
        /\ op[c] = "none" <=> pc[c] = "idle"
        /\ pc[c] \in InStart => op[c] = "start"

\* A session that is up: instance, cancel, core and context all belong together.
SessionUp ==
    /\ instance # Nil /\ cancel = instance
    /\ core[instance] = "live" /\ ctx[instance] = "live"

\* What the holder of e.mu relies on at each program point of start.
StartPoint(c) ==
    /\ pc[c] \in {"parse", "new", "start", "failClose", "setError", "publish"} =>
           status = "starting" /\ instance = Nil /\ cancel = Nil /\ session # Nil
    /\ pc[c] \in {"start", "publish"} => core[session] = "live"
    /\ pc[c] \in {"parse", "new", "start", "failClose", "publish"} => ctx[session] = "live"
    /\ pc[c] = "failClose" => core[session] \in {"closing", "closed"}
    /\ pc[c] \in {"setError", "panicStatus"} => lastError # ""
    /\ pc[c] = "setRunning" => status = "starting" /\ SessionUp /\ instance = session
    /\ pc[c] = "poller" => status = "running" /\ SessionUp /\ instance = session
    /\ pc[c] = "panicStatus" => \/ status = "starting" /\ instance = Nil /\ cancel = Nil
                                \/ status = "running" /\ SessionUp

\* ... at each program point of stop and forceCleanupLocked,
CleanupPoint(c) ==
    /\ pc[c] \in InCleanup => status = (IF op[c] = "stop" THEN "stopping" ELSE "error")
    /\ pc[c] = "close" => IF instance = Nil THEN cancel = Nil ELSE SessionUp
    /\ pc[c] = "wait" => /\ instance # Nil /\ cancel = instance
                         /\ core[instance] \in {"closing", "closed"}
    /\ pc[c] \in {"cancel", "finish"} => instance = Nil
    /\ pc[c] = "finish" => cancel = Nil

\* ... and when nobody holds it.
QuietInv ==
    mu = NoCaller => \/ status = "running" /\ SessionUp
                     \/ status \in {"stopped", "error"} /\ instance = Nil /\ cancel = Nil

\* A session has no poller before the start that opens it ends.
FreshInv ==
    \A i \in Sessions :
        (i > session \/ (i = session /\ \E c \in Callers : pc[c] \in InStart)) => poller[i] = "none"

\* What a poller holds: its own session's last sample, no larger than the counter
\* it was read from, and in step with the meter as long as nobody else stored.
MeterPoint(i) ==
    /\ last[i] # NoSnapshot => last[i].session = i /\ last[i].total <= counter[i]
    /\ poller[i] = "store" => last[i] # NoSnapshot
    /\ poller[i] = "none" => last[i] = NoSnapshot
    /\ traffic.session = i =>
          IF poller[i] = "store"
          THEN InStep(last[i], traffic)
          ELSE traffic = last[i]

MeterInv == MeterHasOwner /\ \A i \in Sessions : MeterPoint(i)

\* The error status has its message, ...
ErrorInv == status = "error" => lastError # ""

\* ... and so has whoever has seen that status, until a start that began later.
PeekInv ==
    /\ peek # NoPeek => peek <= session
    /\ \A c \in Callers :
          peek # NoPeek /\ pc[c] \in {"parse", "new", "start", "failClose", "publish"} =>
              peek < session
    /\ ErrorHasMessage

\* A live core is the published instance, or the start in progress is between
\* box.New and the publication of what it built.
TunnelInv ==
    \A i \in Sessions :
        core[i] = "live" =>
            \/ i = instance
            \/ /\ i = session /\ instance = Nil
               /\ \E c \in Callers : pc[c] \in {"start", "publish"}

\* The inductive invariant: the mutex is held by exactly the call that is between
\* Lock and Unlock, instance, cancel and status are what the program point of that
\* call says, they agree when nobody holds it, and every poller carries a sample of
\* its own session in step with the meter (engine_controller.go:101-233, traffic.go:73-105).
IInv ==
    /\ TypeOK /\ LockInv /\ FreshInv /\ MeterInv
    /\ \A c \in Callers : StartPoint(c) /\ CleanupPoint(c)
    /\ QuietInv /\ ErrorInv /\ PeekInv /\ TunnelInv
=============================================================================

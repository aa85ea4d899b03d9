------------------------------- MODULE Helper -------------------------------
(***************************************************************************)
(* The kill switch on Windows: DaemonIpcClient in the app, the elevated    *)
(* helper service behind a named pipe, and the firewall it edits.          *)
(*                                                                         *)
(* A caller is a Dart task in WindowsRouteManager.enableKillSwitch or      *)
(* disableKillSwitch: connect(), then call().  connect() spawns a worker   *)
(* isolate that owns one pipe; the service serves every pipe in a          *)
(* goroutine of its own and edits the firewall by running netsh.           *)
(***************************************************************************)
EXTENDS Naturals, Sequences, FiniteSets

CONSTANTS
    Callers,     \* Dart tasks
    MaxWorkers,  \* bound: worker isolates spawned
    MaxCalls,    \* bound: requests sent
    Faults       \* subset of {"netsh", "stop"}

ASSUME BoundsAssumption == {MaxWorkers, MaxCalls} \subseteq Nat \ {0}
ASSUME CallersAssumption == IsFiniteSet(Callers)
ASSUME FaultsAssumption == Faults \subseteq {"netsh", "stop"}

VARIABLES
    pc, want, mine,        \* each caller: where it is, what it asks for, its worker or
                           \* its request
    commands, latest,      \* _commands (a worker, 0: null), _worker (the last one spawned)
    workers, isolate,      \* workers spawned; state of each
    inbox, current,        \* each worker: its command port, the request it waits on
    pending, calls, value, \* _pending, requests made, what each one asks for
    reply, outcome,        \* each request: answer on its way, what its caller was told
    served,                \* each pipe: where the service's goroutine is
    service,               \* the service runs
    policy, rules          \* the firewall: outbound policy, the allow rules present

callerVars == <<pc, want, mine>>
clientVars == <<commands, latest, workers, pending, calls, value>>
workerVars == <<isolate, inbox, current>>
answerVars == <<reply, outcome>>
firewallVars == <<policy, rules>>
vars == <<callerVars, clientVars, workerVars, answerVars, served, service, firewallVars>>

None == 0
Workers == 1 .. MaxWorkers
Calls == 1 .. MaxCalls
Rules == {"engine", "loopback"}
EnableSteps == {"block", "allowEngine", "allowLoopback"}
DisableSteps == {"unblock", "dropEngine", "dropLoopback"}

TypeOK ==
    /\ pc \in [Callers -> {"idle", "handshake", "ready", "waiting"}]
    /\ want \in [Callers -> BOOLEAN]
    /\ mine \in [Callers -> Workers \cup Calls \cup {None}]
    /\ {commands, latest, workers} \subseteq Workers \cup {None}
    /\ isolate \in [Workers -> {"none", "opening", "open", "failed", "killed"}]
    /\ inbox \in [Workers -> Seq(Calls)]
    /\ current \in [Workers -> Calls \cup {None}]
    /\ pending \subseteq Calls /\ calls \in Calls \cup {None}
    /\ value \in [Calls -> BOOLEAN]
    /\ reply \in [Calls -> {"none", "ok", "error"}]
    /\ outcome \in [Calls -> {"none", "ok", "error", "timeout"}]
    /\ served \in [Workers -> EnableSteps \cup DisableSteps \cup {"closed", "reading", "ok", "error"}]
    /\ service \in BOOLEAN
    /\ policy \in {"allow", "block"} /\ rules \subseteq Rules

Init ==
    /\ pc = [c \in Callers |-> "idle"] /\ want = [c \in Callers |-> FALSE]
    /\ mine = [c \in Callers |-> None]
    /\ commands = None /\ latest = None /\ workers = 0
    /\ isolate = [w \in Workers |-> "none"]
    /\ inbox = [w \in Workers |-> <<>>] /\ current = [w \in Workers |-> None]
    /\ pending = {} /\ calls = 0 /\ value = [i \in Calls |-> FALSE]
    /\ reply = [i \in Calls |-> "none"] /\ outcome = [i \in Calls |-> "none"]
    /\ served = [w \in Workers |-> "closed"] /\ service \in BOOLEAN
    /\ policy = "allow" /\ rules = {}

-----------------------------------------------------------------------------
(* DaemonIpcClient.                                                        *)

\* Bound: requests sent and about to be sent.
Room == calls + Cardinality({c \in Callers : pc[c] \in {"handshake", "ready"}}) < MaxCalls

\* enableKillSwitch(v = TRUE) or disableKillSwitch, up to the first await.
ConnectOpen(c, v) ==
    /\ pc[c] = "idle" /\ Room /\ commands # None
    /\ pc' = [pc EXCEPT ![c] = "ready"]
    /\ want' = [want EXCEPT ![c] = v]
    /\ UNCHANGED <<mine, clientVars, workerVars, answerVars, served, service, firewallVars>>

ConnectSpawn(c, v) ==
    /\ pc[c] = "idle" /\ Room /\ commands = None /\ workers < MaxWorkers
    /\ pc' = [pc EXCEPT ![c] = "handshake"]
    /\ want' = [want EXCEPT ![c] = v]
    /\ mine' = [mine EXCEPT ![c] = workers + 1]
    /\ workers' = workers + 1
    /\ latest' = workers + 1
    /\ isolate' = [isolate EXCEPT ![workers + 1] = "opening"]
    /\ UNCHANGED <<commands, pending, calls, value, inbox, current, answerVars, served, service,
                   firewallVars>>

HandshakeDone(c) ==
    /\ pc[c] = "handshake" /\ isolate[mine[c]] = "open"
    /\ pc' = [pc EXCEPT ![c] = "ready"]
    /\ commands' = mine[c]
    /\ UNCHANGED <<want, mine, latest, workers, pending, calls, value, workerVars, answerVars, served,
                   service, firewallVars>>

Told == {i \in pending : outcome[i] = "none"}

\* The callers of failed or finished requests go on.
Release(ids) == [c \in Callers |-> IF pc[c] = "waiting" /\ mine[c] \in ids THEN "idle" ELSE pc[c]]

\* _teardown kills the worker spawned last, whoever spawned it, and fails every
\* pending request; the connection that failed returns false to its caller.
HandshakeFailed(c) ==
    /\ pc[c] = "handshake"
    /\ pc' = [Release(pending) EXCEPT ![c] = "idle"]
    /\ commands' = None /\ latest' = None /\ pending' = {}
    /\ isolate' = IF latest = None THEN isolate ELSE [isolate EXCEPT ![latest] = "killed"]
    /\ outcome' = [i \in Calls |-> IF i \in Told THEN "error" ELSE outcome[i]]
    /\ UNCHANGED <<want, mine, workers, calls, value, inbox, current, reply, served, service,
                   firewallVars>>

\* call(): the request goes to the current worker.
Send(c) ==
    /\ pc[c] = "ready" /\ commands # None
    /\ pc' = [pc EXCEPT ![c] = "waiting"]
    /\ calls' = calls + 1
    /\ mine' = [mine EXCEPT ![c] = calls + 1]
    /\ value' = [value EXCEPT ![calls + 1] = want[c]]
    /\ pending' = pending \cup {calls + 1}
    /\ inbox' = [inbox EXCEPT ![commands] = Append(@, calls + 1)]
    /\ UNCHANGED <<want, commands, latest, workers, isolate, current, answerVars, served, service,
                   firewallVars>>

\* Torn down since connect(): "daemon not connected".
SendThrows(c) ==
    /\ pc[c] = "ready" /\ commands = None
    /\ pc' = [pc EXCEPT ![c] = "idle"]
    /\ UNCHANGED <<want, mine, clientVars, workerVars, answerVars, served, service, firewallVars>>

OnReply(c) ==
    /\ pc[c] = "waiting" /\ mine[c] \in pending /\ reply[mine[c]] # "none"
    /\ outcome' = [outcome EXCEPT ![mine[c]] = reply[mine[c]]]
    /\ reply' = [reply EXCEPT ![mine[c]] = "none"]
    /\ pc' = [pc EXCEPT ![c] = "idle"]
    /\ pending' = pending \ {mine[c]}
    /\ UNCHANGED <<want, mine, commands, latest, workers, calls, value, workerVars, served, service,
                   firewallVars>>

\* Mutant: call() has no timeout.
TimeoutNever(c) == FALSE /\ UNCHANGED vars

Timeout(c) ==
    /\ pc[c] = "waiting"
    /\ outcome' = [outcome EXCEPT ![mine[c]] = "timeout"]
    /\ pc' = [pc EXCEPT ![c] = "idle"]
    /\ pending' = pending \ {mine[c]}
    /\ UNCHANGED <<want, mine, commands, latest, workers, calls, value, workerVars, reply, served,
                   service, firewallVars>>

-----------------------------------------------------------------------------
(* _pipeWorker.                                                            *)

OpenPipe(w) ==
    /\ isolate[w] = "opening"
    /\ isolate' = [isolate EXCEPT ![w] = IF service THEN "open" ELSE "failed"]
    /\ served' = IF service THEN [served EXCEPT ![w] = "reading"] ELSE served
    /\ UNCHANGED <<callerVars, clientVars, inbox, current, answerVars, service, firewallVars>>

First(v) == IF v THEN "block" ELSE "unblock"

\* Write the request; the worker then blocks in ReadFile.
Write(w) ==
    /\ isolate[w] = "open" /\ current[w] = None /\ inbox[w] # <<>>
    /\ served[w] = "reading"
    /\ inbox' = [inbox EXCEPT ![w] = Tail(@)]
    /\ current' = [current EXCEPT ![w] = Head(inbox[w])]
    /\ served' = [served EXCEPT ![w] = First(value[Head(inbox[w])])]
    /\ UNCHANGED <<callerVars, clientVars, isolate, answerVars, service, firewallVars>>

\* "pipe write failed".  Nobody tears the client down: it goes on using the pipe.
WriteFails(w) ==
    /\ isolate[w] = "open" /\ current[w] = None /\ inbox[w] # <<>>
    /\ served[w] = "closed"
    /\ inbox' = [inbox EXCEPT ![w] = Tail(@)]
    /\ reply' = [reply EXCEPT ![Head(inbox[w])] = "error"]
    /\ UNCHANGED <<callerVars, clientVars, isolate, current, outcome, served, service, firewallVars>>

\* Mutant: the service's last word is taken for the answer.
ReadRaw(w) ==
    /\ current[w] # None /\ served[w] \in {"ok", "error", "closed"}
    /\ current' = [current EXCEPT ![w] = None]
    /\ reply' = [reply EXCEPT ![current[w]] = served[w]]
    /\ served' = IF served[w] = "closed" THEN served ELSE [served EXCEPT ![w] = "reading"]
    /\ UNCHANGED <<callerVars, clientVars, isolate, inbox, outcome, service, firewallVars>>

\* ReadFile returns; a killed isolate does not get further than this.
Read(w) ==
    /\ current[w] # None /\ served[w] \in {"ok", "error", "closed"}
    /\ current' = [current EXCEPT ![w] = None]
    /\ reply' = IF isolate[w] = "killed" THEN reply
                ELSE [reply EXCEPT ![current[w]] = IF served[w] = "ok" THEN "ok" ELSE "error"]
    /\ served' = IF served[w] = "closed" THEN served ELSE [served EXCEPT ![w] = "reading"]
    /\ UNCHANGED <<callerVars, clientVars, isolate, inbox, outcome, service, firewallVars>>

-----------------------------------------------------------------------------
(* The service: handle, dispatch, enableKillSwitch, disableKillSwitch.     *)

Handle(w, from, to) ==
    /\ served[w] = from
    /\ served' = [served EXCEPT ![w] = to]
    /\ UNCHANGED <<callerVars, clientVars, workerVars, answerVars, service>>

\* netsh came back with an error: the handler reports it and undoes nothing.
Netsh(w, from, to, effect) ==
    \/ Handle(w, from, to) /\ effect
    \/ "netsh" \in Faults /\ Handle(w, from, "error") /\ UNCHANGED firewallVars

SetPolicy(p) == policy' = p /\ UNCHANGED rules
AddRule(r) == rules' = rules \cup {r} /\ UNCHANGED policy

\* Mutant: the result of adding the rule is ignored, as it is for the deletions.
enableKillSwitchBestEffort(w) ==
    \/ Netsh(w, "block", "allowEngine", SetPolicy("block"))
    \/ Handle(w, "allowEngine", "allowLoopback")
       /\ (AddRule("engine") \/ ("netsh" \in Faults /\ UNCHANGED firewallVars))
    \/ Netsh(w, "allowLoopback", "ok", AddRule("loopback"))

enableKillSwitch(w) ==
    \/ Netsh(w, "block", "allowEngine", SetPolicy("block"))
    \/ Netsh(w, "allowEngine", "allowLoopback", AddRule("engine"))
    \/ Netsh(w, "allowLoopback", "ok", AddRule("loopback"))

\* Deleting is best effort: an error only leaves the rule behind.
DropRule(w, from, to, r) ==
    /\ Handle(w, from, to)
    /\ rules' \in {rules \ {r}} \cup (IF "netsh" \in Faults THEN {rules} ELSE {})
    /\ UNCHANGED policy

disableKillSwitch(w) ==
    \/ Netsh(w, "unblock", "dropEngine", SetPolicy("allow"))
    \/ DropRule(w, "dropEngine", "dropLoopback", "engine")
    \/ DropRule(w, "dropLoopback", "ok", "loopback")

\* The service stops, wherever its goroutines are; no step is undone on the way
\* out or looked at on the way in.
StopService ==
    /\ "stop" \in Faults /\ service
    /\ service' = FALSE
    /\ served' = [w \in Workers |-> "closed"]
    /\ UNCHANGED <<callerVars, clientVars, workerVars, answerVars, firewallVars>>

StartService ==
    /\ ~service
    /\ service' = TRUE
    /\ UNCHANGED <<callerVars, clientVars, workerVars, answerVars, served, firewallVars>>

-----------------------------------------------------------------------------

CallerStep(c) ==
    \/ HandshakeDone(c) \/ HandshakeFailed(c) \/ Send(c) \/ SendThrows(c) \/ OnReply(c) \/ Timeout(c)

WorkerStep(w) == OpenPipe(w) \/ Write(w) \/ WriteFails(w) \/ Read(w)

ServiceStep(w) == enableKillSwitch(w) \/ disableKillSwitch(w)

Next ==
    \/ \E c \in Callers, v \in BOOLEAN : ConnectOpen(c, v) \/ ConnectSpawn(c, v)
    \/ \E c \in Callers : CallerStep(c)
    \/ \E w \in Workers : WorkerStep(w) \/ ServiceStep(w)
    \/ StopService \/ StartService

Spec == Init /\ [][Next]_vars

\* The event loop serves its tasks and its timers; netsh may hang, so nothing is
\* assumed of the workers and the service.
FairSpec == Spec /\ \A c \in Callers : WF_vars(CallerStep(c))

-----------------------------------------------------------------------------
(* Properties.                                                             *)

\* The client has one pipe: every other worker it spawned failed to open its own.
OnePipe == \A w \in Workers : w = commands \/ isolate[w] \in {"none", "failed"}

\* As long as overlapping connect() calls have not opened a second pipe, an "ok" to
\* the latest request is true of the firewall until the next request is made: late
\* executions of requests that timed out, failed netsh steps and a stopped service
\* never undo a success that was reported.
LastAnswerIsTrue ==
    OnePipe /\ calls # 0 /\ outcome[calls] = "ok" =>
        IF value[calls] THEN policy = "block" /\ rules = Rules ELSE policy = "allow"

\* A caller always gets out, also when the service hangs or is gone.
EveryCallReturns == \A c \in Callers : pc[c] # "idle" ~> pc[c] = "idle"
=============================================================================

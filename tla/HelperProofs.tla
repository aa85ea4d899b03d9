---------------------------- MODULE HelperProofs ----------------------------
(***************************************************************************)
(* Proofs about Helper, for any finite set of callers and any number of    *)
(* workers, requests and faults.                                           *)
(***************************************************************************)
EXTENDS Helper, FiniteSetTheorems, TLAPS

-----------------------------------------------------------------------------
(* The invariant.                                                          *)

\* Who has been promised a request number, what "mine" is at each point, and which
\* workers are still to be spawned.
Inside == {c \in Callers : pc[c] \in {"handshake", "ready"}}
CallerInv ==
    /\ calls + Cardinality(Inside) <= MaxCalls
    /\ \A c \in Callers : pc[c] = "handshake" => mine[c] \in Workers
    /\ \A c \in Callers : pc[c] = "waiting" => mine[c] \in Calls /\ mine[c] <= calls
    /\ \A i \in pending : i <= calls
    /\ latest <= workers
    /\ \A w \in Workers : w > workers => isolate[w] = "none"

\* The workers that ever had a pipe, or were killed: a set that only grows.
Opened == {w \in Workers : isolate[w] \in {"open", "killed"}}
Single == \A v, w \in Opened : v = w

\* Only they have work, and a goroutine of the service that edits the firewall does
\* it for the request its worker waits on.
PipeInv ==
    /\ commands # None => commands \in Opened
    /\ \A w \in Workers :
        /\ served[w] # "closed" \/ current[w] # None \/ inbox[w] # <<>> => w \in Opened
        /\ served[w] \notin {"closed", "reading"} => current[w] # None

\* The latest request is the last in its line; numbers not given out have no answer.
LineInv ==
    /\ \A w \in Workers :
        /\ \A k \in 1 .. Len(inbox[w]) : inbox[w][k] <= calls
        /\ \A k \in 1 .. Len(inbox[w]) : k < Len(inbox[w]) => inbox[w][k] < calls
        /\ current[w] <= calls
        /\ current[w] # None /\ current[w] = calls => inbox[w] = <<>>
    /\ \A i \in Calls : i > calls => reply[i] = "none" /\ outcome[i] = "none"

\* The firewall is as a request that asks for v wants it.
Matches(v) == IF v THEN policy = "block" /\ rules = Rules ELSE policy = "allow"

\* With one pipe, the firewall is as far as the service's only goroutine.
PointInv ==
    Single => \A w \in Workers :
        /\ served[w] \in EnableSteps => value[current[w]]
        /\ served[w] \in DisableSteps => ~value[current[w]]
        /\ served[w] \in {"allowEngine", "allowLoopback"} => policy = "block"
        /\ served[w] = "allowLoopback" => "engine" \in rules
        /\ served[w] \in {"dropEngine", "dropLoopback"} => policy = "allow"
        /\ served[w] = "ok" => Matches(value[current[w]])

\* With one pipe, when the latest request was answered "ok" nothing is left to run.
AnswerInv ==
    Single /\ calls # 0 /\ "ok" \in {reply[calls], outcome[calls]} =>
        /\ \A w \in Workers : current[w] = None /\ inbox[w] = <<>>
        /\ Matches(value[calls])

IInv == TypeOK /\ CallerInv /\ PipeInv /\ LineInv /\ PointInv /\ AnswerInv

-----------------------------------------------------------------------------
(* Types.                                                                  *)

\* The bounds are numbers, and the numbers of workers and requests start at 1.
LEMMA Bounds ==
    /\ MaxWorkers \in Nat /\ MaxCalls \in Nat
    /\ \A n : n \in Workers <=> n \in Nat /\ 1 <= n /\ n <= MaxWorkers
    /\ \A n : n \in Calls <=> n \in Nat /\ 1 <= n /\ n <= MaxCalls
BY BoundsAssumption DEF Workers, Calls

\* The callers inside connect() are finitely many.
LEMMA InsideFinite ==
    IsFiniteSet(Inside) /\ Cardinality(Inside) \in Nat
BY CallersAssumption, FS_Subset, FS_CardinalityType DEF Inside

\* A caller that enters or leaves changes their number by one.
LEMMA InsideGrows ==
    ASSUME NEW c \in Callers, TypeOK, c \notin Inside,
           NEW p \in {"handshake", "ready"}, pc' = [pc EXCEPT ![c] = p]
    PROVE  Cardinality(Inside') = Cardinality(Inside) + 1
<1>1. Inside' = Inside \cup {c}
  BY DEF Inside, TypeOK
<1> QED
  BY <1>1, InsideFinite, FS_AddElement

LEMMA InsideShrinks ==
    ASSUME NEW c \in Callers, c \in Inside, Inside' = Inside \ {c}
    PROVE  Cardinality(Inside') = Cardinality(Inside) - 1
BY InsideFinite, FS_RemoveElement

\* There is a number for a worker that may be spawned.
LEMMA NextWorker == ASSUME TypeOK, workers < MaxWorkers PROVE workers + 1 \in Workers
<1>1. workers \in Workers \cup {0}
  BY DEF TypeOK, None
<1> QED
  BY <1>1, BoundsAssumption DEF Workers

\* What a netsh step does to the firewall, and where the handler goes.
LEMMA EnableIs ==
    ASSUME NEW w \in Workers, enableKillSwitch(w)
    PROVE  /\ UNCHANGED <<callerVars, clientVars, workerVars, answerVars, service>>
           /\ served[w] \in EnableSteps
           /\ \E to \in {"allowEngine", "allowLoopback", "ok", "error"} :
                /\ served' = [served EXCEPT ![w] = to]
                /\ to = "allowEngine" => policy' = "block" /\ rules' = rules
                /\ to = "allowLoopback" =>
                     served[w] = "allowEngine" /\ policy' = policy /\ rules' = rules \cup {"engine"}
                /\ to = "ok" =>
                     served[w] = "allowLoopback" /\ policy' = policy /\ rules' = rules \cup {"loopback"}
                /\ to = "error" => policy' = policy /\ rules' = rules
<1>1. CASE Netsh(w, "block", "allowEngine", SetPolicy("block"))
  BY <1>1 DEF Netsh, Handle, SetPolicy, EnableSteps, firewallVars
<1>2. CASE Netsh(w, "allowEngine", "allowLoopback", AddRule("engine"))
  BY <1>2 DEF Netsh, Handle, AddRule, EnableSteps, firewallVars
<1>3. CASE Netsh(w, "allowLoopback", "ok", AddRule("loopback"))
  BY <1>3 DEF Netsh, Handle, AddRule, EnableSteps, firewallVars
<1> QED
  BY <1>1, <1>2, <1>3 DEF enableKillSwitch

LEMMA DisableIs ==
    ASSUME NEW w \in Workers, disableKillSwitch(w)
    PROVE  /\ UNCHANGED <<callerVars, clientVars, workerVars, answerVars, service>>
           /\ served[w] \in DisableSteps
           /\ rules' \subseteq rules
           /\ \E to \in {"dropEngine", "dropLoopback", "ok", "error"} :
                /\ served' = [served EXCEPT ![w] = to]
                /\ to = "dropEngine" => policy' = "allow"
                /\ to = "dropLoopback" => served[w] = "dropEngine" /\ policy' = policy
                /\ to = "ok" => served[w] = "dropLoopback" /\ policy' = policy
                /\ to = "error" => policy' = policy
<1>1. CASE Netsh(w, "unblock", "dropEngine", SetPolicy("allow"))
  BY <1>1 DEF Netsh, Handle, SetPolicy, DisableSteps, firewallVars
<1>2. CASE DropRule(w, "dropEngine", "dropLoopback", "engine")
  BY <1>2 DEF DropRule, Handle, DisableSteps
<1>3. CASE DropRule(w, "dropLoopback", "ok", "loopback")
  BY <1>3 DEF DropRule, Handle, DisableSteps
<1> QED
  BY <1>1, <1>2, <1>3 DEF disableKillSwitch

\* Whoever is inside has a number left to send with.
LEMMA RoomToSend ==
    ASSUME TypeOK, CallerInv, NEW c \in Inside
    PROVE  calls + 1 \in Calls /\ calls + 1 <= MaxCalls /\ calls \in Nat
<1>1. Cardinality(Inside \ {c}) = Cardinality(Inside) - 1 /\ IsFiniteSet(Inside \ {c})
  BY InsideFinite, FS_RemoveElement
<1>2. Cardinality(Inside \ {c}) \in Nat
  BY <1>1, FS_CardinalityType
<1>3. calls \in Nat
  BY Bounds DEF TypeOK, None
<1> QED
  BY <1>1, <1>2, <1>3, InsideFinite, Bounds DEF CallerInv

\* Every action keeps the variables in their types.
LEMMA TypeStep == ASSUME TypeOK, CallerInv, [Next]_vars PROVE TypeOK'
<1> USE DEF TypeOK, callerVars, clientVars, workerVars, answerVars, firewallVars
<1>1. ASSUME NEW c \in Callers, NEW v \in BOOLEAN, ConnectOpen(c, v) PROVE TypeOK'
  BY <1>1 DEF ConnectOpen
<1>2. ASSUME NEW c \in Callers, NEW v \in BOOLEAN, ConnectSpawn(c, v) PROVE TypeOK'
  <2>1. workers + 1 \in Workers
    BY <1>2, NextWorker DEF ConnectSpawn
  <2> QED
    BY <1>2, <2>1 DEF ConnectSpawn
<1>3. ASSUME NEW c \in Callers, HandshakeDone(c) PROVE TypeOK'
  BY <1>3 DEF HandshakeDone, CallerInv
<1>4. ASSUME NEW c \in Callers, HandshakeFailed(c) PROVE TypeOK'
  <2>1. pc' \in [Callers -> {"idle", "handshake", "ready", "waiting"}]
    BY <1>4 DEF HandshakeFailed, Release
  <2>2. isolate' \in [Workers -> {"none", "opening", "open", "failed", "killed"}]
    BY <1>4 DEF HandshakeFailed
  <2>3. outcome' \in [Calls -> {"none", "ok", "error", "timeout"}]
    BY <1>4 DEF HandshakeFailed
  <2> QED
    BY <1>4, <2>1, <2>2, <2>3 DEF HandshakeFailed
<1>5. ASSUME NEW c \in Callers, Send(c) PROVE TypeOK'
  <2>1. calls + 1 \in Calls
    BY <1>5, RoomToSend DEF Send, Inside
  <2>2. inbox' \in [Workers -> Seq(Calls)]
    BY <1>5, <2>1 DEF Send
  <2> QED
    BY <1>5, <2>1, <2>2 DEF Send
<1>6. ASSUME NEW c \in Callers, SendThrows(c) PROVE TypeOK'
  BY <1>6 DEF SendThrows
<1>7. ASSUME NEW c \in Callers, OnReply(c) PROVE TypeOK'
  BY <1>7 DEF OnReply, CallerInv
<1>8. ASSUME NEW c \in Callers, Timeout(c) PROVE TypeOK'
  BY <1>8 DEF Timeout, CallerInv
<1>9. ASSUME NEW w \in Workers, OpenPipe(w) PROVE TypeOK'
  BY <1>9 DEF OpenPipe
<1>10. ASSUME NEW w \in Workers, Write(w) PROVE TypeOK'
  <2>1. Head(inbox[w]) \in Calls /\ Tail(inbox[w]) \in Seq(Calls)
    BY <1>10 DEF Write
  <2>2. inbox' \in [Workers -> Seq(Calls)]
    BY <1>10, <2>1 DEF Write
  <2>3. served' \in [Workers -> EnableSteps \cup DisableSteps \cup {"closed", "reading", "ok", "error"}]
    BY <1>10 DEF Write, First, EnableSteps, DisableSteps
  <2> QED
    BY <1>10, <2>1, <2>2, <2>3 DEF Write
<1>11. ASSUME NEW w \in Workers, WriteFails(w) PROVE TypeOK'
  <2>1. Head(inbox[w]) \in Calls /\ Tail(inbox[w]) \in Seq(Calls)
    BY <1>11 DEF WriteFails
  <2>2. inbox' \in [Workers -> Seq(Calls)]
    BY <1>11, <2>1 DEF WriteFails
  <2> QED
    BY <1>11, <2>1, <2>2 DEF WriteFails
<1>12. ASSUME NEW w \in Workers, Read(w) PROVE TypeOK'
  BY <1>12 DEF Read
<1>13. ASSUME NEW w \in Workers, enableKillSwitch(w) PROVE TypeOK'
  <2>1. PICK to \in {"allowEngine", "allowLoopback", "dropEngine", "dropLoopback", "ok", "error"} :
              served' = [served EXCEPT ![w] = to]
    BY <1>13, EnableIs
  <2>2. served' \in [Workers -> EnableSteps \cup DisableSteps \cup {"closed", "reading", "ok", "error"}]
    BY <2>1 DEF EnableSteps, DisableSteps
  <2>3. policy' \in {"allow", "block"}
    BY <1>13, EnableIs
  <2>4. rules' \subseteq Rules
    <3>1. rules' \in {rules, rules \cup {"engine"}, rules \cup {"loopback"}}
      BY <1>13, EnableIs
    <3> QED
      BY <3>1 DEF Rules
  <2>5. UNCHANGED <<callerVars, clientVars, workerVars, answerVars, service>>
    BY <1>13, EnableIs
  <2> QED
    BY <2>2, <2>3, <2>4, <2>5
<1>14. ASSUME NEW w \in Workers, disableKillSwitch(w) PROVE TypeOK'
  <2>1. PICK to \in {"allowEngine", "allowLoopback", "dropEngine", "dropLoopback", "ok", "error"} :
              served' = [served EXCEPT ![w] = to]
    BY <1>14, DisableIs
  <2>2. served' \in [Workers -> EnableSteps \cup DisableSteps \cup {"closed", "reading", "ok", "error"}]
    BY <2>1 DEF EnableSteps, DisableSteps
  <2>3. policy' \in {"allow", "block"}
    BY <1>14, DisableIs
  <2>4. rules' \subseteq Rules
    BY <1>14, DisableIs DEF Rules
  <2>5. UNCHANGED <<callerVars, clientVars, workerVars, answerVars, service>>
    BY <1>14, DisableIs
  <2> QED
    BY <2>2, <2>3, <2>4, <2>5
<1>15. ASSUME StopService PROVE TypeOK'
  BY <1>15 DEF StopService
<1>16. ASSUME StartService PROVE TypeOK'
  BY <1>16 DEF StartService
<1>17. CASE UNCHANGED vars
  BY <1>17 DEF vars
<1> QED
  BY <1>1, <1>2, <1>3, <1>4, <1>5, <1>6, <1>7, <1>8, <1>9, <1>10,
     <1>11, <1>12, <1>13, <1>14, <1>15, <1>16, <1>17
  DEF Next, CallerStep, WorkerStep, ServiceStep

\* Every action keeps the promise of a number to those inside.
LEMMA CallerKept == ASSUME TypeOK, CallerInv, [Next]_vars PROVE CallerInv'
<1> USE DEF callerVars, clientVars, workerVars, answerVars, firewallVars
<1>1. ASSUME NEW c \in Callers, NEW v \in BOOLEAN, ConnectOpen(c, v) PROVE CallerInv'
  <2>1. calls + Cardinality(Inside) < MaxCalls
    BY <1>1 DEF ConnectOpen, Room, Inside
  <2>2. Cardinality(Inside') = Cardinality(Inside) + 1
    BY <1>1, InsideGrows DEF ConnectOpen, Inside, TypeOK
  <2>3. calls \in Nat /\ calls' = calls
    BY <1>1, Bounds DEF ConnectOpen, TypeOK, None
  <2>4. calls' + Cardinality(Inside') <= MaxCalls
    BY <2>1, <2>2, <2>3, InsideFinite, Bounds
  <2>5. workers < MaxWorkers => workers + 1 \in Workers
    BY NextWorker
  <2> QED
    BY <1>1, <2>3, <2>4, <2>5 DEF ConnectOpen, CallerInv, TypeOK
<1>2. ASSUME NEW c \in Callers, NEW v \in BOOLEAN, ConnectSpawn(c, v) PROVE CallerInv'
  <2>1. calls + Cardinality(Inside) < MaxCalls
    BY <1>2 DEF ConnectSpawn, Room, Inside
  <2>2. Cardinality(Inside') = Cardinality(Inside) + 1
    BY <1>2, InsideGrows DEF ConnectSpawn, Inside, TypeOK
  <2>3. calls \in Nat /\ calls' = calls
    BY <1>2, Bounds DEF ConnectSpawn, TypeOK, None
  <2>4. calls' + Cardinality(Inside') <= MaxCalls
    BY <2>1, <2>2, <2>3, InsideFinite, Bounds
  <2>5. workers + 1 \in Workers /\ workers \in Nat
    BY <1>2, NextWorker, Bounds DEF ConnectSpawn, TypeOK, None
  <2>6. \A w \in Workers : w > workers' => w > workers /\ w # workers + 1
    BY <1>2, <2>5, Bounds DEF ConnectSpawn
  <2>7. \A w \in Workers : w > workers' => isolate'[w] = "none"
    BY <1>2, <2>6 DEF ConnectSpawn, CallerInv, TypeOK
  <2>8. latest' <= workers'
    BY <1>2, <2>5 DEF ConnectSpawn
  <2> QED
    BY <1>2, <2>3, <2>4, <2>5, <2>7, <2>8 DEF ConnectSpawn, CallerInv, TypeOK
<1>3. ASSUME NEW c \in Callers, HandshakeDone(c) PROVE CallerInv'
  <2>1. Inside' = Inside
    BY <1>3 DEF HandshakeDone, Inside, TypeOK
  <2> QED
    BY <1>3, <2>1 DEF HandshakeDone, CallerInv, TypeOK
<1>4. ASSUME NEW c \in Callers, HandshakeFailed(c) PROVE CallerInv'
  <2>1. c \in Inside /\ Inside' = Inside \ {c}
    BY <1>4 DEF HandshakeFailed, Release, Inside, TypeOK
  <2>2. Cardinality(Inside') = Cardinality(Inside) - 1
    BY <2>1, InsideShrinks
  <2>3. calls \in Nat
    BY Bounds DEF TypeOK, None
  <2>4. calls' + Cardinality(Inside') <= MaxCalls
    BY <1>4, <2>2, <2>3, InsideFinite, Bounds DEF HandshakeFailed, CallerInv
  <2>5. workers \in Nat /\ latest \in Nat
    BY Bounds DEF TypeOK, None
  <2>6. \A w \in Workers : w > workers => w # latest
    BY <2>5, Bounds DEF CallerInv
  <2>7. \A w \in Workers : w > workers' => isolate'[w] = "none"
    BY <1>4, <2>6 DEF HandshakeFailed, CallerInv, TypeOK
  <2>8. latest' <= workers'
    BY <1>4, <2>5 DEF HandshakeFailed, None
  <2>9. \A d \in Callers : pc'[d] \in {"handshake", "waiting"} => pc'[d] = pc[d]
    BY <1>4 DEF HandshakeFailed, Release, TypeOK
  <2> QED
    BY <1>4, <2>4, <2>7, <2>8, <2>9 DEF HandshakeFailed, CallerInv
<1>5. ASSUME NEW c \in Callers, Send(c) PROVE CallerInv'
  <2>1. c \in Inside /\ Inside' = Inside \ {c}
    BY <1>5 DEF Send, Inside, TypeOK
  <2>2. Cardinality(Inside') = Cardinality(Inside) - 1
    BY <2>1, InsideShrinks
  <2>3. calls' = calls + 1 /\ calls \in Nat /\ calls + 1 \in Calls
    BY <1>5, <2>1, RoomToSend DEF Send
  <2>4. calls' + Cardinality(Inside') <= MaxCalls
    BY <2>2, <2>3, InsideFinite, Bounds DEF CallerInv
  <2>5. \A n \in Calls : n <= calls => n <= calls'
    BY <2>3, Bounds
  <2>6. \A i \in pending' : i <= calls'
    BY <1>5, <2>3, <2>5 DEF Send, CallerInv, TypeOK
  <2>7. \A d \in Callers : pc'[d] = "waiting" => mine'[d] \in Calls /\ mine'[d] <= calls'
    <3> SUFFICES ASSUME NEW d \in Callers, pc'[d] = "waiting"
                 PROVE  mine'[d] \in Calls /\ mine'[d] <= calls'
      OBVIOUS
    <3>1. CASE d = c
      BY <1>5, <2>3, <3>1, Bounds DEF Send, TypeOK
    <3>2. CASE d # c
      BY <1>5, <2>5, <3>2 DEF Send, TypeOK, CallerInv
    <3> QED
      BY <3>1, <3>2
  <2> QED
    BY <1>5, <2>4, <2>6, <2>7 DEF Send, CallerInv, TypeOK
<1>6. ASSUME NEW c \in Callers, SendThrows(c) PROVE CallerInv'
  <2>1. c \in Inside /\ Inside' = Inside \ {c}
    BY <1>6 DEF SendThrows, Inside, TypeOK
  <2>2. Cardinality(Inside') = Cardinality(Inside) - 1
    BY <2>1, InsideShrinks
  <2>3. calls \in Nat
    BY Bounds DEF TypeOK, None
  <2> QED
    BY <1>6, <2>2, <2>3, InsideFinite, Bounds DEF SendThrows, CallerInv, TypeOK
<1>7. ASSUME NEW c \in Callers, OnReply(c) PROVE CallerInv'
  <2>1. Inside' = Inside
    BY <1>7 DEF OnReply, Inside, TypeOK
  <2> QED
    BY <1>7, <2>1 DEF OnReply, CallerInv, TypeOK
<1>8. ASSUME NEW c \in Callers, Timeout(c) PROVE CallerInv'
  <2>1. Inside' = Inside
    BY <1>8 DEF Timeout, Inside, TypeOK
  <2> QED
    BY <1>8, <2>1 DEF Timeout, CallerInv, TypeOK
<1>9. ASSUME NEW w \in Workers, OpenPipe(w) PROVE CallerInv'
  <2>1. Inside' = Inside
    BY <1>9 DEF OpenPipe, Inside, TypeOK
  <2> QED
    BY <1>9, <2>1 DEF OpenPipe, CallerInv, TypeOK
<1>10. ASSUME NEW w \in Workers, Write(w) PROVE CallerInv'
  <2>1. Inside' = Inside
    BY <1>10 DEF Write, Inside, TypeOK
  <2> QED
    BY <1>10, <2>1 DEF Write, CallerInv, TypeOK
<1>11. ASSUME NEW w \in Workers, WriteFails(w) PROVE CallerInv'
  <2>1. Inside' = Inside
    BY <1>11 DEF WriteFails, Inside, TypeOK
  <2> QED
    BY <1>11, <2>1 DEF WriteFails, CallerInv, TypeOK
<1>12. ASSUME NEW w \in Workers, Read(w) PROVE CallerInv'
  <2>1. Inside' = Inside
    BY <1>12 DEF Read, Inside, TypeOK
  <2> QED
    BY <1>12, <2>1 DEF Read, CallerInv, TypeOK
<1>13. ASSUME NEW w \in Workers, enableKillSwitch(w) PROVE CallerInv'
  <2>1. Inside' = Inside
    BY <1>13 DEF enableKillSwitch, Netsh, Handle, Inside, TypeOK
  <2> QED
    BY <1>13, <2>1 DEF enableKillSwitch, Netsh, Handle, CallerInv, TypeOK
<1>14. ASSUME NEW w \in Workers, disableKillSwitch(w) PROVE CallerInv'
  <2>1. Inside' = Inside
    BY <1>14 DEF disableKillSwitch, Netsh, Handle, DropRule, Inside, TypeOK
  <2> QED
    BY <1>14, <2>1 DEF disableKillSwitch, Netsh, Handle, DropRule, CallerInv, TypeOK
<1>15. ASSUME StopService PROVE CallerInv'
  <2>1. Inside' = Inside
    BY <1>15 DEF StopService, Inside, TypeOK
  <2> QED
    BY <1>15, <2>1 DEF StopService, CallerInv, TypeOK
<1>16. ASSUME StartService PROVE CallerInv'
  <2>1. Inside' = Inside
    BY <1>16 DEF StartService, Inside, TypeOK
  <2> QED
    BY <1>16, <2>1 DEF StartService, CallerInv, TypeOK
<1>17. CASE UNCHANGED vars
  BY <1>17 DEF vars, CallerInv, Inside
<1> QED
  BY <1>1, <1>2, <1>3, <1>4, <1>5, <1>6, <1>7, <1>8, <1>9, <1>10,
     <1>11, <1>12, <1>13, <1>14, <1>15, <1>16, <1>17
  DEF Next, CallerStep, WorkerStep, ServiceStep

-----------------------------------------------------------------------------
(* The pipes.                                                              *)

\* A worker that has opened its pipe, or was killed, stays one of those.
LEMMA OpenedGrows == ASSUME TypeOK, CallerInv, [Next]_vars PROVE Opened \subseteq Opened'
<1> USE DEF TypeOK, Opened, callerVars, clientVars, workerVars, answerVars, firewallVars
<1>1. ASSUME NEW c \in Callers, NEW v \in BOOLEAN, ConnectOpen(c, v) PROVE Opened \subseteq Opened'
  BY <1>1 DEF ConnectOpen
<1>2. ASSUME NEW c \in Callers, NEW v \in BOOLEAN, ConnectSpawn(c, v) PROVE Opened \subseteq Opened'
  <2>1. workers + 1 \in Workers /\ workers \in Nat
    BY <1>2, NextWorker, Bounds DEF ConnectSpawn, TypeOK, None
  <2>2. isolate[workers + 1] = "none"
    BY <2>1 DEF CallerInv
  <2> QED
    BY <1>2, <2>1, <2>2 DEF ConnectSpawn
<1>3. ASSUME NEW c \in Callers, HandshakeDone(c) PROVE Opened \subseteq Opened'
  BY <1>3 DEF HandshakeDone
<1>4. ASSUME NEW c \in Callers, HandshakeFailed(c) PROVE Opened \subseteq Opened'
  BY <1>4 DEF HandshakeFailed, Release, Told
<1>5. ASSUME NEW c \in Callers, Send(c) PROVE Opened \subseteq Opened'
  BY <1>5 DEF Send
<1>6. ASSUME NEW c \in Callers, SendThrows(c) PROVE Opened \subseteq Opened'
  BY <1>6 DEF SendThrows
<1>7. ASSUME NEW c \in Callers, OnReply(c) PROVE Opened \subseteq Opened'
  BY <1>7 DEF OnReply
<1>8. ASSUME NEW c \in Callers, Timeout(c) PROVE Opened \subseteq Opened'
  BY <1>8 DEF Timeout
<1>9. ASSUME NEW w \in Workers, OpenPipe(w) PROVE Opened \subseteq Opened'
  BY <1>9 DEF OpenPipe
<1>10. ASSUME NEW w \in Workers, Write(w) PROVE Opened \subseteq Opened'
  BY <1>10 DEF Write, First
<1>11. ASSUME NEW w \in Workers, WriteFails(w) PROVE Opened \subseteq Opened'
  BY <1>11 DEF WriteFails
<1>12. ASSUME NEW w \in Workers, Read(w) PROVE Opened \subseteq Opened'
  BY <1>12 DEF Read
<1>13. ASSUME NEW w \in Workers, enableKillSwitch(w) PROVE Opened \subseteq Opened'
  BY <1>13, EnableIs
<1>14. ASSUME NEW w \in Workers, disableKillSwitch(w) PROVE Opened \subseteq Opened'
  BY <1>14, DisableIs
<1>15. ASSUME StopService PROVE Opened \subseteq Opened'
  BY <1>15 DEF StopService
<1>16. ASSUME StartService PROVE Opened \subseteq Opened'
  BY <1>16 DEF StartService
<1>17. CASE UNCHANGED vars
  BY <1>17 DEF vars
<1> QED
  BY <1>1, <1>2, <1>3, <1>4, <1>5, <1>6, <1>7, <1>8, <1>9, <1>10,
     <1>11, <1>12, <1>13, <1>14, <1>15, <1>16, <1>17
  DEF Next, CallerStep, WorkerStep, ServiceStep

\* So there was one pipe before if there is one now.
LEMMA SingleBefore == ASSUME TypeOK, CallerInv, [Next]_vars, Single' PROVE Single
BY OpenedGrows DEF Single

\* Every action keeps PipeInv.
LEMMA PipeKept == ASSUME TypeOK, CallerInv, PipeInv, [Next]_vars PROVE PipeInv'
<1> USE DEF callerVars, clientVars, workerVars, answerVars, firewallVars
<1>1. ASSUME NEW c \in Callers, NEW v \in BOOLEAN, ConnectOpen(c, v) PROVE PipeInv'
  BY <1>1 DEF ConnectOpen, TypeOK, PipeInv, Opened
<1>2. ASSUME NEW c \in Callers, NEW v \in BOOLEAN, ConnectSpawn(c, v) PROVE PipeInv'
  <2>1. workers + 1 \in Workers /\ workers \in Nat
    BY <1>2, NextWorker, Bounds DEF ConnectSpawn, TypeOK, None
  <2>2. isolate[workers + 1] = "none"
    BY <2>1 DEF CallerInv
  <2> QED
    BY <1>2, <2>1, <2>2 DEF ConnectSpawn, PipeInv, Opened, TypeOK
<1>3. ASSUME NEW c \in Callers, HandshakeDone(c) PROVE PipeInv'
  <2>1. mine[c] \in Opened /\ Opened' = Opened
    BY <1>3 DEF HandshakeDone, CallerInv, Opened
  <2> QED
    BY <1>3, <2>1 DEF HandshakeDone, PipeInv
<1>4. ASSUME NEW c \in Callers, HandshakeFailed(c) PROVE PipeInv'
  BY <1>4 DEF HandshakeFailed, Release, Told, TypeOK, PipeInv, Opened
<1>5. ASSUME NEW c \in Callers, Send(c) PROVE PipeInv'
  BY <1>5 DEF Send, TypeOK, PipeInv, Opened
<1>6. ASSUME NEW c \in Callers, SendThrows(c) PROVE PipeInv'
  BY <1>6 DEF SendThrows, TypeOK, PipeInv, Opened
<1>7. ASSUME NEW c \in Callers, OnReply(c) PROVE PipeInv'
  BY <1>7 DEF OnReply, TypeOK, PipeInv, Opened
<1>8. ASSUME NEW c \in Callers, Timeout(c) PROVE PipeInv'
  BY <1>8 DEF Timeout, TypeOK, PipeInv, Opened
<1>9. ASSUME NEW w \in Workers, OpenPipe(w) PROVE PipeInv'
  BY <1>9 DEF OpenPipe, TypeOK, PipeInv, Opened
<1>10. ASSUME NEW w \in Workers, Write(w) PROVE PipeInv'
  <2>1. Head(inbox[w]) \in Calls /\ Head(inbox[w]) # None
    BY <1>10, Bounds DEF Write, TypeOK, None
  <2>2. w \in Opened /\ Opened' = Opened /\ commands' = commands
    BY <1>10 DEF Write, Opened
  <2>3. ASSUME NEW v \in Workers, v # w
        PROVE  served'[v] = served[v] /\ current'[v] = current[v] /\ inbox'[v] = inbox[v]
    BY <1>10, <2>3 DEF Write, TypeOK
  <2>4. current'[w] # None
    BY <1>10, <2>1 DEF Write, TypeOK
  <2> QED
    BY <2>2, <2>3, <2>4 DEF PipeInv
<1>11. ASSUME NEW w \in Workers, WriteFails(w) PROVE PipeInv'
  BY <1>11 DEF WriteFails, TypeOK, PipeInv, Opened
<1>12. ASSUME NEW w \in Workers, Read(w) PROVE PipeInv'
  <2>1. isolate' = isolate /\ inbox' = inbox /\ commands' = commands /\ Opened' = Opened
    BY <1>12 DEF Read, Opened
  <2>2. ASSUME NEW v \in Workers
        PROVE  /\ served'[v] # "closed" \/ current'[v] # None \/ inbox'[v] # <<>> => v \in Opened
               /\ served'[v] \notin {"closed", "reading"} => current'[v] # None
    BY <1>12, <2>1 DEF Read, PipeInv, TypeOK
  <2> QED
    BY <2>1, <2>2 DEF PipeInv
<1>13. ASSUME NEW w \in Workers, enableKillSwitch(w) PROVE PipeInv'
  <2>1. PICK to : served' = [served EXCEPT ![w] = to]
    BY <1>13, EnableIs
  <2>2. UNCHANGED <<callerVars, clientVars, workerVars, answerVars, service>> /\ served[w] \notin {"closed", "reading"}
    BY <1>13, EnableIs DEF EnableSteps
  <2> QED
    BY <2>1, <2>2 DEF PipeInv, Opened, TypeOK
<1>14. ASSUME NEW w \in Workers, disableKillSwitch(w) PROVE PipeInv'
  <2>1. PICK to : served' = [served EXCEPT ![w] = to]
    BY <1>14, DisableIs
  <2>2. UNCHANGED <<callerVars, clientVars, workerVars, answerVars, service>> /\ served[w] \notin {"closed", "reading"}
    BY <1>14, DisableIs DEF DisableSteps
  <2> QED
    BY <2>1, <2>2 DEF PipeInv, Opened, TypeOK
<1>15. ASSUME StopService PROVE PipeInv'
  BY <1>15 DEF StopService, TypeOK, PipeInv, Opened
<1>16. ASSUME StartService PROVE PipeInv'
  BY <1>16 DEF StartService, TypeOK, PipeInv, Opened
<1>17. CASE UNCHANGED vars
  BY <1>17 DEF vars, TypeOK, PipeInv, Opened
<1> QED
  BY <1>1, <1>2, <1>3, <1>4, <1>5, <1>6, <1>7, <1>8, <1>9, <1>10,
     <1>11, <1>12, <1>13, <1>14, <1>15, <1>16, <1>17
  DEF Next, CallerStep, WorkerStep, ServiceStep

-----------------------------------------------------------------------------
(* The requests in line.                                                   *)

\* Numbers that are compared are numbers.
LEMMA Numbers ==
    ASSUME TypeOK
    PROVE  /\ calls \in Nat
           /\ \A w \in Workers : current[w] \in Nat
           /\ \A w \in Workers : Len(inbox[w]) \in Nat /\ \A k \in 1 .. Len(inbox[w]) : inbox[w][k] \in Calls /\ inbox[w][k] \in Nat
<1>1. calls \in Nat /\ \A w \in Workers : current[w] \in Nat
  BY Bounds DEF TypeOK, None
<1>2. ASSUME NEW w \in Workers
      PROVE  Len(inbox[w]) \in Nat /\ \A k \in 1 .. Len(inbox[w]) : inbox[w][k] \in Calls /\ inbox[w][k] \in Nat
  BY Bounds DEF TypeOK
<1> QED
  BY <1>1, <1>2

\* What is left of a line when its head is taken.
LEMMA TakeHead ==
    ASSUME TypeOK, NEW w \in Workers, inbox[w] # <<>>
    PROVE  /\ Head(inbox[w]) = inbox[w][1] /\ 1 \in 1 .. Len(inbox[w])
           /\ Len(Tail(inbox[w])) = Len(inbox[w]) - 1
           /\ \A k \in 1 .. Len(Tail(inbox[w])) :
                k + 1 \in 1 .. Len(inbox[w]) /\ Tail(inbox[w])[k] = inbox[w][k + 1]
           /\ Tail(inbox[w]) # <<>> => 1 < Len(inbox[w])
<1>1. inbox[w] \in Seq(Calls) /\ Len(inbox[w]) \in Nat
  BY DEF TypeOK
<1>2. Len(inbox[w]) >= 1
  BY <1>1
<1>3. Len(Tail(inbox[w])) = Len(inbox[w]) - 1 /\ Tail(inbox[w]) \in Seq(Calls)
  BY <1>1, <1>2
<1>4. \A k \in 1 .. Len(Tail(inbox[w])) : Tail(inbox[w])[k] = inbox[w][k + 1]
  BY <1>1, <1>2, <1>3
<1>5. \A s \in Seq(Calls) : s # <<>> => Len(s) \in Nat /\ Len(s) # 0
  OBVIOUS
<1>6. Tail(inbox[w]) # <<>> => Len(Tail(inbox[w])) # 0
  BY <1>3, <1>5
<1> QED
  BY <1>1, <1>2, <1>3, <1>4, <1>6

\* Every action keeps the latest request last and the unused numbers unanswered.
LEMMA LineKept == ASSUME TypeOK, CallerInv, PipeInv, LineInv, [Next]_vars PROVE LineInv'
<1> USE DEF callerVars, clientVars, workerVars, answerVars, firewallVars
<1>1. ASSUME NEW c \in Callers, NEW v \in BOOLEAN, ConnectOpen(c, v) PROVE LineInv'
  <2>1. UNCHANGED <<inbox, current, calls, reply, outcome>>
    BY <1>1 DEF ConnectOpen
  <2> QED
    BY <2>1 DEF LineInv
<1>2. ASSUME NEW c \in Callers, NEW v \in BOOLEAN, ConnectSpawn(c, v) PROVE LineInv'
  <2>1. UNCHANGED <<inbox, current, calls, reply, outcome>>
    BY <1>2 DEF ConnectSpawn
  <2> QED
    BY <2>1 DEF LineInv
<1>3. ASSUME NEW c \in Callers, HandshakeDone(c) PROVE LineInv'
  <2>1. UNCHANGED <<inbox, current, calls, reply, outcome>>
    BY <1>3 DEF HandshakeDone
  <2> QED
    BY <2>1 DEF LineInv
<1>4. ASSUME NEW c \in Callers, HandshakeFailed(c) PROVE LineInv'
  <2>1. UNCHANGED <<inbox, current, calls, reply>>
    BY <1>4 DEF HandshakeFailed
  <2>2. \A i \in Calls : i > calls => i \notin pending
    BY Numbers, Bounds DEF CallerInv
  <2>3. \A i \in Calls : i > calls => outcome'[i] = outcome[i]
    BY <1>4, <2>2 DEF HandshakeFailed, Told
  <2> QED
    BY <2>1, <2>3 DEF LineInv
<1>5. ASSUME NEW c \in Callers, Send(c) PROVE LineInv'
  <2>1. calls' = calls + 1 /\ calls \in Nat /\ calls + 1 \in Calls
    BY <1>5, RoomToSend DEF Send, Inside
  <2>2. UNCHANGED <<current, reply, outcome>>
    BY <1>5 DEF Send
  <2>3. \A i \in Calls : i > calls' => i > calls
    BY <2>1, Bounds
  <2>4. \A w \in Workers : current'[w] <= calls' /\ current'[w] # calls'
    BY <2>1, <2>2, Numbers DEF LineInv
  <2>5. ASSUME NEW w \in Workers
        PROVE  /\ \A k \in 1 .. Len(inbox'[w]) : inbox'[w][k] <= calls'
               /\ \A k \in 1 .. Len(inbox'[w]) : k < Len(inbox'[w]) => inbox'[w][k] < calls'
    <3>1. \A k \in 1 .. Len(inbox[w]) : inbox[w][k] < calls'
      BY <2>1, Numbers DEF LineInv
    <3>2. CASE w = commands
      <4>1. inbox'[w] = Append(inbox[w], calls + 1) /\ inbox[w] \in Seq(Calls)
        BY <1>5, <3>2 DEF Send, TypeOK
      <4>2. /\ Len(inbox'[w]) = Len(inbox[w]) + 1 /\ Len(inbox[w]) \in Nat
            /\ inbox'[w][Len(inbox[w]) + 1] = calls + 1
            /\ \A k \in 1 .. Len(inbox[w]) : inbox'[w][k] = inbox[w][k]
        BY <2>1, <4>1
      <4>3. ASSUME NEW k \in 1 .. Len(inbox'[w]), k # Len(inbox[w]) + 1
            PROVE  inbox'[w][k] < calls' /\ inbox'[w][k] \in Nat
        <5>1. k \in 1 .. Len(inbox[w])
          BY <4>2, <4>3
        <5> QED
          BY <3>1, <4>2, <5>1, Numbers
      <4>4. ASSUME NEW k \in 1 .. Len(inbox'[w])
            PROVE  inbox'[w][k] <= calls' /\ (k < Len(inbox'[w]) => inbox'[w][k] < calls')
        <5>1. CASE k = Len(inbox[w]) + 1
          BY <2>1, <4>2, <5>1
        <5>2. CASE k # Len(inbox[w]) + 1
          BY <2>1, <4>3, <5>2
        <5> QED
          BY <5>1, <5>2
      <4> QED
        BY <4>4
    <3>3. CASE w # commands
      <4>1. inbox'[w] = inbox[w]
        BY <1>5, <3>3 DEF Send, TypeOK
      <4> QED
        BY <2>1, <3>1, <4>1, Numbers
    <3> QED
      BY <3>2, <3>3
  <2> QED
    BY <2>2, <2>3, <2>4, <2>5 DEF LineInv
<1>6. ASSUME NEW c \in Callers, SendThrows(c) PROVE LineInv'
  <2>1. UNCHANGED <<inbox, current, calls, reply, outcome>>
    BY <1>6 DEF SendThrows
  <2> QED
    BY <2>1 DEF LineInv
<1>7. ASSUME NEW c \in Callers, OnReply(c) PROVE LineInv'
  <2>1. UNCHANGED <<inbox, current, calls>>
    BY <1>7 DEF OnReply
  <2>2. mine[c] \in Calls /\ mine[c] <= calls
    BY <1>7 DEF OnReply, CallerInv
  <2>3. \A i \in Calls : i > calls => i # mine[c]
    BY <2>2, Numbers, Bounds
  <2>4. \A i \in Calls : i > calls => reply'[i] = reply[i] /\ outcome'[i] = outcome[i]
    BY <1>7, <2>3 DEF OnReply, TypeOK
  <2> QED
    BY <2>1, <2>4 DEF LineInv
<1>8. ASSUME NEW c \in Callers, Timeout(c) PROVE LineInv'
  <2>1. UNCHANGED <<inbox, current, calls>>
    BY <1>8 DEF Timeout
  <2>2. mine[c] \in Calls /\ mine[c] <= calls
    BY <1>8 DEF Timeout, CallerInv
  <2>3. \A i \in Calls : i > calls => i # mine[c]
    BY <2>2, Numbers, Bounds
  <2>4. \A i \in Calls : i > calls => reply'[i] = reply[i] /\ outcome'[i] = outcome[i]
    BY <1>8, <2>3 DEF Timeout, TypeOK
  <2> QED
    BY <2>1, <2>4 DEF LineInv
<1>9. ASSUME NEW w \in Workers, OpenPipe(w) PROVE LineInv'
  <2>1. UNCHANGED <<inbox, current, calls, reply, outcome>>
    BY <1>9 DEF OpenPipe
  <2> QED
    BY <2>1 DEF LineInv
<1>10. ASSUME NEW w \in Workers, Write(w) PROVE LineInv'
  <2>1. UNCHANGED <<calls, outcome>>
    BY <1>10 DEF Write
  <2>2. /\ inbox'[w] = Tail(inbox[w]) /\ inbox[w] # <<>>
        /\ \A v \in Workers : v # w => inbox'[v] = inbox[v]
    BY <1>10 DEF Write, TypeOK
  <2>3. /\ Head(inbox[w]) \in Calls /\ Head(inbox[w]) <= calls
        /\ Tail(inbox[w]) # <<>> => Head(inbox[w]) < calls
    BY <2>2, TakeHead, Numbers DEF LineInv
  <2>4. ASSUME NEW v \in Workers
        PROVE  /\ \A k \in 1 .. Len(inbox'[v]) : inbox'[v][k] <= calls
               /\ \A k \in 1 .. Len(inbox'[v]) : k < Len(inbox'[v]) => inbox'[v][k] < calls
    <3>1. CASE v = w
      <4>1. \A k \in 1 .. Len(Tail(inbox[w])) :
              /\ k + 1 \in 1 .. Len(inbox[w]) /\ Tail(inbox[w])[k] = inbox[w][k + 1]
              /\ k < Len(Tail(inbox[w])) => k + 1 < Len(inbox[w])
        BY <2>2, TakeHead, Numbers
      <4> QED
        BY <2>2, <3>1, <4>1 DEF LineInv
    <3>2. CASE v # w
      BY <2>2, <3>2 DEF LineInv
    <3> QED
      BY <3>1, <3>2
  <2>5. current'[w] = Head(inbox[w]) /\ \A v \in Workers : v # w => current'[v] = current[v]
    BY <1>10 DEF Write, TypeOK
  <2>6. ASSUME NEW v \in Workers
        PROVE  current'[v] <= calls /\ (current'[v] # None /\ current'[v] = calls => inbox'[v] = <<>>)
    <3>1. CASE v = w
      <4>1. current'[v] = Head(inbox[w]) /\ inbox'[v] = Tail(inbox[w])
        BY <2>2, <2>5, <3>1
      <4>2. Head(inbox[w]) \in Nat /\ calls \in Nat
        BY <2>3, Numbers, Bounds
      <4>3. calls' = calls
        BY <2>1
      <4> QED
        BY <2>3, <4>1, <4>2, <4>3
    <3>2. CASE v # w
      BY <2>2, <2>5, <3>2 DEF LineInv
    <3> QED
      BY <3>1, <3>2
  <2>7. UNCHANGED reply
    BY <1>10 DEF Write
  <2> QED
    BY <2>1, <2>4, <2>6, <2>7 DEF LineInv
<1>11. ASSUME NEW w \in Workers, WriteFails(w) PROVE LineInv'
  <2>1. UNCHANGED <<calls, outcome>>
    BY <1>11 DEF WriteFails
  <2>2. /\ inbox'[w] = Tail(inbox[w]) /\ inbox[w] # <<>>
        /\ \A v \in Workers : v # w => inbox'[v] = inbox[v]
    BY <1>11 DEF WriteFails, TypeOK
  <2>3. /\ Head(inbox[w]) \in Calls /\ Head(inbox[w]) <= calls
        /\ Tail(inbox[w]) # <<>> => Head(inbox[w]) < calls
    BY <2>2, TakeHead, Numbers DEF LineInv
  <2>4. ASSUME NEW v \in Workers
        PROVE  /\ \A k \in 1 .. Len(inbox'[v]) : inbox'[v][k] <= calls
               /\ \A k \in 1 .. Len(inbox'[v]) : k < Len(inbox'[v]) => inbox'[v][k] < calls
    <3>1. CASE v = w
      <4>1. \A k \in 1 .. Len(Tail(inbox[w])) :
              /\ k + 1 \in 1 .. Len(inbox[w]) /\ Tail(inbox[w])[k] = inbox[w][k + 1]
              /\ k < Len(Tail(inbox[w])) => k + 1 < Len(inbox[w])
        BY <2>2, TakeHead, Numbers
      <4> QED
        BY <2>2, <3>1, <4>1 DEF LineInv
    <3>2. CASE v # w
      BY <2>2, <3>2 DEF LineInv
    <3> QED
      BY <3>1, <3>2
  <2>5. \A i \in Calls : i > calls => i # Head(inbox[w])
    BY <2>3, Numbers, Bounds
  <2>6. \A i \in Calls : i > calls => reply'[i] = reply[i]
    BY <1>11, <2>5 DEF WriteFails, TypeOK
  <2>7. UNCHANGED current /\ Len(<<>>) = 0
    BY <1>11 DEF WriteFails
  <2>8. current[w] = None
    BY <1>11 DEF WriteFails
  <2> QED
    BY <2>1, <2>2, <2>4, <2>6, <2>7, <2>8 DEF LineInv
<1>12. ASSUME NEW w \in Workers, Read(w) PROVE LineInv'
  <2>1. UNCHANGED <<inbox, calls, outcome>>
    BY <1>12 DEF Read
  <2>2. current[w] \in Calls /\ current[w] <= calls
    BY <1>12 DEF Read, TypeOK, LineInv
  <2>3. \A i \in Calls : i > calls => i # current[w]
    BY <2>2, Numbers, Bounds
  <2>4. \A i \in Calls : i > calls => reply'[i] = reply[i]
    BY <1>12, <2>3 DEF Read, TypeOK
  <2>5. \A v \in Workers : current'[v] = (IF v = w THEN None ELSE current[v])
    BY <1>12 DEF Read, TypeOK
  <2>6. None <= calls
    BY Numbers DEF None
  <2> QED
    BY <2>1, <2>4, <2>5, <2>6 DEF LineInv
<1>13. ASSUME NEW w \in Workers, enableKillSwitch(w) PROVE LineInv'
  <2>1. UNCHANGED <<inbox, current, calls, reply, outcome>>
    BY <1>13, EnableIs
  <2> QED
    BY <2>1 DEF LineInv
<1>14. ASSUME NEW w \in Workers, disableKillSwitch(w) PROVE LineInv'
  <2>1. UNCHANGED <<inbox, current, calls, reply, outcome>>
    BY <1>14, DisableIs
  <2> QED
    BY <2>1 DEF LineInv
<1>15. ASSUME StopService PROVE LineInv'
  <2>1. UNCHANGED <<inbox, current, calls, reply, outcome>>
    BY <1>15 DEF StopService
  <2> QED
    BY <2>1 DEF LineInv
<1>16. ASSUME StartService PROVE LineInv'
  <2>1. UNCHANGED <<inbox, current, calls, reply, outcome>>
    BY <1>16 DEF StartService
  <2> QED
    BY <2>1 DEF LineInv
<1>17. CASE UNCHANGED vars
  BY <1>17 DEF vars, LineInv
<1> QED
  BY <1>1, <1>2, <1>3, <1>4, <1>5, <1>6, <1>7, <1>8, <1>9, <1>10,
     <1>11, <1>12, <1>13, <1>14, <1>15, <1>16, <1>17
  DEF Next, CallerStep, WorkerStep, ServiceStep

-----------------------------------------------------------------------------
(* The firewall.                                                           *)

\* With one pipe, two workers that have anything to do are the same.
LEMMA OneWorks ==
    ASSUME PipeInv, Single, NEW v \in Workers, NEW w \in Workers,
           served[v] # "closed" \/ current[v] # None \/ inbox[v] # <<>>,
           served[w] # "closed" \/ current[w] # None \/ inbox[w] # <<>>
    PROVE  v = w
BY DEF PipeInv, Single

\* Every action keeps the firewall in step with the one goroutine that edits it.
LEMMA PointKept ==
    ASSUME TypeOK, CallerInv, PipeInv, LineInv, PointInv, [Next]_vars, Single'
    PROVE  PointInv'
<1> USE DEF callerVars, clientVars, workerVars, answerVars, firewallVars
<1>0. Single
  BY SingleBefore
<1>1. ASSUME NEW c \in Callers, NEW v \in BOOLEAN, ConnectOpen(c, v) PROVE PointInv'
  <2>1. UNCHANGED <<served, current, value, policy, rules>>
    BY <1>1 DEF ConnectOpen
  <2> QED
    BY <1>0, <2>1 DEF PointInv, Matches
<1>2. ASSUME NEW c \in Callers, NEW v \in BOOLEAN, ConnectSpawn(c, v) PROVE PointInv'
  <2>1. UNCHANGED <<served, current, value, policy, rules>>
    BY <1>2 DEF ConnectSpawn
  <2> QED
    BY <1>0, <2>1 DEF PointInv, Matches
<1>3. ASSUME NEW c \in Callers, HandshakeDone(c) PROVE PointInv'
  <2>1. UNCHANGED <<served, current, value, policy, rules>>
    BY <1>3 DEF HandshakeDone
  <2> QED
    BY <1>0, <2>1 DEF PointInv, Matches
<1>4. ASSUME NEW c \in Callers, HandshakeFailed(c) PROVE PointInv'
  <2>1. UNCHANGED <<served, current, value, policy, rules>>
    BY <1>4 DEF HandshakeFailed
  <2> QED
    BY <1>0, <2>1 DEF PointInv, Matches
<1>5. ASSUME NEW c \in Callers, Send(c) PROVE PointInv'
  <2>1. UNCHANGED <<served, current, policy, rules>> /\ calls + 1 \in Calls
    BY <1>5, RoomToSend DEF Send, Inside
  <2>2. \A w \in Workers : current[w] # None => value'[current[w]] = value[current[w]]
    <3> SUFFICES ASSUME NEW w \in Workers, current[w] # None
                 PROVE  value'[current[w]] = value[current[w]]
      OBVIOUS
    <3>1. current[w] \in Calls /\ current[w] # calls + 1
      BY Numbers DEF LineInv, TypeOK
    <3> QED
      BY <1>5, <3>1 DEF Send, TypeOK
  <2>3. \A w \in Workers : served[w] \notin {"closed", "reading"} => value'[current'[w]] = value[current[w]]
    BY <2>1, <2>2 DEF PipeInv
  <2> QED
    BY <1>0, <2>1, <2>3 DEF PointInv, Matches, EnableSteps, DisableSteps
<1>6. ASSUME NEW c \in Callers, SendThrows(c) PROVE PointInv'
  <2>1. UNCHANGED <<served, current, value, policy, rules>>
    BY <1>6 DEF SendThrows
  <2> QED
    BY <1>0, <2>1 DEF PointInv, Matches
<1>7. ASSUME NEW c \in Callers, OnReply(c) PROVE PointInv'
  <2>1. UNCHANGED <<served, current, value, policy, rules>>
    BY <1>7 DEF OnReply
  <2> QED
    BY <1>0, <2>1 DEF PointInv, Matches
<1>8. ASSUME NEW c \in Callers, Timeout(c) PROVE PointInv'
  <2>1. UNCHANGED <<served, current, value, policy, rules>>
    BY <1>8 DEF Timeout
  <2> QED
    BY <1>0, <2>1 DEF PointInv, Matches
<1>9. ASSUME NEW w \in Workers, OpenPipe(w) PROVE PointInv'
  <2>1. UNCHANGED <<current, value, policy, rules>>
    BY <1>9 DEF OpenPipe
  <2>2. \A v \in Workers : served'[v] \in {served[v], "reading"}
    BY <1>9 DEF OpenPipe, TypeOK
  <2> QED
    BY <1>0, <2>1, <2>2 DEF PointInv, Matches, EnableSteps, DisableSteps
<1>10. ASSUME NEW w \in Workers, Write(w) PROVE PointInv'
  <2>1. UNCHANGED <<value, policy, rules>>
    BY <1>10 DEF Write
  <2>2. current'[w] = Head(inbox[w]) /\ served'[w] = First(value[Head(inbox[w])])
    BY <1>10 DEF Write, TypeOK
  <2>3. \A v \in Workers : v # w => current'[v] = current[v] /\ served'[v] = served[v]
    BY <1>10 DEF Write, TypeOK
  <2>4. /\ value'[current'[w]] = value[Head(inbox[w])]
        /\ value'[current'[w]] => served'[w] = "block"
        /\ ~value'[current'[w]] => served'[w] = "unblock"
    BY <2>1, <2>2 DEF First
  <2> QED
    BY <1>0, <2>1, <2>3, <2>4 DEF PointInv, Matches, EnableSteps, DisableSteps
<1>11. ASSUME NEW w \in Workers, WriteFails(w) PROVE PointInv'
  <2>1. UNCHANGED <<served, current, value, policy, rules>>
    BY <1>11 DEF WriteFails
  <2> QED
    BY <1>0, <2>1 DEF PointInv, Matches
<1>12. ASSUME NEW w \in Workers, Read(w) PROVE PointInv'
  <2>1. UNCHANGED <<value, policy, rules>>
    BY <1>12 DEF Read
  <2>2. served'[w] \in {"closed", "reading"}
    BY <1>12 DEF Read, TypeOK
  <2>3. \A v \in Workers : v # w => current'[v] = current[v] /\ served'[v] = served[v]
    BY <1>12 DEF Read, TypeOK
  <2> QED
    BY <1>0, <2>1, <2>2, <2>3 DEF PointInv, Matches, EnableSteps, DisableSteps
<1>13. ASSUME NEW w \in Workers, enableKillSwitch(w) PROVE PointInv'
  <2>1. UNCHANGED <<current, value>> /\ served[w] \in EnableSteps
    BY <1>13, EnableIs
  <2>2. PICK to \in {"allowEngine", "allowLoopback", "ok", "error"} :
          /\ served' = [served EXCEPT ![w] = to]
          /\ to = "allowEngine" => policy' = "block" /\ rules' = rules
          /\ to = "allowLoopback" =>
               served[w] = "allowEngine" /\ policy' = policy /\ rules' = rules \cup {"engine"}
          /\ to = "ok" =>
               served[w] = "allowLoopback" /\ policy' = policy /\ rules' = rules \cup {"loopback"}
          /\ to = "error" => policy' = policy /\ rules' = rules
    BY <1>13, EnableIs
  <2>3. \A v \in Workers : v # w => served[v] = "closed" /\ served'[v] = "closed"
    <3>1. \A v \in Workers : v # w => served[v] = "closed"
      BY <1>0, <2>1, OneWorks DEF EnableSteps
    <3> QED
      BY <2>2, <3>1 DEF TypeOK
  <2>4. served'[w] = to /\ value'[current'[w]] = value[current[w]]
    BY <2>1, <2>2 DEF TypeOK
  <2>5. /\ value[current[w]]
        /\ served[w] \in {"allowEngine", "allowLoopback"} => policy = "block"
        /\ served[w] = "allowLoopback" => "engine" \in rules
    BY <1>0, <2>1 DEF PointInv
  <2>6. to = "ok" => policy' = "block" /\ rules' = Rules
    <3> SUFFICES ASSUME to = "ok" PROVE policy' = "block" /\ rules' = Rules
      OBVIOUS
    <3>1. served[w] = "allowLoopback" /\ policy' = policy /\ rules' = rules \cup {"loopback"}
      BY <2>2
    <3>2. policy = "block" /\ "engine" \in rules
      BY <2>5, <3>1
    <3>3. rules \subseteq {"engine", "loopback"}
      BY DEF TypeOK, Rules
    <3>4. rules' = {"engine", "loopback"}
      BY <3>1, <3>2, <3>3
    <3> QED
      BY <3>1, <3>2, <3>4 DEF Rules
  <2>7. to \in {"allowEngine", "allowLoopback"} => policy' = "block"
    BY <2>2, <2>5
  <2>8. to = "allowLoopback" => "engine" \in rules'
    BY <2>2
  <2> QED
    BY <2>2, <2>3, <2>4, <2>5, <2>6, <2>7, <2>8 DEF PointInv, Matches, EnableSteps, DisableSteps
<1>14. ASSUME NEW w \in Workers, disableKillSwitch(w) PROVE PointInv'
  <2>1. UNCHANGED <<current, value>> /\ served[w] \in DisableSteps
    BY <1>14, DisableIs
  <2>2. PICK to \in {"dropEngine", "dropLoopback", "ok", "error"} :
          /\ served' = [served EXCEPT ![w] = to]
          /\ to = "dropEngine" => policy' = "allow"
          /\ to = "dropLoopback" => served[w] = "dropEngine" /\ policy' = policy
          /\ to = "ok" => served[w] = "dropLoopback" /\ policy' = policy
          /\ to = "error" => policy' = policy
    BY <1>14, DisableIs
  <2>3. \A v \in Workers : v # w => served[v] = "closed" /\ served'[v] = "closed"
    <3>1. \A v \in Workers : v # w => served[v] = "closed"
      BY <1>0, <2>1, OneWorks DEF DisableSteps
    <3> QED
      BY <2>2, <3>1 DEF TypeOK
  <2>4. served'[w] = to /\ value'[current'[w]] = value[current[w]]
    BY <2>1, <2>2 DEF TypeOK
  <2>5. /\ ~value[current[w]]
        /\ served[w] \in {"dropEngine", "dropLoopback"} => policy = "allow"
    BY <1>0, <2>1 DEF PointInv
  <2>6. to # "error" => policy' = "allow"
    BY <2>2, <2>5
  <2> QED
    BY <2>2, <2>3, <2>4, <2>5, <2>6 DEF PointInv, Matches, EnableSteps, DisableSteps
<1>15. ASSUME StopService PROVE PointInv'
  <2>1. \A v \in Workers : served'[v] = "closed"
    BY <1>15 DEF StopService
  <2> QED
    BY <2>1 DEF PointInv, EnableSteps, DisableSteps
<1>16. ASSUME StartService PROVE PointInv'
  <2>1. UNCHANGED <<served, current, value, policy, rules>>
    BY <1>16 DEF StartService
  <2> QED
    BY <1>0, <2>1 DEF PointInv, Matches
<1>17. CASE UNCHANGED vars
  BY <1>17, <1>0 DEF vars, PointInv, Matches
<1> QED
  BY <1>1, <1>2, <1>3, <1>4, <1>5, <1>6, <1>7, <1>8, <1>9, <1>10,
     <1>11, <1>12, <1>13, <1>14, <1>15, <1>16, <1>17
  DEF Next, CallerStep, WorkerStep, ServiceStep

\* Every action keeps an "ok" to the latest request true.
LEMMA AnswerKept ==
    ASSUME TypeOK, CallerInv, PipeInv, LineInv, PointInv, AnswerInv, [Next]_vars, Single'
    PROVE  AnswerInv'
<1> USE DEF callerVars, clientVars, workerVars, answerVars, firewallVars
<1>0. Single
  BY SingleBefore
<1>1. ASSUME NEW c \in Callers, NEW v \in BOOLEAN, ConnectOpen(c, v) PROVE AnswerInv'
  <2>1. UNCHANGED <<inbox, current, calls, value, reply, outcome, policy, rules>>
    BY <1>1 DEF ConnectOpen
  <2> QED
    BY <1>0, <2>1 DEF AnswerInv, Matches
<1>2. ASSUME NEW c \in Callers, NEW v \in BOOLEAN, ConnectSpawn(c, v) PROVE AnswerInv'
  <2>1. UNCHANGED <<inbox, current, calls, value, reply, outcome, policy, rules>>
    BY <1>2 DEF ConnectSpawn
  <2> QED
    BY <1>0, <2>1 DEF AnswerInv, Matches
<1>3. ASSUME NEW c \in Callers, HandshakeDone(c) PROVE AnswerInv'
  <2>1. UNCHANGED <<inbox, current, calls, value, reply, outcome, policy, rules>>
    BY <1>3 DEF HandshakeDone
  <2> QED
    BY <1>0, <2>1 DEF AnswerInv, Matches
<1>4. ASSUME NEW c \in Callers, HandshakeFailed(c) PROVE AnswerInv'
  <2>1. UNCHANGED <<inbox, current, calls, value, reply, policy, rules>>
    BY <1>4 DEF HandshakeFailed
  <2>2. calls # 0 => calls \in Calls
    BY DEF TypeOK, None
  <2>3. calls # 0 /\ outcome'[calls] = "ok" => outcome[calls] = "ok"
    BY <1>4, <2>2 DEF HandshakeFailed
  <2> QED
    BY <1>0, <2>1, <2>3 DEF AnswerInv, Matches
<1>5. ASSUME NEW c \in Callers, Send(c) PROVE AnswerInv'
  <2>1. calls' = calls + 1 /\ calls + 1 \in Calls /\ calls \in Nat
    BY <1>5, RoomToSend DEF Send, Inside
  <2>2. UNCHANGED <<reply, outcome>>
    BY <1>5 DEF Send
  <2>3. reply'[calls'] = "none" /\ outcome'[calls'] = "none"
    BY <2>1, <2>2 DEF LineInv
  <2> QED
    BY <2>3 DEF AnswerInv
<1>6. ASSUME NEW c \in Callers, SendThrows(c) PROVE AnswerInv'
  <2>1. UNCHANGED <<inbox, current, calls, value, reply, outcome, policy, rules>>
    BY <1>6 DEF SendThrows
  <2> QED
    BY <1>0, <2>1 DEF AnswerInv, Matches
<1>7. ASSUME NEW c \in Callers, OnReply(c) PROVE AnswerInv'
  <2>1. UNCHANGED <<inbox, current, calls, value, policy, rules>>
    BY <1>7 DEF OnReply
  <2>2. calls # 0 => calls \in Calls
    BY DEF TypeOK, None
  <2>3. calls # 0 /\ "ok" \in {reply'[calls], outcome'[calls]} => "ok" \in {reply[calls], outcome[calls]}
    BY <1>7, <2>2 DEF OnReply, TypeOK
  <2> QED
    BY <1>0, <2>1, <2>3 DEF AnswerInv, Matches
<1>8. ASSUME NEW c \in Callers, Timeout(c) PROVE AnswerInv'
  <2>1. UNCHANGED <<inbox, current, calls, value, policy, rules>>
    BY <1>8 DEF Timeout
  <2>2. calls # 0 => calls \in Calls
    BY DEF TypeOK, None
  <2>3. calls # 0 /\ "ok" \in {reply'[calls], outcome'[calls]} => "ok" \in {reply[calls], outcome[calls]}
    BY <1>8, <2>2 DEF Timeout, TypeOK
  <2> QED
    BY <1>0, <2>1, <2>3 DEF AnswerInv, Matches
<1>9. ASSUME NEW w \in Workers, OpenPipe(w) PROVE AnswerInv'
  <2>1. UNCHANGED <<inbox, current, calls, value, reply, outcome, policy, rules>>
    BY <1>9 DEF OpenPipe
  <2> QED
    BY <1>0, <2>1 DEF AnswerInv, Matches
<1>10. ASSUME NEW w \in Workers, Write(w) PROVE AnswerInv'
  <2>1. UNCHANGED <<calls, reply, outcome>> /\ inbox[w] # <<>>
    BY <1>10 DEF Write
  <2> QED
    BY <1>0, <2>1 DEF AnswerInv
<1>11. ASSUME NEW w \in Workers, WriteFails(w) PROVE AnswerInv'
  <2>1. UNCHANGED <<current, calls, value, outcome, policy, rules>> /\ inbox[w] # <<>>
    BY <1>11 DEF WriteFails
  <2>2. calls # 0 => calls \in Calls
    BY DEF TypeOK, None
  <2>3. calls # 0 /\ reply'[calls] = "ok" => reply[calls] = "ok"
    BY <1>11, <2>2 DEF WriteFails, TypeOK
  <2> QED
    BY <1>0, <2>1, <2>3 DEF AnswerInv
<1>12. ASSUME NEW w \in Workers, Read(w) PROVE AnswerInv'
  <2>1. UNCHANGED <<inbox, calls, value, outcome, policy, rules>> /\ current[w] # None
    BY <1>12 DEF Read
  <2>2. calls # 0 => calls \in Calls
    BY DEF TypeOK, None
  <2>3. ~(calls # 0 /\ "ok" \in {reply[calls], outcome[calls]})
    BY <1>0, <2>1 DEF AnswerInv
  <2>4. CASE current[w] = calls /\ served[w] = "ok"
    <3>1. inbox[w] = <<>> /\ Matches(value[calls])
      BY <1>0, <2>1, <2>4 DEF LineInv, PointInv
    <3>2. \A v \in Workers : v # w => current[v] = None /\ inbox[v] = <<>>
      BY <1>0, <2>1, OneWorks
    <3>3. \A v \in Workers : current'[v] = None /\ inbox'[v] = <<>>
      BY <1>12, <2>1, <3>1, <3>2 DEF Read, TypeOK
    <3> QED
      BY <2>1, <3>1, <3>3 DEF AnswerInv, Matches
  <2>5. CASE ~(current[w] = calls /\ served[w] = "ok")
    <3>1. calls # 0 => reply'[calls] # "ok"
      BY <1>12, <2>2, <2>3, <2>5 DEF Read, TypeOK
    <3> QED
      BY <2>1, <2>3, <3>1 DEF AnswerInv
  <2> QED
    BY <2>4, <2>5
<1>13. ASSUME NEW w \in Workers, enableKillSwitch(w) PROVE AnswerInv'
  <2>1. UNCHANGED <<calls, reply, outcome>> /\ current[w] # None
    BY <1>13, EnableIs DEF EnableSteps, PipeInv
  <2> QED
    BY <1>0, <2>1 DEF AnswerInv
<1>14. ASSUME NEW w \in Workers, disableKillSwitch(w) PROVE AnswerInv'
  <2>1. UNCHANGED <<calls, reply, outcome>> /\ current[w] # None
    BY <1>14, DisableIs DEF DisableSteps, PipeInv
  <2> QED
    BY <1>0, <2>1 DEF AnswerInv
<1>15. ASSUME StopService PROVE AnswerInv'
  <2>1. UNCHANGED <<inbox, current, calls, value, reply, outcome, policy, rules>>
    BY <1>15 DEF StopService
  <2> QED
    BY <1>0, <2>1 DEF AnswerInv, Matches
<1>16. ASSUME StartService PROVE AnswerInv'
  <2>1. UNCHANGED <<inbox, current, calls, value, reply, outcome, policy, rules>>
    BY <1>16 DEF StartService
  <2> QED
    BY <1>0, <2>1 DEF AnswerInv, Matches
<1>17. CASE UNCHANGED vars
  BY <1>17, <1>0 DEF vars, AnswerInv, Matches
<1> QED
  BY <1>1, <1>2, <1>3, <1>4, <1>5, <1>6, <1>7, <1>8, <1>9, <1>10,
     <1>11, <1>12, <1>13, <1>14, <1>15, <1>16, <1>17
  DEF Next, CallerStep, WorkerStep, ServiceStep

-----------------------------------------------------------------------------
(* The theorems.                                                           *)

LEMMA InitKeeps == Init => IInv
<1> SUFFICES ASSUME Init PROVE IInv
  OBVIOUS
<1>1. TypeOK
  <2>1. <<>> \in Seq(Calls)
    OBVIOUS
  <2>2. inbox \in [Workers -> Seq(Calls)]
    BY <2>1 DEF Init
  <2>3. {commands, latest, workers} \subseteq Workers \cup {None} /\ calls \in Calls \cup {None}
    BY DEF Init, None
  <2> QED
    BY <2>2, <2>3 DEF Init, TypeOK
<1>2. Inside = {}
  BY DEF Init, Inside
<1>3. Cardinality(Inside) = 0
  BY <1>2, FS_EmptySet
<1>4. CallerInv
  BY <1>3, Bounds DEF Init, CallerInv, None
<1>5. PipeInv
  BY DEF Init, PipeInv
<1>6. \A w \in Workers : Len(inbox[w]) = 0 /\ inbox[w] = <<>>
  BY DEF Init
<1>7. LineInv
  BY <1>6 DEF Init, LineInv, None
<1>8. PointInv /\ AnswerInv
  BY DEF Init, PointInv, AnswerInv, EnableSteps, DisableSteps
<1> QED
  BY <1>1, <1>4, <1>5, <1>7, <1>8 DEF IInv

\* Whatever times out, dies or is torn down, the requests keep to their numbers, the
\* workers to their pipes, and the firewall to the one goroutine that may edit it.
THEOREM Invariance == Spec => []IInv
<1>1. IInv /\ [Next]_vars => IInv'
  <2> SUFFICES ASSUME IInv, [Next]_vars PROVE IInv'
    OBVIOUS
  <2>1. TypeOK /\ CallerInv /\ PipeInv /\ LineInv /\ PointInv /\ AnswerInv
    BY DEF IInv
  <2>2. TypeOK' /\ CallerInv' /\ PipeInv' /\ LineInv'
    BY <2>1, TypeStep, CallerKept, PipeKept, LineKept
  <2>3. PointInv' /\ AnswerInv'
    <3>1. CASE Single'
      BY <2>1, <3>1, PointKept, AnswerKept
    <3>2. CASE ~Single'
      BY <3>2 DEF PointInv, AnswerInv
    <3> QED
      BY <3>1, <3>2
  <2> QED
    BY <2>2, <2>3 DEF IInv
<1> QED
  BY InitKeeps, <1>1, PTL DEF Spec

\* Every variable keeps its type, however many callers share the client; in particular
\* nobody inside connect() runs out of request numbers.
THEOREM Types == Spec => []TypeOK
<1>1. IInv => TypeOK
  BY DEF IInv
<1> QED
  BY Invariance, <1>1, PTL

\* An "ok" to the latest request is true of the firewall, unless overlapping
\* connect() calls have opened a second pipe.
THEOREM AnswerHolds == Spec => []LastAnswerIsTrue
<1>1. IInv => LastAnswerIsTrue
  <2> SUFFICES ASSUME IInv, OnePipe, calls # 0, outcome[calls] = "ok"
               PROVE  Matches(value[calls])
    BY DEF LastAnswerIsTrue, Matches
  <2>1. Single
    BY DEF OnePipe, Single, Opened
  <2> QED
    BY <2>1 DEF IInv, AnswerInv
<1> QED
  BY Invariance, <1>1, PTL
=============================================================================

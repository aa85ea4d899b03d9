------------------------------ MODULE Service -------------------------------
(***************************************************************************)
(* The helper process on Windows: main and the service control handler,    *)
(* the accept loop over named pipe instances, the goroutine that serves    *)
(* each verified client, and the route table its commands edit.            *)
(*                                                                         *)
(* What a goroutine does under s.mu is one step.  Handle values are reused *)
(* once closed.  The firewall commands are in Helper, the token in Trust.  *)
(***************************************************************************)
EXTENDS Naturals

CONSTANTS
    Clients,     \* processes that open the pipe
    Gui,         \* those of them whose image is the installed GUI
    NoClient,    \* no process
    Handles,     \* handle values, none of which is 0
    Cidrs,       \* CIDR arguments, <<address, prefix length>>
    Bits,        \* width of an address
    MaxStarts,   \* bound: times the process is started
    Faults       \* subset of {"start", "create", "wait", "query", "tool", "crash"}

ASSUME ClientsAssumption == Gui \subseteq Clients /\ NoClient \notin Clients
ASSUME HandlesAssumption == 0 \notin Handles
ASSUME StartsAssumption == MaxStarts \in Nat
ASSUME AddressAssumption == Bits \in Nat /\ Cidrs \subseteq (0 .. 2^Bits - 1) \X (0 .. Bits)
\* Arithmetic, true of every Bits, which the provers take from here.
ASSUME PowersAssumption == \A k \in 0 .. Bits : 2^k \in Nat \ {0}
ASSUME FaultsAssumption == Faults \subseteq {"start", "create", "wait", "query", "tool", "crash"}

VARIABLES
    scm, starts,           \* state of the process, times it was started
    loop, h, first, pid,   \* acceptLoop: where it is, its locals h, first and pid
    cur, stopped,          \* the server's fields
    closing,               \* stop(): its local h
    instance, peer,        \* each handle: the pipe instance behind it, the client on it
    handler,               \* each handle: the goroutine that serves it
    waiting,               \* clients that wrote a line and have no answer to it
    conn,                  \* each client: the instance it opened, 0 for none
    routes, asked          \* the route table; routes added and not removed since

procVars == <<scm, starts>>
loopVars == <<loop, h, first, pid>>
serverVars == <<cur, stopped, closing>>
pipeVars == <<instance, peer, handler>>
clientVars == <<waiting, conn>>
routeVars == <<routes, asked>>
vars == <<procVars, loopVars, serverVars, pipeVars, clientVars, routeVars>>

None == 0
Commands == [method : {"addRoute", "removeRoute"}, cidr : Cidrs]
Lines == Commands \cup [method : {"ping", "killSwitch", "unknown", "unauthorized", "garbage"}]

\* Mutant: the mask is rounded up.
NetworkUp(c) == c[1] - (c[1] % 2^(Bits - c[2])) + 2^(Bits - c[2])

\* The network address of a CIDR, what net.ParseCIDR leaves of the address.
Network(c) == c[1] - (c[1] % 2^(Bits - c[2]))
Route(c) == <<Network(c), c[2]>>
Routes == (0 .. 2^Bits - 1) \X (0 .. Bits)

\* Everything but the route table.
PipeTypeOK ==
    /\ scm \in {"stopped", "startPending", "running", "stopPending", "returned"}
    /\ starts \in 0 .. MaxStarts
    /\ loop \in {"none", "create", "publish", "park", "woken", "failed", "verify", "ended"}
    /\ {h, cur, closing} \subseteq Handles \cup {None}
    /\ {first, stopped} \subseteq BOOLEAN /\ pid \in Clients \cup {NoClient}
    /\ instance \in [Handles -> {"free", "listening", "connected", "broken"}]
    /\ peer \in [Handles -> Clients \cup {NoClient}]
    /\ handler \in [Handles -> {"none", "reading", "ok", "error"}]
    /\ waiting \subseteq Clients
    /\ conn \in [Clients -> Handles \cup {None}]

TypeOK == PipeTypeOK /\ routes \subseteq Routes /\ asked \subseteq Routes

Init ==
    /\ scm = "stopped" /\ starts = 0
    /\ loop = "none" /\ h = None /\ first = TRUE /\ pid = NoClient
    /\ cur = None /\ stopped = FALSE /\ closing = None
    /\ instance = [i \in Handles |-> "free"]
    /\ peer = [i \in Handles |-> NoClient]
    /\ handler = [i \in Handles |-> "none"]
    /\ waiting = {}
    /\ conn = [c \in Clients |-> None]
    /\ routes = {} /\ asked = {}

-----------------------------------------------------------------------------
(* The pipe, as the code uses it.                                          *)

\* The client on handle i, if any, sees its end break.
Drop(i) ==
    /\ waiting' = {c \in waiting : conn[c] # i}
    /\ conn' = [c \in Clients |-> IF conn[c] = i THEN None ELSE conn[c]]

\* CloseHandle(i), with or without DisconnectNamedPipe: closing a value that is
\* closed already fails, and every caller ignores the error.
CloseHandle(i) ==
    IF i = None \/ (i # None /\ instance[i] = "free")
    THEN UNCHANGED <<instance, peer, clientVars>>
    ELSE /\ instance' = [instance EXCEPT ![i] = "free"]
         /\ peer' = [peer EXCEPT ![i] = NoClient]
         /\ Drop(i)

-----------------------------------------------------------------------------
(* main, runService, runConsole and helper.Execute.                        *)

\* main: runService or runConsole; either one reaches server.start().
Main ==
    /\ scm = "stopped" /\ starts < MaxStarts
    /\ scm' = "startPending" /\ starts' = starts + 1
    /\ first' = TRUE /\ stopped' = FALSE
    /\ UNCHANGED <<loop, h, pid, cur, closing, pipeVars, clientVars, routeVars>>

\* server.start(): token loaded, loop spawned, "IPC listening" logged.
Start ==
    /\ scm = "startPending"
    /\ scm' = "running" /\ loop' = "create"
    /\ UNCHANGED <<starts, h, first, pid, serverVars, pipeVars, clientVars, routeVars>>

\* No token: Execute returns 1, runConsole is fatal.
StartFails ==
    /\ "start" \in Faults /\ scm = "startPending"
    /\ scm' = "stopped"
    /\ UNCHANGED <<starts, loopVars, serverVars, pipeVars, clientVars, routeVars>>

\* svc.Stop or svc.Shutdown, which a console never gets, up to the end of stop()'s critical section.
Stop ==
    /\ scm = "running"
    /\ scm' = "stopPending"
    /\ stopped' = TRUE /\ closing' = cur /\ cur' = None
    /\ UNCHANGED <<starts, loopVars, pipeVars, clientVars, routeVars>>

StopCloses ==
    /\ scm = "stopPending"
    /\ CloseHandle(closing)
    /\ scm' = "returned" /\ closing' = None
    /\ UNCHANGED <<starts, loopVars, cur, stopped, handler, routeVars>>

\* The process ends: after Execute has returned, or killed at any time.
Exit ==
    /\ scm = "returned" \/ ("crash" \in Faults /\ scm # "stopped")
    /\ scm' = "stopped"
    /\ loop' = "none" /\ h' = None /\ pid' = NoClient /\ cur' = None /\ closing' = None
    /\ instance' = [i \in Handles |-> "free"]
    /\ peer' = [i \in Handles |-> NoClient]
    /\ handler' = [i \in Handles |-> "none"]
    /\ waiting' = {}
    /\ conn' = [c \in Clients |-> None]
    /\ UNCHANGED <<starts, first, stopped, routeVars>>

-----------------------------------------------------------------------------
(* acceptLoop.                                                             *)

LoopTo(from, to) ==
    /\ loop = from
    /\ loop' = to
    /\ UNCHANGED <<procVars, routeVars>>

\* createPipeInstance; FILE_FLAG_FIRST_PIPE_INSTANCE fails beside another instance.
Create ==
    /\ LoopTo("create", "publish")
    /\ first => \A i \in Handles : instance[i] = "free"
    /\ \E i \in Handles :
        /\ instance[i] = "free" /\ handler[i] = "none"
        /\ h' = i
        /\ instance' = [instance EXCEPT ![i] = "listening"]
    /\ first' = FALSE
    /\ UNCHANGED <<pid, serverVars, peer, handler, clientVars>>

\* The loop returns and nobody hears of it: the service goes on as Running.
CreateFails ==
    /\ "create" \in Faults
    /\ LoopTo("create", "ended")
    /\ first' = FALSE
    /\ UNCHANGED <<h, pid, serverVars, pipeVars, clientVars>>

\* Mutant: stopped is not looked at again before parking.
PublishUnchecked ==
    /\ LoopTo("publish", "park")
    /\ cur' = h
    /\ UNCHANGED <<h, first, pid, stopped, closing, pipeVars, clientVars>>

Publish ==
    \/ /\ ~stopped
       /\ LoopTo("publish", "park")
       /\ cur' = h
       /\ UNCHANGED <<h, first, pid, stopped, closing, pipeVars, clientVars>>
    \/ /\ stopped
       /\ LoopTo("publish", "ended")
       /\ CloseHandle(h)
       /\ h' = None
       /\ UNCHANGED <<first, pid, serverVars, handler>>

\* ConnectNamedPipe returns once a client is there, also if it came before the
\* call, or once stop() has closed the handle; then the client's process id.
waitForClient ==
    /\ loop = "park" /\ instance[h] # "listening"
    /\ \/ /\ instance[h] = "connected"
          /\ LoopTo("park", "woken")
          /\ pid' = peer[h]
       \/ /\ instance[h] # "connected" \/ "wait" \in Faults
          /\ LoopTo("park", "failed")
          /\ UNCHANGED pid
    /\ UNCHANGED <<h, first, serverVars, pipeVars, clientVars>>

\* Mutant: what is parked on stays published while the client is verified.
WokenKeeps ==
    /\ loop \in {"woken", "failed"}
    /\ \/ /\ stopped \/ loop = "failed"
          /\ LoopTo(loop, IF stopped THEN "ended" ELSE "create")
          /\ CloseHandle(h)
          /\ h' = None /\ pid' = NoClient
       \/ /\ ~stopped /\ loop = "woken"
          /\ LoopTo("woken", "verify")
          /\ UNCHANGED <<h, pid, instance, peer, clientVars>>
    /\ UNCHANGED <<first, cur, stopped, closing, handler>>

\* Back from waitForClient: the critical section, then what it read decides.
\* stop() may have closed h in the meantime; it is closed again.
Woken ==
    /\ loop \in {"woken", "failed"}
    /\ cur' = None
    /\ \/ /\ stopped \/ loop = "failed"
          /\ LoopTo(loop, IF stopped THEN "ended" ELSE "create")
          /\ CloseHandle(h)
          /\ h' = None /\ pid' = NoClient
       \/ /\ ~stopped /\ loop = "woken"
          /\ LoopTo("woken", "verify")
          /\ UNCHANGED <<h, pid, instance, peer, clientVars>>
    /\ UNCHANGED <<first, stopped, closing, handler>>

\* Mutant: any process whose image can be read will do.
verifyClientAny(p) == {p # NoClient} \cup (IF "query" \in Faults THEN {FALSE} ELSE {})

\* verifyClient: the image of process p is the installed GUI.  The process may be
\* gone, and so may the answer.
verifyClient(p) == {p \in Gui} \cup (IF "query" \in Faults THEN {FALSE} ELSE {})

\* Mutant: the instance of a rejected client is not closed.
VerifyLeaks ==
    /\ LoopTo("verify", "create")
    /\ handler' = IF pid \in Gui THEN [handler EXCEPT ![h] = "reading"] ELSE handler
    /\ h' = None /\ pid' = NoClient
    /\ UNCHANGED <<first, serverVars, instance, peer, clientVars>>

Verify ==
    /\ LoopTo("verify", "create")
    /\ \/ /\ TRUE \in verifyClient(pid)
          /\ handler' = [handler EXCEPT ![h] = "reading"]
          /\ UNCHANGED <<instance, peer, clientVars>>
       \/ /\ FALSE \in verifyClient(pid)
          /\ CloseHandle(h)
          /\ UNCHANGED handler
    /\ h' = None /\ pid' = NoClient
    /\ UNCHANGED <<first, serverVars>>

-----------------------------------------------------------------------------
(* handle, dispatch, addRoute, removeRoute.                                *)

\* Mutant: the address goes to route.exe as it came.
addRouteUnmasked(c) == routes' = routes \cup {c} /\ asked' = asked \cup {Route(c)}

\* parseIPv4CIDR drops the host bits.
addRoute(c) == routes' = routes \cup {Route(c)} /\ asked' = asked \cup {Route(c)}

\* route DELETE is given the network address and no mask: it deletes every route
\* to that address.
removeRoute(c) ==
    /\ routes' = {r \in routes : r[1] # Network(c)}
    /\ asked' = asked \ {Route(c)}

\* What dispatch answers, and what it does on the way.
dispatch(line, answer) ==
    \/ /\ line.method \in {"ping", "killSwitch"} /\ answer = "ok"
       /\ UNCHANGED routeVars
    \/ /\ line.method \in {"unknown", "unauthorized"} /\ answer = "error"
       /\ UNCHANGED routeVars
    \/ line.method = "addRoute" /\ answer = "ok" /\ addRoute(line.cidr)
    \/ line.method = "removeRoute" /\ answer = "ok" /\ removeRoute(line.cidr)
    \/ /\ line.method \in {"addRoute", "removeRoute", "killSwitch"} /\ "tool" \in Faults
       /\ answer = "error"
       /\ UNCHANGED routeVars

\* One line read and worked on.  A line that is not JSON is answered here.
Handle(i) ==
    /\ handler[i] = "reading" /\ instance[i] = "connected"
    /\ peer[i] \in waiting
    /\ \E line \in Lines, answer \in {"ok", "error"} :
        /\ \/ line.method # "garbage" /\ dispatch(line, answer)
           \/ line.method = "garbage" /\ answer = "error" /\ UNCHANGED routeVars
        /\ handler' = [handler EXCEPT ![i] = answer]
    /\ UNCHANGED <<procVars, loopVars, serverVars, instance, peer, clientVars>>

\* Mutant: a command that failed is not answered.
writeRespOk(i) ==
    /\ handler[i] = "ok"
    /\ handler' = [handler EXCEPT ![i] = "reading"]
    /\ waiting' = {c \in waiting : conn[c] # i}
    /\ UNCHANGED <<procVars, loopVars, serverVars, instance, peer, conn, routeVars>>

\* An answer nobody can read any more is lost, without an error.
writeResp(i) ==
    /\ handler[i] \in {"ok", "error"}
    /\ handler' = [handler EXCEPT ![i] = "reading"]
    /\ waiting' = {c \in waiting : conn[c] # i}
    /\ UNCHANGED <<procVars, loopVars, serverVars, instance, peer, conn, routeVars>>

\* The peer has closed its end: ReadBytes fails, the deferred Close runs.
HandleEnds(i) ==
    /\ handler[i] = "reading" /\ instance[i] = "broken"
    /\ handler' = [handler EXCEPT ![i] = "none"]
    /\ CloseHandle(i)
    /\ UNCHANGED <<procVars, loopVars, serverVars, routeVars>>

-----------------------------------------------------------------------------
(* The clients.                                                            *)

Open(c) ==
    /\ conn[c] = None
    /\ \E i \in Handles :
        /\ instance[i] = "listening"
        /\ instance' = [instance EXCEPT ![i] = "connected"]
        /\ peer' = [peer EXCEPT ![i] = c]
        /\ conn' = [conn EXCEPT ![c] = i]
    /\ UNCHANGED <<procVars, loopVars, serverVars, handler, waiting, routeVars>>

\* A client writes its next line when it has the answer to the last one; what the
\* line says is decided where it is read.
Request(c) ==
    /\ conn[c] # None /\ c \notin waiting
    /\ waiting' = waiting \cup {c}
    /\ UNCHANGED <<procVars, loopVars, serverVars, pipeVars, conn, routeVars>>

Leave(c) ==
    /\ conn[c] # None
    /\ instance' = [instance EXCEPT ![conn[c]] = "broken"]
    /\ peer' = [peer EXCEPT ![conn[c]] = NoClient]
    /\ conn' = [conn EXCEPT ![c] = None]
    /\ waiting' = waiting \ {c}
    /\ UNCHANGED <<procVars, loopVars, serverVars, handler, routeVars>>

-----------------------------------------------------------------------------

Control == Main \/ Start \/ StartFails \/ Stop \/ StopCloses \/ Exit

acceptLoop == Create \/ CreateFails \/ Publish \/ waitForClient \/ Woken \/ Verify

HandlerStep(i) == Handle(i) \/ writeResp(i) \/ HandleEnds(i)

Client(c) == Open(c) \/ Request(c) \/ Leave(c)

Next ==
    \/ Control \/ acceptLoop
    \/ \E i \in Handles : HandlerStep(i)
    \/ \E c \in Clients : Client(c)

Spec == Init /\ [][Next]_vars

\* The Go scheduler runs every goroutine that can run, and netsh and route.exe
\* come back.  Nothing is assumed of the clients, nor of the end of the process,
\* which may linger after Execute has returned.
FairSpec ==
    /\ Spec
    /\ WF_vars(StopCloses) /\ WF_vars(acceptLoop)
    /\ \A i \in Handles : WF_vars(HandlerStep(i))

-----------------------------------------------------------------------------
(* Properties.                                                             *)

\* No instance leaks and none is shared, although handle values are reused:
\* every open instance is either the loop's or a handler's to close, and one of
\* them holds a closed value only while the server is being stopped (ipc.go, stop
\* and acceptLoop close the same handle).
OneOwner ==
    \A i \in Handles :
        /\ instance[i] # "free" => (h = i <=> handler[i] = "none")
        /\ (h = i \/ handler[i] # "none") /\ ~stopped => instance[i] # "free"

\* What stop() would close is the instance the loop is parked on, or nothing: it
\* never takes an instance away from a client that is being served.
StopTakesOnlyParked ==
    \A i \in {cur, closing} \ {None} : handler[i] = "none" /\ (instance[i] # "free" => h = i)

\* A served client is the installed GUI, whatever became of the handle values.
ServedIsVerified ==
    \A i \in Handles : handler[i] # "none" /\ instance[i] = "connected" => peer[i] \in Gui

\* A route added and not removed since is in the table, host bits or not, unless
\* the same network address is also used with another prefix length: deleting by
\* address alone takes those together (routing.go, removeRoute).
RoutesFollow ==
    \A r \in asked : r \in routes \/ \E c \in Cidrs : Network(c) = r[1] /\ c[2] # r[2]

\* A stopped server's loop ends, wherever it was when stop() came.
StopEndsLoop == stopped /\ scm = "stopPending" ~> loop \in {"ended", "none"}

\* A client that wrote a line gets an answer or loses its pipe: the service never
\* leaves it waiting, verified or not, before and during a stop.
LineIsAnswered == \A c \in Clients : c \in waiting ~> c \notin waiting
=============================================================================

--------------------------- MODULE ServiceProofs ---------------------------
(***************************************************************************)
(* Proofs about Service, for any clients, any supply of handle values, any *)
(* number of restarts and any faults.                                      *)
(***************************************************************************)
EXTENDS Service, TLAPS

\* Where the loop has published the instance it holds, or is about to forget it.
Parked == {"park", "woken", "failed"}

\* The server's flag and the state of the process go together.
ControlInv ==
    /\ scm \in {"stopped", "startPending"} => loop = "none"
    /\ stopped => scm \notin {"startPending", "running"} /\ cur = None
    /\ closing # None => stopped /\ scm = "stopPending"

\* The loop owns h from the creation of the instance to its hand-over; cur and
\* stop()'s local are h or nothing, unless the loop has closed it first.
LoopInv ==
    /\ h = None <=> loop \in {"none", "create", "ended"}
    /\ cur # None => cur = h /\ loop \in Parked
    /\ closing # None =>
        /\ handler[closing] = "none"
        /\ \/ h = closing /\ loop \in Parked
           \/ loop = "ended" /\ instance[closing] = "free"

\* A handler's instance is not the loop's, every open one has an owner, and the
\* loop holds a closed value only once stop() has run, and drops it on waking.
HandleInv ==
    \A i \in Handles :
        /\ handler[i] # "none" => h # i /\ instance[i] \in {"connected", "broken"}
        /\ instance[i] # "free" => h = i \/ handler[i] # "none"
        /\ h = i /\ instance[i] = "free" => stopped /\ loop \in Parked

\* Both ends of a connected instance agree on it.
ClientInv ==
    \A c \in Clients : conn[c] # None => instance[conn[c]] = "connected" /\ peer[conn[c]] = c

\* The process id the loop read is that of the client still on the instance, and
\* one that is served was verified.
ServeInv ==
    /\ loop \in {"woken", "verify"} =>
        instance[h] # "listening" /\ (instance[h] = "connected" => peer[h] = pid)
    /\ ServedIsVerified

IInv == PipeTypeOK /\ ControlInv /\ LoopInv /\ HandleInv /\ ClientInv /\ ServeInv

-----------------------------------------------------------------------------

\* What CloseHandle comes to, whether or not the value was closed already.
LEMMA Closed ==
    ASSUME PipeTypeOK, ClientInv, NEW i \in Handles \cup {None}, CloseHandle(i)
    PROVE  /\ instance' = [j \in Handles |-> IF j = i THEN "free" ELSE instance[j]]
           /\ peer' \in [Handles -> Clients \cup {NoClient}]
           /\ \A j \in Handles \ {i} : peer'[j] = peer[j]
           /\ conn' = [c \in Clients |-> IF conn[c] = i THEN None ELSE conn[c]]
           /\ waiting' \subseteq waiting
<1> USE DEF PipeTypeOK
<1>1. CASE i = None \/ (i # None /\ instance[i] = "free")
  <2>1. instance' = instance /\ peer' = peer /\ conn' = conn /\ waiting' = waiting
    BY <1>1 DEF CloseHandle, clientVars
  <2>2. \A c \in Clients : conn[c] = i => conn[c] = None
    BY <1>1 DEF ClientInv
  <2>3. \A j \in Handles : j = i => instance[j] = "free"
    BY <1>1, HandlesAssumption DEF None
  <2> QED
    BY <2>1, <2>2, <2>3
<1>2. CASE i # None /\ instance[i] # "free"
  BY <1>2, ClientsAssumption DEF CloseHandle, Drop
<1> QED
  BY <1>1, <1>2

\* Counting one more start within the bound stays within it.
LEMMA NextStart ==
    ASSUME NEW n \in 0 .. MaxStarts, n < MaxStarts PROVE n + 1 \in 0 .. MaxStarts
BY StartsAssumption

\* Every action keeps the variables in their types.
LEMMA TypeStep == PipeTypeOK /\ LoopInv /\ ClientInv /\ [Next]_vars => PipeTypeOK'
<1> SUFFICES ASSUME PipeTypeOK, LoopInv, ClientInv, [Next]_vars PROVE PipeTypeOK'
  OBVIOUS
<1> USE DEF PipeTypeOK, procVars, loopVars, serverVars, pipeVars, clientVars, LoopTo
<1>1. CASE Main
  <2>1. starts + 1 \in 0 .. MaxStarts
    BY <1>1, NextStart DEF Main
  <2> QED
    BY <1>1, <2>1 DEF Main
<1>2. CASE Start
  BY <1>2 DEF Start
<1>3. CASE StartFails
  BY <1>3 DEF StartFails
<1>4. CASE Stop
  BY <1>4 DEF Stop
<1>5. CASE StopCloses
  BY <1>5, Closed DEF StopCloses
<1>6. CASE Exit
  BY <1>6 DEF Exit
<1>7. CASE Create
  BY <1>7 DEF Create
<1>8. CASE CreateFails
  BY <1>8 DEF CreateFails
<1>9. CASE Publish
  BY <1>9, Closed DEF Publish
<1>10. CASE waitForClient
  <2>1. h \in Handles /\ loop' \in {"woken", "failed"}
    BY <1>10 DEF waitForClient, LoopInv
  <2>2. pid' \in Clients \cup {NoClient}
    BY <1>10, <2>1 DEF waitForClient
  <2> QED
    BY <1>10, <2>1, <2>2 DEF waitForClient
<1>11. CASE Woken
  BY <1>11, Closed DEF Woken
<1>12. CASE Verify
  <2>1. h \in Handles /\ handler' \in [Handles -> {"none", "reading", "ok", "error"}]
    BY <1>12 DEF Verify, LoopInv
  <2>2. CASE UNCHANGED <<instance, peer, clientVars>>
    BY <1>12, <2>1, <2>2 DEF Verify
  <2>3. CASE CloseHandle(h)
    BY <1>12, <2>1, <2>3, Closed DEF Verify
  <2> QED
    BY <1>12, <2>2, <2>3 DEF Verify
<1>13. ASSUME NEW i \in Handles, HandlerStep(i) PROVE PipeTypeOK'
  <2>1. CASE Handle(i)
    BY <2>1 DEF Handle
  <2>2. CASE writeResp(i)
    BY <2>2 DEF writeResp
  <2>3. CASE HandleEnds(i)
    BY <2>3, Closed DEF HandleEnds
  <2> QED
    BY <1>13, <2>1, <2>2, <2>3 DEF HandlerStep
<1>14. ASSUME NEW c \in Clients, Client(c) PROVE PipeTypeOK'
  <2>1. CASE Open(c)
    BY <2>1 DEF Open
  <2>2. CASE Request(c)
    BY <2>2 DEF Request
  <2>3. CASE Leave(c)
    BY <2>3 DEF Leave
  <2> QED
    BY <1>14, <2>1, <2>2, <2>3 DEF Client
<1>15. CASE UNCHANGED vars
  BY <1>15 DEF vars
<1> QED
  BY <1>1, <1>2, <1>3, <1>4, <1>5, <1>6, <1>7, <1>8, <1>9, <1>10, <1>11, <1>12, <1>13, <1>14, <1>15
  DEF Next, Control, acceptLoop

\* Every action keeps the strengthened invariant.
LEMMA InvStep == IInv /\ [Next]_vars => IInv'
<1> SUFFICES ASSUME IInv, [Next]_vars PROVE IInv'
  OBVIOUS
<1> USE HandlesAssumption, ClientsAssumption
    DEF procVars, loopVars, serverVars, pipeVars, clientVars, LoopTo, None, Parked
<1>0. PipeTypeOK /\ ControlInv /\ LoopInv /\ HandleInv /\ ClientInv /\ ServeInv
  BY DEF IInv
<1> USE <1>0 DEF PipeTypeOK, ControlInv, LoopInv, HandleInv, ClientInv, ServeInv, ServedIsVerified
<1>1. CASE Main
  <2>1. ControlInv'
    BY <1>1 DEF Main
  <2>2. LoopInv'
    BY <1>1 DEF Main
  <2>3. HandleInv'
    BY <1>1 DEF Main
  <2>4. ClientInv'
    BY <1>1 DEF Main
  <2>5. ServeInv'
    BY <1>1 DEF Main
  <2> QED
    BY TypeStep, <2>1, <2>2, <2>3, <2>4, <2>5 DEF IInv
<1>2. CASE Start
  <2>1. ControlInv'
    BY <1>2 DEF Start
  <2>2. LoopInv'
    BY <1>2 DEF Start
  <2>3. HandleInv'
    BY <1>2 DEF Start
  <2>4. ClientInv'
    BY <1>2 DEF Start
  <2>5. ServeInv'
    BY <1>2 DEF Start
  <2> QED
    BY TypeStep, <2>1, <2>2, <2>3, <2>4, <2>5 DEF IInv
<1>3. CASE StartFails
  <2>1. ControlInv'
    BY <1>3 DEF StartFails
  <2>2. LoopInv'
    BY <1>3 DEF StartFails
  <2>3. HandleInv'
    BY <1>3 DEF StartFails
  <2>4. ClientInv'
    BY <1>3 DEF StartFails
  <2>5. ServeInv'
    BY <1>3 DEF StartFails
  <2> QED
    BY TypeStep, <2>1, <2>2, <2>3, <2>4, <2>5 DEF IInv
<1>4. CASE Stop
  <2>1. ControlInv'
    BY <1>4 DEF Stop
  <2>2. LoopInv'
    BY <1>4 DEF Stop
  <2>3. HandleInv'
    BY <1>4 DEF Stop
  <2>4. ClientInv'
    BY <1>4 DEF Stop
  <2>5. ServeInv'
    BY <1>4 DEF Stop
  <2> QED
    BY TypeStep, <2>1, <2>2, <2>3, <2>4, <2>5 DEF IInv
<1>5. CASE StopCloses
  <2>1. ControlInv'
    BY <1>5, Closed DEF StopCloses
  <2>2. LoopInv'
    BY <1>5, Closed DEF StopCloses
  <2>3. HandleInv'
    BY <1>5, Closed DEF StopCloses
  <2>4. ClientInv'
    BY <1>5, Closed DEF StopCloses
  <2>5. ServeInv'
    BY <1>5, Closed DEF StopCloses
  <2> QED
    BY TypeStep, <2>1, <2>2, <2>3, <2>4, <2>5 DEF IInv
<1>6. CASE Exit
  <2>1. ControlInv'
    BY <1>6 DEF Exit
  <2>2. LoopInv'
    BY <1>6 DEF Exit
  <2>3. HandleInv'
    BY <1>6 DEF Exit
  <2>4. ClientInv'
    BY <1>6 DEF Exit
  <2>5. ServeInv'
    BY <1>6 DEF Exit
  <2> QED
    BY TypeStep, <2>1, <2>2, <2>3, <2>4, <2>5 DEF IInv
<1>7. CASE Create
  <2>1. ControlInv'
    BY <1>7 DEF Create
  <2>2. LoopInv'
    BY <1>7 DEF Create
  <2>3. HandleInv'
    BY <1>7 DEF Create
  <2>4. ClientInv'
    BY <1>7 DEF Create
  <2>5. ServeInv'
    BY <1>7 DEF Create
  <2> QED
    BY TypeStep, <2>1, <2>2, <2>3, <2>4, <2>5 DEF IInv
<1>8. CASE CreateFails
  <2>1. ControlInv'
    BY <1>8 DEF CreateFails
  <2>2. LoopInv'
    BY <1>8 DEF CreateFails
  <2>3. HandleInv'
    BY <1>8 DEF CreateFails
  <2>4. ClientInv'
    BY <1>8 DEF CreateFails
  <2>5. ServeInv'
    BY <1>8 DEF CreateFails
  <2> QED
    BY TypeStep, <2>1, <2>2, <2>3, <2>4, <2>5 DEF IInv
<1>9. CASE Publish
  <2>1. ControlInv'
    BY <1>9, Closed DEF Publish
  <2>2. LoopInv'
    BY <1>9, Closed DEF Publish
  <2>3. HandleInv'
    BY <1>9, Closed DEF Publish
  <2>4. ClientInv'
    BY <1>9, Closed DEF Publish
  <2>5. ServeInv'
    BY <1>9, Closed DEF Publish
  <2> QED
    BY TypeStep, <2>1, <2>2, <2>3, <2>4, <2>5 DEF IInv
<1>10. CASE waitForClient
  <2>1. ControlInv'
    BY <1>10 DEF waitForClient
  <2>2. LoopInv'
    BY <1>10 DEF waitForClient
  <2>3. HandleInv'
    BY <1>10 DEF waitForClient
  <2>4. ClientInv'
    BY <1>10 DEF waitForClient
  <2>5. ServeInv'
    BY <1>10 DEF waitForClient
  <2> QED
    BY TypeStep, <2>1, <2>2, <2>3, <2>4, <2>5 DEF IInv
<1>11. CASE Woken
  <2>1. ControlInv'
    BY <1>11, Closed DEF Woken
  <2>2. LoopInv'
    BY <1>11, Closed DEF Woken
  <2>3. HandleInv'
    BY <1>11, Closed DEF Woken
  <2>4. ClientInv'
    BY <1>11, Closed DEF Woken
  <2>5. ServeInv'
    BY <1>11, Closed DEF Woken
  <2> QED
    BY TypeStep, <2>1, <2>2, <2>3, <2>4, <2>5 DEF IInv
<1>12. CASE Verify
  <2>1. h \in Handles /\ instance[h] \in {"connected", "broken"} /\ handler[h] = "none" /\ closing = None
    BY <1>12 DEF Verify
  <2>2. CASE /\ TRUE \in verifyClient(pid)
             /\ handler' = [handler EXCEPT ![h] = "reading"]
             /\ UNCHANGED <<instance, peer, clientVars>>
    <3>1. pid \in Gui
      BY <2>2 DEF verifyClient
    <3>2. ControlInv' /\ LoopInv' /\ HandleInv'
      BY <1>12, <2>1, <2>2 DEF Verify
    <3>3. ClientInv'
      BY <2>2
    <3>4. ServeInv'
      BY <1>12, <2>1, <2>2, <3>1 DEF Verify
    <3> QED
      BY TypeStep, <3>2, <3>3, <3>4 DEF IInv
  <2>3. CASE CloseHandle(h) /\ UNCHANGED handler
    <3>1. ControlInv' /\ LoopInv' /\ HandleInv'
      BY <1>12, <2>1, <2>3, Closed DEF Verify
    <3>2. ClientInv'
      BY <2>1, <2>3, Closed
    <3>3. ServeInv'
      BY <1>12, <2>1, <2>3, Closed DEF Verify
    <3> QED
      BY TypeStep, <3>1, <3>2, <3>3 DEF IInv
  <2> QED
    BY <1>12, <2>2, <2>3 DEF Verify
<1>13. ASSUME NEW i \in Handles, HandlerStep(i) PROVE IInv'
  <2>1. CASE Handle(i)
    <3>1. ControlInv'
      BY <2>1 DEF Handle
    <3>2. LoopInv'
      BY <2>1 DEF Handle
    <3>3. HandleInv'
      BY <2>1 DEF Handle
    <3>4. ClientInv'
      BY <2>1 DEF Handle
    <3>5. ServeInv'
      BY <2>1 DEF Handle
    <3> QED
      BY TypeStep, <3>1, <3>2, <3>3, <3>4, <3>5 DEF IInv
  <2>2. CASE writeResp(i)
    <3>1. ControlInv'
      BY <2>2 DEF writeResp
    <3>2. LoopInv'
      BY <2>2 DEF writeResp
    <3>3. HandleInv'
      BY <2>2 DEF writeResp
    <3>4. ClientInv'
      BY <2>2 DEF writeResp
    <3>5. ServeInv'
      BY <2>2 DEF writeResp
    <3> QED
      BY TypeStep, <3>1, <3>2, <3>3, <3>4, <3>5 DEF IInv
  <2>3. CASE HandleEnds(i)
    <3>1. ControlInv'
      BY <2>3, Closed DEF HandleEnds
    <3>2. LoopInv'
      BY <2>3, Closed DEF HandleEnds
    <3>3. HandleInv'
      BY <2>3, Closed DEF HandleEnds
    <3>4. ClientInv'
      BY <2>3, Closed DEF HandleEnds
    <3>5. ServeInv'
      BY <2>3, Closed DEF HandleEnds
    <3> QED
      BY TypeStep, <3>1, <3>2, <3>3, <3>4, <3>5 DEF IInv
  <2> QED
    BY <1>13, <2>1, <2>2, <2>3 DEF HandlerStep
<1>14. ASSUME NEW c \in Clients, Client(c) PROVE IInv'
  <2>1. CASE Open(c)
    <3>1. ControlInv'
      BY <2>1 DEF Open
    <3>2. LoopInv'
      BY <2>1 DEF Open
    <3>3. HandleInv'
      BY <2>1 DEF Open
    <3>4. ClientInv'
      BY <2>1 DEF Open
    <3>5. ServeInv'
      BY <2>1 DEF Open
    <3> QED
      BY TypeStep, <3>1, <3>2, <3>3, <3>4, <3>5 DEF IInv
  <2>2. CASE Request(c)
    <3>1. ControlInv'
      BY <2>2 DEF Request
    <3>2. LoopInv'
      BY <2>2 DEF Request
    <3>3. HandleInv'
      BY <2>2 DEF Request
    <3>4. ClientInv'
      BY <2>2 DEF Request
    <3>5. ServeInv'
      BY <2>2 DEF Request
    <3> QED
      BY TypeStep, <3>1, <3>2, <3>3, <3>4, <3>5 DEF IInv
  <2>3. CASE Leave(c)
    <3>1. ControlInv'
      BY <2>3 DEF Leave
    <3>2. LoopInv'
      BY <2>3 DEF Leave
    <3>3. HandleInv'
      BY <2>3 DEF Leave
    <3>4. ClientInv'
      BY <2>3 DEF Leave
    <3>5. ServeInv'
      BY <2>3 DEF Leave
    <3> QED
      BY TypeStep, <3>1, <3>2, <3>3, <3>4, <3>5 DEF IInv
  <2> QED
    BY <1>14, <2>1, <2>2, <2>3 DEF Client
<1>15. CASE UNCHANGED vars
  BY <1>15 DEF vars, IInv
<1> QED
  BY <1>1, <1>2, <1>3, <1>4, <1>5, <1>6, <1>7, <1>8, <1>9, <1>10, <1>11, <1>12, <1>13, <1>14, <1>15
  DEF Next, Control, acceptLoop

\* The start of the specification satisfies the strengthened invariant.
LEMMA InvInit == Init => IInv
<1> SUFFICES ASSUME Init PROVE IInv
  OBVIOUS
<1>1. PipeTypeOK
  <2>1. 0 \in 0 .. MaxStarts
    BY StartsAssumption
  <2> QED
    BY <2>1 DEF Init, PipeTypeOK
<1> QED
  BY <1>1, HandlesAssumption
  DEF Init, IInv, ControlInv, LoopInv, HandleInv, ClientInv, ServeInv, ServedIsVerified, None, Parked

-----------------------------------------------------------------------------

\* The strengthened invariant holds in every reachable state of the helper.
THEOREM Invariance == Spec => []IInv
<1>1. Init => IInv
  BY InvInit
<1>2. IInv /\ [Next]_vars => IInv'
  BY InvStep
<1> QED
  BY <1>1, <1>2, PTL DEF Spec

\* Every open instance of the pipe has one owner, the accept loop or a handler,
\* and a closed value is held only while the server is being stopped.
THEOREM Owners == Spec => []OneOwner
<1>1. IInv => OneOwner
  <2> SUFFICES ASSUME IInv, NEW i \in Handles
               PROVE  /\ instance[i] # "free" => (h = i <=> handler[i] = "none")
                      /\ (h = i \/ handler[i] # "none") /\ ~stopped => instance[i] # "free"
    BY DEF OneOwner
  <2> QED
    BY DEF IInv, HandleInv
<1> QED
  BY <1>1, Invariance, PTL

\* stop() closes the instance the loop is parked on and no other, however the
\* loop, the handlers and the clients move between its two halves.
THEOREM StopIsPrecise == Spec => []StopTakesOnlyParked
<1>1. IInv => StopTakesOnlyParked
  <2> SUFFICES ASSUME IInv, NEW i \in {cur, closing} \ {None}
               PROVE  handler[i] = "none" /\ (instance[i] # "free" => h = i)
    BY DEF StopTakesOnlyParked
  <2>1. i \in Handles
    BY DEF IInv, PipeTypeOK
  <2>2. CASE i = cur
    BY <2>1, <2>2 DEF IInv, LoopInv, HandleInv
  <2>3. CASE i = closing
    BY <2>1, <2>3 DEF IInv, LoopInv, HandleInv
  <2> QED
    BY <2>2, <2>3
<1> QED
  BY <1>1, Invariance, PTL

\* Only the installed GUI is ever served, although the check runs on a process id
\* read earlier and handle values are used again.
THEOREM Verified == Spec => []ServedIsVerified
<1>1. IInv => ServedIsVerified
  BY DEF IInv, ServeInv
<1> QED
  BY <1>1, Invariance, PTL

-----------------------------------------------------------------------------

\* What is asked for is the network of a CIDR some command named.
AskedInv == asked \subseteq {Route(c) : c \in Cidrs}

\* Commands keep every route asked for in the table, or share its address.
LEMMA RouteStep ==
    ASSUME AskedInv, RoutesFollow, NEW line \in Lines, NEW answer, dispatch(line, answer)
    PROVE  AskedInv' /\ RoutesFollow'
<1>1. CASE UNCHANGED routeVars
  BY <1>1 DEF routeVars, AskedInv, RoutesFollow
<1>2. CASE line.method = "addRoute" /\ addRoute(line.cidr)
  <2>1. line.cidr \in Cidrs
    BY <1>2 DEF Lines, Commands
  <2> QED
    BY <1>2, <2>1 DEF addRoute, AskedInv, RoutesFollow
<1>3. CASE line.method = "removeRoute" /\ removeRoute(line.cidr)
  <2> DEFINE gone == line.cidr
  <2>1. gone \in Cidrs
    BY <1>3 DEF Lines, Commands
  <2>2. asked' = asked \ {Route(gone)} /\ routes' = {r \in routes : r[1] # Network(gone)}
    BY <1>3 DEF removeRoute
  <2>3. AskedInv'
    BY <2>2 DEF AskedInv
  <2>4. ASSUME NEW r \in asked'
        PROVE  r \in routes' \/ \E c \in Cidrs : Network(c) = r[1] /\ c[2] # r[2]
    <3>1. PICK d \in Cidrs : r = <<Network(d), d[2]>>
      BY <2>3, <2>4 DEF AskedInv, Route
    <3>2. CASE Network(d) # Network(gone)
      <4>1. r \in routes \/ \E c \in Cidrs : Network(c) = r[1] /\ c[2] # r[2]
        BY <2>2, <2>4 DEF RoutesFollow
      <4>2. r \in routes => r \in routes'
        BY <2>2, <3>1, <3>2
      <4> QED
        BY <4>1, <4>2
    <3>3. CASE Network(d) = Network(gone)
      <4>1. r # <<Network(gone), gone[2]>>
        BY <2>2, <2>4 DEF Route
      <4>2. gone[2] # r[2] /\ Network(gone) = r[1]
        BY <3>1, <3>3, <4>1
      <4> QED
        BY <2>1, <4>2
    <3> QED
      BY <3>2, <3>3
  <2> QED
    BY <2>3, <2>4 DEF RoutesFollow
<1> QED
  BY <1>1, <1>2, <1>3 DEF dispatch

\* A route that was asked for and not taken back is in the table, or another
\* prefix length is in use with its network address.
THEOREM RoutesKept == Spec => []RoutesFollow
<1> DEFINE Inv == AskedInv /\ RoutesFollow
<1>1. Init => Inv
  BY DEF Init, AskedInv, RoutesFollow
<1>2. Inv /\ [Next]_vars => Inv'
  <2> SUFFICES ASSUME AskedInv, RoutesFollow, [Next]_vars PROVE AskedInv' /\ RoutesFollow'
    OBVIOUS
  <2>1. ASSUME NEW i \in Handles, Handle(i) PROVE AskedInv' /\ RoutesFollow'
    <3>1. CASE UNCHANGED routeVars
      BY <3>1 DEF routeVars, AskedInv, RoutesFollow
    <3> QED
      BY <2>1, <3>1, RouteStep DEF Handle
  <2>2. CASE UNCHANGED routeVars
    BY <2>2 DEF routeVars, AskedInv, RoutesFollow
  <2>3. Control \/ acceptLoop => UNCHANGED routeVars
    BY DEF Control, Main, Start, StartFails, Stop, StopCloses, Exit,
           acceptLoop, Create, CreateFails, Publish, waitForClient, Woken, Verify, LoopTo
  <2>4. ASSUME NEW c \in Clients, Client(c) PROVE UNCHANGED routeVars
    BY <2>4 DEF Client, Open, Request, Leave
  <2>5. ASSUME NEW i \in Handles, HandlerStep(i), ~Handle(i) PROVE UNCHANGED routeVars
    BY <2>5 DEF HandlerStep, writeResp, HandleEnds
  <2> QED
    BY <2>1, <2>2, <2>3, <2>4, <2>5 DEF Next, vars
<1> QED
  BY <1>1, <1>2, PTL DEF Spec

\* An address less its host bits is an address of the same width.
LEMMA NetworkIsAddress == ASSUME NEW c \in Cidrs PROVE Route(c) \in Routes
<1>1. c[1] \in 0 .. 2^Bits - 1 /\ c[2] \in 0 .. Bits /\ Bits \in Nat
  BY AddressAssumption
<1> DEFINE n == 2^(Bits - c[2])
           m == 2^Bits
<1>2. n \in Nat \ {0} /\ m \in Nat \ {0}
  <2>1. Bits - c[2] \in 0 .. Bits /\ Bits \in 0 .. Bits
    BY <1>1
  <2> QED
    BY <2>1, PowersAssumption
<1>3. Network(c) = c[1] - (c[1] % n)
  BY DEF Network
<1>4. c[1] \in 0 .. m - 1
  BY <1>1
<1> HIDE DEF n, m
<1>5. c[1] - (c[1] % n) \in 0 .. m - 1
  <2>1. c[1] \in Nat /\ c[1] % n \in 0 .. c[1]
    BY <1>2, <1>4
  <2> QED
    BY <1>2, <1>4, <2>1
<1> QED
  BY <1>1, <1>3, <1>5 DEF Route, Routes, m

\* The variables stay in their types: the pipe's whatever the goroutines do, the route
\* table because masking an address and deleting by it never leave the address space.
THEOREM Types == Spec => []TypeOK
<1> DEFINE Inv == routes \subseteq Routes /\ asked \subseteq Routes
<1>1. Init => Inv
  BY DEF Init
<1>2. Inv /\ [Next]_vars => Inv'
  <2> SUFFICES ASSUME Inv, [Next]_vars PROVE Inv'
    OBVIOUS
  <2>1. ASSUME NEW line \in Lines, NEW answer, dispatch(line, answer) PROVE Inv'
    <3>1. CASE UNCHANGED routeVars
      BY <3>1 DEF routeVars
    <3>2. CASE line.method = "addRoute" /\ addRoute(line.cidr)
      <4>1. line.cidr \in Cidrs
        BY <3>2 DEF Lines, Commands
      <4>2. Route(line.cidr) \in Routes
        BY <4>1, NetworkIsAddress
      <4> QED
        BY <3>2, <4>2 DEF addRoute
    <3>3. CASE line.method = "removeRoute" /\ removeRoute(line.cidr)
      BY <3>3 DEF removeRoute
    <3> QED
      BY <2>1, <3>1, <3>2, <3>3 DEF dispatch
  <2>2. CASE UNCHANGED routeVars
    BY <2>2 DEF routeVars
  <2>3. \A i \in Handles : HandlerStep(i) => Inv' \/ UNCHANGED routeVars
    BY <2>1, <2>2 DEF HandlerStep, Handle, writeResp, HandleEnds
  <2>4. Control \/ acceptLoop \/ (\E c \in Clients : Client(c)) => UNCHANGED routeVars
    BY DEF Control, Main, Start, StartFails, Stop, StopCloses, Exit, LoopTo,
           acceptLoop, Create, CreateFails, Publish, waitForClient, Woken, Verify,
           Client, Open, Request, Leave
  <2>5. UNCHANGED vars => UNCHANGED routeVars
    BY DEF vars
  <2> QED
    BY <2>2, <2>3, <2>4, <2>5 DEF Next
<1>3. IInv => PipeTypeOK
  BY DEF IInv
<1>4. PipeTypeOK /\ Inv => TypeOK
  BY DEF TypeOK
<1> QED
  BY <1>1, <1>2, <1>3, <1>4, Invariance, PTL DEF Spec
=============================================================================

-------------------------------- MODULE Netif --------------------------------
(***************************************************************************)
(* How the Android app tells the Go engine which physical networks exist:  *)
(* ConnectivityManager -> NetworkStateMonitor (one HandlerThread per       *)
(* session) -> JNI shim -> netifRegistry -> the core's network manager.    *)
(*                                                                         *)
(* NativeBridge creates a new NetworkStateMonitor for every session; the   *)
(* registry and the core outlive them.  A downcall changes the registry    *)
(* under its mutex and notifies the core after releasing it.               *)
(***************************************************************************)
EXTENDS Naturals, SequencesExt

CONSTANTS
    Networks,      \* Android network handles, never reused
    NoNet,         \* FF_NETIF_NO_HANDLE
    MaxSessions,   \* bound: monitors created
    MaxLink,       \* bound: capabilities or link properties that change, once each
    MaxPending,    \* bound: events pending at a monitor when the world changes again
    MaxCores,      \* bound: cores started, each with its network manager and callback
    Faults         \* subset of {"unbound"}: the engine's exports may not resolve

ASSUME NetworksAssumption == NoNet \notin Networks /\ IsFiniteSet(Networks)
ASSUME BoundsAssumption == {MaxSessions, MaxLink, MaxPending, MaxCores} \subseteq Nat \ {0}
ASSUME FaultsAssumption == Faults \subseteq {"unbound"}

VARIABLES
    net, link, best,         \* the world: state and link of each network, the best one
    monitor, sessions,       \* NativeBridge.monitor (0: null), monitors created
    bound, missed,           \* g_go_bound; a downcall was dropped and not replayed since
    running, netq, defq,     \* per session: the gate, the two callback streams
    replay, cleanup,         \* per session: posted replay(), posted final cleanup
    tracked, sent,           \* per session: TrackedNetwork halves, lastSent
    dnet, dseed, dsent,      \* per session: defaultNetwork, its halves, lastDefaultSent
    out,                     \* per session: downcalls its thread still has to make
    ifaces, defaultIface,    \* netifRegistry: the networks and the best of them
    manager, callbacks,      \* netifRegistry: whose networkManager, whose callbacks
    cores, core,             \* cores created so far; what the latest one is doing
    coreIfaces, coreDefault  \* what the latest core has been told

worldVars == <<net, link, best>>
bridgeVars == <<monitor, sessions, bound>>
queueVars == <<running, netq, defq, replay, cleanup>>
trackVars == <<tracked, sent, dnet, dseed, dsent>>
registryVars == <<ifaces, defaultIface>>
listenerVars == <<manager, callbacks>>
coreVars == <<listenerVars, cores, core, coreIfaces, coreDefault>>
vars == <<worldVars, bridgeVars, missed, queueVars, trackVars, out, registryVars, coreVars>>

None == 0
Sessions == 1 .. MaxSessions
Cores == 1 .. MaxCores
States == {1, 2}
Half == {"caps", "props"}
Link == [Half -> States]
Partial == [Half -> States \cup {None}]
NoLink == [h \in Half |-> None]
Handles == Networks \cup {NoNet}

Event == [kind : {"available", "caps", "props", "lost"}, net : Networks, state : States \cup {None}]
Downcall == [op : {"update", "lost", "default", "reset", "refresh", "notify"},
             net : Handles, link : Partial, nm : Cores \cup {None}, cbs : SUBSET Cores]

TypeOK ==
    /\ net \in [Networks -> {"new", "up", "gone"}] /\ link \in [Networks -> Link] /\ best \in Handles
    /\ monitor \in Sessions \cup {None} /\ sessions \in Sessions \cup {None}
    /\ bound \in BOOLEAN /\ missed \in BOOLEAN
    /\ running \in [Sessions -> BOOLEAN] /\ replay \in [Sessions -> BOOLEAN]
    /\ cleanup \in [Sessions -> BOOLEAN]
    /\ netq \in [Sessions -> Seq(Event)] /\ defq \in [Sessions -> Seq(Event)]
    /\ out \in [Sessions -> Seq(Downcall)]
    /\ tracked \in [Sessions -> [Networks -> Partial]]
    /\ sent \in [Sessions -> [Networks -> Link \cup {NoLink}]]
    /\ dnet \in [Sessions -> Handles] /\ dseed \in [Sessions -> Partial]
    /\ dsent \in [Sessions -> (Handles \X (States \cup {None})) \cup {<<>>}]
    /\ ifaces \in [Networks -> Link \cup {NoLink}] /\ defaultIface \in Handles
    /\ manager \in Cores \cup {None} /\ callbacks \subseteq Cores
    /\ cores \in Cores \cup {None} /\ core \in {"off", "created", "initialized", "started"}
    /\ coreIfaces \in [Networks -> Link \cup {NoLink}] /\ coreDefault \in Handles

Init ==
    /\ net = [n \in Networks |-> "new"] /\ best = NoNet
    /\ link = [n \in Networks |-> [h \in Half |-> 1]]
    /\ monitor = None /\ sessions = 0 /\ bound = FALSE /\ missed = FALSE
    /\ running = [s \in Sessions |-> FALSE]
    /\ netq = [s \in Sessions |-> <<>>] /\ defq = [s \in Sessions |-> <<>>]
    /\ replay = [s \in Sessions |-> FALSE] /\ cleanup = [s \in Sessions |-> FALSE]
    /\ tracked = [s \in Sessions |-> [n \in Networks |-> NoLink]]
    /\ sent = [s \in Sessions |-> [n \in Networks |-> NoLink]]
    /\ dnet = [s \in Sessions |-> NoNet] /\ dseed = [s \in Sessions |-> NoLink]
    /\ dsent = [s \in Sessions |-> <<>>]
    /\ out = [s \in Sessions |-> <<>>]
    /\ ifaces = [n \in Networks |-> NoLink] /\ defaultIface = NoNet
    /\ manager = None /\ callbacks = {} /\ cores = 0 /\ core = "off"
    /\ coreIfaces = [n \in Networks |-> NoLink] /\ coreDefault = NoNet

-----------------------------------------------------------------------------
(* ConnectivityManager (external): what it reports, in order, to the two   *)
(* callbacks of the running monitor.                                       *)

Up == {n \in Networks : net[n] = "up"}

Ev(k, n, v) == [kind |-> k, net |-> n, state |-> v]
Announce(n, l) == <<Ev("available", n, None), Ev("caps", n, l["caps"]), Ev("props", n, l["props"])>>

\* What a new callback hears of the networks that are up, in the order given.
Announcements(order) ==
    [i \in 1 .. 3 * Len(order) |->
        LET n == order[(i + 2) \div 3] IN Announce(n, link[n])[((i + 2) % 3) + 1]]

\* Queue q of every registered session with the events e appended.
Told(q, e) == [s \in Sessions |-> IF running[s] THEN q[s] \o e ELSE q[s]]

\* Bound: the world waits while a monitor has many events to work off.
Calm == \A s \in Sessions : Len(netq[s]) + Len(defq[s]) < MaxPending

NetworkUp(n) ==
    /\ Calm
    /\ net[n] = "new"
    /\ net' = [net EXCEPT ![n] = "up"]
    /\ netq' = Told(netq, Announce(n, link[n]))
    /\ UNCHANGED <<link, best, bridgeVars, missed, running, defq, replay, cleanup, trackVars, out,
                   registryVars, coreVars>>

Changed == {c \in Networks \X Half : link[c[1]][c[2]] = 2}

LinkChange(n, h) ==
    /\ Calm
    /\ net[n] = "up" /\ link[n][h] = 1 /\ Cardinality(Changed) < MaxLink
    /\ link' = [link EXCEPT ![n][h] = 2]
    /\ netq' = Told(netq, <<Ev(h, n, 2)>>)
    /\ defq' = IF best = n THEN Told(defq, <<Ev(h, n, 2)>>) ELSE defq
    /\ UNCHANGED <<net, best, bridgeVars, missed, running, replay, cleanup, trackVars, out,
                   registryVars, coreVars>>

BestChange(n) ==
    /\ Calm
    /\ net[n] = "up" /\ best # n
    /\ best' = n
    /\ defq' = Told(defq, Announce(n, link[n]))
    /\ UNCHANGED <<net, link, bridgeVars, missed, running, netq, replay, cleanup, trackVars, out,
                   registryVars, coreVars>>

\* A lost best network is replaced at once or not; its own loss may be reported
\* after its replacement.
NetworkDown(n) ==
    /\ Calm
    /\ net[n] = "up"
    /\ net' = [net EXCEPT ![n] = "gone"]
    /\ netq' = Told(netq, <<Ev("lost", n, None)>>)
    /\ IF best # n THEN UNCHANGED <<best, defq>>
       ELSE \/ best' = NoNet /\ defq' = Told(defq, <<Ev("lost", n, None)>>)
            \/ \E m \in Up \ {n} :
                /\ best' = m
                /\ defq' \in {Told(defq, Announce(m, link[m]) \o late) : late \in {<<>>, <<Ev("lost", n, None)>>}}
    /\ UNCHANGED <<link, bridgeVars, missed, running, replay, cleanup, trackVars, out, registryVars,
                   coreVars>>

-----------------------------------------------------------------------------
(* NativeBridge.startMonitor and stopMonitor, on the service's main thread.*)

NewMonitor ==
    /\ sessions < MaxSessions
    /\ sessions' = sessions + 1
    /\ monitor' = sessions + 1
    /\ running' = [running EXCEPT ![sessions + 1] = TRUE]
    /\ \E order \in SetToSeqs(Up) :
        netq' = [netq EXCEPT ![sessions + 1] = Announcements(order)]
    /\ defq' = [defq EXCEPT ![sessions + 1] = IF best = NoNet THEN <<>> ELSE Announce(best, link[best])]

\* NetifRegisterPlatform: from here on the engine can ask the shim for a replay.
setPlatform == bound' = TRUE

ensureEngineBound == setPlatform \/ ("unbound" \in Faults /\ UNCHANGED bound)

startMonitor ==
    /\ ensureEngineBound
    /\ IF monitor = None THEN NewMonitor
       ELSE UNCHANGED <<sessions, monitor, running, netq, defq>>
    /\ UNCHANGED <<worldVars, missed, replay, cleanup, trackVars, out, registryVars, coreVars>>

\* Mutant: the final cleanup goes through the running gate and is dropped.
stopMonitorGated ==
    /\ monitor # None
    /\ monitor' = None
    /\ running' = [running EXCEPT ![monitor] = FALSE]
    /\ netq' = [netq EXCEPT ![monitor] = <<>>]
    /\ defq' = [defq EXCEPT ![monitor] = <<>>]
    /\ replay' = [replay EXCEPT ![monitor] = FALSE]
    /\ UNCHANGED <<worldVars, sessions, bound, missed, cleanup, trackVars, out, registryVars, coreVars>>

\* Posted tasks find the gate closed, so the queues are as good as empty; the
\* final cleanup bypasses the gate.  The thread may be inside a task.
stopMonitor ==
    /\ monitor # None
    /\ monitor' = None
    /\ running' = [running EXCEPT ![monitor] = FALSE]
    /\ netq' = [netq EXCEPT ![monitor] = <<>>]
    /\ defq' = [defq EXCEPT ![monitor] = <<>>]
    /\ replay' = [replay EXCEPT ![monitor] = FALSE]
    /\ cleanup' = [cleanup EXCEPT ![monitor] = TRUE]
    /\ UNCHANGED <<worldVars, sessions, bound, missed, trackVars, out, registryVars, coreVars>>

-----------------------------------------------------------------------------
(* The monitor's thread: one task at a time.                               *)

Call(o, n, l) == [op |-> o, net |-> n, link |-> l, nm |-> None, cbs |-> {}]
Complete(p) == \A h \in Half : p[h] # None

Idle(s) == running[s] /\ out[s] = <<>>

\* Mutant: a snapshot is emitted before both halves exist.
NetChangedEager(s) ==
    LET e == Head(netq[s])
        t == [tracked[s][e.net] EXCEPT ![e.kind] = e.state]
    IN  /\ e.kind \in Half
        /\ tracked' = [tracked EXCEPT ![s][e.net] = t]
        /\ sent' = [sent EXCEPT ![s][e.net] = t]
        /\ out' = [out EXCEPT ![s] = <<Call("update", e.net, t)>>]

\* onCapabilitiesChanged, onLinkPropertiesChanged and emitIfComplete.
NetChanged(s) ==
    LET e == Head(netq[s])
        t == [tracked[s][e.net] EXCEPT ![e.kind] = e.state]
        emit == Complete(t) /\ t # sent[s][e.net]
    IN  /\ e.kind \in Half
        /\ tracked' = [tracked EXCEPT ![s][e.net] = t]
        /\ sent' = [sent EXCEPT ![s][e.net] = IF emit THEN t ELSE @]
        /\ out' = [out EXCEPT ![s] = IF emit THEN <<Call("update", e.net, t)>> ELSE <<>>]

\* onLost: only networks that were announced are withdrawn.
NetLost(s) ==
    LET e == Head(netq[s]) IN
    /\ e.kind = "lost"
    /\ tracked' = [tracked EXCEPT ![s][e.net] = NoLink]
    /\ sent' = [sent EXCEPT ![s][e.net] = NoLink]
    /\ out' = [out EXCEPT ![s] = IF sent[s][e.net] # NoLink THEN <<Call("lost", e.net, NoLink)>> ELSE <<>>]

\* onAvailable only creates the accumulator.
NetAvailable(s) == Head(netq[s]).kind = "available" /\ UNCHANGED <<tracked, sent, out>>

HandleNetwork(s) ==
    /\ Idle(s) /\ netq[s] # <<>>
    /\ netq' = [netq EXCEPT ![s] = Tail(@)]
    /\ NetAvailable(s) \/ NetChanged(s) \/ NetLost(s)
    /\ UNCHANGED <<worldVars, bridgeVars, missed, running, defq, replay, cleanup, dnet, dseed, dsent,
                   registryVars, coreVars>>

\* emitDefault with default network n and its halves p.
EmitDefault(s, n, p) ==
    LET emit == p["props"] # None /\ <<n, p["caps"]>> # dsent[s] IN
    /\ dsent' = [dsent EXCEPT ![s] = IF emit THEN <<n, p["caps"]>> ELSE @]
    /\ out' = [out EXCEPT ![s] = IF emit THEN <<Call("default", n, NoLink)>> ELSE <<>>]

\* onAvailable seeds the halves with what the system says now.
DefaultAvailable(s) ==
    LET n == Head(defq[s]).net
        seed == IF net[n] = "up" THEN link[n] ELSE NoLink
    IN  /\ Head(defq[s]).kind = "available"
        /\ dnet' = [dnet EXCEPT ![s] = n]
        /\ dseed' = [dseed EXCEPT ![s] = seed]
        /\ EmitDefault(s, n, seed)

DefaultChanged(s) ==
    LET e == Head(defq[s])
        p == [dseed[s] EXCEPT ![e.kind] = e.state]
    IN  /\ e.kind \in Half
        /\ UNCHANGED dnet
        /\ IF e.net = dnet[s]
           THEN dseed' = [dseed EXCEPT ![s] = p] /\ EmitDefault(s, e.net, p)
           ELSE UNCHANGED <<dseed, dsent, out>>

\* Mutant: any loss clears the default.
DefaultLostUnguarded(s) ==
    /\ Head(defq[s]).kind = "lost"
    /\ dnet' = [dnet EXCEPT ![s] = NoNet]
    /\ dseed' = [dseed EXCEPT ![s] = NoLink]
    /\ dsent' = [dsent EXCEPT ![s] = <<NoNet, None>>]
    /\ out' = [out EXCEPT ![s] = IF dsent[s] # <<NoNet, None>> THEN <<Call("default", NoNet, NoLink)>> ELSE <<>>]

\* onLost and clearDefault.
DefaultLost(s) ==
    /\ Head(defq[s]).kind = "lost"
    /\ IF Head(defq[s]).net = dnet[s]
       THEN /\ dnet' = [dnet EXCEPT ![s] = NoNet]
            /\ dseed' = [dseed EXCEPT ![s] = NoLink]
            /\ dsent' = [dsent EXCEPT ![s] = <<NoNet, None>>]
            /\ out' = [out EXCEPT ![s] =
                IF dsent[s] # <<NoNet, None>> THEN <<Call("default", NoNet, NoLink)>> ELSE <<>>]
       ELSE UNCHANGED <<dnet, dseed, dsent, out>>

HandleDefault(s) ==
    /\ Idle(s) /\ defq[s] # <<>>
    /\ defq' = [defq EXCEPT ![s] = Tail(@)]
    /\ DefaultAvailable(s) \/ DefaultChanged(s) \/ DefaultLost(s)
    /\ UNCHANGED <<worldVars, bridgeVars, missed, running, netq, replay, cleanup, tracked, sent,
                   registryVars, coreVars>>

Ready(s) == {n \in Networks : Complete(tracked[s][n])}

\* replay(): every complete network again, then the default.
HandleReplay(s) ==
    LET again == {Call("update", n, tracked[s][n]) : n \in Ready(s)}
        known == dnet[s] # NoNet /\ dseed[s]["props"] # None
    IN  /\ Idle(s) /\ replay[s]
        /\ replay' = [replay EXCEPT ![s] = FALSE]
        /\ sent' = [sent EXCEPT ![s] = [n \in Networks |-> IF n \in Ready(s) THEN tracked[s][n] ELSE NoLink]]
        /\ dsent' = [dsent EXCEPT ![s] = IF known THEN <<dnet[s], dseed[s]["caps"]>> ELSE <<>>]
        /\ \E order \in SetToSeqs(again) : out' = [out EXCEPT ![s] =
            order \o (IF known THEN <<Call("default", dnet[s], NoLink)>> ELSE <<>>)]
        /\ missed' = (missed /\ ~bound)
        /\ UNCHANGED <<worldVars, bridgeVars, running, netq, defq, cleanup, tracked, dnet, dseed,
                       registryVars, coreVars>>

HandleCleanup(s) ==
    /\ cleanup[s] /\ out[s] = <<>>
    /\ cleanup' = [cleanup EXCEPT ![s] = FALSE]
    /\ tracked' = [tracked EXCEPT ![s] = [n \in Networks |-> NoLink]]
    /\ dnet' = [dnet EXCEPT ![s] = NoNet]
    /\ dseed' = [dseed EXCEPT ![s] = NoLink]
    /\ dsent' = [dsent EXCEPT ![s] = <<>>]
    /\ out' = [out EXCEPT ![s] = <<Call("reset", NoNet, NoLink)>>]
    /\ UNCHANGED <<worldVars, bridgeVars, missed, running, netq, defq, replay, sent, registryVars,
                   coreVars>>

-----------------------------------------------------------------------------
(* JNI shim and netifRegistry.  The first entry of out[s] is the downcall  *)
(* the thread is in; once the registry has changed it turns into what is   *)
(* left to do after the mutex: refreshing and notifying the core.          *)

\* The manager and the callbacks to tell are those of the moment of the change.
Then(s, o, n) ==
    [out EXCEPT ![s] = <<[op |-> o, net |-> n, link |-> NoLink, nm |-> manager, cbs |-> callbacks]>> \o Tail(@)]

\* Native*: nothing reaches an engine whose exports are not bound.
Drop(s) ==
    /\ out[s] # <<>> /\ ~bound
    /\ out' = [out EXCEPT ![s] = Tail(@)]
    /\ missed' = TRUE
    /\ UNCHANGED <<worldVars, bridgeVars, queueVars, trackVars, registryVars, coreVars>>

Update(s) ==
    /\ out[s] # <<>> /\ bound /\ Head(out[s]).op = "update"
    /\ ifaces' = [ifaces EXCEPT ![Head(out[s]).net] = Head(out[s]).link]
    /\ out' = Then(s, "refresh", NoNet)
    /\ UNCHANGED <<worldVars, bridgeVars, missed, queueVars, trackVars, defaultIface, coreVars>>

Lost(s) ==
    LET n == Head(out[s]).net IN
    /\ out[s] # <<>> /\ bound /\ Head(out[s]).op = "lost"
    /\ ifaces' = [ifaces EXCEPT ![n] = NoLink]
    /\ out' = IF ifaces[n] # NoLink THEN Then(s, "refresh", NoNet) ELSE [out EXCEPT ![s] = Tail(@)]
    /\ UNCHANGED <<worldVars, bridgeVars, missed, queueVars, trackVars, defaultIface, coreVars>>

\* The entry the default reuses (rich or sparse) is the same interface.
SetDefault(s) ==
    LET n == Head(out[s]).net IN
    /\ out[s] # <<>> /\ bound /\ Head(out[s]).op = "default"
    /\ defaultIface' = n
    /\ out' = Then(s, "notify", n)
    /\ UNCHANGED <<worldVars, bridgeVars, missed, queueVars, trackVars, ifaces, coreVars>>

Reset(s) ==
    /\ out[s] # <<>> /\ bound /\ Head(out[s]).op = "reset"
    /\ ifaces' = [n \in Networks |-> NoLink]
    /\ defaultIface' = NoNet
    /\ out' = Then(s, "notify", NoNet)
    /\ UNCHANGED <<worldVars, bridgeVars, missed, queueVars, trackVars, coreVars>>

\* A core that is not the latest one has been closed; what it is told is lost.
Listens(k) == k = cores /\ core # "off"

\* What a network manager reads when it is told to update its interfaces.
interfaces == ifaces

\* refreshInterfaces, for the manager and then the callbacks of the downcall.
Notify(s) ==
    LET d == Head(out[s]) IN
    /\ out[s] # <<>> /\ d.op \in {"refresh", "notify"}
    /\ coreIfaces' = IF Listens(d.nm) THEN interfaces ELSE coreIfaces
    /\ coreDefault' = IF d.op = "notify" /\ \E k \in d.cbs : Listens(k) THEN d.net ELSE coreDefault
    /\ out' = [out EXCEPT ![s] = Tail(@)]
    /\ UNCHANGED <<worldVars, bridgeVars, missed, queueVars, trackVars, registryVars, listenerVars, cores, core>>

-----------------------------------------------------------------------------
(* The core (external) and what it calls of the registry.  Each start makes *)
(* a new core: it registers its callback, hands over its network manager    *)
(* and starts the monitor, knowing nothing until it is told.                *)

registerCallback == callbacks' = callbacks \cup {cores + 1}

\* The core may close without taking its callback back.
unregisterCallback == callbacks' \in {callbacks, callbacks \ {cores}}

setNetworkManager == manager' = cores

CoreCreate ==
    /\ core = "off" /\ cores < MaxCores
    /\ cores' = cores + 1
    /\ core' = "created"
    /\ registerCallback
    /\ UNCHANGED <<worldVars, bridgeVars, missed, queueVars, trackVars, out, registryVars, manager,
                   coreIfaces, coreDefault>>

Initialize ==
    /\ core = "created"
    /\ core' = "initialized"
    /\ setNetworkManager
    /\ UNCHANGED <<worldVars, bridgeVars, missed, queueVars, trackVars, out, registryVars, callbacks,
                   cores, coreIfaces, coreDefault>>

\* Mutant: the replay is asked for only while the registry is empty.
requestReplayIfEmpty ==
    replay' = IF bound /\ monitor # None /\ ifaces = [n \in Networks |-> NoLink]
              THEN [replay EXCEPT ![monitor] = TRUE] ELSE replay

\* Through the shim's pointer to the monitor of the moment, if there is one.
requestReplay ==
    replay' = IF bound /\ monitor # None THEN [replay EXCEPT ![monitor] = TRUE] ELSE replay

\* androidInterfaceMonitor.Start.
CoreStart ==
    /\ core = "initialized"
    /\ core' = "started"
    /\ requestReplay
    /\ UNCHANGED <<worldVars, bridgeVars, missed, running, netq, defq, cleanup, trackVars, out,
                   registryVars, listenerVars, cores, coreIfaces, coreDefault>>

\* A start may fail half way; the registry keeps the manager of the core.
CoreClose ==
    /\ core # "off"
    /\ core' = "off"
    /\ unregisterCallback
    /\ coreIfaces' = [n \in Networks |-> NoLink] /\ coreDefault' = NoNet
    /\ UNCHANGED <<worldVars, bridgeVars, missed, queueVars, trackVars, out, registryVars, manager,
                   cores>>

-----------------------------------------------------------------------------

Thread(s) ==
    \/ HandleNetwork(s) \/ HandleDefault(s) \/ HandleReplay(s) \/ HandleCleanup(s)
    \/ Drop(s) \/ Update(s) \/ Lost(s) \/ SetDefault(s) \/ Reset(s) \/ Notify(s)

World ==
    \/ \E n \in Networks : NetworkUp(n) \/ BestChange(n) \/ NetworkDown(n)
    \/ \E n \in Networks, h \in Half : LinkChange(n, h)

Next ==
    \/ World
    \/ startMonitor \/ stopMonitor
    \/ \E s \in Sessions : Thread(s)
    \/ CoreCreate \/ Initialize \/ CoreStart \/ CoreClose

Spec == Init /\ [][Next]_vars

-----------------------------------------------------------------------------
(* Properties.                                                             *)

Settled ==
    \A s \in Sessions : netq[s] = <<>> /\ defq[s] = <<>> /\ out[s] = <<>> /\ ~replay[s] /\ ~cleanup[s]

Alive == [n \in Networks |-> IF net[n] = "up" THEN link[n] ELSE NoLink]

\* Once everything posted has been worked off, the registry holds exactly the live
\* networks in their latest state and the best of them: deduplication, the two
\* halves of a snapshot and the two callback streams lose nothing.
RegistryAgrees ==
    Settled /\ monitor # None /\ bound /\ ~missed => ifaces = Alive /\ defaultIface = best

\* Whatever is interleaved with the core's start, a settled core believes what the
\* registry holds, although it is notified outside the registry's mutex.
CoreAgrees ==
    Settled /\ core = "started" => coreIfaces = ifaces /\ coreDefault = defaultIface

\* When the last monitor has wound down nothing of it is left in the registry.
StoppedIsEmpty ==
    Settled /\ monitor = None /\ bound => ifaces = [n \in Networks |-> NoLink] /\ defaultIface = NoNet
=============================================================================

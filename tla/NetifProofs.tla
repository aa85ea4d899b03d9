---------------------------- MODULE NetifProofs ----------------------------
(***************************************************************************)
(* Proofs about Netif, for any finite set of networks and any number of    *)
(* sessions, cores, changes and pending events.                            *)
(*                                                                         *)
(* Each monitor has a thread of its own.  What concerns one thread, and    *)
(* the end of the last one, holds however they overlap; what is said of    *)
(* the registry between needs OneThread.                                   *)
(***************************************************************************)
EXTENDS Netif, FiniteSetTheorems, TLAPS

-----------------------------------------------------------------------------
(* One thread.                                                             *)

\* A monitor's thread has something left to do.
Works(s) == running[s] \/ cleanup[s] \/ out[s] # <<>>

\* A new monitor is not started before the thread of the old one has wound down.
OneThread == \A s, t \in Sessions : Works(s) /\ Works(t) => s = t

NoLinks == [n \in Networks |-> NoLink]
Empty == ifaces = NoLinks /\ defaultIface = NoNet

Elements(q) == {q[i] : i \in 1 .. Len(q)}

\* The downcalls a thread still has to make, and those after the one it is in.
Calls(s) == Elements(out[s])
Rest(s) == Elements(Tail(out[s]))
In(s) == Head(out[s])

-----------------------------------------------------------------------------
(* What holds of every thread, however many there are.                     *)

\* Only the running monitor has callbacks pending; a session is used once.
SessionOf(s) ==
    /\ running[s] => s = monitor /\ ~cleanup[s]
    /\ replay[s] => running[s]
    /\ s > sessions =>
        /\ ~cleanup[s] /\ out[s] = <<>>
        /\ tracked[s] = NoLinks /\ sent[s] = NoLinks
        /\ dnet[s] = NoNet /\ dseed[s] = NoLink /\ dsent[s] = <<>>

SessionInv ==
    /\ monitor # None => running[monitor] /\ monitor <= sessions
    /\ \A s \in Sessions : SessionOf(s)

\* Of a thread's calls only the first can be done with the registry; reports are made
\* by a thread whose final cleanup is still to come, and carry both halves.
OutOf(s) ==
    /\ out[s] # <<>> => \A c \in Rest(s) : c.op \in {"update", "lost", "default"}
    /\ \A c \in Calls(s) :
        /\ c.op \in {"update", "lost", "default"} => running[s] \/ cleanup[s]
        /\ c.op = "update" => c.link \in Link /\ c.net \in Networks
        /\ c.op = "lost" => c.net \in Networks

OutInv == \A s \in Sessions : OutOf(s)

\* Nothing was told before the engine was bound.
UnboundInv ==
    ~bound =>
        /\ Empty /\ coreIfaces = NoLinks /\ coreDefault = NoNet
        /\ \A s \in Sessions : \A c \in Calls(s) : c.op \notin {"refresh", "notify"}

\* Whatever is in the registry will be wiped by somebody.
WillWipe(s) == running[s] \/ cleanup[s] \/ (out[s] # <<>> /\ In(s).op = "reset")

EmptyInv == Empty \/ \E s \in Sessions : WillWipe(s)

-----------------------------------------------------------------------------
(* What the running monitor remembers and has reported.                    *)

\* Events carry what their kind says.
Sound(e) ==
    /\ e.kind \in Half => e.state \in States
    /\ e.kind = "lost" => e.state = None

EventOf(s) == \A e \in Elements(netq[s]) \cup Elements(defq[s]) : Sound(e)

EventInv == \A s \in Sessions : EventOf(s)

\* What was sent is what is known in full, and the calls under way say so.
TrackOf(s) ==
    /\ \A n \in Networks :
        sent[s][n] = (IF Complete(tracked[s][n]) THEN tracked[s][n] ELSE NoLink)
    /\ \A c \in Calls(s) :
        /\ c.op = "update" => Complete(tracked[s][c.net]) /\ c.link = tracked[s][c.net]
        /\ c.op = "lost" => ~Complete(tracked[s][c.net])
        /\ c.op = "default" => c.net = dnet[s] /\ dsent[s] # <<>> /\ dsent[s][1] = c.net
        /\ c.op # "reset"
    /\ dnet[s] # NoNet /\ dseed[s]["props"] # None => dsent[s] = <<dnet[s], dseed[s]["caps"]>>

TrackInv == \A s \in Sessions : running[s] => TrackOf(s)

\* An announced default brings both of its halves; until the second one has come they
\* are the next events of the queue.
AnnouncedIn(q) ==
    \A i \in 1 .. Len(q) : q[i].kind = "available" =>
        /\ i + 2 <= Len(q)
        /\ q[i + 1].kind = "caps" /\ q[i + 1].net = q[i].net
        /\ q[i + 2].kind = "props" /\ q[i + 2].net = q[i].net

Coming(q, n) ==
    \/ 1 <= Len(q) /\ q[1].kind = "props" /\ q[1].net = n
    \/ 2 <= Len(q) /\ q[1].kind = "caps" /\ q[1].net = n /\ q[2].kind = "props" /\ q[2].net = n

AwaitOf(s) ==
    /\ AnnouncedIn(defq[s])
    /\ dnet[s] # NoNet /\ dseed[s]["props"] = None => Coming(defq[s], dnet[s])

AwaitInv == \A s \in Sessions : running[s] => AwaitOf(s)

-----------------------------------------------------------------------------
(* The registry, with one thread.                                          *)

\* The registry holds nothing the monitor does not know of, or is about to withdraw.
KnownOf(s) ==
    /\ \A n \in Networks : ifaces[n] # NoLink =>
        Complete(tracked[s][n]) \/ \E c \in Calls(s) : c.op = "lost" /\ c.net = n
    /\ dnet[s] = NoNet => defaultIface = NoNet \/ \E c \in Calls(s) : c.op = "default"

KnownInv == \A s \in Sessions : running[s] => KnownOf(s)

\* Nothing that was sent is missing in the registry, unless it is under way.
SentOf(s) ==
    /\ \A n \in Networks :
        ifaces[n] = sent[s][n] \/ \E c \in Calls(s) : c.op \in {"update", "lost"} /\ c.net = n
    /\ dsent[s] # <<>> => defaultIface = dsent[s][1] \/ \E c \in Calls(s) : c.op = "default"

SentInv == ~missed => \A s \in Sessions : running[s] => SentOf(s)

-----------------------------------------------------------------------------
(* The callback queues against the world.                                  *)

Touches(e, n, h) == e.net = n /\ e.kind \in {h, "lost"}

\* After the events of q, a half that is v0 now will be v.
Becomes(q, n, h, v0, v) ==
    \/ v = v0 /\ \A i \in 1 .. Len(q) : ~Touches(q[i], n, h)
    \/ \E i \in 1 .. Len(q) :
        /\ Touches(q[i], n, h) /\ q[i].state = v
        /\ \A j \in 1 .. Len(q) : j > i => ~Touches(q[j], n, h)

Truth(n, h) == IF net[n] = "up" THEN link[n][h] ELSE None

\* After the events of q, the default that is d now will be the last one announced, m;
\* k is the place of the announcement, 0 without one.
SetAt(q, d, m, k) ==
    /\ \A i \in 1 .. Len(q) : i > k => q[i].kind # "available"
    /\ IF k = 0 THEN d = m ELSE q[k].kind = "available" /\ q[k].net = m

LossAfter(q, m, k) == \E i \in 1 .. Len(q) : i > k /\ q[i].kind = "lost" /\ q[i].net = m

\* The queued events of a default callback make d the best network, b.
Chooses(q, d, b) ==
    \E k \in 0 .. Len(q), m \in Handles :
        SetAt(q, d, m, k) /\ IF b # NoNet THEN m = b ELSE m = NoNet \/ LossAfter(q, m, k)

\* Only a network that is gone is reported lost, and the best one is up.
LossInv ==
    /\ best # NoNet => net[best] = "up"
    /\ \A s \in Sessions : \A e \in Elements(defq[s]) : e.kind = "lost" => net[e.net] = "gone"

\* Its queues bring the monitor to what the world is.
NetqInv ==
    \A s \in Sessions : running[s] =>
        \A n \in Networks, h \in Half : Becomes(netq[s], n, h, tracked[s][n][h], Truth(n, h))

DefqInv == \A s \in Sessions : running[s] => Chooses(defq[s], dnet[s], best)

QueueInv == LossInv /\ NetqInv /\ DefqInv

-----------------------------------------------------------------------------
(* The core, with one thread.                                              *)

\* Whose manager and callback are registered, and captured.
HeardOf(s) ==
    \A c \in Calls(s) :
        c.op \in {"refresh", "notify"} => c.nm <= manager /\ \A k \in c.cbs : k <= cores

ListenInv ==
    /\ manager <= cores /\ \A k \in callbacks : k <= cores
    /\ core \in {"initialized", "started"} => manager = cores
    /\ core = "created" => manager < cores
    /\ core # "off" => cores \in callbacks
    /\ core \in {"off", "created"} => coreIfaces = NoLinks
    /\ core = "off" => coreDefault = NoNet
    /\ \A s \in Sessions : HeardOf(s)

\* The call a thread is in will refresh the core's interfaces, or tell it the default.
Refreshes(s) == out[s] # <<>> /\ In(s).op \in {"refresh", "notify"} /\ In(s).nm = cores
Tells(s) == out[s] # <<>> /\ In(s).op = "notify" /\ cores \in In(s).cbs

\* Somebody will have the core read the interfaces again.
WillRefresh(s) ==
    replay[s] \/ cleanup[s] \/ Refreshes(s) \/ \E c \in Calls(s) : c.op \in {"update", "default", "reset"}

\* What the core has read is true, or somebody is about to have it read again.
IfaceInv ==
    /\ core \in {"initialized", "started"} =>
        coreIfaces \in {ifaces, NoLinks} \/ \E s \in Sessions : Refreshes(s)
    /\ core = "started" => coreIfaces = ifaces \/ \E s \in Sessions : WillRefresh(s)

\* The replay found the default without its halves: it will be sent when they come.
Awaits(s) == running[s] /\ dsent[s] = <<>> /\ dnet[s] # NoNet /\ dseed[s]["props"] = None

\* Somebody will tell the core the default.
WillTell(s) ==
    replay[s] \/ cleanup[s] \/ Tells(s) \/ Awaits(s) \/ \E c \in Calls(s) : c.op \in {"default", "reset"}

\* What is being told is the default of the moment; so is what the core was told.
DefaultInv ==
    /\ \A s \in Sessions : out[s] # <<>> /\ In(s).op = "notify" => In(s).net = defaultIface
    /\ core # "off" => coreDefault \in {defaultIface, NoNet} \/ \E s \in Sessions : Tells(s)
    /\ core = "started" => coreDefault = defaultIface \/ \E s \in Sessions : WillTell(s)

ThreadInv ==
    /\ TypeOK /\ SessionInv /\ OutInv /\ UnboundInv /\ EmptyInv
    /\ EventInv /\ TrackInv /\ AwaitInv /\ ListenInv
RegistryInv == KnownInv /\ SentInv /\ QueueInv /\ IfaceInv /\ DefaultInv

-----------------------------------------------------------------------------
(* Sequences and their elements.                                           *)

LEMMA ElementsShort ==
    /\ Elements(<<>>) = {}
    /\ \A x : Elements(<<x>>) = {x}
BY DEF Elements

LEMMA ElementsTyped ==
    ASSUME NEW S, NEW q \in Seq(S)
    PROVE  Elements(q) \subseteq S
BY DEF Elements

LEMMA ElementsTail ==
    ASSUME NEW S, NEW q \in Seq(S), q # <<>>
    PROVE  /\ Head(q) \in S /\ Tail(q) \in Seq(S) /\ Head(q) = q[1]
           /\ Len(q) \in Nat \ {0} /\ Len(Tail(q)) = Len(q) - 1
           /\ \A i \in 1 .. Len(Tail(q)) : i + 1 \in 1 .. Len(q) /\ Tail(q)[i] = q[i + 1]
           /\ Elements(q) = {Head(q)} \cup Elements(Tail(q))
<1>1. /\ Head(q) \in S /\ Tail(q) \in Seq(S) /\ Head(q) = q[1]
      /\ Len(q) \in Nat \ {0} /\ Len(Tail(q)) = Len(q) - 1
  OBVIOUS
<1>2. \A i \in 1 .. Len(Tail(q)) : i + 1 \in 1 .. Len(q) /\ Tail(q)[i] = q[i + 1]
  BY <1>1
<1>3. \A i \in 1 .. Len(q) : i = 1 \/ (i - 1 \in 1 .. Len(Tail(q)) /\ Tail(q)[i - 1] = q[i])
  BY <1>1
<1>4. 1 \in 1 .. Len(q)
  BY <1>1
<1>5. Elements(q) \subseteq {Head(q)} \cup Elements(Tail(q))
  BY <1>1, <1>3 DEF Elements
<1>6. {Head(q)} \cup Elements(Tail(q)) \subseteq Elements(q)
  BY <1>1, <1>2, <1>4 DEF Elements
<1> QED
  BY <1>1, <1>2, <1>5, <1>6

LEMMA ElementsConcat ==
    ASSUME NEW S, NEW p \in Seq(S), NEW q \in Seq(S)
    PROVE  /\ p \o q \in Seq(S) /\ Len(p \o q) = Len(p) + Len(q)
           /\ \A i \in 1 .. Len(p) : (p \o q)[i] = p[i]
           /\ \A i \in 1 .. Len(q) : (p \o q)[Len(p) + i] = q[i]
           /\ Elements(p \o q) = Elements(p) \cup Elements(q)
<1>1. /\ p \o q \in Seq(S) /\ Len(p \o q) = Len(p) + Len(q)
      /\ Len(p) \in Nat /\ Len(q) \in Nat
  OBVIOUS
<1>2. \A i \in 1 .. Len(p) : i \in 1 .. Len(p \o q) /\ (p \o q)[i] = p[i]
  BY <1>1
<1>3. \A i \in 1 .. Len(q) : Len(p) + i \in 1 .. Len(p \o q) /\ (p \o q)[Len(p) + i] = q[i]
  BY <1>1
<1>4. ASSUME NEW i \in 1 .. Len(p \o q)
      PROVE  i \in 1 .. Len(p) \/ (i - Len(p) \in 1 .. Len(q) /\ i = Len(p) + (i - Len(p)))
  BY <1>1
<1>5. Elements(p \o q) \subseteq Elements(p) \cup Elements(q)
  BY <1>2, <1>3, <1>4 DEF Elements
<1>6. Elements(p) \cup Elements(q) \subseteq Elements(p \o q)
  BY <1>2, <1>3 DEF Elements
<1> QED
  BY <1>1, <1>2, <1>3, <1>5, <1>6

LEMMA ElementsCons ==
    ASSUME NEW S, NEW x \in S, NEW q \in Seq(S)
    PROVE  /\ <<x>> \o q \in Seq(S) /\ <<x>> \o q # <<>>
           /\ Head(<<x>> \o q) = x /\ Tail(<<x>> \o q) = q
           /\ Elements(<<x>> \o q) = {x} \cup Elements(q)
<1>1. <<x>> \in Seq(S) /\ Len(<<x>>) = 1 /\ <<x>>[1] = x
  OBVIOUS
<1>2. Elements(<<x>> \o q) = {x} \cup Elements(q)
  <2> DEFINE p == <<x>>
  <2>1. p \in Seq(S)
    BY <1>1
  <2> HIDE DEF p
  <2>2. Elements(p \o q) = Elements(p) \cup Elements(q)
    BY <2>1, ElementsConcat
  <2>3. Elements(<<x>> \o q) = Elements(<<x>>) \cup Elements(q)
    BY <2>2 DEF p
  <2> QED
    BY <2>3, ElementsShort
<1>3. <<x>> \o q \in Seq(S) /\ Len(<<x>> \o q) = 1 + Len(q) /\ Len(q) \in Nat
  BY <1>1
<1>4. <<x>> \o q # <<>>
  BY <1>3
<1>5. Head(<<x>> \o q) = x
  BY <1>1, <1>3, <1>4
<1>6. Tail(<<x>> \o q) = q
  BY <1>1, <1>3, <1>4
<1> QED
  BY <1>2, <1>3, <1>4, <1>5, <1>6

-----------------------------------------------------------------------------
(* What a step does to the calls of the threads.                           *)

\* The thread has made its call.
LEMMA TailOut ==
    ASSUME TypeOK, NEW s \in Sessions, out[s] # <<>>, out' = [out EXCEPT ![s] = Tail(@)]
    PROVE  /\ out' \in [Sessions -> Seq(Downcall)]
           /\ \A t \in Sessions : t # s => out'[t] = out[t]
           /\ In(s) \in Downcall /\ Rest(s) \subseteq Downcall
           /\ Calls(s) = {In(s)} \cup Rest(s) /\ Calls(s)' = Rest(s)
           /\ out'[s] # <<>> => In(s)' \in Rest(s) /\ Rest(s)' \subseteq Rest(s)
<1>1. out[s] \in Seq(Downcall) /\ out \in [Sessions -> Seq(Downcall)]
  BY DEF TypeOK
<1>2. /\ Tail(out[s]) \in Seq(Downcall) /\ Head(out[s]) \in Downcall
      /\ Elements(out[s]) = {Head(out[s])} \cup Elements(Tail(out[s]))
  BY <1>1, ElementsTail
<1>3. /\ out' \in [Sessions -> Seq(Downcall)] /\ out'[s] = Tail(out[s])
      /\ \A t \in Sessions : t # s => out'[t] = out[t]
  BY <1>1, <1>2
<1>4. out'[s] # <<>> => Elements(out'[s]) = {Head(out'[s])} \cup Elements(Tail(out'[s]))
  BY <1>2, <1>3, ElementsTail
<1>5. Rest(s) \subseteq Downcall
  BY <1>2, ElementsTyped DEF Rest
<1> QED
  BY <1>2, <1>3, <1>4, <1>5 DEF Calls, Rest, In

\* The registry has changed; the thread goes on to tell the core.
LEMMA ThenOut ==
    ASSUME TypeOK, NEW s \in Sessions, out[s] # <<>>,
           NEW o \in {"refresh", "notify"}, NEW n \in Handles, out' = Then(s, o, n)
    PROVE  /\ out' \in [Sessions -> Seq(Downcall)]
           /\ \A t \in Sessions : t # s => out'[t] = out[t]
           /\ In(s) \in Downcall /\ Rest(s) \subseteq Downcall
           /\ Calls(s) = {In(s)} \cup Rest(s) /\ out'[s] # <<>>
           /\ In(s)' = [op |-> o, net |-> n, link |-> NoLink, nm |-> manager, cbs |-> callbacks]
           /\ Calls(s)' = {In(s)'} \cup Rest(s) /\ Rest(s)' = Rest(s)
<1> DEFINE c == [op |-> o, net |-> n, link |-> NoLink, nm |-> manager, cbs |-> callbacks]
<1>1. out[s] \in Seq(Downcall) /\ out \in [Sessions -> Seq(Downcall)]
  BY DEF TypeOK
<1>2. /\ Tail(out[s]) \in Seq(Downcall) /\ Head(out[s]) \in Downcall
      /\ Elements(out[s]) = {Head(out[s])} \cup Elements(Tail(out[s]))
  BY <1>1, ElementsTail
<1>3. c \in Downcall
  BY DEF TypeOK, Downcall, NoLink, Partial
<1>4. out' = [out EXCEPT ![s] = <<c>> \o Tail(@)]
  BY DEF Then
<1> HIDE DEF c
<1>5. /\ <<c>> \o Tail(out[s]) \in Seq(Downcall) /\ <<c>> \o Tail(out[s]) # <<>>
      /\ Head(<<c>> \o Tail(out[s])) = c /\ Tail(<<c>> \o Tail(out[s])) = Tail(out[s])
      /\ Elements(<<c>> \o Tail(out[s])) = {c} \cup Elements(Tail(out[s]))
  <2> DEFINE q == Tail(out[s])
  <2>1. q \in Seq(Downcall)
    BY <1>2
  <2> HIDE DEF q
  <2>2. /\ <<c>> \o q \in Seq(Downcall) /\ <<c>> \o q # <<>>
        /\ Head(<<c>> \o q) = c /\ Tail(<<c>> \o q) = q
        /\ Elements(<<c>> \o q) = {c} \cup Elements(q)
    BY <2>1, <1>3, ElementsCons
  <2> QED
    BY <2>2 DEF q
<1>6. /\ out' \in [Sessions -> Seq(Downcall)] /\ out'[s] = <<c>> \o Tail(out[s])
      /\ \A t \in Sessions : t # s => out'[t] = out[t]
  BY <1>1, <1>4, <1>5
<1>7. Rest(s) \subseteq Downcall
  BY <1>2, ElementsTyped DEF Rest
<1>8. In(s)' = c /\ Rest(s)' = Rest(s) /\ Calls(s)' = {c} \cup Rest(s) /\ out'[s] # <<>>
  BY <1>5, <1>6 DEF Calls, Rest, In
<1>9. c = [op |-> o, net |-> n, link |-> NoLink, nm |-> manager, cbs |-> callbacks]
  BY DEF c
<1>10. In(s) \in Downcall /\ Calls(s) = {In(s)} \cup Rest(s)
  BY <1>2 DEF In, Calls, Rest
<1> QED
  BY <1>6, <1>7, <1>8, <1>9, <1>10

\* A task of an idle thread has posted the calls q.
LEMMA SetOut ==
    ASSUME TypeOK, NEW s \in Sessions, NEW q \in Seq(Downcall), out' = [out EXCEPT ![s] = q]
    PROVE  /\ out' \in [Sessions -> Seq(Downcall)]
           /\ \A t \in Sessions : t # s => out'[t] = out[t]
           /\ out'[s] = q /\ Calls(s)' = Elements(q)
           /\ q # <<>> => In(s)' \in Elements(q) /\ Rest(s)' \subseteq Elements(q)
<1>1. out' \in [Sessions -> Seq(Downcall)] /\ out'[s] = q /\ \A t \in Sessions : t # s => out'[t] = out[t]
  BY DEF TypeOK
<1>2. q # <<>> => Elements(q) = {Head(q)} \cup Elements(Tail(q))
  BY ElementsTail
<1> QED
  BY <1>1, <1>2 DEF Calls, Rest, In

\* The calls of a thread whose sequence is the same are the same.
LEMMA SameOut ==
    ASSUME NEW t, out'[t] = out[t]
    PROVE  Calls(t)' = Calls(t) /\ Rest(t)' = Rest(t) /\ In(t)' = In(t)
BY DEF Calls, Rest, In

-----------------------------------------------------------------------------
(* What the actions leave alone.                                           *)

LEMMA WorldFrame ==
    ASSUME World
    PROVE  UNCHANGED <<bridgeVars, missed, running, replay, cleanup, trackVars, out, registryVars, coreVars>>
BY DEF World, NetworkUp, BestChange, NetworkDown, LinkChange

LEMMA CoreFrame ==
    ASSUME CoreCreate \/ Initialize \/ CoreStart \/ CoreClose
    PROVE  UNCHANGED <<worldVars, bridgeVars, missed, running, netq, defq, cleanup, trackVars, out, registryVars>>
BY DEF CoreCreate, Initialize, CoreStart, CoreClose, queueVars

\* The bounds are numbers, and the numbers of sessions and cores start at 1.
LEMMA Bounds ==
    /\ MaxSessions \in Nat /\ MaxCores \in Nat
    /\ \A n : n \in Sessions <=> n \in Nat /\ 1 <= n /\ n <= MaxSessions
    /\ \A n : n \in Cores <=> n \in Nat /\ 1 <= n /\ n <= MaxCores
BY BoundsAssumption DEF Sessions, Cores

LEMMA NextSession ==
    ASSUME TypeOK, sessions < MaxSessions
    PROVE  sessions + 1 \in Sessions /\ sessions \in Nat
<1>1. sessions \in Nat
  BY Bounds DEF TypeOK, None
<1> QED
  BY <1>1, Bounds

\* What is said of a network is three events.
LEMMA Announced ==
    ASSUME TypeOK, NEW n \in Networks
    PROVE  /\ Announce(n, link[n]) \in Seq(Event) /\ Len(Announce(n, link[n])) = 3
           /\ Announce(n, link[n])[1] = Ev("available", n, None)
           /\ Announce(n, link[n])[2] = Ev("caps", n, link[n]["caps"])
           /\ Announce(n, link[n])[3] = Ev("props", n, link[n]["props"])
           /\ Elements(Announce(n, link[n])) =
                {Ev("available", n, None), Ev("caps", n, link[n]["caps"]), Ev("props", n, link[n]["props"])}
           /\ link[n]["caps"] \in States /\ link[n]["props"] \in States
<1> DEFINE a == Ev("available", n, None)
           b == Ev("caps", n, link[n]["caps"])
           c == Ev("props", n, link[n]["props"])
<1>1. link[n]["caps"] \in States /\ link[n]["props"] \in States
  BY DEF TypeOK, Link, Half
<1>2. a \in Event /\ b \in Event /\ c \in Event
  BY <1>1 DEF Event, Ev
<1>3. Announce(n, link[n]) = <<a, b, c>>
  BY DEF Announce
<1> HIDE DEF a, b, c
<1>4. <<a, b, c>> \in Seq(Event) /\ Len(<<a, b, c>>) = 3
  BY <1>2
<1>5. <<a, b, c>>[1] = a /\ <<a, b, c>>[2] = b /\ <<a, b, c>>[3] = c
  OBVIOUS
<1>6. Elements(<<a, b, c>>) = {a, b, c}
  <2>1. Len(<<a, b, c>>) = 3 /\ 1 .. 3 = {1, 2, 3}
    OBVIOUS
  <2> QED
    BY <2>1, <1>5 DEF Elements
<1> QED
  BY <1>1, <1>3, <1>4, <1>5, <1>6 DEF a, b, c

\* A queue is appended to, or left alone because nobody listens.
LEMMA ToldQueue ==
    ASSUME NEW q \in [Sessions -> Seq(Event)], NEW e \in Seq(Event)
    PROVE  /\ Told(q, e) \in [Sessions -> Seq(Event)]
           /\ \A s \in Sessions : Told(q, e)[s] = (IF running[s] THEN q[s] \o e ELSE q[s])
<1>1. \A s \in Sessions : q[s] \o e \in Seq(Event)
  BY ElementsConcat
<1> QED
  BY <1>1 DEF Told

\* What a new callback hears is three events for each network that is up.
LEMMA AnnouncedAll ==
    ASSUME TypeOK, NEW order \in SetToSeqs(Up)
    PROVE  /\ order \in Seq(Up) /\ Len(order) = Cardinality(Up) /\ Len(order) \in Nat
           /\ Announcements(order) \in Seq(Event) /\ Len(Announcements(order)) = 3 * Len(order)
           /\ \A k \in 1 .. Len(order) :
                /\ order[k] \in Up
                /\ Announcements(order)[3 * k - 2] = Ev("available", order[k], None)
                /\ Announcements(order)[3 * k - 1] = Ev("caps", order[k], link[order[k]]["caps"])
                /\ Announcements(order)[3 * k] = Ev("props", order[k], link[order[k]]["props"])
           /\ \A i \in 1 .. Len(Announcements(order)) : \E k \in 1 .. Len(order) : i \in {3 * k - 2, 3 * k - 1, 3 * k}
<1>1. IsFiniteSet(Up) /\ Cardinality(Up) \in Nat
  BY NetworksAssumption, FS_Subset, FS_CardinalityType DEF Up
<1>2. order \in Seq(Up) /\ Len(order) = Cardinality(Up) /\ Len(order) \in Nat
  BY <1>1 DEF SetToSeqs
<1> DEFINE N == Len(order)
           F(i) == Announce(order[(i + 2) \div 3], link[order[(i + 2) \div 3]])[((i + 2) % 3) + 1]
<1>3. Announcements(order) = [i \in 1 .. 3 * N |-> F(i)]
  BY DEF Announcements
<1>4. ASSUME NEW i \in 1 .. 3 * N
      PROVE  F(i) \in Event
  <2>1. (i + 2) \div 3 \in 1 .. N /\ ((i + 2) % 3) + 1 \in 1 .. 3
    BY <1>2
  <2>2. order[(i + 2) \div 3] \in Networks
    BY <1>2, <2>1 DEF Up
  <2>3. Announce(order[(i + 2) \div 3], link[order[(i + 2) \div 3]]) \in Seq(Event)
        /\ Len(Announce(order[(i + 2) \div 3], link[order[(i + 2) \div 3]])) = 3
    BY <2>2, Announced
  <2> QED
    BY <2>1, <2>3
<1>5. Announcements(order) \in Seq(Event) /\ Len(Announcements(order)) = 3 * N
  <2> HIDE DEF F
  <2>1. [i \in 1 .. 3 * N |-> F(i)] \in [1 .. 3 * N -> Event] /\ 3 * N \in Nat
    BY <1>2, <1>4
  <2> QED
    BY <1>3, <2>1
<1>6. ASSUME NEW k \in 1 .. N
      PROVE  /\ order[k] \in Up
             /\ Announcements(order)[3 * k - 2] = Ev("available", order[k], None)
             /\ Announcements(order)[3 * k - 1] = Ev("caps", order[k], link[order[k]]["caps"])
             /\ Announcements(order)[3 * k] = Ev("props", order[k], link[order[k]]["props"])
  <2>1. order[k] \in Up /\ order[k] \in Networks
    BY <1>2 DEF Up
  <2>2. /\ 3 * k - 2 \in 1 .. 3 * N /\ 3 * k - 1 \in 1 .. 3 * N /\ 3 * k \in 1 .. 3 * N
        /\ ((3 * k - 2) + 2) \div 3 = k /\ ((3 * k - 2) + 2) % 3 = 0
        /\ ((3 * k - 1) + 2) \div 3 = k /\ ((3 * k - 1) + 2) % 3 = 1
        /\ ((3 * k) + 2) \div 3 = k /\ ((3 * k) + 2) % 3 = 2
    BY <1>2
  <2>3. /\ F(3 * k - 2) = Announce(order[k], link[order[k]])[1]
        /\ F(3 * k - 1) = Announce(order[k], link[order[k]])[2]
        /\ F(3 * k) = Announce(order[k], link[order[k]])[3]
    BY <2>2
  <2> HIDE DEF F
  <2> QED
    BY <1>3, <2>1, <2>2, <2>3, Announced
<1>7. \A i \in 1 .. 3 * N : \E k \in 1 .. N : i \in {3 * k - 2, 3 * k - 1, 3 * k}
  <2> SUFFICES ASSUME NEW i \in 1 .. 3 * N
               PROVE  \E k \in 1 .. N : i \in {3 * k - 2, 3 * k - 1, 3 * k}
    OBVIOUS
  <2>1. (i + 2) \div 3 \in 1 .. N
        /\ i \in {3 * ((i + 2) \div 3) - 2, 3 * ((i + 2) \div 3) - 1, 3 * ((i + 2) \div 3)}
    BY <1>2
  <2> QED
    BY <2>1
<1> QED
  BY <1>2, <1>5, <1>6, <1>7

-----------------------------------------------------------------------------
(* Types.                                                                  *)

LEMMA InCalls ==
    ASSUME TypeOK, NEW s \in Sessions, out[s] # <<>>
    PROVE  In(s) \in Calls(s) /\ In(s) \in Downcall /\ Rest(s) \subseteq Calls(s) /\ Calls(s) = {In(s)} \cup Rest(s)
BY ElementsTail DEF TypeOK, In, Calls, Rest

\* Every element of a finite set is somewhere in each of its orders.
LEMMA Permuted ==
    ASSUME NEW S, IsFiniteSet(S), NEW order \in SetToSeqs(S)
    PROVE  order \in Seq(S) /\ Len(order) = Cardinality(S) /\ Elements(order) = S
<1> DEFINE D == 1 .. Cardinality(S)
<1>1. Cardinality(S) \in Nat
  BY FS_CardinalityType
<1>2. order \in [D -> S] /\ \A i, j \in D : i # j => order[i] # order[j]
  BY DEF SetToSeqs
<1>3. order \in Seq(S) /\ Len(order) = Cardinality(S)
  BY <1>1, <1>2
<1>4. IsFiniteSet(D) /\ Cardinality(D) = Cardinality(S)
  BY <1>1, FS_Interval
<1>5. order \in Injection(D, S)
  BY <1>2 DEF Injection, IsInjective
<1>6. order \in Surjection(D, S)
  BY <1>4, <1>5, FS_Injection
<1> QED
  BY <1>3, <1>6 DEF Surjection, Elements

\* A replay posts an update for every network known in full, and the default if it is
\* known.
LEMMA Replayed ==
    ASSUME TypeOK, NEW s \in Sessions, HandleReplay(s)
    PROVE  \E q \in Seq(Downcall) :
             /\ out' = [out EXCEPT ![s] = q]
             /\ Elements(q) =
                  {Call("update", n, tracked[s][n]) : n \in Ready(s)}
                    \cup (IF dnet[s] # NoNet /\ dseed[s]["props"] # None
                          THEN {Call("default", dnet[s], NoLink)} ELSE {})
<1> DEFINE again == {Call("update", n, tracked[s][n]) : n \in Ready(s)}
           known == dnet[s] # NoNet /\ dseed[s]["props"] # None
           last == IF known THEN <<Call("default", dnet[s], NoLink)>> ELSE <<>>
<1>1. PICK order \in SetToSeqs(again) : out' = [out EXCEPT ![s] = order \o last]
  BY DEF HandleReplay
<1>2. again \subseteq Downcall
  BY DEF Ready, Call, Downcall, Handles, TypeOK
<1>3. Call("default", dnet[s], NoLink) \in Downcall
  BY DEF Call, Downcall, NoLink, Partial, TypeOK
<1>4. IsFiniteSet(Ready(s))
  BY NetworksAssumption, FS_Subset DEF Ready
<1>5. IsFiniteSet(again)
  <2> DEFINE f == [n \in Ready(s) |-> Call("update", n, tracked[s][n])]
  <2>1. f \in Surjection(Ready(s), again)
    BY DEF Surjection
  <2> QED
    BY <1>4, <2>1, FS_Surjection
<1>6. Cardinality(again) \in Nat
  BY <1>5, FS_CardinalityType
<1>7. order \in Seq(again) /\ Elements(order) = again
  BY <1>5, Permuted
<1> HIDE DEF again, known
<1>8. order \in Seq(Downcall)
  BY <1>2, <1>7
<1>9. last \in Seq(Downcall)
  BY <1>3
<1>10. Elements(last) = (IF known THEN {Call("default", dnet[s], NoLink)} ELSE {})
  BY ElementsShort
<1> HIDE DEF last
<1>11. order \o last \in Seq(Downcall) /\ Elements(order \o last) = again \cup Elements(last)
  BY <1>7, <1>8, <1>9, ElementsConcat
<1>12. \E q \in Seq(Downcall) : out' = [out EXCEPT ![s] = q] /\ Elements(q) = again \cup Elements(last)
  BY <1>1, <1>11
<1> QED
  BY <1>10, <1>12 DEF again, known

\* What one element of a family of families becomes.
LEMMA Nested ==
    ASSUME NEW S, NEW T, NEW V, NEW f \in [S -> [T -> V]], NEW s \in S, NEW n \in T, NEW v \in V
    PROVE  /\ [f EXCEPT ![s][n] = v] \in [S -> [T -> V]]
           /\ [f EXCEPT ![s][n] = v][s][n] = v
           /\ \A m \in T : m # n => [f EXCEPT ![s][n] = v][s][m] = f[s][m]
           /\ \A r \in S : r # s => [f EXCEPT ![s][n] = v][r] = f[r]
OBVIOUS

\* What a thread makes of the next event of its network callback.
LEMMA NetworkEffect ==
    ASSUME TypeOK, NEW s \in Sessions, HandleNetwork(s)
    PROVE  LET e == Head(netq[s])
               t == tracked'[s][e.net]
           IN  /\ running[s] /\ out[s] = <<>> /\ netq[s] # <<>> /\ e \in Event /\ e.net \in Networks
               /\ netq' \in [Sessions -> Seq(Event)] /\ netq'[s] = Tail(netq[s])
               /\ tracked' \in [Sessions -> [Networks -> Partial]]
               /\ sent' \in [Sessions -> [Networks -> Link \cup {NoLink}]]
               /\ out' \in [Sessions -> Seq(Downcall)]
               /\ \A r \in Sessions : r # s =>
                    tracked'[r] = tracked[r] /\ sent'[r] = sent[r] /\ out'[r] = out[r] /\ netq'[r] = netq[r]
               /\ \A n \in Networks : n # e.net => tracked'[s][n] = tracked[s][n] /\ sent'[s][n] = sent[s][n]
               /\ \/ /\ e.kind = "available" /\ t = tracked[s][e.net]
                     /\ sent'[s][e.net] = sent[s][e.net] /\ out'[s] = <<>>
                  \/ /\ e.kind \in Half /\ t = [tracked[s][e.net] EXCEPT ![e.kind] = e.state]
                     /\ \/ /\ Complete(t) /\ t # sent[s][e.net]
                           /\ sent'[s][e.net] = t /\ out'[s] = <<Call("update", e.net, t)>>
                        \/ /\ ~(Complete(t) /\ t # sent[s][e.net])
                           /\ sent'[s][e.net] = sent[s][e.net] /\ out'[s] = <<>>
                  \/ /\ e.kind = "lost" /\ t = NoLink /\ sent'[s][e.net] = NoLink
                     /\ \/ sent[s][e.net] # NoLink /\ out'[s] = <<Call("lost", e.net, NoLink)>>
                        \/ sent[s][e.net] = NoLink /\ out'[s] = <<>>
<1> DEFINE e == Head(netq[s])
           n == e.net
<1>1. /\ running[s] /\ out[s] = <<>> /\ netq[s] # <<>>
      /\ netq \in [Sessions -> Seq(Event)] /\ netq' = [netq EXCEPT ![s] = Tail(netq[s])]
  BY DEF TypeOK, HandleNetwork, Idle
<1>2. e \in Event /\ Tail(netq[s]) \in Seq(Event)
  BY <1>1, ElementsTail
<1>3. n \in Networks /\ e.state \in States \cup {None}
  BY <1>2 DEF Event
<1>4. /\ netq' \in [Sessions -> Seq(Event)] /\ netq'[s] = Tail(netq[s])
      /\ \A r \in Sessions : r # s => netq'[r] = netq[r]
  BY <1>1, <1>2
<1>5. /\ tracked \in [Sessions -> [Networks -> Partial]]
      /\ sent \in [Sessions -> [Networks -> Link \cup {NoLink}]]
      /\ out \in [Sessions -> Seq(Downcall)]
      /\ <<>> \in Seq(Downcall) /\ NoLink \in Partial
  BY DEF TypeOK, NoLink, Partial
<1>6. CASE NetAvailable(s)
  BY <1>1, <1>2, <1>3, <1>4, <1>5, <1>6 DEF NetAvailable
<1>7. CASE NetChanged(s)
  <2> DEFINE t == [tracked[s][n] EXCEPT ![e.kind] = e.state]
             emit == Complete(t) /\ t # sent[s][n]
  <2>1. e.kind \in Half
    BY <1>7 DEF NetChanged
  <2>2. t \in Partial
    BY <1>3, <1>5, <2>1 DEF Partial
  <2>3. Complete(t) => t \in Link
    BY <2>2 DEF Complete, Partial, Link
  <2>4. <<Call("update", n, t)>> \in Seq(Downcall)
    <3>1. Call("update", n, t) \in Downcall
      BY <1>3, <2>2 DEF Call, Downcall, Handles
    <3> QED
      BY <3>1
  <2>5. tracked' = [tracked EXCEPT ![s][n] = t]
    BY <1>7 DEF NetChanged
  <2>6. tracked' \in [Sessions -> [Networks -> Partial]] /\ tracked'[s][n] = t
        /\ (\A m \in Networks : m # n => tracked'[s][m] = tracked[s][m])
        /\ \A r \in Sessions : r # s => tracked'[r] = tracked[r]
    <3> HIDE DEF t, n
    <3> QED
      BY <1>3, <1>5, <2>2, <2>5, Nested, SMTT(20)
  <2>7. CASE emit
    <3>1. sent' = [sent EXCEPT ![s][n] = t]
      BY <1>7, <2>7 DEF NetChanged
    <3>2. out' = [out EXCEPT ![s] = <<Call("update", n, t)>>]
      BY <1>7, <2>7 DEF NetChanged
    <3>3. sent' \in [Sessions -> [Networks -> Link \cup {NoLink}]] /\ sent'[s][n] = t
          /\ (\A m \in Networks : m # n => sent'[s][m] = sent[s][m])
          /\ \A r \in Sessions : r # s => sent'[r] = sent[r]
      <4>1. t \in Link \cup {NoLink}
        BY <2>3, <2>7
      <4> HIDE DEF t, n
      <4> QED
        BY <1>3, <1>5, <3>1, <4>1, Nested
    <3>4. /\ out' \in [Sessions -> Seq(Downcall)] /\ out'[s] = <<Call("update", n, t)>>
          /\ \A r \in Sessions : r # s => out'[r] = out[r]
      BY <1>5, <2>4, <3>2
    <3>5. Complete(t) /\ t # sent[s][n]
      BY <2>7
    <3> HIDE DEF t, e
    <3> QED
      BY <1>1, <1>2, <1>3, <1>4, <2>1, <2>6, <3>3, <3>4, <3>5 DEF t, e
  <2>8. CASE ~emit
    <3>1. sent' = [sent EXCEPT ![s][n] = @]
      BY <1>7, <2>8 DEF NetChanged
    <3>2. out' = [out EXCEPT ![s] = <<>>]
      BY <1>7, <2>8 DEF NetChanged
    <3>3. sent' \in [Sessions -> [Networks -> Link \cup {NoLink}]] /\ sent' = sent
      BY <1>3, <1>5, <3>1
    <3>4. /\ out' \in [Sessions -> Seq(Downcall)] /\ out'[s] = <<>>
          /\ \A r \in Sessions : r # s => out'[r] = out[r]
      BY <1>5, <3>2
    <3>5. ~(Complete(t) /\ t # sent[s][n])
      BY <2>8
    <3> QED
      BY <1>1, <1>2, <1>3, <1>4, <2>1, <2>6, <3>3, <3>4, <3>5
  <2> QED
    BY <2>7, <2>8
<1>8. CASE NetLost(s)
  <2>1. <<Call("lost", n, NoLink)>> \in Seq(Downcall)
    <3>1. Call("lost", n, NoLink) \in Downcall
      BY <1>3, <1>5 DEF Call, Downcall, Handles
    <3> QED
      BY <3>1
  <2>2. tracked' = [tracked EXCEPT ![s][n] = NoLink] /\ sent' = [sent EXCEPT ![s][n] = NoLink] /\ e.kind = "lost"
    BY <1>8 DEF NetLost
  <2>3. tracked' \in [Sessions -> [Networks -> Partial]] /\ tracked'[s][n] = NoLink
        /\ (\A m \in Networks : m # n => tracked'[s][m] = tracked[s][m])
        /\ \A r \in Sessions : r # s => tracked'[r] = tracked[r]
    <3> HIDE DEF n
    <3> QED
      BY <1>3, <1>5, <2>2, Nested
  <2>4. sent' \in [Sessions -> [Networks -> Link \cup {NoLink}]] /\ sent'[s][n] = NoLink
        /\ (\A m \in Networks : m # n => sent'[s][m] = sent[s][m])
        /\ \A r \in Sessions : r # s => sent'[r] = sent[r]
    <3>1. NoLink \in Link \cup {NoLink}
      OBVIOUS
    <3> HIDE DEF n
    <3> QED
      BY <1>3, <1>5, <2>2, <3>1, Nested
  <2>5. PICK q \in {<<Call("lost", n, NoLink)>>, <<>>} :
          /\ out' = [out EXCEPT ![s] = q]
          /\ q = (IF sent[s][n] # NoLink THEN <<Call("lost", n, NoLink)>> ELSE <<>>)
    BY <1>8 DEF NetLost
  <2>6. /\ out' \in [Sessions -> Seq(Downcall)] /\ out'[s] = q
        /\ \A r \in Sessions : r # s => out'[r] = out[r]
    BY <1>5, <2>1, <2>5
  <2>7. \/ sent[s][n] # NoLink /\ out'[s] = <<Call("lost", n, NoLink)>>
        \/ sent[s][n] = NoLink /\ out'[s] = <<>>
    BY <2>5, <2>6
  <2> QED
    BY <1>1, <1>2, <1>3, <1>4, <2>2, <2>3, <2>4, <2>6, <2>7
<1> QED
  BY <1>6, <1>7, <1>8 DEF HandleNetwork

\* The default n with the halves p has been reported, or need not be.
Emitted(s, n, p) ==
    LET emit == p["props"] # None /\ <<n, p["caps"]>> # dsent[s] IN
    \/ emit /\ dsent'[s] = <<n, p["caps"]>> /\ out'[s] = <<Call("default", n, NoLink)>>
    \/ ~emit /\ dsent'[s] = dsent[s] /\ out'[s] = <<>>

LEMMA Emission ==
    ASSUME TypeOK, NEW s \in Sessions, NEW n \in Handles, NEW p \in Partial, EmitDefault(s, n, p)
    PROVE  /\ dsent' \in [Sessions -> (Handles \X (States \cup {None})) \cup {<<>>}]
           /\ out' \in [Sessions -> Seq(Downcall)]
           /\ \A r \in Sessions : r # s => dsent'[r] = dsent[r] /\ out'[r] = out[r]
           /\ Emitted(s, n, p)
<1> DEFINE emit == p["props"] # None /\ <<n, p["caps"]>> # dsent[s]
           d == <<n, p["caps"]>>
<1>1. /\ dsent \in [Sessions -> (Handles \X (States \cup {None})) \cup {<<>>}]
      /\ out \in [Sessions -> Seq(Downcall)] /\ <<>> \in Seq(Downcall)
  BY DEF TypeOK
<1>2. <<Call("default", n, NoLink)>> \in Seq(Downcall)
  <2>1. Call("default", n, NoLink) \in Downcall
    BY DEF Call, Downcall, NoLink, Partial
  <2> QED
    BY <2>1
<1>3. d \in Handles \X (States \cup {None})
  BY DEF Partial, Half
<1>4. CASE emit
  <2>1. dsent' = [dsent EXCEPT ![s] = d] /\ out' = [out EXCEPT ![s] = <<Call("default", n, NoLink)>>]
    BY <1>4 DEF EmitDefault
  <2> HIDE DEF d
  <2>2. /\ dsent' \in [Sessions -> (Handles \X (States \cup {None})) \cup {<<>>}]
        /\ dsent'[s] = d /\ \A r \in Sessions : r # s => dsent'[r] = dsent[r]
    BY <1>1, <1>3, <2>1
  <2>3. /\ out' \in [Sessions -> Seq(Downcall)] /\ out'[s] = <<Call("default", n, NoLink)>>
        /\ \A r \in Sessions : r # s => out'[r] = out[r]
    BY <1>1, <1>2, <2>1
  <2> QED
    BY <1>4, <2>2, <2>3 DEF Emitted, d
<1>5. CASE ~emit
  <2>1. dsent' = [dsent EXCEPT ![s] = @] /\ out' = [out EXCEPT ![s] = <<>>]
    BY <1>5 DEF EmitDefault
  <2>2. dsent' = dsent
    BY <1>1, <2>1
  <2>3. /\ out' \in [Sessions -> Seq(Downcall)] /\ out'[s] = <<>>
        /\ \A r \in Sessions : r # s => out'[r] = out[r]
    BY <1>1, <2>1
  <2> QED
    BY <1>1, <1>5, <2>2, <2>3 DEF Emitted
<1> QED
  BY <1>4, <1>5

\* What a thread makes of the next event of its default callback.
LEMMA DefaultEffect ==
    ASSUME TypeOK, NEW s \in Sessions, HandleDefault(s)
    PROVE  LET e == Head(defq[s]) IN
           /\ running[s] /\ out[s] = <<>> /\ defq[s] # <<>> /\ e \in Event /\ e.net \in Networks
           /\ defq' \in [Sessions -> Seq(Event)] /\ defq'[s] = Tail(defq[s])
           /\ dnet' \in [Sessions -> Handles] /\ dseed' \in [Sessions -> Partial]
           /\ dsent' \in [Sessions -> (Handles \X (States \cup {None})) \cup {<<>>}]
           /\ out' \in [Sessions -> Seq(Downcall)]
           /\ \A r \in Sessions : r # s =>
                /\ dnet'[r] = dnet[r] /\ dseed'[r] = dseed[r] /\ dsent'[r] = dsent[r]
                /\ out'[r] = out[r] /\ defq'[r] = defq[r]
           /\ \/ /\ e.kind = "available" /\ dnet'[s] = e.net
                 /\ dseed'[s] = (IF net[e.net] = "up" THEN link[e.net] ELSE NoLink)
                 /\ Emitted(s, dnet'[s], dseed'[s])
              \/ /\ e.kind \in Half /\ e.net = dnet[s] /\ dnet'[s] = dnet[s]
                 /\ dseed'[s] = [dseed[s] EXCEPT ![e.kind] = e.state]
                 /\ Emitted(s, dnet'[s], dseed'[s])
              \/ /\ e.kind = "lost" /\ e.net = dnet[s]
                 /\ dnet'[s] = NoNet /\ dseed'[s] = NoLink /\ dsent'[s] = <<NoNet, None>>
                 /\ \/ dsent[s] # <<NoNet, None>> /\ out'[s] = <<Call("default", NoNet, NoLink)>>
                    \/ dsent[s] = <<NoNet, None>> /\ out'[s] = <<>>
              \/ /\ e.kind # "available" /\ e.net # dnet[s]
                 /\ dnet'[s] = dnet[s] /\ dseed'[s] = dseed[s] /\ dsent'[s] = dsent[s] /\ out'[s] = <<>>
<1> DEFINE e == Head(defq[s])
<1>1. /\ running[s] /\ out[s] = <<>> /\ defq[s] # <<>>
      /\ defq \in [Sessions -> Seq(Event)] /\ defq' = [defq EXCEPT ![s] = Tail(defq[s])]
  BY DEF TypeOK, HandleDefault, Idle
<1>2. e \in Event /\ Tail(defq[s]) \in Seq(Event)
  BY <1>1, ElementsTail
<1>3. e.net \in Networks /\ e.net \in Handles /\ e.state \in States \cup {None} /\ NoNet \in Handles
  BY <1>2 DEF Event, Handles
<1>4. /\ defq' \in [Sessions -> Seq(Event)] /\ defq'[s] = Tail(defq[s])
      /\ \A r \in Sessions : r # s => defq'[r] = defq[r]
  BY <1>1, <1>2
<1>5. /\ dnet \in [Sessions -> Handles] /\ dseed \in [Sessions -> Partial]
      /\ dsent \in [Sessions -> (Handles \X (States \cup {None})) \cup {<<>>}]
      /\ out \in [Sessions -> Seq(Downcall)] /\ <<>> \in Seq(Downcall)
      /\ NoLink \in Partial /\ Link \subseteq Partial /\ link \in [Networks -> Link]
  BY DEF TypeOK, NoLink, Partial, Link
<1>6. CASE DefaultAvailable(s)
  <2> DEFINE seed == IF net[e.net] = "up" THEN link[e.net] ELSE NoLink
  <2>1. /\ e.kind = "available" /\ dnet' = [dnet EXCEPT ![s] = e.net]
        /\ dseed' = [dseed EXCEPT ![s] = seed] /\ EmitDefault(s, e.net, seed)
    BY <1>6 DEF DefaultAvailable
  <2>2. seed \in Partial
    BY <1>3, <1>5
  <2> HIDE DEF seed, e
  <2>3. /\ dnet' \in [Sessions -> Handles] /\ dnet'[s] = e.net
        /\ \A r \in Sessions : r # s => dnet'[r] = dnet[r]
    BY <1>3, <1>5, <2>1
  <2>4. /\ dseed' \in [Sessions -> Partial] /\ dseed'[s] = seed
        /\ \A r \in Sessions : r # s => dseed'[r] = dseed[r]
    BY <1>5, <2>1, <2>2
  <2>5. /\ dsent' \in [Sessions -> (Handles \X (States \cup {None})) \cup {<<>>}]
        /\ out' \in [Sessions -> Seq(Downcall)]
        /\ \A r \in Sessions : r # s => dsent'[r] = dsent[r] /\ out'[r] = out[r]
        /\ Emitted(s, e.net, seed)
    BY <1>3, <2>1, <2>2, Emission
  <2> QED
    BY <1>1, <1>2, <1>3, <1>4, <2>1, <2>3, <2>4, <2>5 DEF seed, e
<1>7. CASE DefaultChanged(s) /\ e.net = dnet[s]
  <2> DEFINE p == [dseed[s] EXCEPT ![e.kind] = e.state]
  <2>1. e.kind \in Half /\ dnet' = dnet /\ dseed' = [dseed EXCEPT ![s] = p] /\ EmitDefault(s, e.net, p)
    BY <1>7 DEF DefaultChanged
  <2>2. p \in Partial
    BY <1>3, <1>5, <2>1 DEF Partial
  <2> HIDE DEF p
  <2>3. /\ dseed' \in [Sessions -> Partial] /\ dseed'[s] = p
        /\ \A r \in Sessions : r # s => dseed'[r] = dseed[r]
    BY <1>5, <2>1, <2>2
  <2>4. /\ dsent' \in [Sessions -> (Handles \X (States \cup {None})) \cup {<<>>}]
        /\ out' \in [Sessions -> Seq(Downcall)]
        /\ \A r \in Sessions : r # s => dsent'[r] = dsent[r] /\ out'[r] = out[r]
        /\ Emitted(s, e.net, p)
    BY <1>3, <2>1, <2>2, Emission
  <2> QED
    BY <1>1, <1>2, <1>3, <1>4, <1>5, <1>7, <2>1, <2>3, <2>4 DEF p
<1>8. CASE DefaultLost(s) /\ e.net = dnet[s]
  <2>1. e.kind = "lost" /\ dnet' = [dnet EXCEPT ![s] = NoNet] /\ dseed' = [dseed EXCEPT ![s] = NoLink]
        /\ dsent' = [dsent EXCEPT ![s] = <<NoNet, None>>]
    BY <1>8 DEF DefaultLost
  <2>2. PICK q \in {<<Call("default", NoNet, NoLink)>>, <<>>} :
          /\ out' = [out EXCEPT ![s] = q]
          /\ \/ dsent[s] # <<NoNet, None>> /\ q = <<Call("default", NoNet, NoLink)>>
             \/ dsent[s] = <<NoNet, None>> /\ q = <<>>
    <3>1. CASE dsent[s] # <<NoNet, None>>
      BY <1>8, <3>1 DEF DefaultLost
    <3>2. CASE dsent[s] = <<NoNet, None>>
      BY <1>8, <3>2 DEF DefaultLost
    <3> QED
      BY <3>1, <3>2
  <2>3. <<Call("default", NoNet, NoLink)>> \in Seq(Downcall)
    <3>1. Call("default", NoNet, NoLink) \in Downcall
      BY <1>3 DEF Call, Downcall, NoLink, Partial
    <3> QED
      BY <3>1
  <2>4. /\ out' \in [Sessions -> Seq(Downcall)] /\ out'[s] = q
        /\ \A r \in Sessions : r # s => out'[r] = out[r]
    BY <1>5, <2>2, <2>3
  <2>5. <<NoNet, None>> \in Handles \X (States \cup {None})
    BY <1>3
  <2>6. /\ dsent' \in [Sessions -> (Handles \X (States \cup {None})) \cup {<<>>}]
        /\ dsent'[s] = <<NoNet, None>> /\ \A r \in Sessions : r # s => dsent'[r] = dsent[r]
    BY <1>5, <2>1, <2>5
  <2>7. /\ dnet' \in [Sessions -> Handles] /\ dnet'[s] = NoNet
        /\ \A r \in Sessions : r # s => dnet'[r] = dnet[r]
    BY <1>3, <1>5, <2>1
  <2>8. /\ dseed' \in [Sessions -> Partial] /\ dseed'[s] = NoLink
        /\ \A r \in Sessions : r # s => dseed'[r] = dseed[r]
    BY <1>5, <2>1
  <2>9. \/ dsent[s] # <<NoNet, None>> /\ out'[s] = <<Call("default", NoNet, NoLink)>>
        \/ dsent[s] = <<NoNet, None>> /\ out'[s] = <<>>
    BY <2>2, <2>4
  <2> HIDE DEF e
  <2> QED
    BY <1>1, <1>2, <1>3, <1>4, <1>8, <2>1, <2>4, <2>6, <2>7, <2>8, <2>9 DEF e
<1>9. CASE (DefaultChanged(s) \/ DefaultLost(s)) /\ e.net # dnet[s]
  <2>1. e.kind # "available" /\ UNCHANGED <<dnet, dseed, dsent, out>>
    BY <1>9 DEF DefaultChanged, DefaultLost, Half
  <2> QED
    BY <1>1, <1>2, <1>3, <1>4, <1>5, <1>9, <2>1
<1> QED
  BY <1>6, <1>7, <1>8, <1>9 DEF HandleDefault

\* Every action keeps the variables in their types.
LEMMA TypeKept == ASSUME TypeOK, OutInv, [Next]_vars PROVE TypeOK'
<1> USE DEF TypeOK, worldVars, bridgeVars, queueVars, trackVars, registryVars, listenerVars, coreVars
<1>1. ASSUME NEW n \in Networks, NetworkUp(n) PROVE TypeOK'
  <2>1. netq' \in [Sessions -> Seq(Event)]
    BY <1>1, Announced, ToldQueue DEF NetworkUp
  <2> QED
    BY <1>1, <2>1 DEF NetworkUp
<1>2. ASSUME NEW n \in Networks, BestChange(n) PROVE TypeOK'
  <2>1. defq' \in [Sessions -> Seq(Event)]
    BY <1>2, Announced, ToldQueue DEF BestChange
  <2> QED
    BY <1>2, <2>1 DEF BestChange, Handles
<1>3. ASSUME NEW n \in Networks, NetworkDown(n) PROVE TypeOK'
  <2>1. <<Ev("lost", n, None)>> \in Seq(Event) /\ <<>> \in Seq(Event)
    <3>1. Ev("lost", n, None) \in Event
      BY DEF Ev, Event
    <3> QED
      BY <3>1
  <2>2. netq' \in [Sessions -> Seq(Event)]
    BY <1>3, <2>1, ToldQueue DEF NetworkDown
  <2>3. best' \in Handles /\ defq' \in [Sessions -> Seq(Event)]
    <3>1. CASE best # n
      BY <1>3, <3>1 DEF NetworkDown
    <3>2. CASE best = n /\ best' = NoNet /\ defq' = Told(defq, <<Ev("lost", n, None)>>)
      BY <3>2, <2>1, ToldQueue DEF Handles
    <3>3. ASSUME NEW m \in Up, best' = m, NEW late \in {<<>>, <<Ev("lost", n, None)>>},
                 defq' = Told(defq, Announce(m, link[m]) \o late)
          PROVE  best' \in Handles /\ defq' \in [Sessions -> Seq(Event)]
      <4>1. m \in Networks /\ late \in Seq(Event)
        BY <2>1 DEF Up
      <4>2. Announce(m, link[m]) \o late \in Seq(Event)
        BY <4>1, Announced, ElementsConcat
      <4> QED
        BY <3>3, <4>1, <4>2, ToldQueue DEF Handles
    <3> QED
      BY <1>3, <3>1, <3>2, <3>3 DEF NetworkDown
  <2> QED
    BY <1>3, <2>2, <2>3 DEF NetworkDown
<1>4. ASSUME NEW n \in Networks, NEW h \in Half, LinkChange(n, h) PROVE TypeOK'
  <2>1. <<Ev(h, n, 2)>> \in Seq(Event)
    <3>1. Ev(h, n, 2) \in Event
      BY DEF Ev, Event, States, Half
    <3> QED
      BY <3>1
  <2>2. netq' \in [Sessions -> Seq(Event)] /\ defq' \in [Sessions -> Seq(Event)]
    BY <1>4, <2>1, ToldQueue DEF LinkChange
  <2>3. link' \in [Networks -> Link]
    BY <1>4 DEF LinkChange, Link, States
  <2> QED
    BY <1>4, <2>2, <2>3 DEF LinkChange
<1>5. ASSUME startMonitor, monitor # None PROVE TypeOK'
  BY <1>5 DEF startMonitor, ensureEngineBound, setPlatform
<1>6. ASSUME startMonitor, monitor = None PROVE TypeOK'
  <2>1. sessions + 1 \in Sessions
    BY <1>6, NextSession DEF startMonitor, NewMonitor
  <2>2. PICK order \in SetToSeqs(Up) : netq' = [netq EXCEPT ![sessions + 1] = Announcements(order)]
    BY <1>6 DEF startMonitor, NewMonitor
  <2>3. netq' \in [Sessions -> Seq(Event)]
    BY <2>1, <2>2, AnnouncedAll
  <2>4. <<>> \in Seq(Event) /\ (best # NoNet => best \in Networks)
    BY DEF Handles
  <2>5. defq' \in [Sessions -> Seq(Event)]
    <3> DEFINE a == IF best = NoNet THEN <<>> ELSE Announce(best, link[best])
    <3>1. a \in Seq(Event)
      BY <2>4, Announced
    <3>2. defq' = [defq EXCEPT ![sessions + 1] = a]
      BY <1>6 DEF startMonitor, NewMonitor
    <3> HIDE DEF a
    <3> QED
      BY <2>1, <3>1, <3>2
  <2>6. running' \in [Sessions -> BOOLEAN] /\ bound' \in BOOLEAN
    BY <1>6, <2>1 DEF startMonitor, NewMonitor, ensureEngineBound, setPlatform
  <2> QED
    BY <1>6, <2>1, <2>3, <2>5, <2>6 DEF startMonitor, NewMonitor
<1>7. CASE stopMonitor
  <2>1. <<>> \in Seq(Event)
    OBVIOUS
  <2> QED
    BY <1>7, <2>1 DEF stopMonitor
<1>8. ASSUME NEW s \in Sessions, HandleNetwork(s) PROVE TypeOK'
  <2>1. netq' \in [Sessions -> Seq(Event)] /\ tracked' \in [Sessions -> [Networks -> Partial]]
        /\ sent' \in [Sessions -> [Networks -> Link \cup {NoLink}]] /\ out' \in [Sessions -> Seq(Downcall)]
    BY <1>8, NetworkEffect
  <2> QED
    BY <1>8, <2>1 DEF HandleNetwork
<1>9. ASSUME NEW s \in Sessions, HandleDefault(s) PROVE TypeOK'
  <2>1. /\ defq' \in [Sessions -> Seq(Event)] /\ dnet' \in [Sessions -> Handles]
        /\ dseed' \in [Sessions -> Partial]
        /\ dsent' \in [Sessions -> (Handles \X (States \cup {None})) \cup {<<>>}]
        /\ out' \in [Sessions -> Seq(Downcall)]
    BY <1>9, DefaultEffect
  <2> QED
    BY <1>9, <2>1 DEF HandleDefault
<1>10. ASSUME NEW s \in Sessions, HandleReplay(s) PROVE TypeOK'
  <2>1. PICK q \in Seq(Downcall) : out' = [out EXCEPT ![s] = q]
    BY <1>10, Replayed
  <2>2. out' \in [Sessions -> Seq(Downcall)]
    BY <2>1
  <2>3. \A n \in Ready(s) : tracked[s][n] \in Link
    BY DEF Ready, Complete, Partial, Link
  <2>4. sent' \in [Sessions -> [Networks -> Link \cup {NoLink}]]
    BY <1>10, <2>3 DEF HandleReplay
  <2>5. <<dnet[s], dseed[s]["caps"]>> \in Handles \X (States \cup {None})
    BY DEF Partial, Half
  <2>6. dsent' \in [Sessions -> (Handles \X (States \cup {None})) \cup {<<>>}]
    BY <1>10, <2>5 DEF HandleReplay
  <2> QED
    BY <1>10, <2>2, <2>4, <2>6 DEF HandleReplay
<1>11. ASSUME NEW s \in Sessions, HandleCleanup(s) PROVE TypeOK'
  <2>1. Call("reset", NoNet, NoLink) \in Downcall /\ NoLink \in Partial /\ NoNet \in Handles
    BY DEF Call, Downcall, NoLink, Partial, Handles
  <2>2. out' \in [Sessions -> Seq(Downcall)]
    BY <1>11, <2>1 DEF HandleCleanup
  <2>3. tracked' \in [Sessions -> [Networks -> Partial]]
    BY <1>11, <2>1 DEF HandleCleanup
  <2>4. dnet' \in [Sessions -> Handles] /\ dseed' \in [Sessions -> Partial]
    BY <1>11, <2>1 DEF HandleCleanup
  <2>5. dsent' \in [Sessions -> (Handles \X (States \cup {None})) \cup {<<>>}]
    BY <1>11 DEF HandleCleanup
  <2> QED
    BY <1>11, <2>2, <2>3, <2>4, <2>5 DEF HandleCleanup
<1>12. ASSUME NEW s \in Sessions, Drop(s) PROVE TypeOK'
  <2>1. out' \in [Sessions -> Seq(Downcall)]
    BY <1>12, TailOut DEF Drop
  <2> QED
    BY <1>12, <2>1 DEF Drop
<1>13. ASSUME NEW s \in Sessions, Update(s) PROVE TypeOK'
  <2>1. out[s] # <<>> /\ In(s) \in Calls(s)
    BY <1>13, InCalls DEF Update
  <2>2. In(s).net \in Networks /\ In(s).link \in Link
    BY <1>13, <2>1 DEF Update, OutInv, OutOf, In
  <2>3. out' \in [Sessions -> Seq(Downcall)]
    BY <1>13, <2>1, ThenOut DEF Update, Handles
  <2>4. ifaces' \in [Networks -> Link \cup {NoLink}]
    BY <1>13, <2>2 DEF Update, In
  <2> QED
    BY <1>13, <2>3, <2>4 DEF Update
<1>14. ASSUME NEW s \in Sessions, Lost(s) PROVE TypeOK'
  <2>1. out[s] # <<>> /\ In(s) \in Calls(s)
    BY <1>14, InCalls DEF Lost
  <2>2. In(s).net \in Networks
    BY <1>14, <2>1 DEF Lost, OutInv, OutOf, In
  <2>3. out' \in [Sessions -> Seq(Downcall)]
    BY <1>14, <2>1, ThenOut, TailOut DEF Lost, Handles
  <2>4. ifaces' \in [Networks -> Link \cup {NoLink}]
    BY <1>14, <2>2 DEF Lost, In
  <2> QED
    BY <1>14, <2>3, <2>4 DEF Lost
<1>15. ASSUME NEW s \in Sessions, SetDefault(s) PROVE TypeOK'
  <2>1. out[s] # <<>> /\ In(s) \in Calls(s)
    BY <1>15, InCalls DEF SetDefault
  <2>2. In(s).net \in Handles
    BY <2>1, InCalls DEF Downcall
  <2>3. out' \in [Sessions -> Seq(Downcall)]
    BY <1>15, <2>1, <2>2, ThenOut DEF SetDefault, In
  <2> QED
    BY <1>15, <2>2, <2>3 DEF SetDefault, In
<1>16. ASSUME NEW s \in Sessions, Reset(s) PROVE TypeOK'
  <2>1. NoNet \in Handles
    BY DEF Handles
  <2>2. out' \in [Sessions -> Seq(Downcall)]
    BY <1>16, <2>1, ThenOut DEF Reset
  <2> QED
    BY <1>16, <2>1, <2>2 DEF Reset
<1>17. ASSUME NEW s \in Sessions, Notify(s) PROVE TypeOK'
  <2>1. out' \in [Sessions -> Seq(Downcall)]
    BY <1>17, TailOut DEF Notify
  <2>2. Head(out[s]).net \in Handles
    BY <1>17, InCalls DEF Notify, In, Downcall
  <2>3. coreIfaces' \in [Networks -> Link \cup {NoLink}] /\ coreDefault' \in Handles
    BY <1>17, <2>2 DEF Notify, interfaces
  <2> QED
    BY <1>17, <2>1, <2>3 DEF Notify
<1>18. CASE CoreCreate
  <2>1. cores + 1 \in Cores
    <3>1. cores \in Nat
      BY Bounds DEF TypeOK, None
    <3> QED
      BY <1>18, <3>1, BoundsAssumption DEF CoreCreate, Cores
  <2> QED
    BY <1>18, <2>1 DEF CoreCreate, registerCallback
<1>19. CASE Initialize
  BY <1>19 DEF Initialize, setNetworkManager
<1>20. CASE CoreStart
  BY <1>20 DEF CoreStart, requestReplay
<1>21. CASE CoreClose
  <2>1. coreIfaces' \in [Networks -> Link \cup {NoLink}] /\ coreDefault' \in Handles
    BY <1>21 DEF CoreClose, Handles
  <2> QED
    BY <1>21, <2>1 DEF CoreClose, unregisterCallback
<1>22. CASE UNCHANGED vars
  BY <1>22 DEF vars
<1> QED
  BY <1>1, <1>2, <1>3, <1>4, <1>5, <1>6, <1>7, <1>8, <1>9, <1>10,
     <1>11, <1>12, <1>13, <1>14, <1>15, <1>16, <1>17, <1>18, <1>19, <1>20,
     <1>21, <1>22
  DEF Next, Thread, World

\* The calls of a thread that has one call, or none.
LEMMA FewCalls ==
    ASSUME NEW s
    PROVE  /\ out'[s] = <<>> => Calls(s)' = {}
           /\ \A c : out'[s] = <<c>> =>
                Calls(s)' = {c} /\ Rest(s)' = {} /\ In(s)' = c /\ out'[s] # <<>>
<1>1. \A c : <<c>> # <<>> /\ Head(<<c>>) = c /\ Tail(<<c>>) = <<>>
  OBVIOUS
<1> QED
  BY <1>1, ElementsShort DEF Calls, Rest, In

LEMMA CallIs ==
    ASSUME NEW o, NEW n, NEW l
    PROVE  Call(o, n, l).op = o /\ Call(o, n, l).net = n /\ Call(o, n, l).link = l
BY DEF Call

\* A thread that makes a step of another thread its own keeps its calls.
LEMMA OutOther ==
    ASSUME OutInv, NEW t \in Sessions, out'[t] = out[t],
           running[t] \/ cleanup[t] => running'[t] \/ cleanup'[t]
    PROVE  OutOf(t)'
BY SameOut DEF OutInv, OutOf

\* A loss the registry did not know of ends there.
Past(s) == [out EXCEPT ![s] = Tail(@)]

LEMMA LostOut ==
    ASSUME NEW s, Lost(s)
    PROVE  /\ out[s] # <<>>
           /\ \/ ifaces[In(s).net] # NoLink /\ out' = Then(s, "refresh", NoNet)
              \/ ifaces[In(s).net] = NoLink /\ out' = Past(s)
<1>1. CASE ifaces[Head(out[s]).net] # NoLink
  BY <1>1 DEF Lost, In
<1>2. CASE ifaces[Head(out[s]).net] = NoLink
  BY <1>2 DEF Lost, In, Past
<1> QED
  BY <1>1, <1>2

LEMMA PastOut ==
    ASSUME TypeOK, NEW s \in Sessions, out[s] # <<>>, out' = Past(s)
    PROVE  /\ \A t \in Sessions : t # s => out'[t] = out[t]
           /\ Calls(s) = {In(s)} \cup Rest(s) /\ Calls(s)' = Rest(s) /\ Calls(s)' \subseteq Calls(s)
           /\ out'[s] # <<>> => In(s)' \in Rest(s) /\ Rest(s)' \subseteq Rest(s)
BY TailOut DEF Past

LEMMA OutKept == ASSUME TypeOK, OutInv, [Next]_vars PROVE OutInv'
<1>1. CASE World
  BY <1>1, WorldFrame, OutOther DEF OutInv
<1>2. ASSUME startMonitor, monitor # None PROVE OutInv'
  BY <1>2, OutOther DEF startMonitor, OutInv
<1>3. ASSUME startMonitor, monitor = None PROVE OutInv'
  <2>1. \A t \in Sessions : running[t] => running'[t]
    BY <1>3 DEF startMonitor, NewMonitor, TypeOK
  <2> QED
    BY <1>3, <2>1, OutOther DEF startMonitor, OutInv
<1>4. CASE stopMonitor
  <2>1. \A t \in Sessions : running[t] \/ cleanup[t] => running'[t] \/ cleanup'[t]
    BY <1>4 DEF stopMonitor, TypeOK
  <2> QED
    BY <1>4, <2>1, OutOther DEF stopMonitor, OutInv
<1>5. ASSUME NEW s \in Sessions, HandleNetwork(s) PROVE OutInv'
  <2>1. ASSUME NEW t \in Sessions, t # s PROVE OutOf(t)'
    <3>1. out'[t] = out[t]
      BY <1>5, <2>1, NetworkEffect
    <3>2. running'[t] = running[t] /\ cleanup'[t] = cleanup[t]
      BY <1>5 DEF HandleNetwork
    <3> QED
      BY <3>1, <3>2, OutOther
  <2>2. OutOf(s)'
    <3>1. running'[s]
      BY <1>5, NetworkEffect DEF HandleNetwork
    <3>2. ASSUME NEW n \in Networks, NEW l, Complete(l), l \in Partial, out'[s] = <<Call("update", n, l)>>
          PROVE  OutOf(s)'
      <4>1. l \in Link
        BY <3>2 DEF Complete, Partial, Link
      <4> QED
        BY <3>1, <3>2, <4>1, FewCalls, CallIs DEF OutOf
    <3>3. ASSUME NEW n \in Networks, out'[s] = <<Call("lost", n, NoLink)>>
          PROVE  OutOf(s)'
      BY <3>1, <3>3, FewCalls, CallIs DEF OutOf
    <3>4. ASSUME out'[s] = <<>>
          PROVE  OutOf(s)'
      BY <3>4, FewCalls DEF OutOf
    <3> DEFINE e == Head(netq[s])
    <3>5. tracked'[s][e.net] \in Partial
      <4>1. e.net \in Networks /\ tracked' \in [Sessions -> [Networks -> Partial]]
        BY <1>5, NetworkEffect
      <4> QED
        BY <4>1
    <3> HIDE DEF e
    <3>6. /\ e.net \in Networks
          /\ \/ out'[s] = <<>>
             \/ Complete(tracked'[s][e.net]) /\ out'[s] = <<Call("update", e.net, tracked'[s][e.net])>>
             \/ out'[s] = <<Call("lost", e.net, NoLink)>>
      BY <1>5, NetworkEffect DEF e
    <3> QED
      BY <3>2, <3>3, <3>4, <3>5, <3>6
  <2> QED
    BY <2>1, <2>2 DEF OutInv
<1>6. ASSUME NEW s \in Sessions, HandleDefault(s) PROVE OutInv'
  <2>1. \A t \in Sessions : t # s => OutOf(t)'
    BY <1>6, DefaultEffect, OutOther DEF HandleDefault
  <2>2. OutOf(s)'
    <3>1. running'[s]
      BY <1>6, DefaultEffect DEF HandleDefault
    <3>2. ASSUME NEW n, out'[s] = <<Call("default", n, NoLink)>>
          PROVE  OutOf(s)'
      BY <3>1, <3>2, FewCalls, CallIs DEF OutOf
    <3>3. ASSUME out'[s] = <<>>
          PROVE  OutOf(s)'
      BY <3>3, FewCalls DEF OutOf
    <3> QED
      BY <1>6, <3>2, <3>3, DefaultEffect DEF Emitted
  <2> QED
    BY <2>1, <2>2 DEF OutInv
<1>7. ASSUME NEW s \in Sessions, HandleReplay(s) PROVE OutInv'
  <2>1. PICK q \in Seq(Downcall) :
          /\ out' = [out EXCEPT ![s] = q]
          /\ Elements(q) =
               {Call("update", n, tracked[s][n]) : n \in Ready(s)}
                 \cup (IF dnet[s] # NoNet /\ dseed[s]["props"] # None
                       THEN {Call("default", dnet[s], NoLink)} ELSE {})
    BY <1>7, Replayed
  <2>2. /\ \A t \in Sessions : t # s => out'[t] = out[t]
        /\ out'[s] = q /\ Calls(s)' = Elements(q)
        /\ q # <<>> => Rest(s)' \subseteq Elements(q)
    BY <2>1, SetOut
  <2>3. running[s] /\ running' = running /\ cleanup' = cleanup
    BY <1>7 DEF HandleReplay, Idle
  <2>4. \A t \in Sessions : t # s => OutOf(t)'
    BY <2>2, <2>3, OutOther
  <2>5. \A n \in Ready(s) : n \in Networks /\ tracked[s][n] \in Link
    BY DEF TypeOK, Ready, Complete, Partial, Link
  <2>6. \A c \in Elements(q) :
          /\ c.op \in {"update", "default"}
          /\ c.op = "update" => c.link \in Link /\ c.net \in Networks
    BY <2>1, <2>5, CallIs
  <2>7. OutOf(s)'
    BY <2>2, <2>3, <2>6 DEF OutOf
  <2> QED
    BY <2>4, <2>7 DEF OutInv
<1>8. ASSUME NEW s \in Sessions, HandleCleanup(s) PROVE OutInv'
  <2>1. out'[s] = <<Call("reset", NoNet, NoLink)>> /\ \A t \in Sessions : t # s => out'[t] = out[t] /\ cleanup'[t] = cleanup[t]
    BY <1>8 DEF HandleCleanup, TypeOK
  <2>2. \A t \in Sessions : t # s => OutOf(t)'
    BY <1>8, <2>1, OutOther DEF HandleCleanup
  <2>3. OutOf(s)'
    BY <2>1, FewCalls, CallIs DEF OutOf
  <2> QED
    BY <2>2, <2>3 DEF OutInv
<1>9. ASSUME NEW s \in Sessions, Drop(s) PROVE OutInv'
  <2>1. /\ \A t \in Sessions : t # s => out'[t] = out[t]
        /\ Calls(s) = {In(s)} \cup Rest(s) /\ Calls(s)' = Rest(s) /\ out[s] # <<>>
        /\ out'[s] # <<>> => In(s)' \in Rest(s) /\ Rest(s)' \subseteq Rest(s)
    BY <1>9, TailOut DEF Drop
  <2>2. running' = running /\ cleanup' = cleanup
    BY <1>9 DEF Drop, queueVars
  <2>3. \A t \in Sessions : t # s => OutOf(t)'
    BY <2>1, <2>2, OutOther
  <2>4. OutOf(s)'
    BY <2>1, <2>2 DEF OutInv, OutOf
  <2> QED
    BY <2>3, <2>4 DEF OutInv
<1>10. ASSUME NEW s \in Sessions, Update(s) PROVE OutInv'
  <2>1. NoNet \in Handles /\ out' = Then(s, "refresh", NoNet) /\ out[s] # <<>>
    BY <1>10, InCalls DEF Update, Handles, Downcall, In
  <2>2. /\ \A t \in Sessions : t # s => out'[t] = out[t]
        /\ Calls(s) = {In(s)} \cup Rest(s) /\ Calls(s)' = {In(s)'} \cup Rest(s)
        /\ In(s)'.op = "refresh" /\ Rest(s)' = Rest(s) /\ out'[s] # <<>>
    BY <2>1, ThenOut
  <2>3. running' = running /\ cleanup' = cleanup
    BY <1>10 DEF Update, queueVars
  <2>4. \A t \in Sessions : t # s => OutOf(t)'
    BY <2>2, <2>3, OutOther
  <2>5. OutOf(s)'
    BY <2>1, <2>2, <2>3 DEF OutInv, OutOf
  <2> QED
    BY <2>4, <2>5 DEF OutInv
<1>11. ASSUME NEW s \in Sessions, Lost(s) PROVE OutInv'
  <2>1. CASE out' = Then(s, "refresh", NoNet)
    <3>1. NoNet \in Handles /\ out' = Then(s, "refresh", NoNet) /\ out[s] # <<>>
      BY <1>11, <2>1, LostOut, InCalls DEF Lost, Handles, Downcall, In
    <3>2. /\ \A t \in Sessions : t # s => out'[t] = out[t]
          /\ Calls(s) = {In(s)} \cup Rest(s) /\ Calls(s)' = {In(s)'} \cup Rest(s)
          /\ In(s)'.op = "refresh" /\ Rest(s)' = Rest(s) /\ out'[s] # <<>>
      BY <3>1, ThenOut
    <3>3. running' = running /\ cleanup' = cleanup
      BY <1>11 DEF Lost, queueVars
    <3>4. \A t \in Sessions : t # s => OutOf(t)'
      BY <3>2, <3>3, OutOther
    <3>5. OutOf(s)'
      BY <3>1, <3>2, <3>3 DEF OutInv, OutOf
    <3> QED
      BY <3>4, <3>5 DEF OutInv
  <2>2. CASE out' = Past(s)
    <3>1. /\ \A t \in Sessions : t # s => out'[t] = out[t]
          /\ Calls(s) = {In(s)} \cup Rest(s) /\ Calls(s)' = Rest(s) /\ out[s] # <<>>
          /\ out'[s] # <<>> => In(s)' \in Rest(s) /\ Rest(s)' \subseteq Rest(s)
      BY <1>11, <2>2, PastOut, LostOut
    <3>2. running' = running /\ cleanup' = cleanup
      BY <1>11 DEF Lost, queueVars
    <3>3. \A t \in Sessions : t # s => OutOf(t)'
      BY <3>1, <3>2, OutOther
    <3>4. OutOf(s)'
      BY <3>1, <3>2 DEF OutInv, OutOf
    <3> QED
      BY <3>3, <3>4 DEF OutInv
  <2> QED
    BY <1>11, <2>1, <2>2, LostOut
<1>12. ASSUME NEW s \in Sessions, SetDefault(s) PROVE OutInv'
  <2>1. Head(out[s]).net \in Handles /\ out' = Then(s, "notify", Head(out[s]).net) /\ out[s] # <<>>
    BY <1>12, InCalls DEF SetDefault, Handles, Downcall, In
  <2>2. /\ \A t \in Sessions : t # s => out'[t] = out[t]
        /\ Calls(s) = {In(s)} \cup Rest(s) /\ Calls(s)' = {In(s)'} \cup Rest(s)
        /\ In(s)'.op = "notify" /\ Rest(s)' = Rest(s) /\ out'[s] # <<>>
    BY <2>1, ThenOut
  <2>3. running' = running /\ cleanup' = cleanup
    BY <1>12 DEF SetDefault, queueVars
  <2>4. \A t \in Sessions : t # s => OutOf(t)'
    BY <2>2, <2>3, OutOther
  <2>5. OutOf(s)'
    BY <2>1, <2>2, <2>3 DEF OutInv, OutOf
  <2> QED
    BY <2>4, <2>5 DEF OutInv
<1>13. ASSUME NEW s \in Sessions, Reset(s) PROVE OutInv'
  <2>1. NoNet \in Handles /\ out' = Then(s, "notify", NoNet) /\ out[s] # <<>>
    BY <1>13, InCalls DEF Reset, Handles, Downcall, In
  <2>2. /\ \A t \in Sessions : t # s => out'[t] = out[t]
        /\ Calls(s) = {In(s)} \cup Rest(s) /\ Calls(s)' = {In(s)'} \cup Rest(s)
        /\ In(s)'.op = "notify" /\ Rest(s)' = Rest(s) /\ out'[s] # <<>>
    BY <2>1, ThenOut
  <2>3. running' = running /\ cleanup' = cleanup
    BY <1>13 DEF Reset, queueVars
  <2>4. \A t \in Sessions : t # s => OutOf(t)'
    BY <2>2, <2>3, OutOther
  <2>5. OutOf(s)'
    BY <2>1, <2>2, <2>3 DEF OutInv, OutOf
  <2> QED
    BY <2>4, <2>5 DEF OutInv
<1>14. ASSUME NEW s \in Sessions, Notify(s) PROVE OutInv'
  <2>1. /\ \A t \in Sessions : t # s => out'[t] = out[t]
        /\ Calls(s) = {In(s)} \cup Rest(s) /\ Calls(s)' = Rest(s) /\ out[s] # <<>>
        /\ out'[s] # <<>> => In(s)' \in Rest(s) /\ Rest(s)' \subseteq Rest(s)
    BY <1>14, TailOut DEF Notify
  <2>2. running' = running /\ cleanup' = cleanup
    BY <1>14 DEF Notify, queueVars
  <2>3. \A t \in Sessions : t # s => OutOf(t)'
    BY <2>1, <2>2, OutOther
  <2>4. OutOf(s)'
    BY <2>1, <2>2 DEF OutInv, OutOf
  <2> QED
    BY <2>3, <2>4 DEF OutInv
<1>15. CASE CoreCreate \/ Initialize \/ CoreStart \/ CoreClose
  BY <1>15, CoreFrame, OutOther DEF OutInv
<1>16. CASE UNCHANGED vars
  BY <1>16, OutOther DEF OutInv, vars, queueVars
<1> QED
  BY <1>1, <1>2, <1>3, <1>4, <1>5, <1>6, <1>7, <1>8, <1>9, <1>10,
     <1>11, <1>12, <1>13, <1>14, <1>15, <1>16
  DEF Next, Thread

\* What a thread does, the threads of the other sessions do not notice.
LEMMA ThreadFrame ==
    ASSUME TypeOK, NEW s \in Sessions, Thread(s)
    PROVE  /\ UNCHANGED <<worldVars, bridgeVars, running>>
           /\ Works(s)
           /\ \A t \in Sessions : t # s =>
                /\ netq'[t] = netq[t] /\ defq'[t] = defq[t]
                /\ replay'[t] = replay[t] /\ cleanup'[t] = cleanup[t]
                /\ tracked'[t] = tracked[t] /\ sent'[t] = sent[t]
                /\ dnet'[t] = dnet[t] /\ dseed'[t] = dseed[t] /\ dsent'[t] = dsent[t]
                /\ out'[t] = out[t]
           /\ replay'[s] => replay[s]
           /\ cleanup'[s] => cleanup[s]
<1> USE DEF worldVars, bridgeVars
<1> DEFINE Frame ==
             /\ UNCHANGED <<worldVars, bridgeVars, running>>
             /\ Works(s)
             /\ \A t \in Sessions : t # s =>
                  /\ netq'[t] = netq[t] /\ defq'[t] = defq[t]
                  /\ replay'[t] = replay[t] /\ cleanup'[t] = cleanup[t]
                  /\ tracked'[t] = tracked[t] /\ sent'[t] = sent[t]
                  /\ dnet'[t] = dnet[t] /\ dseed'[t] = dseed[t] /\ dsent'[t] = dsent[t]
                  /\ out'[t] = out[t]
             /\ replay'[s] => replay[s]
             /\ cleanup'[s] => cleanup[s]
<1>1. ASSUME HandleNetwork(s) PROVE Frame
  <2>1. UNCHANGED <<worldVars, bridgeVars, running, replay, cleanup>>
    BY <1>1 DEF HandleNetwork
  <2>2. \A t \in Sessions :
           defq'[t] = defq[t] /\ dnet'[t] = dnet[t] /\ dseed'[t] = dseed[t] /\ dsent'[t] = dsent[t]
    BY <1>1 DEF HandleNetwork
  <2>3. ASSUME NEW t \in Sessions, t # s
        PROVE  /\ netq'[t] = netq[t] /\ tracked'[t] = tracked[t] /\ sent'[t] = sent[t]
               /\ out'[t] = out[t]
    BY <1>1, <2>3, NetworkEffect
  <2>4. Works(s)
    BY <1>1, NetworkEffect DEF Works
  <2> QED
    BY <2>1, <2>2, <2>3, <2>4
<1>2. ASSUME HandleDefault(s) PROVE Frame
  <2>1. UNCHANGED <<worldVars, bridgeVars, running, replay, cleanup>>
    BY <1>2 DEF HandleDefault
  <2>2. \A t \in Sessions :
           netq'[t] = netq[t] /\ tracked'[t] = tracked[t] /\ sent'[t] = sent[t]
    BY <1>2 DEF HandleDefault
  <2>3. ASSUME NEW t \in Sessions, t # s
        PROVE  /\ defq'[t] = defq[t] /\ dnet'[t] = dnet[t] /\ dseed'[t] = dseed[t] /\ dsent'[t] = dsent[t]
               /\ out'[t] = out[t]
    BY <1>2, <2>3, DefaultEffect
  <2>4. Works(s)
    BY <1>2, DefaultEffect DEF Works
  <2> QED
    BY <2>1, <2>2, <2>3, <2>4
<1>3. ASSUME HandleReplay(s) PROVE Frame
  <2>1. \A t \in Sessions : t # s =>
          replay'[t] = replay[t] /\ sent'[t] = sent[t] /\ dsent'[t] = dsent[t] /\ out'[t] = out[t]
    BY <1>3 DEF HandleReplay, TypeOK
  <2>2. ~replay'[s]
    BY <1>3 DEF HandleReplay, TypeOK
  <2> QED
    BY <1>3, <2>1, <2>2 DEF HandleReplay, Idle, Works
<1>4. ASSUME HandleCleanup(s) PROVE Frame
  <2>1. \A t \in Sessions : t # s =>
          cleanup'[t] = cleanup[t] /\ tracked'[t] = tracked[t] /\ dnet'[t] = dnet[t]
          /\ dseed'[t] = dseed[t] /\ dsent'[t] = dsent[t] /\ out'[t] = out[t]
    BY <1>4 DEF HandleCleanup, TypeOK
  <2>2. ~cleanup'[s]
    BY <1>4 DEF HandleCleanup, TypeOK
  <2> QED
    BY <1>4, <2>1, <2>2 DEF HandleCleanup, Works
<1>5. ASSUME Drop(s) PROVE Frame
  <2>1. \A t \in Sessions : t # s => out'[t] = out[t]
    BY <1>5 DEF Drop, TypeOK
  <2> QED
    BY <1>5, <2>1 DEF Drop, Works, queueVars, trackVars
<1>6. ASSUME Update(s) PROVE Frame
  <2>1. \A t \in Sessions : t # s => out'[t] = out[t]
    BY <1>6 DEF Update, Then, TypeOK
  <2> QED
    BY <1>6, <2>1 DEF Update, Works, queueVars, trackVars
<1>7. ASSUME Lost(s) PROVE Frame
  <2>1. \A t \in Sessions : t # s => out'[t] = out[t]
    <3>1. out' = Then(s, "refresh", NoNet) \/ out' = Past(s)
      BY <1>7, LostOut
    <3> QED
      BY <3>1 DEF Then, Past, TypeOK
  <2> QED
    BY <1>7, <2>1 DEF Lost, Works, queueVars, trackVars
<1>8. ASSUME SetDefault(s) PROVE Frame
  <2>1. \A t \in Sessions : t # s => out'[t] = out[t]
    BY <1>8 DEF SetDefault, Then, TypeOK
  <2> QED
    BY <1>8, <2>1 DEF SetDefault, Works, queueVars, trackVars
<1>9. ASSUME Reset(s) PROVE Frame
  <2>1. \A t \in Sessions : t # s => out'[t] = out[t]
    BY <1>9 DEF Reset, Then, TypeOK
  <2> QED
    BY <1>9, <2>1 DEF Reset, Works, queueVars, trackVars
<1>10. ASSUME Notify(s) PROVE Frame
  <2>1. \A t \in Sessions : t # s => out'[t] = out[t]
    BY <1>10 DEF Notify, TypeOK
  <2> QED
    BY <1>10, <2>1 DEF Notify, Works, queueVars, trackVars
<1> QED
  BY <1>1, <1>2, <1>3, <1>4, <1>5, <1>6, <1>7, <1>8, <1>9, <1>10 DEF Thread

LEMMA SessionOther ==
    ASSUME SessionInv, NEW t \in Sessions,
           running'[t] => running[t], monitor' = monitor, cleanup'[t] = cleanup[t], sessions' = sessions,
           replay'[t] => replay[t], running[t] => running'[t], out'[t] = out[t],
           tracked'[t] = tracked[t], sent'[t] = sent[t],
           dnet'[t] = dnet[t], dseed'[t] = dseed[t], dsent'[t] = dsent[t]
    PROVE  SessionOf(t)'
BY DEF SessionInv, SessionOf, NoLinks

LEMMA SessionKept == ASSUME TypeOK, SessionInv, [Next]_vars PROVE SessionInv'
<1>1. CASE World
  BY <1>1, WorldFrame, SessionOther DEF SessionInv, bridgeVars, trackVars
<1>2. ASSUME startMonitor, monitor # None PROVE SessionInv'
  BY <1>2, SessionOther DEF startMonitor, SessionInv, trackVars
<1>3. ASSUME startMonitor, monitor = None PROVE SessionInv'
  <2>1. sessions + 1 \in Sessions /\ sessions \in Nat /\ sessions' = sessions + 1 /\ monitor' = sessions + 1
    BY <1>3, NextSession DEF startMonitor, NewMonitor
  <2>2. running' = [running EXCEPT ![sessions + 1] = TRUE]
    BY <1>3 DEF startMonitor, NewMonitor
  <2>3. \A t \in Sessions : running'[t] <=> t = sessions + 1
    BY <1>3, <2>1, <2>2, Bounds DEF SessionInv, SessionOf, None, TypeOK
  <2>4. \A t \in Sessions : replay[t] => running[t]
    BY DEF SessionInv, SessionOf
  <2>5. \A t \in Sessions : ~running[t]
    BY <1>3, Bounds DEF SessionInv, SessionOf, None
  <2>6. ASSUME NEW t \in Sessions PROVE SessionOf(t)'
    <3>1. t > sessions' => t > sessions
      BY <2>1, Bounds
    <3>2. t > sessions /\ t # sessions + 1 => t > sessions'
      BY <2>1, Bounds
    <3>3. sessions + 1 > sessions
      BY <2>1
    <3> QED
      BY <1>3, <2>1, <2>3, <2>4, <2>5, <3>1, <3>2, <3>3 DEF SessionInv, SessionOf, startMonitor, trackVars, NoLinks
  <2> QED
    BY <2>1, <2>3, <2>6 DEF SessionInv
<1>4. CASE stopMonitor
  <2>1. monitor \in Sessions
    BY <1>4 DEF stopMonitor, TypeOK
  <2>2. \A t \in Sessions : ~running'[t] /\ ~replay'[t]
    BY <1>4, <2>1 DEF stopMonitor, TypeOK, SessionInv, SessionOf
  <2>3. monitor <= sessions
    BY <1>4 DEF stopMonitor, SessionInv
  <2>4. ~(monitor > sessions)
    BY <2>1, <2>3, Bounds DEF TypeOK, None
  <2>5. \A t \in Sessions : t > sessions => ~cleanup'[t]
    BY <1>4, <2>1, <2>4 DEF stopMonitor, TypeOK, SessionInv, SessionOf
  <2> QED
    BY <1>4, <2>2, <2>5 DEF stopMonitor, SessionInv, SessionOf, trackVars, NoLinks
<1>5. ASSUME NEW s \in Sessions, Thread(s) PROVE SessionInv'
  <2>1. \A t \in Sessions : t # s => SessionOf(t)'
    BY <1>5, ThreadFrame, SessionOther DEF SessionInv, bridgeVars
  <2>2. ~(s > sessions)
    BY <1>5, ThreadFrame, Bounds DEF SessionInv, SessionOf, Works, TypeOK, None
  <2>3. SessionOf(s)'
    BY <1>5, <2>2, ThreadFrame DEF SessionInv, SessionOf, bridgeVars
  <2> QED
    BY <1>5, <2>1, <2>3, ThreadFrame DEF SessionInv, bridgeVars
<1>6. CASE CoreCreate \/ Initialize \/ CoreStart \/ CoreClose
  <2>1. UNCHANGED <<bridgeVars, running, cleanup, trackVars, out>>
    BY <1>6, CoreFrame
  <2>2. \A t \in Sessions : replay'[t] => replay[t] \/ (monitor # None /\ t = monitor)
    BY <1>6 DEF CoreCreate, Initialize, CoreStart, CoreClose, requestReplay, queueVars, TypeOK
  <2> QED
    BY <2>1, <2>2 DEF SessionInv, SessionOf, bridgeVars, trackVars, NoLinks
<1>7. CASE UNCHANGED vars
  BY <1>7, SessionOther DEF SessionInv, vars, queueVars, bridgeVars, trackVars
<1> QED
  BY <1>1, <1>2, <1>3, <1>4, <1>5, <1>6, <1>7
  DEF Next

-----------------------------------------------------------------------------
(* Nothing is left behind.                                                 *)

\* What is still unbound has not changed.
LEMMA UnboundKept == ASSUME TypeOK, UnboundInv, [Next]_vars PROVE UnboundInv'
<1> SUFFICES ASSUME ~bound'
             PROVE  /\ Empty' /\ coreIfaces' = NoLinks /\ coreDefault' = NoNet
                    /\ \A t \in Sessions : \A c \in Calls(t)' : c.op \notin {"refresh", "notify"}
  BY DEF UnboundInv, NoLinks
<1> DEFINE Goal == /\ Empty' /\ coreIfaces' = NoLinks /\ coreDefault' = NoNet
                   /\ \A t \in Sessions : \A c \in Calls(t)' : c.op \notin {"refresh", "notify"}
<1> USE DEF bridgeVars, registryVars, coreVars, listenerVars
<1>1. CASE World
  <2>1. ~bound /\ UNCHANGED <<registryVars, coreIfaces, coreDefault, out>>
    BY <1>1, WorldFrame
  <2> QED
    BY <2>1, SameOut DEF UnboundInv, Empty
<1>2. ASSUME startMonitor, monitor # None PROVE Goal
  <2>1. ~bound /\ UNCHANGED <<registryVars, coreIfaces, coreDefault, out>>
    BY <1>2 DEF startMonitor, ensureEngineBound, setPlatform
  <2> QED
    BY <2>1, SameOut DEF UnboundInv, Empty
<1>3. ASSUME startMonitor, monitor = None PROVE Goal
  <2>1. ~bound /\ UNCHANGED <<registryVars, coreIfaces, coreDefault, out>>
    BY <1>3 DEF startMonitor, ensureEngineBound, setPlatform
  <2> QED
    BY <2>1, SameOut DEF UnboundInv, Empty
<1>4. CASE stopMonitor
  <2>1. ~bound /\ UNCHANGED <<registryVars, coreIfaces, coreDefault, out>>
    BY <1>4 DEF stopMonitor
  <2> QED
    BY <2>1, SameOut DEF UnboundInv, Empty
<1>5. ASSUME NEW s \in Sessions, HandleNetwork(s) PROVE Goal
  <2>1. ~bound /\ UNCHANGED <<registryVars, coreIfaces, coreDefault>>
    BY <1>5 DEF HandleNetwork
  <2>2. \A t \in Sessions : t # s => out'[t] = out[t]
    BY <1>5, ThreadFrame DEF Thread
  <2>3. \A c \in Calls(s)' : c.op \notin {"refresh", "notify"}
    <3> DEFINE n == Head(netq[s]).net
    <3>1. \/ out'[s] = <<>> \/ out'[s] = <<Call("update", n, tracked'[s][n])>>
          \/ out'[s] = <<Call("lost", n, NoLink)>>
      BY <1>5, NetworkEffect
    <3> QED
      BY <3>1, FewCalls, CallIs
  <2> QED
    BY <2>1, <2>2, <2>3, SameOut DEF UnboundInv, Empty
<1>6. ASSUME NEW s \in Sessions, HandleDefault(s) PROVE Goal
  <2>1. ~bound /\ UNCHANGED <<registryVars, coreIfaces, coreDefault>>
    BY <1>6 DEF HandleDefault
  <2>2. \A t \in Sessions : t # s => out'[t] = out[t]
    BY <1>6, ThreadFrame DEF Thread
  <2>3. \A c \in Calls(s)' : c.op \notin {"refresh", "notify"}
    <3>1. out'[s] = <<>> \/ \E n : out'[s] = <<Call("default", n, NoLink)>>
      BY <1>6, DefaultEffect DEF Emitted
    <3> QED
      BY <3>1, FewCalls, CallIs
  <2> QED
    BY <2>1, <2>2, <2>3, SameOut DEF UnboundInv, Empty
<1>7. ASSUME NEW s \in Sessions, HandleReplay(s) PROVE Goal
  <2>1. ~bound /\ UNCHANGED <<registryVars, coreIfaces, coreDefault>>
    BY <1>7 DEF HandleReplay
  <2>2. \A t \in Sessions : t # s => out'[t] = out[t]
    BY <1>7, ThreadFrame DEF Thread
  <2>3. \A c \in Calls(s)' : c.op \notin {"refresh", "notify"}
    <3>1. PICK q \in Seq(Downcall) :
            /\ out' = [out EXCEPT ![s] = q]
            /\ Elements(q) =
                 {Call("update", n, tracked[s][n]) : n \in Ready(s)}
                   \cup (IF dnet[s] # NoNet /\ dseed[s]["props"] # None
                         THEN {Call("default", dnet[s], NoLink)} ELSE {})
      BY <1>7, Replayed
    <3>2. \A c \in Elements(q) : c.op \in {"update", "default"}
      BY <3>1, CallIs
    <3>3. Calls(s)' = Elements(q)
      BY <3>1, SetOut
    <3> QED
      BY <3>2, <3>3
  <2> QED
    BY <2>1, <2>2, <2>3, SameOut DEF UnboundInv, Empty
<1>8. ASSUME NEW s \in Sessions, HandleCleanup(s) PROVE Goal
  <2>1. ~bound /\ UNCHANGED <<registryVars, coreIfaces, coreDefault>>
    BY <1>8 DEF HandleCleanup
  <2>2. \A t \in Sessions : t # s => out'[t] = out[t]
    BY <1>8, ThreadFrame DEF Thread
  <2>3. \A c \in Calls(s)' : c.op \notin {"refresh", "notify"}
    <3>1. out'[s] = <<Call("reset", NoNet, NoLink)>>
      BY <1>8 DEF HandleCleanup, TypeOK
    <3> QED
      BY <3>1, FewCalls, CallIs
  <2> QED
    BY <2>1, <2>2, <2>3, SameOut DEF UnboundInv, Empty
<1>9. ASSUME NEW s \in Sessions, Drop(s) PROVE Goal
  <2>1. ~bound /\ UNCHANGED <<registryVars, coreIfaces, coreDefault>>
    BY <1>9 DEF Drop
  <2>2. \A t \in Sessions : t # s => out'[t] = out[t]
    BY <1>9, ThreadFrame DEF Thread
  <2>3. \A c \in Calls(s)' : c.op \notin {"refresh", "notify"}
    <3>1. Calls(s)' \subseteq Calls(s)
      BY <1>9, TailOut DEF Drop
    <3> QED
      BY <3>1, <2>1 DEF UnboundInv
  <2> QED
    BY <2>1, <2>2, <2>3, SameOut DEF UnboundInv, Empty
<1>10. ASSUME NEW s \in Sessions, Update(s) PROVE Goal
  BY <1>10 DEF Update, bridgeVars
<1>11. ASSUME NEW s \in Sessions, Lost(s) PROVE Goal
  BY <1>11 DEF Lost, bridgeVars
<1>12. ASSUME NEW s \in Sessions, SetDefault(s) PROVE Goal
  BY <1>12 DEF SetDefault, bridgeVars
<1>13. ASSUME NEW s \in Sessions, Reset(s) PROVE Goal
  BY <1>13 DEF Reset, bridgeVars
<1>14. ASSUME NEW s \in Sessions, Notify(s) PROVE Goal
  <2>1. ~bound /\ out[s] # <<>> /\ In(s).op \in {"refresh", "notify"}
    BY <1>14 DEF Notify, In
  <2> QED
    BY <2>1, InCalls DEF UnboundInv
<1>15. CASE CoreCreate \/ Initialize \/ CoreStart \/ CoreClose
  <2>1. ~bound /\ UNCHANGED <<registryVars, out>>
    BY <1>15, CoreFrame
  <2>2. coreIfaces' \in {coreIfaces, NoLinks} /\ coreDefault' \in {coreDefault, NoNet}
    BY <1>15 DEF CoreCreate, Initialize, CoreStart, CoreClose, NoLinks
  <2> QED
    BY <2>1, <2>2, SameOut DEF UnboundInv, Empty
<1>16. CASE UNCHANGED vars
  <2>1. ~bound /\ UNCHANGED <<registryVars, coreIfaces, coreDefault, out>>
    BY <1>16 DEF vars
  <2> QED
    BY <2>1, SameOut DEF UnboundInv, Empty
<1> QED
  BY <1>1, <1>2, <1>3, <1>4, <1>5, <1>6, <1>7, <1>8, <1>9, <1>10,
     <1>11, <1>12, <1>13, <1>14, <1>15, <1>16
  DEF Next, Thread

\* A thread that will wipe the registry is not stopped from it by others.
LEMMA WipeOther ==
    ASSUME NEW t \in Sessions, WillWipe(t), out'[t] = out[t],
           running[t] \/ cleanup[t] => running'[t] \/ cleanup'[t]
    PROVE  WillWipe(t)'
BY SameOut DEF WillWipe

LEMMA EmptyKept == ASSUME TypeOK, OutInv, UnboundInv, EmptyInv, [Next]_vars PROVE EmptyInv'
<1> USE DEF registryVars
<1>1. CASE World
  <2>1. UNCHANGED <<registryVars, out>> /\ \A t \in Sessions : running[t] \/ cleanup[t] => running'[t] \/ cleanup'[t]
    BY <1>1, WorldFrame
  <2> QED
    BY <2>1, WipeOther DEF EmptyInv, Empty, NoLinks
<1>2. ASSUME startMonitor, monitor # None PROVE EmptyInv'
  <2>1. UNCHANGED <<registryVars, out>> /\ \A t \in Sessions : running[t] \/ cleanup[t] => running'[t] \/ cleanup'[t]
    BY <1>2 DEF startMonitor
  <2> QED
    BY <2>1, WipeOther DEF EmptyInv, Empty, NoLinks
<1>3. ASSUME startMonitor, monitor = None PROVE EmptyInv'
  <2>1. UNCHANGED <<registryVars, out>> /\ \A t \in Sessions : running[t] \/ cleanup[t] => running'[t] \/ cleanup'[t]
    BY <1>3 DEF startMonitor, NewMonitor, TypeOK
  <2> QED
    BY <2>1, WipeOther DEF EmptyInv, Empty, NoLinks
<1>4. CASE stopMonitor
  <2>1. UNCHANGED <<registryVars, out>> /\ \A t \in Sessions : running[t] \/ cleanup[t] => running'[t] \/ cleanup'[t]
    BY <1>4 DEF stopMonitor, TypeOK
  <2> QED
    BY <2>1, WipeOther DEF EmptyInv, Empty, NoLinks
<1>5. ASSUME NEW s \in Sessions, HandleNetwork(s) PROVE EmptyInv'
  <2>1. WillWipe(s)'
    BY <1>5 DEF HandleNetwork, Idle, WillWipe
  <2> QED
    BY <2>1 DEF EmptyInv
<1>6. ASSUME NEW s \in Sessions, HandleDefault(s) PROVE EmptyInv'
  <2>1. WillWipe(s)'
    BY <1>6 DEF HandleDefault, Idle, WillWipe
  <2> QED
    BY <2>1 DEF EmptyInv
<1>7. ASSUME NEW s \in Sessions, HandleReplay(s) PROVE EmptyInv'
  <2>1. WillWipe(s)'
    BY <1>7 DEF HandleReplay, Idle, WillWipe
  <2> QED
    BY <2>1 DEF EmptyInv
<1>8. ASSUME NEW s \in Sessions, HandleCleanup(s) PROVE EmptyInv'
  <2>1. out'[s] = <<Call("reset", NoNet, NoLink)>>
    BY <1>8 DEF HandleCleanup, TypeOK
  <2>2. WillWipe(s)'
    BY <2>1, FewCalls, CallIs DEF WillWipe
  <2> QED
    BY <2>2 DEF EmptyInv
<1>9. ASSUME NEW s \in Sessions, Drop(s) PROVE EmptyInv'
  <2>1. ~bound /\ UNCHANGED registryVars
    BY <1>9 DEF Drop
  <2> QED
    BY <2>1 DEF UnboundInv, EmptyInv, Empty, NoLinks
<1>10. ASSUME NEW s \in Sessions, Update(s) PROVE EmptyInv'
  <2>1. out[s] # <<>> /\ In(s).op \in {"update", "lost", "default"} /\ running' = running /\ cleanup' = cleanup
    BY <1>10 DEF Update, In, queueVars
  <2>2. running[s] \/ cleanup[s]
    BY <2>1, InCalls DEF OutInv, OutOf
  <2> QED
    BY <2>1, <2>2 DEF EmptyInv, WillWipe
<1>11. ASSUME NEW s \in Sessions, Lost(s) PROVE EmptyInv'
  <2>1. out[s] # <<>> /\ In(s).op \in {"update", "lost", "default"} /\ running' = running /\ cleanup' = cleanup
    BY <1>11 DEF Lost, In, queueVars
  <2>2. running[s] \/ cleanup[s]
    BY <2>1, InCalls DEF OutInv, OutOf
  <2> QED
    BY <2>1, <2>2 DEF EmptyInv, WillWipe
<1>12. ASSUME NEW s \in Sessions, SetDefault(s) PROVE EmptyInv'
  <2>1. out[s] # <<>> /\ In(s).op \in {"update", "lost", "default"} /\ running' = running /\ cleanup' = cleanup
    BY <1>12 DEF SetDefault, In, queueVars
  <2>2. running[s] \/ cleanup[s]
    BY <2>1, InCalls DEF OutInv, OutOf
  <2> QED
    BY <2>1, <2>2 DEF EmptyInv, WillWipe
<1>13. ASSUME NEW s \in Sessions, Reset(s) PROVE EmptyInv'
  BY <1>13 DEF Reset, EmptyInv, Empty, NoLinks
<1>14. ASSUME NEW s \in Sessions, Notify(s) PROVE EmptyInv'
  <2>1. out[s] # <<>> /\ In(s).op \in {"refresh", "notify"} /\ UNCHANGED registryVars
    BY <1>14 DEF Notify, In
  <2>2. running' = running /\ cleanup' = cleanup
    BY <1>14 DEF Notify, queueVars
  <2>3. \A t \in Sessions : t # s => out'[t] = out[t]
    BY <1>14, ThreadFrame DEF Thread
  <2>4. WillWipe(s) => WillWipe(s)'
    BY <2>1, <2>2 DEF WillWipe
  <2>5. \A t \in Sessions : WillWipe(t) => WillWipe(t)'
    BY <2>2, <2>3, <2>4, WipeOther
  <2> QED
    BY <2>1, <2>5 DEF EmptyInv, Empty, NoLinks
<1>15. CASE CoreCreate \/ Initialize \/ CoreStart \/ CoreClose
  <2>1. UNCHANGED <<registryVars, out>> /\ \A t \in Sessions : running[t] \/ cleanup[t] => running'[t] \/ cleanup'[t]
    BY <1>15, CoreFrame
  <2> QED
    BY <2>1, WipeOther DEF EmptyInv, Empty, NoLinks
<1>16. CASE UNCHANGED vars
  <2>1. UNCHANGED <<registryVars, out>> /\ \A t \in Sessions : running[t] \/ cleanup[t] => running'[t] \/ cleanup'[t]
    BY <1>16 DEF vars, queueVars
  <2> QED
    BY <2>1, WipeOther DEF EmptyInv, Empty, NoLinks
<1> QED
  BY <1>1, <1>2, <1>3, <1>4, <1>5, <1>6, <1>7, <1>8, <1>9, <1>10,
     <1>11, <1>12, <1>13, <1>14, <1>15, <1>16
  DEF Next, Thread

-----------------------------------------------------------------------------
(* The events of the callbacks.                                            *)

LEMMA EvIs ==
    ASSUME NEW k, NEW n, NEW v
    PROVE  Ev(k, n, v).kind = k /\ Ev(k, n, v).net = n /\ Ev(k, n, v).state = v
BY DEF Ev

LEMMA AnnouncedSound ==
    ASSUME TypeOK, NEW n \in Networks
    PROVE  \A e \in Elements(Announce(n, link[n])) : Sound(e)
<1>1. /\ Sound(Ev("available", n, None))
      /\ Sound(Ev("caps", n, link[n]["caps"])) /\ Sound(Ev("props", n, link[n]["props"]))
  BY Announced, EvIs DEF Sound, Half
<1> QED
  BY <1>1, Announced

LEMMA AllSound ==
    ASSUME TypeOK, NEW order \in SetToSeqs(Up)
    PROVE  \A e \in Elements(Announcements(order)) : Sound(e)
<1> SUFFICES ASSUME NEW i \in 1 .. Len(Announcements(order)) PROVE Sound(Announcements(order)[i])
  BY DEF Elements
<1>1. PICK k \in 1 .. Len(order) : i \in {3 * k - 2, 3 * k - 1, 3 * k}
  BY AnnouncedAll
<1>2. order[k] \in Networks
  BY AnnouncedAll DEF Up
<1>3. link[order[k]]["caps"] \in States /\ link[order[k]]["props"] \in States
  BY <1>2, Announced
<1>4. \/ Announcements(order)[i] = Ev("available", order[k], None)
      \/ Announcements(order)[i] = Ev("caps", order[k], link[order[k]]["caps"])
      \/ Announcements(order)[i] = Ev("props", order[k], link[order[k]]["props"])
  BY <1>1, AnnouncedAll
<1> QED
  BY <1>3, <1>4, EvIs DEF Sound, Half

LEMMA ToldElements ==
    ASSUME NEW q \in [Sessions -> Seq(Event)], NEW e \in Seq(Event), NEW s \in Sessions
    PROVE  Elements(Told(q, e)[s]) \subseteq Elements(q[s]) \cup Elements(e)
<1>1. Elements(q[s] \o e) = Elements(q[s]) \cup Elements(e)
  BY ElementsConcat
<1> QED
  BY <1>1, ToldQueue

LEMMA TailElements ==
    ASSUME NEW q \in Seq(Event), q # <<>>
    PROVE  Elements(Tail(q)) \subseteq Elements(q) /\ Head(q) \in Elements(q)
BY ElementsTail

LEMMA EventKept == ASSUME TypeOK, EventInv, [Next]_vars PROVE EventInv'
<1> SUFFICES ASSUME NEW t \in Sessions PROVE EventOf(t)'
  BY DEF EventInv
<1>0. /\ \A e \in Elements(netq[t]) : Sound(e)
      /\ \A e \in Elements(defq[t]) : Sound(e)
      /\ netq \in [Sessions -> Seq(Event)] /\ defq \in [Sessions -> Seq(Event)]
      /\ netq[t] \in Seq(Event) /\ defq[t] \in Seq(Event)
  BY DEF EventInv, EventOf, TypeOK
<1> DEFINE Fine(q) == \A e \in Elements(q) : Sound(e)
<1>1. ASSUME NEW n \in Networks, NetworkUp(n) PROVE EventOf(t)'
  <2>1. Fine(Told(netq, Announce(n, link[n]))[t])
    BY <1>0, Announced, AnnouncedSound, ToldElements
  <2> QED
    BY <1>1, <1>0, <2>1 DEF NetworkUp, EventOf
<1>2. ASSUME NEW n \in Networks, BestChange(n) PROVE EventOf(t)'
  <2>1. Fine(Told(defq, Announce(n, link[n]))[t])
    BY <1>0, Announced, AnnouncedSound, ToldElements
  <2> QED
    BY <1>2, <1>0, <2>1 DEF BestChange, EventOf
<1>3. ASSUME NEW n \in Networks, NetworkDown(n) PROVE EventOf(t)'
  <2>1. <<Ev("lost", n, None)>> \in Seq(Event) /\ <<>> \in Seq(Event)
    <3>1. Ev("lost", n, None) \in Event
      BY DEF Ev, Event
    <3> QED
      BY <3>1
  <2>2. Fine(<<Ev("lost", n, None)>>) /\ Fine(<<>>)
    BY ElementsShort, EvIs DEF Sound, Half
  <2>3. Fine(Told(netq, <<Ev("lost", n, None)>>)[t]) /\ Fine(Told(defq, <<Ev("lost", n, None)>>)[t])
    BY <1>0, <2>1, <2>2, ToldElements
  <2>4. ASSUME NEW m \in Networks, NEW late \in {<<>>, <<Ev("lost", n, None)>>}
        PROVE  Fine(Told(defq, Announce(m, link[m]) \o late)[t])
    <3>1. late \in Seq(Event) /\ Fine(late)
      BY <2>1, <2>2
    <3>2. Announce(m, link[m]) \in Seq(Event) /\ Fine(Announce(m, link[m]))
      BY Announced, AnnouncedSound
    <3>3. Announce(m, link[m]) \o late \in Seq(Event) /\ Fine(Announce(m, link[m]) \o late)
      BY <3>1, <3>2, ElementsConcat
    <3> QED
      BY <1>0, <3>3, ToldElements
  <2>5. Fine(defq'[t])
    <3>1. CASE best # n
      BY <1>3, <1>0, <3>1 DEF NetworkDown
    <3>2. CASE defq' = Told(defq, <<Ev("lost", n, None)>>)
      BY <2>3, <3>2
    <3>3. ASSUME NEW m \in Up,
                 defq' \in {Told(defq, Announce(m, link[m]) \o late) : late \in {<<>>, <<Ev("lost", n, None)>>}}
          PROVE  Fine(defq'[t])
      BY <2>4, <3>3 DEF Up
    <3> QED
      BY <1>3, <3>1, <3>2, <3>3 DEF NetworkDown
  <2> QED
    BY <1>3, <2>3, <2>5 DEF NetworkDown, EventOf
<1>4. ASSUME NEW n \in Networks, NEW h \in Half, LinkChange(n, h) PROVE EventOf(t)'
  <2> DEFINE one == <<Ev(h, n, 2)>>
  <2>1. one \in Seq(Event)
    <3>1. Ev(h, n, 2) \in Event
      BY DEF Ev, Event, States, Half
    <3> QED
      BY <3>1
  <2>2. Fine(one)
    BY ElementsShort, EvIs DEF Sound, States, Half
  <2>3. Fine(Told(netq, one)[t]) /\ Fine(Told(defq, one)[t])
    <3> HIDE DEF one
    <3> QED
      BY <1>0, <2>1, <2>2, ToldElements
  <2> QED
    BY <1>4, <1>0, <2>3 DEF LinkChange, EventOf
<1>5. ASSUME startMonitor, monitor # None PROVE EventOf(t)'
  BY <1>5, <1>0 DEF startMonitor, EventOf
<1>6. ASSUME startMonitor, monitor = None PROVE EventOf(t)'
  <2>1. sessions + 1 \in Sessions
    BY <1>6, NextSession DEF startMonitor, NewMonitor
  <2>2. PICK order \in SetToSeqs(Up) : netq' = [netq EXCEPT ![sessions + 1] = Announcements(order)]
    BY <1>6 DEF startMonitor, NewMonitor
  <2>3. Fine(Announcements(order))
    BY AllSound
  <2>4. Fine(netq'[t])
    BY <1>0, <2>1, <2>2, <2>3
  <2>5. best # NoNet => Fine(Announce(best, link[best]))
    BY AnnouncedSound DEF TypeOK, Handles
  <2>6. Fine(<<>>)
    BY ElementsShort
  <2>7. Fine(defq'[t])
    <3>1. CASE best = NoNet
      BY <1>6, <1>0, <2>1, <2>6, <3>1 DEF startMonitor, NewMonitor
    <3>2. CASE best # NoNet
      BY <1>6, <1>0, <2>1, <2>5, <3>2 DEF startMonitor, NewMonitor
    <3> QED
      BY <3>1, <3>2
  <2> QED
    BY <2>4, <2>7 DEF EventOf
<1>7. CASE stopMonitor
  <2>1. netq'[t] \in {netq[t], <<>>} /\ defq'[t] \in {defq[t], <<>>}
    BY <1>7, <1>0 DEF stopMonitor, TypeOK
  <2> QED
    BY <1>0, <2>1, ElementsShort DEF EventOf
<1>8. ASSUME NEW s \in Sessions, HandleNetwork(s) PROVE EventOf(t)'
  <2>1. netq'[t] = netq[t] \/ (netq[t] # <<>> /\ netq'[t] = Tail(netq[t]))
    BY <1>8, NetworkEffect
  <2> QED
    BY <1>8, <1>0, <2>1, TailElements DEF EventOf, HandleNetwork
<1>9. ASSUME NEW s \in Sessions, HandleDefault(s) PROVE EventOf(t)'
  <2>1. defq'[t] = defq[t] \/ (defq[t] # <<>> /\ defq'[t] = Tail(defq[t]))
    BY <1>9, DefaultEffect
  <2> QED
    BY <1>9, <1>0, <2>1, TailElements DEF EventOf, HandleDefault
<1>10. ASSUME NEW s \in Sessions, HandleReplay(s) PROVE EventOf(t)'
  BY <1>10, <1>0 DEF HandleReplay, queueVars, EventOf
<1>11. ASSUME NEW s \in Sessions, HandleCleanup(s) PROVE EventOf(t)'
  BY <1>11, <1>0 DEF HandleCleanup, queueVars, EventOf
<1>12. ASSUME NEW s \in Sessions, Drop(s) PROVE EventOf(t)'
  BY <1>12, <1>0 DEF Drop, queueVars, EventOf
<1>13. ASSUME NEW s \in Sessions, Update(s) PROVE EventOf(t)'
  BY <1>13, <1>0 DEF Update, queueVars, EventOf
<1>14. ASSUME NEW s \in Sessions, Lost(s) PROVE EventOf(t)'
  BY <1>14, <1>0 DEF Lost, queueVars, EventOf
<1>15. ASSUME NEW s \in Sessions, SetDefault(s) PROVE EventOf(t)'
  BY <1>15, <1>0 DEF SetDefault, queueVars, EventOf
<1>16. ASSUME NEW s \in Sessions, Reset(s) PROVE EventOf(t)'
  BY <1>16, <1>0 DEF Reset, queueVars, EventOf
<1>17. ASSUME NEW s \in Sessions, Notify(s) PROVE EventOf(t)'
  BY <1>17, <1>0 DEF Notify, queueVars, EventOf
<1>18. CASE CoreCreate \/ Initialize \/ CoreStart \/ CoreClose
  BY <1>18, <1>0, CoreFrame DEF EventOf
<1>19. CASE UNCHANGED vars
  BY <1>19, <1>0 DEF vars, queueVars, EventOf
<1> QED
  BY <1>1, <1>2, <1>3, <1>4, <1>5, <1>6, <1>7, <1>8, <1>9, <1>10,
     <1>11, <1>12, <1>13, <1>14, <1>15, <1>16, <1>17, <1>18, <1>19
  DEF Next, Thread, World

-----------------------------------------------------------------------------
(* What the running monitor remembers.                                     *)

LEMMA Partials ==
    /\ NoLink \in Partial /\ ~Complete(NoLink) /\ NoLink["props"] = None /\ NoLink["caps"] = None
    /\ \A p \in Partial : Complete(p) <=> p["caps"] # None /\ p["props"] # None
    /\ \A p \in Partial : Complete(p) => p \in Link /\ p # NoLink
    /\ \A l \in Link : l \in Partial /\ Complete(l) /\ l["props"] # None /\ l["caps"] # None /\ l # NoLink
BY DEF NoLink, Partial, Complete, Link, Half, States, None

LEMMA TrackOther ==
    ASSUME TrackInv, NEW t \in Sessions, running[t],
           \A c \in Calls(t)' : c \in Calls(t) \/ c.op \in {"refresh", "notify"},
           tracked'[t] = tracked[t], sent'[t] = sent[t],
           dnet'[t] = dnet[t], dseed'[t] = dseed[t], dsent'[t] = dsent[t]
    PROVE  TrackOf(t)'
BY DEF TrackInv, TrackOf

LEMMA TrackKept ==
    ASSUME TypeOK, SessionInv, EventInv, TrackInv, [Next]_vars
    PROVE  TrackInv'
<1> SUFFICES ASSUME NEW t \in Sessions, running'[t] PROVE TrackOf(t)'
  BY DEF TrackInv
<1> USE DEF trackVars
<1>1. CASE World
  BY <1>1, WorldFrame, TrackOther, SameOut
<1>2. ASSUME startMonitor, monitor # None PROVE TrackOf(t)'
  BY <1>2, TrackOther, SameOut DEF startMonitor
<1>3. ASSUME startMonitor, monitor = None PROVE TrackOf(t)'
  <2>1. sessions + 1 \in Sessions /\ running' = [running EXCEPT ![sessions + 1] = TRUE]
        /\ UNCHANGED <<tracked, sent, dnet, dseed, dsent, out>> /\ sessions \in Nat
    BY <1>3, NextSession DEF startMonitor, NewMonitor
  <2>2. CASE t # sessions + 1
    BY <2>1, <2>2, TrackOther, SameOut DEF TypeOK
  <2>3. CASE t = sessions + 1
    <3>1. t > sessions
      BY <2>1, <2>3
    <3>2. /\ out'[t] = <<>> /\ dnet'[t] = NoNet
          /\ tracked'[t] = NoLinks /\ sent'[t] = NoLinks
      BY <2>1, <3>1 DEF SessionInv, SessionOf
    <3> QED
      BY <3>2, FewCalls, Partials DEF TrackOf, NoLinks
  <2> QED
    BY <2>2, <2>3
<1>4. CASE stopMonitor
  <2>1. monitor \in Sessions
    BY <1>4 DEF stopMonitor, TypeOK
  <2> QED
    BY <1>4, <2>1 DEF stopMonitor, TypeOK, SessionInv, SessionOf
<1>5. ASSUME NEW s \in Sessions, HandleNetwork(s) PROVE TrackOf(t)'
  <2>1. running[t] /\ (t # s => out'[t] = out[t] /\ tracked'[t] = tracked[t] /\ sent'[t] = sent[t]
                                  /\ dnet'[t] = dnet[t] /\ dseed'[t] = dseed[t] /\ dsent'[t] = dsent[t])
    BY <1>5, ThreadFrame DEF Thread
  <2>2. CASE t # s
    BY <2>1, <2>2, TrackOther, SameOut
  <2>3. CASE t = s
    <3> DEFINE e == Head(netq[s])
               n == e.net
               p == tracked'[s][n]
    <3>1. TrackOf(s)
      BY <2>1, <2>3 DEF TrackInv
    <3>2. n \in Networks /\ tracked[s][n] \in Partial /\ p \in Partial
      <4>1. n \in Networks /\ tracked' \in [Sessions -> [Networks -> Partial]]
        BY <1>5, NetworkEffect
      <4> QED
        BY <4>1 DEF TypeOK
    <3>3. e.kind \in Half => e.state \in States
      <4>1. netq[s] # <<>>
        BY <1>5, NetworkEffect
      <4>2. netq[s] \in Seq(Event)
        BY DEF TypeOK
      <4>3. e \in Elements(netq[s])
        BY <4>1, <4>2, TailElements
      <4> QED
        BY <4>3 DEF EventInv, EventOf, Sound
    <3>4. /\ sent'[s][n] = (IF Complete(p) THEN p ELSE NoLink)
          /\ \/ out'[s] = <<>>
             \/ Complete(p) /\ out'[s] = <<Call("update", n, p)>>
             \/ ~Complete(p) /\ out'[s] = <<Call("lost", n, NoLink)>>
      <4>1. sent[s][n] = (IF Complete(tracked[s][n]) THEN tracked[s][n] ELSE NoLink)
        BY <3>1, <3>2 DEF TrackOf
      <4>2. CASE e.kind = "available"
        BY <1>5, <4>1, <4>2, NetworkEffect DEF Half
      <4>3. CASE e.kind \in Half
        <5>1. p = [tracked[s][n] EXCEPT ![e.kind] = e.state]
          BY <1>5, <4>3, NetworkEffect DEF Half
        <5>2. Complete(tracked[s][n]) => Complete(p)
          BY <3>2, <3>3, <4>3, <5>1, Partials DEF Partial, Half, States, None
        <5>3. \/ /\ Complete(p) /\ p # sent[s][n]
                 /\ sent'[s][n] = p /\ out'[s] = <<Call("update", n, p)>>
              \/ /\ ~(Complete(p) /\ p # sent[s][n])
                 /\ sent'[s][n] = sent[s][n] /\ out'[s] = <<>>
          BY <1>5, <4>3, NetworkEffect DEF Half
        <5> QED
          BY <4>1, <5>2, <5>3, SMTT(20)
      <4>4. CASE e.kind = "lost"
        BY <1>5, <4>4, NetworkEffect, Partials DEF Half
      <4> QED
        BY <1>5, <4>2, <4>3, <4>4, NetworkEffect
    <3>5. \A m \in Networks : m # n => tracked'[s][m] = tracked[s][m] /\ sent'[s][m] = sent[s][m]
      BY <1>5, NetworkEffect
    <3>6. UNCHANGED <<dnet, dseed, dsent>>
      BY <1>5 DEF HandleNetwork
    <3> HIDE DEF n
    <3>7. \A m \in Networks : sent'[s][m] = (IF Complete(tracked'[s][m]) THEN tracked'[s][m] ELSE NoLink)
      BY <3>1, <3>4, <3>5 DEF TrackOf
    <3>8. \A c \in Calls(s)' :
            /\ c.op = "update" => Complete(tracked'[s][c.net]) /\ c.link = tracked'[s][c.net]
            /\ c.op = "lost" => ~Complete(tracked'[s][c.net])
            /\ c.op \notin {"default", "reset"}
      BY <3>4, FewCalls, CallIs
    <3> QED
      BY <2>3, <3>1, <3>6, <3>7, <3>8 DEF TrackOf
  <2> QED
    BY <2>2, <2>3
<1>6. ASSUME NEW s \in Sessions, HandleDefault(s) PROVE TrackOf(t)'
  <2>1. running[t] /\ (t # s => out'[t] = out[t] /\ tracked'[t] = tracked[t] /\ sent'[t] = sent[t]
                                  /\ dnet'[t] = dnet[t] /\ dseed'[t] = dseed[t] /\ dsent'[t] = dsent[t])
    BY <1>6, ThreadFrame DEF Thread
  <2>2. CASE t # s
    BY <2>1, <2>2, TrackOther, SameOut
  <2>3. CASE t = s
    <3>1. TrackOf(s) /\ UNCHANGED <<tracked, sent>>
      BY <1>6, <2>1, <2>3 DEF TrackInv, HandleDefault
    <3>2. \/ out'[s] = <<>>
          \/ /\ out'[s] = <<Call("default", dnet'[s], NoLink)>>
             /\ \E v : dsent'[s] = <<dnet'[s], v>>
      <4>1. \/ Emitted(s, dnet'[s], dseed'[s])
            \/ /\ dnet'[s] = NoNet /\ dsent'[s] = <<NoNet, None>>
               /\ out'[s] \in {<<>>, <<Call("default", NoNet, NoLink)>>}
            \/ out'[s] = <<>>
        BY <1>6, DefaultEffect
      <4>2. CASE Emitted(s, dnet'[s], dseed'[s])
        BY <4>2 DEF Emitted
      <4> QED
        BY <4>1, <4>2
    <3>3. \A c \in Calls(s)' : /\ c.op = "default" /\ c.net = dnet'[s]
                              /\ dsent'[s] # <<>> /\ dsent'[s][1] = c.net
      BY <3>2, FewCalls, CallIs
    <3>4. dnet'[s] # NoNet /\ dseed'[s]["props"] # None => dsent'[s] = <<dnet'[s], dseed'[s]["caps"]>>
      <4>1. CASE Emitted(s, dnet'[s], dseed'[s])
        BY <4>1 DEF Emitted
      <4>2. CASE dnet'[s] = NoNet
        BY <4>2
      <4>3. CASE dnet'[s] = dnet[s] /\ dseed'[s] = dseed[s] /\ dsent'[s] = dsent[s]
        BY <3>1, <4>3 DEF TrackOf
      <4> QED
        BY <1>6, <4>1, <4>2, <4>3, DefaultEffect
    <3> QED
      BY <2>3, <3>1, <3>3, <3>4 DEF TrackOf
  <2> QED
    BY <2>2, <2>3
<1>7. ASSUME NEW s \in Sessions, HandleReplay(s) PROVE TrackOf(t)'
  <2>1. running[t] /\ (t # s => out'[t] = out[t] /\ tracked'[t] = tracked[t] /\ sent'[t] = sent[t]
                                  /\ dnet'[t] = dnet[t] /\ dseed'[t] = dseed[t] /\ dsent'[t] = dsent[t])
    BY <1>7, ThreadFrame DEF Thread
  <2>2. CASE t # s
    BY <2>1, <2>2, TrackOther, SameOut
  <2>3. CASE t = s
    <3> DEFINE known == dnet[s] # NoNet /\ dseed[s]["props"] # None
    <3>1. PICK q \in Seq(Downcall) :
            /\ out' = [out EXCEPT ![s] = q]
            /\ Elements(q) =
                 {Call("update", n, tracked[s][n]) : n \in Ready(s)}
                   \cup (IF known THEN {Call("default", dnet[s], NoLink)} ELSE {})
      BY <1>7, Replayed
    <3>2. Calls(s)' = Elements(q)
      BY <3>1, SetOut
    <3>3. \A c \in Elements(q) :
            \/ c.op = "default" /\ c.net = dnet[s]
            \/ c.op = "update" /\ Complete(tracked[s][c.net]) /\ c.link = tracked[s][c.net]
      BY <3>1, CallIs DEF Ready
    <3>4. UNCHANGED <<tracked, dnet, dseed>>
      BY <1>7 DEF HandleReplay
    <3>5. sent'[s] = [n \in Networks |-> IF n \in Ready(s) THEN tracked[s][n] ELSE NoLink]
      BY <1>7 DEF HandleReplay, TypeOK
    <3>6. dsent'[s] = (IF known THEN <<dnet[s], dseed[s]["caps"]>> ELSE <<>>)
      BY <1>7 DEF HandleReplay, TypeOK
    <3>7. \A c \in Elements(q) : c.op = "default" => known
      BY <3>1, CallIs
    <3>8. \A c \in Elements(q) : c.op = "default" => dsent'[s] # <<>> /\ dsent'[s][1] = c.net
      BY <3>3, <3>6, <3>7
    <3>9. \A n \in Networks : sent'[s][n] = (IF Complete(tracked'[s][n]) THEN tracked'[s][n] ELSE NoLink)
      BY <3>4, <3>5 DEF Ready
    <3> QED
      BY <2>3, <3>2, <3>3, <3>4, <3>6, <3>8, <3>9 DEF TrackOf
  <2> QED
    BY <2>2, <2>3
<1>8. ASSUME NEW s \in Sessions, HandleCleanup(s) PROVE TrackOf(t)'
  <2>1. running[t] /\ (t # s => out'[t] = out[t] /\ tracked'[t] = tracked[t] /\ sent'[t] = sent[t]
                                  /\ dnet'[t] = dnet[t] /\ dseed'[t] = dseed[t] /\ dsent'[t] = dsent[t])
    BY <1>8, ThreadFrame DEF Thread
  <2>2. CASE t # s
    BY <2>1, <2>2, TrackOther, SameOut
  <2>3. CASE t = s
    BY <1>8, <2>1, <2>3 DEF HandleCleanup, SessionInv, SessionOf
  <2> QED
    BY <2>2, <2>3
<1>9. ASSUME NEW s \in Sessions, Drop(s) PROVE TrackOf(t)'
  <2>1. running[t] /\ (t # s => out'[t] = out[t] /\ tracked'[t] = tracked[t] /\ sent'[t] = sent[t]
                                  /\ dnet'[t] = dnet[t] /\ dseed'[t] = dseed[t] /\ dsent'[t] = dsent[t])
    BY <1>9, ThreadFrame DEF Thread
  <2>2. CASE t # s
    BY <2>1, <2>2, TrackOther, SameOut
  <2>3. CASE t = s
    <3>1. Calls(s)' \subseteq Calls(s) /\ UNCHANGED <<tracked, sent, dnet, dseed, dsent>>
      BY <1>9, TailOut DEF Drop
    <3> QED
      BY <2>1, <2>3, <3>1, TrackOther
  <2> QED
    BY <2>2, <2>3
<1>10. ASSUME NEW s \in Sessions, Update(s) PROVE TrackOf(t)'
  <2>1. running[t] /\ (t # s => out'[t] = out[t] /\ tracked'[t] = tracked[t] /\ sent'[t] = sent[t]
                                  /\ dnet'[t] = dnet[t] /\ dseed'[t] = dseed[t] /\ dsent'[t] = dsent[t])
    BY <1>10, ThreadFrame DEF Thread
  <2>2. CASE t # s
    BY <2>1, <2>2, TrackOther, SameOut
  <2>3. CASE t = s
    <3>1. NoNet \in Handles /\ out' = Then(s, "refresh", NoNet) /\ out[s] # <<>>
      BY <1>10, InCalls DEF Update, Handles, Downcall, In
    <3>2. /\ Calls(s) = {In(s)} \cup Rest(s) /\ Calls(s)' = {In(s)'} \cup Rest(s)
          /\ In(s)'.op = "refresh"
      BY <3>1, ThenOut
    <3>3. UNCHANGED <<tracked, sent, dnet, dseed, dsent>>
      BY <1>10 DEF Update
    <3> QED
      BY <2>1, <2>3, <3>2, <3>3, TrackOther
  <2> QED
    BY <2>2, <2>3
<1>11. ASSUME NEW s \in Sessions, Lost(s) PROVE TrackOf(t)'
  <2>1. running[t] /\ (t # s => out'[t] = out[t] /\ tracked'[t] = tracked[t] /\ sent'[t] = sent[t]
                                  /\ dnet'[t] = dnet[t] /\ dseed'[t] = dseed[t] /\ dsent'[t] = dsent[t])
    BY <1>11, ThreadFrame DEF Thread
  <2>2. CASE t # s
    BY <2>1, <2>2, TrackOther, SameOut
  <2>3. CASE t = s
    <3>1. NoNet \in Handles /\ UNCHANGED <<tracked, sent, dnet, dseed, dsent>>
      BY <1>11 DEF Lost, Handles
    <3>2. CASE out' = Past(s)
      <4>1. Calls(s)' \subseteq Calls(s)
        BY <1>11, <3>2, LostOut, PastOut
      <4> QED
        BY <2>1, <2>3, <3>1, <4>1, TrackOther
    <3>3. CASE out' = Then(s, "refresh", NoNet)
      <4>1. /\ Calls(s) = {In(s)} \cup Rest(s) /\ Calls(s)' = {In(s)'} \cup Rest(s)
            /\ In(s)'.op = "refresh"
        BY <1>11, <3>1, <3>3, LostOut, ThenOut
      <4> QED
        BY <2>1, <2>3, <3>1, <4>1, TrackOther
    <3> QED
      BY <1>11, <3>2, <3>3, LostOut
  <2> QED
    BY <2>2, <2>3
<1>12. ASSUME NEW s \in Sessions, SetDefault(s) PROVE TrackOf(t)'
  <2>1. running[t] /\ (t # s => out'[t] = out[t] /\ tracked'[t] = tracked[t] /\ sent'[t] = sent[t]
                                  /\ dnet'[t] = dnet[t] /\ dseed'[t] = dseed[t] /\ dsent'[t] = dsent[t])
    BY <1>12, ThreadFrame DEF Thread
  <2>2. CASE t # s
    BY <2>1, <2>2, TrackOther, SameOut
  <2>3. CASE t = s
    <3>1. Head(out[s]).net \in Handles /\ out' = Then(s, "notify", Head(out[s]).net) /\ out[s] # <<>>
      BY <1>12, InCalls DEF SetDefault, Handles, Downcall, In
    <3>2. /\ Calls(s) = {In(s)} \cup Rest(s) /\ Calls(s)' = {In(s)'} \cup Rest(s)
          /\ In(s)'.op = "notify"
      BY <3>1, ThenOut
    <3>3. UNCHANGED <<tracked, sent, dnet, dseed, dsent>>
      BY <1>12 DEF SetDefault
    <3> QED
      BY <2>1, <2>3, <3>2, <3>3, TrackOther
  <2> QED
    BY <2>2, <2>3
<1>13. ASSUME NEW s \in Sessions, Reset(s) PROVE TrackOf(t)'
  <2>1. running[t] /\ (t # s => out'[t] = out[t] /\ tracked'[t] = tracked[t] /\ sent'[t] = sent[t]
                                  /\ dnet'[t] = dnet[t] /\ dseed'[t] = dseed[t] /\ dsent'[t] = dsent[t])
    BY <1>13, ThreadFrame DEF Thread
  <2>2. CASE t # s
    BY <2>1, <2>2, TrackOther, SameOut
  <2>3. CASE t = s
    <3>1. NoNet \in Handles /\ out' = Then(s, "notify", NoNet) /\ out[s] # <<>>
      BY <1>13, InCalls DEF Reset, Handles, Downcall, In
    <3>2. /\ Calls(s) = {In(s)} \cup Rest(s) /\ Calls(s)' = {In(s)'} \cup Rest(s)
          /\ In(s)'.op = "notify"
      BY <3>1, ThenOut
    <3>3. UNCHANGED <<tracked, sent, dnet, dseed, dsent>>
      BY <1>13 DEF Reset
    <3> QED
      BY <2>1, <2>3, <3>2, <3>3, TrackOther
  <2> QED
    BY <2>2, <2>3
<1>14. ASSUME NEW s \in Sessions, Notify(s) PROVE TrackOf(t)'
  <2>1. running[t] /\ (t # s => out'[t] = out[t] /\ tracked'[t] = tracked[t] /\ sent'[t] = sent[t]
                                  /\ dnet'[t] = dnet[t] /\ dseed'[t] = dseed[t] /\ dsent'[t] = dsent[t])
    BY <1>14, ThreadFrame DEF Thread
  <2>2. CASE t # s
    BY <2>1, <2>2, TrackOther, SameOut
  <2>3. CASE t = s
    <3>1. Calls(s)' \subseteq Calls(s) /\ UNCHANGED <<tracked, sent, dnet, dseed, dsent>>
      BY <1>14, TailOut DEF Notify
    <3> QED
      BY <2>1, <2>3, <3>1, TrackOther
  <2> QED
    BY <2>2, <2>3
<1>15. CASE CoreCreate \/ Initialize \/ CoreStart \/ CoreClose
  BY <1>15, CoreFrame, TrackOther, SameOut
<1>16. CASE UNCHANGED vars
  BY <1>16, TrackOther, SameOut DEF vars, queueVars
<1> QED
  BY <1>1, <1>2, <1>3, <1>4, <1>5, <1>6, <1>7, <1>8, <1>9, <1>10,
     <1>11, <1>12, <1>13, <1>14, <1>15, <1>16
  DEF Next, Thread

-----------------------------------------------------------------------------
(* What is still to come of the default.                                   *)

LEMMA ComingAppended ==
    ASSUME NEW p \in Seq(Event), NEW q \in Seq(Event), AnnouncedIn(p), AnnouncedIn(q)
    PROVE  /\ AnnouncedIn(p \o q)
           /\ \A n : Coming(p, n) => Coming(p \o q, n)
<1>1. /\ Len(p) \in Nat /\ Len(q) \in Nat /\ Len(p \o q) = Len(p) + Len(q)
      /\ \A i \in 1 .. Len(p) : (p \o q)[i] = p[i]
      /\ \A i \in 1 .. Len(q) : (p \o q)[Len(p) + i] = q[i]
  BY ElementsConcat
<1>2. ASSUME NEW i \in 1 .. Len(p), p[i].kind = "available"
      PROVE  /\ i + 2 <= Len(p \o q)
             /\ (p \o q)[i + 1].kind = "caps" /\ (p \o q)[i + 1].net = (p \o q)[i].net
             /\ (p \o q)[i + 2].kind = "props" /\ (p \o q)[i + 2].net = (p \o q)[i].net
  <2>1. i + 2 <= Len(p) /\ i + 1 \in 1 .. Len(p) /\ i + 2 \in 1 .. Len(p)
    BY <1>1, <1>2 DEF AnnouncedIn
  <2> QED
    BY <1>1, <1>2, <2>1 DEF AnnouncedIn
<1>3. ASSUME NEW i \in 1 .. Len(q), q[i].kind = "available"
      PROVE  /\ (Len(p) + i) + 2 <= Len(p \o q)
             /\ (p \o q)[(Len(p) + i) + 1].kind = "caps" /\ (p \o q)[(Len(p) + i) + 1].net = (p \o q)[Len(p) + i].net
             /\ (p \o q)[(Len(p) + i) + 2].kind = "props" /\ (p \o q)[(Len(p) + i) + 2].net = (p \o q)[Len(p) + i].net
  <2>1. i + 2 <= Len(q) /\ i + 1 \in 1 .. Len(q) /\ i + 2 \in 1 .. Len(q)
    BY <1>1, <1>3 DEF AnnouncedIn
  <2>2. /\ (p \o q)[Len(p) + (i + 1)] = q[i + 1] /\ (p \o q)[Len(p) + (i + 2)] = q[i + 2]
        /\ (p \o q)[Len(p) + i] = q[i]
    BY <1>1, <2>1
  <2>3. (Len(p) + i) + 1 = Len(p) + (i + 1) /\ (Len(p) + i) + 2 = Len(p) + (i + 2)
    BY <1>1
  <2>4. /\ q[i + 1].kind = "caps" /\ q[i + 1].net = q[i].net
        /\ q[i + 2].kind = "props" /\ q[i + 2].net = q[i].net
    BY <1>3 DEF AnnouncedIn
  <2>5. (Len(p) + i) + 2 <= Len(p \o q)
    BY <1>1, <2>1
  <2> QED
    BY <2>2, <2>3, <2>4, <2>5
<1>4. ASSUME NEW i \in 1 .. Len(p \o q)
      PROVE  i \in 1 .. Len(p) \/ (i - Len(p) \in 1 .. Len(q) /\ i = Len(p) + (i - Len(p)))
  BY <1>1
<1>5. AnnouncedIn(p \o q)
  <2> SUFFICES ASSUME NEW i \in 1 .. Len(p \o q), (p \o q)[i].kind = "available"
               PROVE  /\ i + 2 <= Len(p \o q)
                      /\ (p \o q)[i + 1].kind = "caps" /\ (p \o q)[i + 1].net = (p \o q)[i].net
                      /\ (p \o q)[i + 2].kind = "props" /\ (p \o q)[i + 2].net = (p \o q)[i].net
    BY DEF AnnouncedIn
  <2>1. CASE i \in 1 .. Len(p)
    BY <1>1, <1>2, <2>1
  <2>2. ASSUME NEW j \in 1 .. Len(q), i = Len(p) + j
        PROVE  /\ i + 2 <= Len(p \o q)
               /\ (p \o q)[i + 1].kind = "caps" /\ (p \o q)[i + 1].net = (p \o q)[i].net
               /\ (p \o q)[i + 2].kind = "props" /\ (p \o q)[i + 2].net = (p \o q)[i].net
    <3>1. q[j].kind = "available"
      BY <1>1, <2>2
    <3> QED
      BY <1>3, <2>2, <3>1
  <2> QED
    BY <1>4, <2>1, <2>2
<1>6. ASSUME NEW n, Coming(p, n) PROVE Coming(p \o q, n)
  <2>1. 1 <= Len(p) => (p \o q)[1] = p[1] /\ 1 <= Len(p \o q)
    BY <1>1
  <2>2. 2 <= Len(p) => (p \o q)[2] = p[2] /\ 2 <= Len(p \o q)
    BY <1>1
  <2> QED
    BY <1>1, <1>6, <2>1, <2>2 DEF Coming
<1> QED
  BY <1>5, <1>6

LEMMA ComingOf ==
    ASSUME TypeOK, NEW n \in Networks
    PROVE  AnnouncedIn(Announce(n, link[n]))
<1>1. 1 .. 3 = {1, 2, 3}
  OBVIOUS
<1> QED
  BY <1>1, Announced, EvIs DEF AnnouncedIn

LEMMA ComingShort ==
    /\ AnnouncedIn(<<>>)
    /\ \A e : e.kind # "available" => AnnouncedIn(<<e>>)
<1>1. Len(<<>>) = 0 /\ \A e : Len(<<e>>) = 1 /\ <<e>>[1] = e
  OBVIOUS
<1> QED
  BY <1>1 DEF AnnouncedIn

\* The events that are appended to a default callback's queue.
LEMMA ComingTold ==
    ASSUME TypeOK, AwaitInv, NEW t \in Sessions, running[t], NEW e \in Seq(Event), AnnouncedIn(e),
           defq'[t] = Told(defq, e)[t], dnet'[t] = dnet[t], dseed'[t] = dseed[t]
    PROVE  AwaitOf(t)'
<1>1. defq'[t] = defq[t] \o e /\ defq[t] \in Seq(Event)
  BY ToldQueue DEF TypeOK
<1>2. AnnouncedIn(defq[t] \o e) /\ \A n : Coming(defq[t], n) => Coming(defq[t] \o e, n)
  BY <1>1, ComingAppended DEF AwaitInv, AwaitOf
<1> QED
  BY <1>1, <1>2 DEF AwaitInv, AwaitOf

LEMMA ComingTail ==
    ASSUME NEW q \in Seq(Event), q # <<>>, AnnouncedIn(q)
    PROVE  /\ AnnouncedIn(Tail(q))
           /\ Head(q).kind = "available" => Coming(Tail(q), Head(q).net)
           /\ \A n : Coming(q, n) => Head(q).net = n /\ (Head(q).kind = "props" \/ (Head(q).kind = "caps" /\ Coming(Tail(q), n)))
<1>1. /\ Tail(q) \in Seq(Event) /\ Head(q) = q[1]
      /\ Len(q) \in Nat \ {0} /\ Len(Tail(q)) = Len(q) - 1
      /\ \A i \in 1 .. Len(Tail(q)) : i + 1 \in 1 .. Len(q) /\ Tail(q)[i] = q[i + 1]
  BY ElementsTail
<1>2. AnnouncedIn(Tail(q))
  <2> SUFFICES ASSUME NEW i \in 1 .. Len(Tail(q)), Tail(q)[i].kind = "available"
               PROVE  /\ i + 2 <= Len(Tail(q))
                      /\ Tail(q)[i + 1].kind = "caps" /\ Tail(q)[i + 1].net = Tail(q)[i].net
                      /\ Tail(q)[i + 2].kind = "props" /\ Tail(q)[i + 2].net = Tail(q)[i].net
    BY DEF AnnouncedIn
  <2>1. i + 1 \in 1 .. Len(q) /\ Tail(q)[i] = q[i + 1]
    BY <1>1
  <2>2. /\ (i + 1) + 2 <= Len(q)
        /\ q[(i + 1) + 1].kind = "caps" /\ q[(i + 1) + 1].net = q[i + 1].net
        /\ q[(i + 1) + 2].kind = "props" /\ q[(i + 1) + 2].net = q[i + 1].net
    BY <2>1 DEF AnnouncedIn
  <2>3. i + 1 \in 1 .. Len(Tail(q)) /\ i + 2 \in 1 .. Len(Tail(q)) /\ i + 2 <= Len(Tail(q))
    BY <1>1, <2>2
  <2>4. Tail(q)[i + 1] = q[(i + 1) + 1] /\ Tail(q)[i + 2] = q[(i + 1) + 2]
    <3>1. (i + 2) + 1 = (i + 1) + 2
      OBVIOUS
    <3> QED
      BY <1>1, <2>3, <3>1
  <2> QED
    BY <2>1, <2>2, <2>3, <2>4
<1>3. ASSUME Head(q).kind = "available" PROVE Coming(Tail(q), Head(q).net)
  <2>1. 1 \in 1 .. Len(q) /\ q[1].kind = "available" /\ 1 + 1 = 2 /\ 1 + 2 = 3
    BY <1>1, <1>3
  <2>2. /\ 3 <= Len(q)
        /\ q[2].kind = "caps" /\ q[2].net = q[1].net
        /\ q[3].kind = "props" /\ q[3].net = q[1].net
    BY <2>1 DEF AnnouncedIn
  <2>3. 1 \in 1 .. Len(Tail(q)) /\ 2 \in 1 .. Len(Tail(q)) /\ 2 <= Len(Tail(q)) /\ 2 + 1 = 3
    BY <1>1, <2>2
  <2>4. Tail(q)[1] = q[2] /\ Tail(q)[2] = q[3]
    BY <1>1, <2>1, <2>3
  <2> QED
    BY <1>1, <2>2, <2>3, <2>4 DEF Coming
<1>4. ASSUME NEW n, Coming(q, n)
      PROVE  Head(q).net = n /\ (Head(q).kind = "props" \/ (Head(q).kind = "caps" /\ Coming(Tail(q), n)))
  <2>1. CASE q[1].kind = "props" /\ q[1].net = n
    BY <1>1, <2>1
  <2>2. CASE 2 <= Len(q) /\ q[1].kind = "caps" /\ q[1].net = n /\ q[2].kind = "props" /\ q[2].net = n
    <3>1. 1 \in 1 .. Len(Tail(q)) /\ 1 <= Len(Tail(q)) /\ 1 + 1 = 2
      BY <1>1, <2>2
    <3>2. Tail(q)[1] = q[2]
      BY <1>1, <3>1
    <3> QED
      BY <1>1, <2>2, <3>1, <3>2 DEF Coming
  <2> QED
    BY <1>4, <2>1, <2>2 DEF Coming
<1> QED
  BY <1>2, <1>3, <1>4

LEMMA AwaitKept ==
    ASSUME TypeOK, SessionInv, EventInv, AwaitInv, [Next]_vars
    PROVE  AwaitInv'
<1> SUFFICES ASSUME NEW t \in Sessions, running'[t] PROVE AwaitOf(t)'
  BY DEF AwaitInv
<1> USE DEF trackVars, queueVars
<1>0. \A e : AnnouncedIn(<<>>) /\ (e.kind # "available" => AnnouncedIn(<<e>>))
  BY ComingShort
<1> DEFINE Same == defq'[t] = defq[t] /\ dnet'[t] = dnet[t] /\ dseed'[t] = dseed[t]
<1>00. ASSUME running[t], Same PROVE AwaitOf(t)'
  BY <1>00 DEF AwaitInv, AwaitOf
<1>1. ASSUME NEW n \in Networks, NetworkUp(n) PROVE AwaitOf(t)'
  <2>1. running[t] /\ Same
    BY <1>1 DEF NetworkUp
  <2> QED
    BY <1>00, <2>1
<1>2. ASSUME NEW n \in Networks, BestChange(n) PROVE AwaitOf(t)'
  <2>1. running[t] /\ dnet' = dnet /\ dseed' = dseed /\ defq'[t] = Told(defq, Announce(n, link[n]))[t]
    BY <1>2 DEF BestChange
  <2>2. Announce(n, link[n]) \in Seq(Event) /\ AnnouncedIn(Announce(n, link[n]))
    BY Announced, ComingOf
  <2> QED
    BY <2>1, <2>2, ComingTold
<1>3. ASSUME NEW n \in Networks, NetworkDown(n) PROVE AwaitOf(t)'
  <2>1. <<Ev("lost", n, None)>> \in Seq(Event) /\ <<>> \in Seq(Event)
    <3>1. Ev("lost", n, None) \in Event
      BY DEF Ev, Event
    <3> QED
      BY <3>1
  <2>2. AnnouncedIn(<<Ev("lost", n, None)>>) /\ AnnouncedIn(<<>>)
    BY ComingShort, EvIs
  <2>3. running[t] /\ dnet' = dnet /\ dseed' = dseed
    BY <1>3 DEF NetworkDown
  <2>4. CASE UNCHANGED defq
    BY <1>00, <2>3, <2>4
  <2>5. CASE defq' = Told(defq, <<Ev("lost", n, None)>>)
    BY <2>1, <2>2, <2>3, <2>5, ComingTold
  <2>6. ASSUME NEW m \in Up, NEW late \in {<<>>, <<Ev("lost", n, None)>>},
               defq' = Told(defq, Announce(m, link[m]) \o late)
        PROVE  AwaitOf(t)'
    <3>1. late \in Seq(Event) /\ AnnouncedIn(late) /\ m \in Networks
      BY <2>1, <2>2 DEF Up
    <3>2. Announce(m, link[m]) \in Seq(Event) /\ AnnouncedIn(Announce(m, link[m]))
      BY <3>1, Announced, ComingOf
    <3>3. Announce(m, link[m]) \o late \in Seq(Event) /\ AnnouncedIn(Announce(m, link[m]) \o late)
      BY <3>1, <3>2, ComingAppended, ElementsConcat
    <3> QED
      BY <2>3, <2>6, <3>3, ComingTold
  <2> QED
    BY <1>3, <2>4, <2>5, <2>6 DEF NetworkDown
<1>4. ASSUME NEW n \in Networks, NEW h \in Half, LinkChange(n, h) PROVE AwaitOf(t)'
  <2>1. <<Ev(h, n, 2)>> \in Seq(Event)
    <3>1. Ev(h, n, 2) \in Event
      BY DEF Ev, Event, States, Half
    <3> QED
      BY <3>1
  <2>2. AnnouncedIn(<<Ev(h, n, 2)>>)
    BY ComingShort, EvIs DEF Half
  <2>3. CASE best = n
    BY <1>4, <2>1, <2>2, <2>3, ComingTold DEF LinkChange
  <2>4. CASE best # n
    BY <1>4, <1>00, <2>4 DEF LinkChange
  <2> QED
    BY <2>3, <2>4
<1>5. ASSUME startMonitor, monitor # None PROVE AwaitOf(t)'
  <2>1. running[t] /\ Same
    BY <1>5 DEF startMonitor
  <2> QED
    BY <1>00, <2>1
<1>6. ASSUME startMonitor, monitor = None PROVE AwaitOf(t)'
  <2>1. sessions + 1 \in Sessions /\ running' = [running EXCEPT ![sessions + 1] = TRUE]
        /\ UNCHANGED <<dnet, dseed>> /\ sessions \in Nat
        /\ defq' = [defq EXCEPT ![sessions + 1] = IF best = NoNet THEN <<>> ELSE Announce(best, link[best])]
    BY <1>6, NextSession DEF startMonitor, NewMonitor
  <2>2. CASE t # sessions + 1
    BY <1>00, <2>1, <2>2 DEF TypeOK
  <2>3. CASE t = sessions + 1
    <3>1. t > sessions
      BY <2>1, <2>3
    <3>2. dnet'[t] = NoNet
      BY <2>1, <3>1 DEF SessionInv, SessionOf
    <3>3. defq'[t] = (IF best = NoNet THEN <<>> ELSE Announce(best, link[best]))
      BY <2>1, <2>3 DEF TypeOK
    <3>4. best # NoNet => AnnouncedIn(Announce(best, link[best]))
      BY ComingOf DEF TypeOK, Handles
    <3> QED
      BY <1>0, <3>2, <3>3, <3>4 DEF AwaitOf
  <2> QED
    BY <2>2, <2>3
<1>7. CASE stopMonitor
  <2>1. monitor \in Sessions
    BY <1>7 DEF stopMonitor, TypeOK
  <2> QED
    BY <1>7, <2>1 DEF stopMonitor, TypeOK, SessionInv, SessionOf
<1>8. ASSUME NEW s \in Sessions, HandleNetwork(s) PROVE AwaitOf(t)'
  <2>1. running[t] /\ Same
    BY <1>8 DEF HandleNetwork
  <2> QED
    BY <1>00, <2>1
<1>9. ASSUME NEW s \in Sessions, HandleDefault(s) PROVE AwaitOf(t)'
  <2>1. running[t] /\ (t # s => Same)
    BY <1>9, ThreadFrame DEF Thread
  <2>2. CASE t # s
    BY <1>00, <2>1, <2>2
  <2>3. CASE t = s
    <3> DEFINE q == defq[s]
               e == Head(q)
    <3>1. q # <<>> /\ defq'[s] = Tail(q) /\ e.net \in Networks /\ q \in Seq(Event)
      BY <1>9, DefaultEffect DEF TypeOK
    <3>2. AnnouncedIn(q) /\ (dnet[s] # NoNet /\ dseed[s]["props"] = None => Coming(q, dnet[s]))
      BY <2>1, <2>3 DEF AwaitInv, AwaitOf
    <3>3. e.kind \in Half => e.state \in States
      <4>1. e \in Elements(q)
        BY <3>1, TailElements
      <4> QED
        BY <4>1 DEF EventInv, EventOf, Sound
    <3>4. /\ AnnouncedIn(Tail(q))
          /\ e.kind = "available" => Coming(Tail(q), e.net)
          /\ \A n : Coming(q, n) => e.net = n /\ (e.kind = "props" \/ (e.kind = "caps" /\ Coming(Tail(q), n)))
      BY <3>1, <3>2, ComingTail
    <3>5. dnet'[s] # NoNet /\ dseed'[s]["props"] = None => Coming(Tail(q), dnet'[s])
      <4>1. CASE e.kind = "available" /\ dnet'[s] = e.net
        BY <3>4, <4>1
      <4>2. CASE e.kind \in Half /\ dnet'[s] = dnet[s] /\ dseed'[s] = [dseed[s] EXCEPT ![e.kind] = e.state]
        <5>1. dseed[s] \in Partial
          BY DEF TypeOK
        <5>2. dseed'[s]["props"] = None => dseed[s]["props"] = None /\ e.kind # "props"
          BY <3>3, <4>2, <5>1 DEF Partial, Half, States, None
        <5> QED
          BY <3>2, <3>4, <4>2, <5>2
      <4>3. CASE dnet'[s] = NoNet
        BY <4>3
      <4>4. CASE e.net # dnet[s] /\ dnet'[s] = dnet[s] /\ dseed'[s] = dseed[s]
        BY <3>2, <3>4, <4>4
      <4> QED
        BY <1>9, <4>1, <4>2, <4>3, <4>4, DefaultEffect
    <3> QED
      BY <2>3, <3>1, <3>4, <3>5 DEF AwaitOf
  <2> QED
    BY <2>2, <2>3
<1>10. ASSUME NEW s \in Sessions, HandleReplay(s) PROVE AwaitOf(t)'
  <2>1. running[t] /\ Same
    BY <1>10 DEF HandleReplay
  <2> QED
    BY <1>00, <2>1
<1>11. ASSUME NEW s \in Sessions, HandleCleanup(s) PROVE AwaitOf(t)'
  <2>1. running[t] /\ (t # s => Same)
    BY <1>11, ThreadFrame DEF Thread
  <2>2. t # s
    BY <1>11, <2>1 DEF HandleCleanup, SessionInv, SessionOf
  <2> QED
    BY <1>00, <2>1, <2>2
<1>12. ASSUME NEW s \in Sessions, Drop(s) PROVE AwaitOf(t)'
  <2>1. running[t] /\ Same
    BY <1>12 DEF Drop
  <2> QED
    BY <1>00, <2>1
<1>13. ASSUME NEW s \in Sessions, Update(s) PROVE AwaitOf(t)'
  <2>1. running[t] /\ Same
    BY <1>13 DEF Update
  <2> QED
    BY <1>00, <2>1
<1>14. ASSUME NEW s \in Sessions, Lost(s) PROVE AwaitOf(t)'
  <2>1. running[t] /\ Same
    BY <1>14 DEF Lost
  <2> QED
    BY <1>00, <2>1
<1>15. ASSUME NEW s \in Sessions, SetDefault(s) PROVE AwaitOf(t)'
  <2>1. running[t] /\ Same
    BY <1>15 DEF SetDefault
  <2> QED
    BY <1>00, <2>1
<1>16. ASSUME NEW s \in Sessions, Reset(s) PROVE AwaitOf(t)'
  <2>1. running[t] /\ Same
    BY <1>16 DEF Reset
  <2> QED
    BY <1>00, <2>1
<1>17. ASSUME NEW s \in Sessions, Notify(s) PROVE AwaitOf(t)'
  <2>1. running[t] /\ Same
    BY <1>17 DEF Notify
  <2> QED
    BY <1>00, <2>1
<1>18. CASE CoreCreate \/ Initialize \/ CoreStart \/ CoreClose
  <2>1. running[t] /\ Same
    BY <1>18, CoreFrame
  <2> QED
    BY <1>00, <2>1
<1>19. CASE UNCHANGED vars
  <2>1. running[t] /\ Same
    BY <1>19 DEF vars
  <2> QED
    BY <1>00, <2>1
<1> QED
  BY <1>1, <1>2, <1>3, <1>4, <1>5, <1>6, <1>7, <1>8, <1>9, <1>10,
     <1>11, <1>12, <1>13, <1>14, <1>15, <1>16, <1>17, <1>18, <1>19
  DEF Next, Thread, World

-----------------------------------------------------------------------------
(* Whose manager and callbacks there are.                                  *)

LEMMA CoreNumbers ==
    ASSUME TypeOK
    PROVE  cores \in Nat /\ manager \in Nat /\ callbacks \subseteq Nat
BY Bounds DEF TypeOK, None

\* What the registry holds about a core that is not told anything stays as it is.
LEMMA HeardOther ==
    ASSUME TypeOK, ListenInv, NEW t \in Sessions,
           \A c \in Calls(t)' : c \in Calls(t) \/ c.op \notin {"refresh", "notify"}
                                \/ (c.nm = manager /\ c.cbs = callbacks),
           UNCHANGED <<manager, callbacks, cores>>
    PROVE  HeardOf(t)'
<1>1. ASSUME NEW c \in Calls(t)', c.op \in {"refresh", "notify"}
      PROVE  c.nm <= manager' /\ \A k \in c.cbs : k <= cores'
  <2>1. CASE c \in Calls(t)
    BY <1>1, <2>1 DEF ListenInv, HeardOf
  <2>2. CASE c.nm = manager /\ c.cbs = callbacks
    BY <2>2, CoreNumbers DEF ListenInv
  <2> QED
    BY <1>1, <2>1, <2>2
<1> QED
  BY <1>1 DEF HeardOf

LEMMA ListenKept ==
    ASSUME TypeOK, ListenInv, [Next]_vars
    PROVE  ListenInv'
<1> USE DEF coreVars, listenerVars
<1>00. ASSUME UNCHANGED <<manager, callbacks, cores, core, coreIfaces, coreDefault>>,
              \A t \in Sessions : HeardOf(t)'
       PROVE  ListenInv'
  BY <1>00 DEF ListenInv, NoLinks
<1>1. CASE World
  <2>1. UNCHANGED <<manager, callbacks, cores, core, coreIfaces, coreDefault, out>>
    BY <1>1, WorldFrame
  <2> QED
    BY <1>00, <2>1, HeardOther, SameOut
<1>2. ASSUME startMonitor, monitor # None PROVE ListenInv'
  <2>1. UNCHANGED <<manager, callbacks, cores, core, coreIfaces, coreDefault, out>>
    BY <1>2 DEF startMonitor
  <2> QED
    BY <1>00, <2>1, HeardOther, SameOut
<1>3. ASSUME startMonitor, monitor = None PROVE ListenInv'
  <2>1. UNCHANGED <<manager, callbacks, cores, core, coreIfaces, coreDefault, out>>
    BY <1>3 DEF startMonitor
  <2> QED
    BY <1>00, <2>1, HeardOther, SameOut
<1>4. CASE stopMonitor
  <2>1. UNCHANGED <<manager, callbacks, cores, core, coreIfaces, coreDefault, out>>
    BY <1>4 DEF stopMonitor
  <2> QED
    BY <1>00, <2>1, HeardOther, SameOut
<1>5. ASSUME NEW s \in Sessions, HandleNetwork(s) PROVE ListenInv'
  <2>1. \A t \in Sessions : t # s => out'[t] = out[t]
    BY <1>5, ThreadFrame DEF Thread
  <2>2. UNCHANGED <<manager, callbacks, cores, core, coreIfaces, coreDefault>>
    BY <1>5 DEF HandleNetwork
  <2>3. \A c \in Calls(s)' : c \in Calls(s) \/ c.op \notin {"refresh", "notify"}
                             \/ (c.nm = manager /\ c.cbs = callbacks)
    <3> DEFINE n == Head(netq[s]).net
    <3>1. \/ out'[s] = <<>> \/ out'[s] = <<Call("update", n, tracked'[s][n])>>
          \/ out'[s] = <<Call("lost", n, NoLink)>>
      BY <1>5, NetworkEffect
    <3> QED
      BY <3>1, FewCalls, CallIs
  <2> QED
    BY <1>00, <2>1, <2>2, <2>3, HeardOther, SameOut
<1>6. ASSUME NEW s \in Sessions, HandleDefault(s) PROVE ListenInv'
  <2>1. \A t \in Sessions : t # s => out'[t] = out[t]
    BY <1>6, ThreadFrame DEF Thread
  <2>2. UNCHANGED <<manager, callbacks, cores, core, coreIfaces, coreDefault>>
    BY <1>6 DEF HandleDefault
  <2>3. \A c \in Calls(s)' : c \in Calls(s) \/ c.op \notin {"refresh", "notify"}
                             \/ (c.nm = manager /\ c.cbs = callbacks)
    <3>1. out'[s] = <<>> \/ out'[s] = <<Call("default", dnet'[s], NoLink)>>
      BY <1>6, DefaultEffect DEF Emitted
    <3> QED
      BY <3>1, FewCalls, CallIs
  <2> QED
    BY <1>00, <2>1, <2>2, <2>3, HeardOther, SameOut
<1>7. ASSUME NEW s \in Sessions, HandleReplay(s) PROVE ListenInv'
  <2>1. \A t \in Sessions : t # s => out'[t] = out[t]
    BY <1>7, ThreadFrame DEF Thread
  <2>2. UNCHANGED <<manager, callbacks, cores, core, coreIfaces, coreDefault>>
    BY <1>7 DEF HandleReplay
  <2>3. \A c \in Calls(s)' : c \in Calls(s) \/ c.op \notin {"refresh", "notify"}
                             \/ (c.nm = manager /\ c.cbs = callbacks)
    <3>1. PICK q \in Seq(Downcall) :
            /\ out' = [out EXCEPT ![s] = q]
            /\ Elements(q) =
                 {Call("update", n, tracked[s][n]) : n \in Ready(s)}
                   \cup (IF dnet[s] # NoNet /\ dseed[s]["props"] # None
                         THEN {Call("default", dnet[s], NoLink)} ELSE {})
      BY <1>7, Replayed
    <3>2. \A c \in Elements(q) : c.op \in {"update", "default"}
      BY <3>1, CallIs
    <3>3. Calls(s)' = Elements(q)
      BY <3>1, SetOut
    <3> QED
      BY <3>2, <3>3
  <2> QED
    BY <1>00, <2>1, <2>2, <2>3, HeardOther, SameOut
<1>8. ASSUME NEW s \in Sessions, HandleCleanup(s) PROVE ListenInv'
  <2>1. \A t \in Sessions : t # s => out'[t] = out[t]
    BY <1>8, ThreadFrame DEF Thread
  <2>2. UNCHANGED <<manager, callbacks, cores, core, coreIfaces, coreDefault>>
    BY <1>8 DEF HandleCleanup
  <2>3. \A c \in Calls(s)' : c \in Calls(s) \/ c.op \notin {"refresh", "notify"}
                             \/ (c.nm = manager /\ c.cbs = callbacks)
    <3>1. out'[s] = <<Call("reset", NoNet, NoLink)>>
      BY <1>8 DEF HandleCleanup, TypeOK
    <3> QED
      BY <3>1, FewCalls, CallIs
  <2> QED
    BY <1>00, <2>1, <2>2, <2>3, HeardOther, SameOut
<1>9. ASSUME NEW s \in Sessions, Drop(s) PROVE ListenInv'
  <2>1. \A t \in Sessions : t # s => out'[t] = out[t]
    BY <1>9, ThreadFrame DEF Thread
  <2>2. UNCHANGED <<manager, callbacks, cores, core, coreIfaces, coreDefault>>
    BY <1>9 DEF Drop
  <2>3. \A c \in Calls(s)' : c \in Calls(s) \/ c.op \notin {"refresh", "notify"}
                             \/ (c.nm = manager /\ c.cbs = callbacks)
    BY <1>9, TailOut DEF Drop
  <2> QED
    BY <1>00, <2>1, <2>2, <2>3, HeardOther, SameOut
<1>10. ASSUME NEW s \in Sessions, Update(s) PROVE ListenInv'
  <2>1. \A t \in Sessions : t # s => out'[t] = out[t]
    BY <1>10, ThreadFrame DEF Thread
  <2>2. UNCHANGED <<manager, callbacks, cores, core, coreIfaces, coreDefault>>
    BY <1>10 DEF Update
  <2>3. \A c \in Calls(s)' : c \in Calls(s) \/ c.op \notin {"refresh", "notify"}
                             \/ (c.nm = manager /\ c.cbs = callbacks)
    <3>1. NoNet \in Handles /\ out' = Then(s, "refresh", NoNet) /\ out[s] # <<>>
      BY <1>10, InCalls DEF Update, Handles, Downcall, In
    <3>2. /\ Calls(s) = {In(s)} \cup Rest(s) /\ Calls(s)' = {In(s)'} \cup Rest(s)
          /\ In(s)'.nm = manager /\ In(s)'.cbs = callbacks
      BY <3>1, ThenOut
    <3> QED
      BY <3>2
  <2> QED
    BY <1>00, <2>1, <2>2, <2>3, HeardOther, SameOut
<1>11. ASSUME NEW s \in Sessions, Lost(s) PROVE ListenInv'
  <2>1. \A t \in Sessions : t # s => out'[t] = out[t]
    BY <1>11, ThreadFrame DEF Thread
  <2>2. UNCHANGED <<manager, callbacks, cores, core, coreIfaces, coreDefault>>
    BY <1>11 DEF Lost
  <2>3. \A c \in Calls(s)' : c \in Calls(s) \/ c.op \notin {"refresh", "notify"}
                             \/ (c.nm = manager /\ c.cbs = callbacks)
    <3>1. CASE out' = Past(s)
      BY <1>11, <3>1, LostOut, PastOut
    <3>2. CASE out' = Then(s, "refresh", NoNet)
      <4>1. NoNet \in Handles /\ out[s] # <<>>
        BY <1>11, LostOut DEF Handles
      <4>2. /\ Calls(s) = {In(s)} \cup Rest(s) /\ Calls(s)' = {In(s)'} \cup Rest(s)
            /\ In(s)'.nm = manager /\ In(s)'.cbs = callbacks
        BY <3>2, <4>1, ThenOut
      <4> QED
        BY <4>2
    <3> QED
      BY <1>11, <3>1, <3>2, LostOut
  <2> QED
    BY <1>00, <2>1, <2>2, <2>3, HeardOther, SameOut
<1>12. ASSUME NEW s \in Sessions, SetDefault(s) PROVE ListenInv'
  <2>1. \A t \in Sessions : t # s => out'[t] = out[t]
    BY <1>12, ThreadFrame DEF Thread
  <2>2. UNCHANGED <<manager, callbacks, cores, core, coreIfaces, coreDefault>>
    BY <1>12 DEF SetDefault
  <2>3. \A c \in Calls(s)' : c \in Calls(s) \/ c.op \notin {"refresh", "notify"}
                             \/ (c.nm = manager /\ c.cbs = callbacks)
    <3>1. Head(out[s]).net \in Handles /\ out' = Then(s, "notify", Head(out[s]).net) /\ out[s] # <<>>
      BY <1>12, InCalls DEF SetDefault, Handles, Downcall, In
    <3>2. /\ Calls(s) = {In(s)} \cup Rest(s) /\ Calls(s)' = {In(s)'} \cup Rest(s)
          /\ In(s)'.nm = manager /\ In(s)'.cbs = callbacks
      BY <3>1, ThenOut
    <3> QED
      BY <3>2
  <2> QED
    BY <1>00, <2>1, <2>2, <2>3, HeardOther, SameOut
<1>13. ASSUME NEW s \in Sessions, Reset(s) PROVE ListenInv'
  <2>1. \A t \in Sessions : t # s => out'[t] = out[t]
    BY <1>13, ThreadFrame DEF Thread
  <2>2. UNCHANGED <<manager, callbacks, cores, core, coreIfaces, coreDefault>>
    BY <1>13 DEF Reset
  <2>3. \A c \in Calls(s)' : c \in Calls(s) \/ c.op \notin {"refresh", "notify"}
                             \/ (c.nm = manager /\ c.cbs = callbacks)
    <3>1. NoNet \in Handles /\ out' = Then(s, "notify", NoNet) /\ out[s] # <<>>
      BY <1>13, InCalls DEF Reset, Handles, Downcall, In
    <3>2. /\ Calls(s) = {In(s)} \cup Rest(s) /\ Calls(s)' = {In(s)'} \cup Rest(s)
          /\ In(s)'.nm = manager /\ In(s)'.cbs = callbacks
      BY <3>1, ThenOut
    <3> QED
      BY <3>2
  <2> QED
    BY <1>00, <2>1, <2>2, <2>3, HeardOther, SameOut
<1>14. ASSUME NEW s \in Sessions, Notify(s) PROVE ListenInv'
  <2>1. \A t \in Sessions : t # s => out'[t] = out[t]
    BY <1>14, ThreadFrame DEF Thread
  <2>2. UNCHANGED <<manager, callbacks, cores, core>>
    BY <1>14 DEF Notify
  <2>3. \A c \in Calls(s)' : c \in Calls(s)
    BY <1>14, TailOut DEF Notify
  <2>4. \A t \in Sessions : HeardOf(t)'
    BY <2>1, <2>2, <2>3, HeardOther, SameOut
  <2>5. In(s).op \in {"refresh", "notify"} /\ In(s) \in Calls(s)
    BY <1>14, InCalls DEF Notify, In
  <2>6. In(s).nm <= manager /\ In(s).nm \in Nat
    <3>1. In(s) \in Downcall
      BY <1>14, InCalls DEF Notify
    <3>2. In(s).nm \in Nat
      BY <3>1, Bounds DEF Downcall, None
    <3> QED
      BY <2>5, <3>2 DEF ListenInv, HeardOf
  <2>7. core \in {"off", "created"} => coreIfaces' = coreIfaces
    <3>1. core = "created" => In(s).nm # cores
      BY <2>6, CoreNumbers DEF ListenInv
    <3> QED
      BY <1>14, <3>1 DEF Notify, Listens, In
  <2>8. core = "off" => coreDefault' = coreDefault
    BY <1>14 DEF Notify, Listens
  <2> QED
    BY <2>2, <2>4, <2>7, <2>8 DEF ListenInv, NoLinks
<1>15. CASE CoreCreate
  <2>1. \A t \in Sessions : Calls(t)' = Calls(t)
    BY <1>15, CoreFrame, SameOut
  <2>2. cores \in Nat /\ manager \in Nat /\ cores' = cores + 1 /\ manager' = manager /\ callbacks \subseteq Nat
    BY <1>15, CoreNumbers DEF CoreCreate
  <2>3. ASSUME NEW t \in Sessions PROVE HeardOf(t)'
    <3>1. ASSUME NEW c \in Calls(t), c.op \in {"refresh", "notify"}
          PROVE  c.nm <= manager /\ \A k \in c.cbs : k <= cores + 1
      <4>1. c.nm <= manager /\ \A k \in c.cbs : k <= cores
        BY <3>1 DEF ListenInv, HeardOf
      <4>2. c \in Downcall
        BY ElementsTyped DEF TypeOK, Calls
      <4>3. c.cbs \subseteq Nat
        BY <4>2, Bounds DEF Downcall
      <4>4. ASSUME NEW k \in c.cbs PROVE k <= cores + 1
        BY <2>2, <4>1, <4>3
      <4> QED
        BY <4>1, <4>4
    <3> QED
      BY <2>1, <2>2, <3>1 DEF HeardOf
  <2>4. manager' <= cores' /\ manager' < cores'
    BY <2>2 DEF ListenInv
  <2>5. \A k \in callbacks' : k <= cores'
    BY <1>15, <2>2 DEF CoreCreate, registerCallback, ListenInv
  <2> QED
    BY <1>15, <2>2, <2>3, <2>4, <2>5 DEF CoreCreate, registerCallback, ListenInv, NoLinks
<1>16. CASE Initialize
  <2>1. \A t \in Sessions : Calls(t)' = Calls(t)
    BY <1>16, CoreFrame, SameOut
  <2>2. cores \in Nat /\ manager < cores /\ manager' = cores /\ cores' = cores /\ callbacks' = callbacks /\ manager \in Nat
    BY <1>16, CoreNumbers DEF Initialize, setNetworkManager, ListenInv
  <2>3. ASSUME NEW t \in Sessions PROVE HeardOf(t)'
    <3>1. ASSUME NEW c \in Calls(t), c.op \in {"refresh", "notify"}
          PROVE  c.nm <= cores /\ \A k \in c.cbs : k <= cores
      <4>1. c.nm <= manager /\ \A k \in c.cbs : k <= cores
        BY <3>1 DEF ListenInv, HeardOf
      <4>2. c \in Downcall
        BY ElementsTyped DEF TypeOK, Calls
      <4>3. c.nm \in Nat
        BY <4>2, Bounds DEF Downcall, None
      <4> QED
        BY <2>2, <4>1, <4>3
    <3> QED
      BY <2>1, <2>2, <3>1 DEF HeardOf
  <2> QED
    BY <1>16, <2>2, <2>3 DEF Initialize, ListenInv, NoLinks
<1>17. CASE CoreStart
  <2>1. \A t \in Sessions : Calls(t)' = Calls(t)
    BY <1>17, CoreFrame, SameOut
  <2>2. \A t \in Sessions : HeardOf(t)'
    BY <1>17, <2>1 DEF CoreStart, ListenInv, HeardOf
  <2> QED
    BY <1>17, <2>2 DEF CoreStart, ListenInv, NoLinks
<1>18. CASE CoreClose
  <2>1. \A t \in Sessions : Calls(t)' = Calls(t)
    BY <1>18, CoreFrame, SameOut
  <2>2. \A t \in Sessions : HeardOf(t)'
    BY <1>18, <2>1 DEF CoreClose, ListenInv, HeardOf
  <2>3. callbacks' \subseteq callbacks
    BY <1>18 DEF CoreClose, unregisterCallback
  <2> QED
    BY <1>18, <2>2, <2>3 DEF CoreClose, ListenInv, NoLinks
<1>19. CASE UNCHANGED vars
  <2>1. UNCHANGED <<manager, callbacks, cores, core, coreIfaces, coreDefault, out>>
    BY <1>19 DEF vars
  <2> QED
    BY <1>00, <2>1, HeardOther, SameOut
<1> QED
  BY <1>1, <1>2, <1>3, <1>4, <1>5, <1>6, <1>7, <1>8, <1>9, <1>10,
     <1>11, <1>12, <1>13, <1>14, <1>15, <1>16, <1>17, <1>18, <1>19
  DEF Next, Thread

-----------------------------------------------------------------------------
(* Theorems for any number of threads.                                     *)

\* What holds of the registry's clients, one by one.
THEOREM Threads == Spec => []ThreadInv
<1>1. Init => ThreadInv
  <2> SUFFICES ASSUME Init PROVE ThreadInv
    OBVIOUS
  <2>1. <<>> \in Seq(Event) /\ <<>> \in Seq(Downcall) /\ None \in Cores \cup {None}
    OBVIOUS
  <2>2. /\ NoLink \in Partial /\ [h \in Half |-> 1] \in Link /\ NoNet \in Handles
        /\ \A n \in Networks : ~Complete(NoLink)
    BY DEF NoLink, Partial, Link, States, Handles, Complete, Half
  <2>3. TypeOK
    BY <2>1, <2>2 DEF Init, TypeOK, None
  <2>4. \A s \in Sessions : out[s] = <<>> /\ Calls(s) = {} /\ ~running[s]
    BY ElementsShort DEF Init, Calls
  <2>5. monitor = None /\ SessionInv
    BY <2>4 DEF Init, SessionInv, SessionOf, NoLinks
  <2>6. OutInv /\ UnboundInv /\ EmptyInv
    BY <2>4 DEF Init, OutInv, OutOf, UnboundInv, EmptyInv, Empty, NoLinks
  <2>7. EventInv
    BY ElementsShort DEF Init, EventInv, EventOf
  <2>8. TrackInv /\ AwaitInv
    BY <2>4 DEF TrackInv, AwaitInv
  <2>9. ListenInv
    BY <2>4 DEF Init, ListenInv, HeardOf, NoLinks, None
  <2> QED
    BY <2>3, <2>5, <2>6, <2>7, <2>8, <2>9 DEF ThreadInv
<1>2. ThreadInv /\ [Next]_vars => ThreadInv'
  BY TypeKept, SessionKept, OutKept, UnboundKept, EmptyKept, EventKept, TrackKept, AwaitKept, ListenKept
  DEF ThreadInv
<1> QED
  BY <1>1, <1>2, PTL DEF Spec

\* The variables stay in their types.
THEOREM Types == Spec => []TypeOK
<1>1. ThreadInv => TypeOK
  BY DEF ThreadInv
<1> QED
  BY <1>1, Threads, PTL

\* When the last monitor has wound down nothing of it is left in the registry, however
\* the threads of several monitors overlapped: the final cleanup bypasses the gate.
THEOREM StoppedHolds == Spec => []StoppedIsEmpty
<1>1. ThreadInv => StoppedIsEmpty
  <2> SUFFICES ASSUME ThreadInv, Settled, monitor = None, NEW s \in Sessions PROVE ~WillWipe(s)
    BY DEF ThreadInv, StoppedIsEmpty, EmptyInv, Empty, NoLinks
  <2>1. ~running[s]
    BY Bounds DEF ThreadInv, SessionInv, SessionOf, None
  <2> QED
    BY <2>1 DEF WillWipe, Settled
<1> QED
  BY <1>1, Threads, PTL

-----------------------------------------------------------------------------
(* The registry and the running monitor, with one thread.                  *)

\* The thread that works is that of the running monitor.
LEMMA TheThread ==
    ASSUME TypeOK, OneThread, NEW s \in Sessions, Thread(s), NEW t \in Sessions, running'[t]
    PROVE  running[t] /\ t = s
BY ThreadFrame DEF OneThread, Works

\* A monitor that starts finds the registry empty.
LEMMA StartsEmpty ==
    ASSUME TypeOK, SessionInv, EmptyInv, OneThread', startMonitor, monitor = None
    PROVE  /\ sessions + 1 \in Sessions /\ sessions + 1 > sessions
           /\ \A t \in Sessions : running'[t] <=> t = sessions + 1
           /\ Empty
<1>1. sessions + 1 \in Sessions /\ sessions \in Nat /\ running' = [running EXCEPT ![sessions + 1] = TRUE]
      /\ UNCHANGED <<out, cleanup>>
  BY NextSession DEF startMonitor, NewMonitor
<1>2. sessions + 1 > sessions
  BY <1>1
<1>3. \A t \in Sessions : ~running[t]
  BY Bounds DEF SessionInv, SessionOf, None
<1>4. \A t \in Sessions : running'[t] <=> t = sessions + 1
  BY <1>1, <1>3 DEF TypeOK
<1>5. ASSUME NEW t \in Sessions, WillWipe(t)
      PROVE  FALSE
  <2>0. PICK m \in Sessions : m = sessions + 1
    BY <1>1
  <2>1. Works(t)' /\ Works(m)'
    BY <1>1, <1>3, <1>4, <1>5, <2>0 DEF WillWipe, Works
  <2>2. t = sessions + 1
    BY <2>0, <2>1 DEF OneThread
  <2>3. ~cleanup[t] /\ out[t] = <<>>
    BY <1>1, <1>2, <2>2 DEF SessionInv, SessionOf
  <2> QED
    BY <1>3, <1>5, <2>3 DEF WillWipe
<1> QED
  BY <1>1, <1>2, <1>4, <1>5 DEF EmptyInv

LEMMA KnownOther ==
    ASSUME KnownInv, NEW t \in Sessions, running[t], ifaces' = ifaces, defaultIface' = defaultIface,
           \A c \in Calls(t) : c \in Calls(t)' \/ c.op \notin {"lost", "default"},
           tracked'[t] = tracked[t], dnet'[t] = dnet[t]
    PROVE  KnownOf(t)'
BY DEF KnownInv, KnownOf

LEMMA KnownEmpty ==
    ASSUME NEW t \in Sessions, Empty'
    PROVE  KnownOf(t)'
BY DEF Empty, KnownOf, NoLinks

LEMMA KnownKept ==
    ASSUME ThreadInv, KnownInv, OneThread, OneThread', [Next]_vars
    PROVE  KnownInv'
<1> SUFFICES ASSUME NEW t \in Sessions, running'[t] PROVE KnownOf(t)'
  BY DEF KnownInv
<1> USE DEF trackVars, queueVars, registryVars, bridgeVars
<1>0. /\ TypeOK /\ SessionInv /\ OutInv /\ UnboundInv /\ EmptyInv /\ EventInv /\ TrackInv /\ AwaitInv
  BY DEF ThreadInv
<1>00. ASSUME running[t], UNCHANGED <<ifaces, defaultIface, tracked, dnet, out>>
       PROVE  KnownOf(t)'
  BY <1>00, KnownOther, SameOut
<1>1. CASE World
  <2>1. running[t] /\ UNCHANGED <<ifaces, defaultIface, tracked, dnet, out>>
    BY <1>1, WorldFrame
  <2> QED
    BY <1>00, <2>1
<1>2. ASSUME startMonitor, monitor # None PROVE KnownOf(t)'
  <2>1. running[t] /\ UNCHANGED <<ifaces, defaultIface, tracked, dnet, out>>
    BY <1>2 DEF startMonitor
  <2> QED
    BY <1>00, <2>1
<1>3. ASSUME startMonitor, monitor = None PROVE KnownOf(t)'
  <2>1. Empty'
    BY <1>3, <1>0, StartsEmpty DEF Empty, NoLinks, startMonitor
  <2> QED
    BY <2>1, KnownEmpty
<1>4. CASE stopMonitor
  <2>1. monitor \in Sessions
    BY <1>4, <1>0 DEF stopMonitor, TypeOK
  <2> QED
    BY <1>4, <1>0, <2>1 DEF stopMonitor, TypeOK, SessionInv, SessionOf
<1>5. ASSUME NEW s \in Sessions, HandleNetwork(s) PROVE KnownOf(t)'
  <2>1. running[s] /\ t = s
    BY <1>5, <1>0, TheThread DEF Thread
  <2> DEFINE e == Head(netq[s])
             n == e.net
  <2>2. out[s] = <<>> /\ Calls(s) = {} /\ n \in Networks
    BY <1>5, <1>0, NetworkEffect, ElementsShort DEF Calls
  <2>3. UNCHANGED <<ifaces, defaultIface, dnet>>
    BY <1>5 DEF HandleNetwork
  <2>4. \A m \in Networks : m # n => tracked'[s][m] = tracked[s][m]
    BY <1>5, <1>0, NetworkEffect
  <2>5. Complete(tracked[s][n]) => Complete(tracked'[s][n]) \/ \E c \in Calls(s)' : c.op = "lost" /\ c.net = n
    <3>1. sent[s][n] = (IF Complete(tracked[s][n]) THEN tracked[s][n] ELSE NoLink) /\ tracked[s][n] \in Partial
      BY <1>0, <2>1, <2>2, SMTT(20) DEF TrackInv, TrackOf, TypeOK
    <3>2. CASE e.kind = "available"
      BY <1>5, <1>0, <3>2, NetworkEffect DEF Half
    <3>3. CASE e.kind \in Half
      <4>1. tracked'[s][n] = [tracked[s][n] EXCEPT ![e.kind] = e.state]
        BY <1>5, <1>0, <3>3, NetworkEffect DEF Half
      <4>2. e.state \in States
        <5>1. netq[s] # <<>> /\ netq[s] \in Seq(Event)
          BY <1>5, <1>0, NetworkEffect DEF TypeOK
        <5>2. e \in Elements(netq[s])
          BY <5>1, TailElements
        <5> QED
          BY <1>0, <3>3, <5>2 DEF EventInv, EventOf, Sound
      <4> QED
        BY <3>1, <3>3, <4>1, <4>2, Partials DEF Partial, Half, States, None, Complete
    <3>4. CASE e.kind = "lost"
      <4>1. \/ sent[s][n] # NoLink /\ out'[s] = <<Call("lost", n, NoLink)>>
            \/ sent[s][n] = NoLink
        BY <1>5, <1>0, <3>4, NetworkEffect DEF Half
      <4> QED
        BY <3>1, <4>1, FewCalls, CallIs, Partials
    <3> QED
      BY <1>5, <1>0, <3>2, <3>3, <3>4, NetworkEffect
  <2> HIDE DEF n
  <2>6. KnownOf(s)
    BY <2>1 DEF KnownInv
  <2> QED
    BY <2>1, <2>2, <2>3, <2>4, <2>5, <2>6 DEF KnownOf
<1>6. ASSUME NEW s \in Sessions, HandleDefault(s) PROVE KnownOf(t)'
  <2>1. running[s] /\ t = s
    BY <1>6, <1>0, TheThread DEF Thread
  <2>2. out[s] = <<>> /\ Calls(s) = {} /\ UNCHANGED <<ifaces, defaultIface, tracked>>
    BY <1>6, <1>0, DefaultEffect, ElementsShort DEF Calls, HandleDefault
  <2>3. KnownOf(s)
    BY <2>1 DEF KnownInv
  <2>4. dnet'[s] = NoNet => defaultIface = NoNet \/ \E c \in Calls(s)' : c.op = "default"
    <3> DEFINE e == Head(defq[s])
    <3>1. e.net \in Networks /\ e.net # NoNet /\ defq[s] # <<>> /\ defq[s] \in Seq(Event)
      <4>1. e.net \in Networks /\ defq[s] # <<>>
        BY <1>6, <1>0, DefaultEffect
      <4> QED
        BY <1>0, <4>1, NetworksAssumption DEF TypeOK
    <3>2. CASE e.kind = "available"
      BY <1>6, <1>0, <3>1, <3>2, DefaultEffect DEF Half
    <3>3. CASE e.kind # "available" /\ dnet'[s] = dnet[s]
      BY <2>2, <2>3, <3>3 DEF KnownOf
    <3>4. CASE /\ e.kind = "lost" /\ e.net = dnet[s]
               /\ \/ dsent[s] # <<NoNet, None>> /\ out'[s] = <<Call("default", NoNet, NoLink)>>
                  \/ dsent[s] = <<NoNet, None>> /\ out'[s] = <<>>
      <4>1. dnet[s] # NoNet
        BY <3>1, <3>4
      <4>2. dseed[s]["props"] # None
        <5>1. SUFFICES ASSUME dseed[s]["props"] = None PROVE FALSE
          OBVIOUS
        <5>2. AnnouncedIn(defq[s]) /\ Coming(defq[s], dnet[s])
          BY <1>0, <2>1, <4>1, <5>1 DEF AwaitInv, AwaitOf
        <5> QED
          BY <3>1, <3>4, <5>2, ComingTail
      <4>3. dsent[s] = <<dnet[s], dseed[s]["caps"]>>
        BY <1>0, <2>1, <4>1, <4>2 DEF TrackInv, TrackOf
      <4>4. dsent[s] # <<NoNet, None>>
        BY <4>1, <4>3
      <4> QED
        BY <3>4, <4>4, FewCalls, CallIs
    <3> QED
      BY <1>6, <1>0, <3>2, <3>3, <3>4, DefaultEffect DEF Half
  <2> QED
    BY <2>1, <2>2, <2>3, <2>4 DEF KnownOf
<1>7. ASSUME NEW s \in Sessions, HandleReplay(s) PROVE KnownOf(t)'
  <2>1. running[s] /\ t = s
    BY <1>7, <1>0, TheThread DEF Thread
  <2>2. Calls(s) = {} /\ UNCHANGED <<ifaces, defaultIface, tracked, dnet>>
    BY <1>7, ElementsShort DEF HandleReplay, Idle, Calls
  <2> QED
    BY <2>1, <2>2, KnownOther
<1>8. ASSUME NEW s \in Sessions, HandleCleanup(s) PROVE KnownOf(t)'
  <2>1. running[s] /\ t = s
    BY <1>8, <1>0, TheThread DEF Thread
  <2> QED
    BY <1>8, <1>0, <2>1 DEF HandleCleanup, SessionInv, SessionOf
<1>9. ASSUME NEW s \in Sessions, Drop(s) PROVE KnownOf(t)'
  <2>1. running[s] /\ t = s
    BY <1>9, <1>0, TheThread DEF Thread
  <2>2. Empty /\ UNCHANGED <<ifaces, defaultIface>>
    BY <1>9, <1>0 DEF Drop, UnboundInv
  <2> QED
    BY <2>1, <2>2, KnownEmpty DEF Empty, NoLinks
<1>10. ASSUME NEW s \in Sessions, Update(s) PROVE KnownOf(t)'
  <2>1. running[s] /\ t = s
    BY <1>10, <1>0, TheThread DEF Thread
  <2>2. NoNet \in Handles /\ out' = Then(s, "refresh", NoNet) /\ out[s] # <<>>
    BY <1>10, <1>0, InCalls DEF Update, Handles, Downcall, In
  <2>3. /\ Calls(s) = {In(s)} \cup Rest(s) /\ Calls(s)' = {In(s)'} \cup Rest(s) /\ In(s)'.op = "refresh"
    BY <1>0, <2>2, ThenOut
  <2>4. In(s).op = "update" /\ ifaces' = [ifaces EXCEPT ![In(s).net] = In(s).link]
        /\ UNCHANGED <<defaultIface, tracked, dnet>>
    BY <1>10 DEF Update, In
  <2>5. Complete(tracked[s][In(s).net]) /\ KnownOf(s)
    BY <1>0, <2>1, <2>3, <2>4 DEF TrackInv, TrackOf, KnownInv
  <2>6. \A m \in Networks : m # In(s).net => ifaces'[m] = ifaces[m]
    BY <1>0, <2>4 DEF TypeOK
  <2> QED
    BY <2>1, <2>3, <2>4, <2>5, <2>6 DEF KnownOf
<1>11. ASSUME NEW s \in Sessions, Lost(s) PROVE KnownOf(t)'
  <2>1. running[s] /\ t = s
    BY <1>11, <1>0, TheThread DEF Thread
  <2>2. In(s).op = "lost" /\ ifaces' = [ifaces EXCEPT ![In(s).net] = NoLink]
        /\ UNCHANGED <<defaultIface, tracked, dnet>>
    BY <1>11 DEF Lost, In
  <2>3. Calls(s) = {In(s)} \cup Rest(s) /\ Rest(s) \subseteq Calls(s)'
    <3>1. CASE out' = Past(s)
      BY <1>11, <1>0, <3>1, LostOut, PastOut
    <3>2. CASE out' = Then(s, "refresh", NoNet)
      <4>1. NoNet \in Handles /\ out[s] # <<>>
        BY <1>11, LostOut DEF Handles
      <4> QED
        BY <1>0, <3>2, <4>1, ThenOut
    <3> QED
      BY <1>11, <3>1, <3>2, LostOut
  <2>4. \A m \in Networks : ifaces'[m] = (IF m = In(s).net THEN NoLink ELSE ifaces[m])
    BY <1>0, <2>2 DEF TypeOK
  <2>5. KnownOf(s)
    BY <2>1 DEF KnownInv
  <2> QED
    BY <2>1, <2>2, <2>3, <2>4, <2>5 DEF KnownOf
<1>12. ASSUME NEW s \in Sessions, SetDefault(s) PROVE KnownOf(t)'
  <2>1. running[s] /\ t = s
    BY <1>12, <1>0, TheThread DEF Thread
  <2>2. Head(out[s]).net \in Handles /\ out' = Then(s, "notify", Head(out[s]).net) /\ out[s] # <<>>
    BY <1>12, <1>0, InCalls DEF SetDefault, Handles, Downcall, In
  <2>3. /\ Calls(s) = {In(s)} \cup Rest(s) /\ Calls(s)' = {In(s)'} \cup Rest(s) /\ In(s)'.op = "notify"
    BY <1>0, <2>2, ThenOut
  <2>4. In(s).op = "default" /\ defaultIface' = In(s).net /\ UNCHANGED <<ifaces, tracked, dnet>>
    BY <1>12 DEF SetDefault, In
  <2>5. In(s).net = dnet[s] /\ KnownOf(s)
    BY <1>0, <2>1, <2>3, <2>4 DEF TrackInv, TrackOf, KnownInv
  <2> QED
    BY <2>1, <2>3, <2>4, <2>5 DEF KnownOf
<1>13. ASSUME NEW s \in Sessions, Reset(s) PROVE KnownOf(t)'
  <2>1. running[s] /\ t = s
    BY <1>13, <1>0, TheThread DEF Thread
  <2> QED
    BY <1>13, KnownEmpty DEF Reset, Empty, NoLinks
<1>14. ASSUME NEW s \in Sessions, Notify(s) PROVE KnownOf(t)'
  <2>1. running[s] /\ t = s
    BY <1>14, <1>0, TheThread DEF Thread
  <2>2. Calls(s) = {In(s)} \cup Rest(s) /\ Calls(s)' = Rest(s) /\ In(s).op \in {"refresh", "notify"}
    BY <1>14, <1>0, TailOut DEF Notify, In
  <2> QED
    BY <1>14, <2>1, <2>2, KnownOther DEF Notify
<1>15. CASE CoreCreate \/ Initialize \/ CoreStart \/ CoreClose
  <2>1. running[t] /\ UNCHANGED <<ifaces, defaultIface, tracked, dnet, out>>
    BY <1>15, CoreFrame
  <2> QED
    BY <1>00, <2>1
<1>16. CASE UNCHANGED vars
  <2>1. running[t] /\ UNCHANGED <<ifaces, defaultIface, tracked, dnet, out>>
    BY <1>16 DEF vars
  <2> QED
    BY <1>00, <2>1
<1> QED
  BY <1>1, <1>2, <1>3, <1>4, <1>5, <1>6, <1>7, <1>8, <1>9, <1>10,
     <1>11, <1>12, <1>13, <1>14, <1>15, <1>16
  DEF Next, Thread

-----------------------------------------------------------------------------
(* The core and the registry, with one thread.                             *)

LEMMA RefreshOther ==
    ASSUME NEW t \in Sessions, out'[t] = out[t], cores' = cores,
           replay[t] \/ cleanup[t] => replay'[t] \/ cleanup'[t]
    PROVE  /\ Refreshes(t) => Refreshes(t)'
           /\ WillRefresh(t) => WillRefresh(t)'
BY SameOut DEF Refreshes, WillRefresh

LEMMA IfaceOther ==
    ASSUME IfaceInv, UNCHANGED <<ifaces, coreIfaces>>,
           core' = "started" => core = "started",
           core' \in {"initialized", "started"} => core \in {"initialized", "started"},
           \A t \in Sessions : (Refreshes(t) => Refreshes(t)') /\ (WillRefresh(t) => WillRefresh(t)')
    PROVE  IfaceInv'
BY DEF IfaceInv, NoLinks

\* Nothing can be missed of a registry that is empty.
LEMMA IfaceEmpty ==
    ASSUME ifaces' = NoLinks, coreIfaces' = NoLinks
    PROVE  IfaceInv'
BY DEF IfaceInv, NoLinks

LEMMA IfaceKept ==
    ASSUME ThreadInv, KnownInv, IfaceInv, [Next]_vars
    PROVE  IfaceInv'
<1> USE DEF queueVars, registryVars, coreVars, listenerVars
<1>0. /\ TypeOK /\ SessionInv /\ OutInv /\ UnboundInv /\ EmptyInv /\ ListenInv
  BY DEF ThreadInv
<1>00. ASSUME UNCHANGED <<ifaces, coreIfaces, core, cores, out>>,
              \A t \in Sessions : replay[t] \/ cleanup[t] => replay'[t] \/ cleanup'[t]
       PROVE  IfaceInv'
  BY <1>00, RefreshOther, IfaceOther
<1>1. CASE World
  <2>1. /\ UNCHANGED <<ifaces, coreIfaces, core, cores, out>>
        /\ \A t \in Sessions : replay[t] \/ cleanup[t] => replay'[t] \/ cleanup'[t]
    BY <1>1, WorldFrame
  <2> QED
    BY <1>00, <2>1
<1>2. ASSUME startMonitor, monitor # None PROVE IfaceInv'
  <2>1. /\ UNCHANGED <<ifaces, coreIfaces, core, cores, out>>
        /\ \A t \in Sessions : replay[t] \/ cleanup[t] => replay'[t] \/ cleanup'[t]
    BY <1>2 DEF startMonitor
  <2> QED
    BY <1>00, <2>1
<1>3. ASSUME startMonitor, monitor = None PROVE IfaceInv'
  <2>1. /\ UNCHANGED <<ifaces, coreIfaces, core, cores, out>>
        /\ \A t \in Sessions : replay[t] \/ cleanup[t] => replay'[t] \/ cleanup'[t]
    BY <1>3 DEF startMonitor
  <2> QED
    BY <1>00, <2>1
<1>4. CASE stopMonitor
  <2>1. /\ UNCHANGED <<ifaces, coreIfaces, core, cores, out>>
        /\ \A t \in Sessions : replay[t] \/ cleanup[t] => replay'[t] \/ cleanup'[t]
    BY <1>4, <1>0 DEF stopMonitor, TypeOK
  <2> QED
    BY <1>00, <2>1
<1>5. ASSUME NEW s \in Sessions, HandleNetwork(s) PROVE IfaceInv'
  <2>1. \A t \in Sessions : t # s =>
          (Refreshes(t) => Refreshes(t)') /\ (WillRefresh(t) => WillRefresh(t)')
    <3>1. cores' = cores
      BY <1>5, SMTT(20) DEF HandleNetwork
    <3> QED
      BY <1>5, <1>0, <3>1, ThreadFrame, RefreshOther DEF Thread
  <2>2. out[s] = <<>> /\ Calls(s) = {} /\ UNCHANGED <<ifaces, coreIfaces, core, replay, cleanup>>
    BY <1>5, <1>0, NetworkEffect, ElementsShort DEF HandleNetwork, Calls
  <2>3. ~Refreshes(s) /\ (WillRefresh(s) => WillRefresh(s)')
    BY <2>2 DEF Refreshes, WillRefresh
  <2> QED
    BY <2>1, <2>2, <2>3, IfaceOther
<1>6. ASSUME NEW s \in Sessions, HandleDefault(s) PROVE IfaceInv'
  <2>1. \A t \in Sessions : t # s =>
          (Refreshes(t) => Refreshes(t)') /\ (WillRefresh(t) => WillRefresh(t)')
    <3>1. cores' = cores
      BY <1>6 DEF HandleDefault
    <3> QED
      BY <1>6, <1>0, <3>1, ThreadFrame, RefreshOther DEF Thread
  <2>2. out[s] = <<>> /\ Calls(s) = {} /\ UNCHANGED <<ifaces, coreIfaces, core, replay, cleanup>>
    BY <1>6, <1>0, DefaultEffect, ElementsShort DEF HandleDefault, Calls
  <2>3. ~Refreshes(s) /\ (WillRefresh(s) => WillRefresh(s)')
    BY <2>2 DEF Refreshes, WillRefresh
  <2> QED
    BY <2>1, <2>2, <2>3, IfaceOther
<1>7. ASSUME NEW s \in Sessions, HandleReplay(s) PROVE IfaceInv'
  <2>1. \A t \in Sessions : t # s =>
          (Refreshes(t) => Refreshes(t)') /\ (WillRefresh(t) => WillRefresh(t)')
    <3>1. cores' = cores
      BY <1>7 DEF HandleReplay
    <3> QED
      BY <1>7, <1>0, <3>1, ThreadFrame, RefreshOther DEF Thread
  <2>2. out[s] = <<>> /\ Calls(s) = {} /\ UNCHANGED <<ifaces, coreIfaces, core, cleanup>> /\ running[s]
    BY <1>7, ElementsShort DEF HandleReplay, Calls, Idle
  <2>3. ~Refreshes(s)
    BY <2>2 DEF Refreshes
  <2>4. CASE Ready(s) = {}
    <3>1. ifaces = NoLinks
      <4>1. \A n \in Networks : ifaces[n] = NoLink
        BY <2>2, <2>4 DEF KnownInv, KnownOf, Ready
      <4> QED
        BY <1>0, <4>1 DEF TypeOK, NoLinks
    <3>2. core = "started" => coreIfaces = ifaces \/ \E t \in Sessions : t # s /\ Refreshes(t)
      BY <2>3, <3>1 DEF IfaceInv
    <3>3. \A t \in Sessions : Refreshes(t)' => WillRefresh(t)'
      BY DEF WillRefresh
    <3> QED
      BY <2>1, <2>2, <2>3, <3>2, <3>3 DEF IfaceInv, NoLinks
  <2>5. CASE Ready(s) # {}
    <3>1. PICK q \in Seq(Downcall) :
            /\ out' = [out EXCEPT ![s] = q]
            /\ Elements(q) =
                 {Call("update", n, tracked[s][n]) : n \in Ready(s)}
                   \cup (IF dnet[s] # NoNet /\ dseed[s]["props"] # None
                         THEN {Call("default", dnet[s], NoLink)} ELSE {})
      BY <1>7, <1>0, Replayed
    <3>2. Calls(s)' = Elements(q)
      BY <1>0, <3>1, SetOut
    <3>3. PICK n \in Ready(s) : TRUE
      BY <2>5
    <3>4. Call("update", n, tracked[s][n]) \in Calls(s)'
      BY <3>1, <3>2, <3>3
    <3>5. WillRefresh(s)'
      BY <3>4, CallIs DEF WillRefresh
    <3> QED
      BY <2>1, <2>2, <2>3, <3>5, IfaceOther
  <2> QED
    BY <2>4, <2>5
<1>8. ASSUME NEW s \in Sessions, HandleCleanup(s) PROVE IfaceInv'
  <2>1. \A t \in Sessions : t # s =>
          (Refreshes(t) => Refreshes(t)') /\ (WillRefresh(t) => WillRefresh(t)')
    <3>1. cores' = cores
      BY <1>8 DEF HandleCleanup
    <3> QED
      BY <1>8, <1>0, <3>1, ThreadFrame, RefreshOther DEF Thread
  <2>2. out[s] = <<>> /\ UNCHANGED <<ifaces, coreIfaces, core>> /\ out'[s] = <<Call("reset", NoNet, NoLink)>>
    BY <1>8, <1>0 DEF HandleCleanup, TypeOK
  <2>3. ~Refreshes(s) /\ WillRefresh(s)'
    BY <2>2, FewCalls, CallIs DEF Refreshes, WillRefresh
  <2> QED
    BY <2>1, <2>2, <2>3, IfaceOther
<1>9. ASSUME NEW s \in Sessions, Drop(s) PROVE IfaceInv'
  <2>1. ifaces' = NoLinks /\ coreIfaces' = NoLinks
    BY <1>9, <1>0 DEF Drop, UnboundInv, Empty
  <2> QED
    BY <2>1, IfaceEmpty
<1>10. ASSUME NEW s \in Sessions, Update(s) PROVE IfaceInv'
  <2>1. NoNet \in Handles /\ out' = Then(s, "refresh", NoNet) /\ out[s] # <<>>
    BY <1>10, <1>0, InCalls DEF Update, Handles, Downcall, In
  <2>2. In(s)'.op = "refresh" /\ In(s)'.nm = manager /\ out'[s] # <<>> /\ UNCHANGED <<core, cores>>
    BY <1>10, <1>0, <2>1, ThenOut DEF Update
  <2>3. core \in {"initialized", "started"} => Refreshes(s)'
    BY <1>0, <2>2 DEF ListenInv, Refreshes
  <2>4. Refreshes(s)' => WillRefresh(s)'
    BY DEF WillRefresh
  <2> QED
    BY <2>2, <2>3, <2>4 DEF IfaceInv
<1>11. ASSUME NEW s \in Sessions, Lost(s) PROVE IfaceInv'
  <2>1. CASE out' = Then(s, "refresh", NoNet)
    <3>1. NoNet \in Handles /\ out' = Then(s, "refresh", NoNet) /\ out[s] # <<>>
      BY <1>11, <1>0, <2>1, LostOut, InCalls DEF Lost, Handles, Downcall, In
    <3>2. In(s)'.op = "refresh" /\ In(s)'.nm = manager /\ out'[s] # <<>> /\ UNCHANGED <<core, cores>>
      BY <1>11, <1>0, <3>1, ThenOut DEF Lost
    <3>3. core \in {"initialized", "started"} => Refreshes(s)'
      BY <1>0, <3>2 DEF ListenInv, Refreshes
    <3>4. Refreshes(s)' => WillRefresh(s)'
      BY DEF WillRefresh
    <3> QED
      BY <3>2, <3>3, <3>4 DEF IfaceInv
  <2>2. CASE out' = Past(s) /\ ifaces[In(s).net] = NoLink
    <3>1. \A t \in Sessions : t # s =>
            (Refreshes(t) => Refreshes(t)') /\ (WillRefresh(t) => WillRefresh(t)')
      <4>1. cores' = cores
        BY <1>11 DEF Lost
      <4> QED
        BY <1>11, <1>0, <4>1, ThreadFrame, RefreshOther DEF Thread
    <3>2. /\ Calls(s) = {In(s)} \cup Rest(s) /\ Calls(s)' = Rest(s) /\ out[s] # <<>>
      BY <1>11, <1>0, <2>2, LostOut, PastOut
    <3>3. In(s).op = "lost" /\ ifaces' = [ifaces EXCEPT ![In(s).net] = NoLink]
          /\ UNCHANGED <<coreIfaces, core, cores, replay, cleanup>>
      BY <1>11 DEF Lost, In
    <3>4. ifaces' = ifaces
      BY <1>0, <2>2, <3>3 DEF TypeOK
    <3>5. ~Refreshes(s) /\ (WillRefresh(s) => WillRefresh(s)')
      BY <3>2, <3>3 DEF Refreshes, WillRefresh
    <3> QED
      BY <3>1, <3>3, <3>4, <3>5, IfaceOther
  <2> QED
    BY <1>11, <2>1, <2>2, LostOut
<1>12. ASSUME NEW s \in Sessions, SetDefault(s) PROVE IfaceInv'
  <2>1. Head(out[s]).net \in Handles /\ out' = Then(s, "notify", Head(out[s]).net) /\ out[s] # <<>>
    BY <1>12, <1>0, InCalls DEF SetDefault, Handles, Downcall, In
  <2>2. In(s)'.op = "notify" /\ In(s)'.nm = manager /\ out'[s] # <<>> /\ UNCHANGED <<core, cores>>
    BY <1>12, <1>0, <2>1, ThenOut DEF SetDefault
  <2>3. core \in {"initialized", "started"} => Refreshes(s)'
    BY <1>0, <2>2 DEF ListenInv, Refreshes
  <2>4. Refreshes(s)' => WillRefresh(s)'
    BY DEF WillRefresh
  <2> QED
    BY <2>2, <2>3, <2>4 DEF IfaceInv
<1>13. ASSUME NEW s \in Sessions, Reset(s) PROVE IfaceInv'
  <2>1. NoNet \in Handles /\ out' = Then(s, "notify", NoNet) /\ out[s] # <<>>
    BY <1>13, <1>0, InCalls DEF Reset, Handles, Downcall, In
  <2>2. In(s)'.op = "notify" /\ In(s)'.nm = manager /\ out'[s] # <<>> /\ UNCHANGED <<core, cores>>
    BY <1>13, <1>0, <2>1, ThenOut DEF Reset
  <2>3. core \in {"initialized", "started"} => Refreshes(s)'
    BY <1>0, <2>2 DEF ListenInv, Refreshes
  <2>4. Refreshes(s)' => WillRefresh(s)'
    BY DEF WillRefresh
  <2> QED
    BY <2>2, <2>3, <2>4 DEF IfaceInv
<1>14. ASSUME NEW s \in Sessions, Notify(s) PROVE IfaceInv'
  <2>1. \A t \in Sessions : t # s =>
          (Refreshes(t) => Refreshes(t)') /\ (WillRefresh(t) => WillRefresh(t)')
    <3>1. cores' = cores
      BY <1>14 DEF Notify
    <3> QED
      BY <1>14, <1>0, <3>1, ThreadFrame, RefreshOther DEF Thread
  <2>2. Calls(s) = {In(s)} \cup Rest(s) /\ Calls(s)' = Rest(s) /\ In(s).op \in {"refresh", "notify"} /\ out[s] # <<>>
    BY <1>14, <1>0, TailOut DEF Notify, In
  <2>3. UNCHANGED <<core, cores, ifaces, replay, cleanup>>
    BY <1>14 DEF Notify
  <2>4. WillRefresh(s) => Refreshes(s) \/ WillRefresh(s)'
    BY <2>2, <2>3 DEF WillRefresh
  <2>5. CASE In(s).nm = cores /\ core # "off"
    <3>1. coreIfaces' = ifaces'
      BY <1>14, <2>3, <2>5 DEF Notify, Listens, In, interfaces
    <3> QED
      BY <3>1 DEF IfaceInv
  <2>6. CASE ~(In(s).nm = cores /\ core # "off")
    <3>1. coreIfaces' = coreIfaces
      BY <1>14, <2>6 DEF Notify, Listens, In
    <3>2. CASE core = "off"
      BY <2>3, <3>2 DEF IfaceInv
    <3>3. CASE core # "off"
      <4>1. ~Refreshes(s)
        BY <2>6, <3>3 DEF Refreshes
      <4> QED
        BY <2>1, <2>3, <2>4, <3>1, <4>1, IfaceOther
    <3> QED
      BY <3>2, <3>3
  <2> QED
    BY <2>5, <2>6
<1>15. CASE CoreCreate
  BY <1>15 DEF CoreCreate, IfaceInv
<1>16. CASE Initialize
  <2>1. core' = "initialized" /\ coreIfaces' = NoLinks
    BY <1>16, <1>0 DEF Initialize, ListenInv
  <2> QED
    BY <2>1 DEF IfaceInv, NoLinks
<1>17. CASE CoreStart
  <2>1. UNCHANGED <<ifaces, coreIfaces, cores, out, running, cleanup>> /\ core = "initialized" /\ core' = "started"
    BY <1>17 DEF CoreStart
  <2>2. \A t \in Sessions : (replay[t] => replay'[t]) /\ (cleanup[t] => cleanup'[t])
    BY <1>17, <1>0, <2>1 DEF CoreStart, requestReplay, TypeOK
  <2>3. \A t \in Sessions : (Refreshes(t) => Refreshes(t)') /\ (Refreshes(t) => WillRefresh(t))
                            /\ (WillRefresh(t) => WillRefresh(t)')
    BY <2>1, <2>2, RefreshOther DEF WillRefresh
  <2>4. coreIfaces \in {ifaces, NoLinks} \/ \E t \in Sessions : Refreshes(t)
    BY <2>1 DEF IfaceInv
  <2>5. coreIfaces = ifaces \/ \E t \in Sessions : WillRefresh(t)'
    <3>1. CASE ~bound
      BY <1>0, <3>1 DEF UnboundInv, Empty
    <3>2. CASE bound /\ monitor # None
      <4>1. monitor \in Sessions /\ replay'[monitor]
        BY <1>17, <1>0, <3>2 DEF CoreStart, requestReplay, TypeOK
      <4>2. PICK t \in Sessions : replay'[t]
        BY <4>1
      <4> QED
        BY <4>2 DEF WillRefresh
    <3>3. CASE monitor = None
      <4>1. \A t \in Sessions : WillWipe(t) => WillRefresh(t)
        BY <1>0, <3>3, InCalls, Bounds DEF WillWipe, WillRefresh, SessionInv, SessionOf, None
      <4>2. Empty => coreIfaces = ifaces \/ \E t \in Sessions : Refreshes(t)
        BY <2>4 DEF Empty
      <4> QED
        BY <1>0, <2>3, <4>1, <4>2 DEF EmptyInv
    <3> QED
      BY <3>1, <3>2, <3>3
  <2> QED
    BY <2>1, <2>3, <2>4, <2>5 DEF IfaceInv, NoLinks
<1>18. CASE CoreClose
  BY <1>18 DEF CoreClose, IfaceInv
<1>19. CASE UNCHANGED vars
  <2>1. /\ UNCHANGED <<ifaces, coreIfaces, core, cores, out>>
        /\ \A t \in Sessions : replay[t] \/ cleanup[t] => replay'[t] \/ cleanup'[t]
    BY <1>19 DEF vars
  <2> QED
    BY <1>00, <2>1
<1> QED
  BY <1>1, <1>2, <1>3, <1>4, <1>5, <1>6, <1>7, <1>8, <1>9, <1>10,
     <1>11, <1>12, <1>13, <1>14, <1>15, <1>16, <1>17, <1>18, <1>19
  DEF Next, Thread

LEMMA TellOther ==
    ASSUME NEW t \in Sessions, out'[t] = out[t], cores' = cores,
           replay[t] \/ cleanup[t] \/ Awaits(t) => replay'[t] \/ cleanup'[t] \/ Awaits(t)'
    PROVE  /\ Tells(t) => Tells(t)'
           /\ WillTell(t) => WillTell(t)'
BY SameOut DEF Tells, WillTell

LEMMA DefaultOther ==
    ASSUME DefaultInv, UNCHANGED <<defaultIface, coreDefault>>,
           core' = "started" => core = "started", core' # "off" => core # "off",
           \A t \in Sessions :
             /\ out'[t] # <<>> /\ In(t)'.op = "notify" => out[t] # <<>> /\ In(t)' = In(t)
             /\ (Tells(t) => Tells(t)') /\ (WillTell(t) => WillTell(t)')
    PROVE  DefaultInv'
BY DEF DefaultInv

LEMMA DefaultKept ==
    ASSUME ThreadInv, KnownInv, DefaultInv, OneThread, [Next]_vars
    PROVE  DefaultInv'
<1> USE DEF queueVars, registryVars, coreVars, listenerVars, trackVars
<1>0. /\ TypeOK /\ SessionInv /\ OutInv /\ UnboundInv /\ EmptyInv /\ ListenInv
  BY DEF ThreadInv
<1>00. ASSUME UNCHANGED <<defaultIface, coreDefault, core, cores, out, dsent, dnet, dseed>>,
              \A t \in Sessions : replay[t] \/ cleanup[t] \/ Awaits(t) => replay'[t] \/ cleanup'[t] \/ Awaits(t)'
       PROVE  DefaultInv'
  BY <1>00, TellOther, SameOut, DefaultOther
<1>1. CASE World
  <2>1. /\ UNCHANGED <<defaultIface, coreDefault, core, cores, out, dsent, dnet, dseed>>
        /\ \A t \in Sessions : replay[t] \/ cleanup[t] => replay'[t] \/ cleanup'[t]
        /\ \A t \in Sessions : running[t] => running'[t] \/ cleanup'[t]
    BY <1>1, WorldFrame
  <2>2. \A t \in Sessions : Awaits(t) => cleanup'[t] \/ Awaits(t)'
    BY <2>1 DEF Awaits
  <2> QED
    BY <1>00, <2>1, <2>2
<1>2. ASSUME startMonitor, monitor # None PROVE DefaultInv'
  <2>1. /\ UNCHANGED <<defaultIface, coreDefault, core, cores, out, dsent, dnet, dseed>>
        /\ \A t \in Sessions : replay[t] \/ cleanup[t] => replay'[t] \/ cleanup'[t]
        /\ \A t \in Sessions : running[t] => running'[t] \/ cleanup'[t]
    BY <1>2 DEF startMonitor
  <2>2. \A t \in Sessions : Awaits(t) => cleanup'[t] \/ Awaits(t)'
    BY <2>1 DEF Awaits
  <2> QED
    BY <1>00, <2>1, <2>2
<1>3. ASSUME startMonitor, monitor = None PROVE DefaultInv'
  <2>1. /\ UNCHANGED <<defaultIface, coreDefault, core, cores, out, dsent, dnet, dseed>>
        /\ \A t \in Sessions : replay[t] \/ cleanup[t] => replay'[t] \/ cleanup'[t]
        /\ \A t \in Sessions : running[t] => running'[t] \/ cleanup'[t]
    BY <1>3, <1>0, NextSession DEF startMonitor, NewMonitor, TypeOK
  <2>2. \A t \in Sessions : Awaits(t) => cleanup'[t] \/ Awaits(t)'
    BY <2>1 DEF Awaits
  <2> QED
    BY <1>00, <2>1, <2>2
<1>4. CASE stopMonitor
  <2>1. /\ UNCHANGED <<defaultIface, coreDefault, core, cores, out, dsent, dnet, dseed>>
        /\ \A t \in Sessions : replay[t] \/ cleanup[t] => replay'[t] \/ cleanup'[t]
        /\ \A t \in Sessions : running[t] => running'[t] \/ cleanup'[t]
    BY <1>4, <1>0 DEF stopMonitor, TypeOK
  <2>2. \A t \in Sessions : Awaits(t) => cleanup'[t] \/ Awaits(t)'
    BY <2>1 DEF Awaits
  <2> QED
    BY <1>00, <2>1, <2>2
<1>5. ASSUME NEW s \in Sessions, HandleNetwork(s) PROVE DefaultInv'
  <2>1. \A t \in Sessions : t # s => out[t] = <<>> /\ out'[t] = <<>> /\ ~Tells(t) /\ ~WillTell(t)
    <3>1. ASSUME NEW t \in Sessions, t # s
          PROVE  ~running[t] /\ ~cleanup[t] /\ out[t] = <<>> /\ out'[t] = <<>> /\ Calls(t) = {}
      BY <1>5, <1>0, <3>1, ThreadFrame, ElementsShort DEF Thread, OneThread, Works, Calls
    <3> QED
      BY <1>0, <3>1 DEF Tells, WillTell, Awaits, SessionInv, SessionOf
  <2>2. out[s] = <<>> /\ UNCHANGED <<defaultIface, coreDefault, core, cores, dsent, dnet, dseed, replay, cleanup, running>>
    BY <1>5, <1>0, NetworkEffect DEF HandleNetwork
  <2>3. Calls(s) = {} /\ ~Tells(s)
    BY <2>2, ElementsShort DEF Calls, Tells
  <2>4. WillTell(s) => WillTell(s)'
    <3>1. Awaits(s) => Awaits(s)'
      BY <2>2 DEF Awaits
    <3> QED
      BY <2>2, <2>3, <3>1 DEF WillTell
  <2>5. out'[s] # <<>> => In(s)'.op # "notify"
    <3> DEFINE n == Head(netq[s]).net
    <3>1. \/ out'[s] = <<>> \/ out'[s] = <<Call("update", n, tracked'[s][n])>>
          \/ out'[s] = <<Call("lost", n, NoLink)>>
      BY <1>5, <1>0, NetworkEffect
    <3> QED
      BY <3>1, FewCalls, CallIs
  <2> QED
    BY <2>1, <2>2, <2>3, <2>4, <2>5, DefaultOther
<1>6. ASSUME NEW s \in Sessions, HandleDefault(s) PROVE DefaultInv'
  <2>1. \A t \in Sessions : t # s => out[t] = <<>> /\ out'[t] = <<>> /\ ~Tells(t) /\ ~WillTell(t)
    <3>1. ASSUME NEW t \in Sessions, t # s
          PROVE  ~running[t] /\ ~cleanup[t] /\ out[t] = <<>> /\ out'[t] = <<>> /\ Calls(t) = {}
      BY <1>6, <1>0, <3>1, ThreadFrame, ElementsShort DEF Thread, OneThread, Works, Calls
    <3> QED
      BY <1>0, <3>1 DEF Tells, WillTell, Awaits, SessionInv, SessionOf
  <2>2. out[s] = <<>> /\ UNCHANGED <<defaultIface, coreDefault, core, cores, replay, cleanup, running>> /\ running[s]
    BY <1>6, <1>0, DefaultEffect DEF HandleDefault
  <2>3. Calls(s) = {} /\ ~Tells(s)
    BY <2>2, ElementsShort DEF Calls, Tells
  <2>4. Awaits(s) => Awaits(s)' \/ \E c \in Calls(s)' : c.op = "default"
    <3> SUFFICES ASSUME Awaits(s) PROVE Awaits(s)' \/ \E c \in Calls(s)' : c.op = "default"
      OBVIOUS
    <3>1. dsent[s] = <<>> /\ dnet[s] # NoNet /\ dseed[s]["props"] = None
      BY DEF Awaits
    <3>2. \A x, y : <<x, y>> # <<>>
      OBVIOUS
    <3>3. CASE \E v : out'[s] = <<Call("default", v, NoLink)>>
      BY <3>3, FewCalls, CallIs
    <3>4. CASE dnet'[s] # NoNet /\ Emitted(s, dnet'[s], dseed'[s])
      <4>1. CASE dseed'[s]["props"] # None
        BY <3>1, <3>2, <3>3, <3>4, <4>1 DEF Emitted
      <4>2. CASE dseed'[s]["props"] = None
        BY <2>2, <3>1, <3>4, <4>2 DEF Emitted, Awaits
      <4> QED
        BY <4>1, <4>2
    <3>5. CASE dnet'[s] = dnet[s] /\ dseed'[s] = dseed[s] /\ dsent'[s] = dsent[s]
      BY <2>2, <3>1, <3>5 DEF Awaits
    <3>6. Head(defq[s]).net # NoNet
      <4>1. Head(defq[s]).net \in Networks
        BY <1>6, <1>0, DefaultEffect
      <4> QED
        BY <4>1, NetworksAssumption
    <3>7. dsent[s] # <<NoNet, None>>
      BY <3>1, <3>2
    <3> QED
      BY <1>6, <1>0, <3>1, <3>3, <3>4, <3>5, <3>6, <3>7, DefaultEffect
  <2>5. WillTell(s) => WillTell(s)'
    BY <2>2, <2>3, <2>4 DEF WillTell
  <2>6. out'[s] # <<>> => In(s)'.op # "notify"
    <3>1. out'[s] = <<>> \/ out'[s] = <<Call("default", dnet'[s], NoLink)>>
      BY <1>6, <1>0, DefaultEffect DEF Emitted
    <3> QED
      BY <3>1, FewCalls, CallIs
  <2> QED
    BY <2>1, <2>2, <2>3, <2>5, <2>6, DefaultOther
<1>7. ASSUME NEW s \in Sessions, HandleReplay(s) PROVE DefaultInv'
  <2>1. \A t \in Sessions : t # s => out[t] = <<>> /\ out'[t] = <<>> /\ ~Tells(t) /\ ~WillTell(t)
    <3>1. ASSUME NEW t \in Sessions, t # s
          PROVE  ~running[t] /\ ~cleanup[t] /\ out[t] = <<>> /\ out'[t] = <<>> /\ Calls(t) = {}
      BY <1>7, <1>0, <3>1, ThreadFrame, ElementsShort DEF Thread, OneThread, Works, Calls
    <3> QED
      BY <1>0, <3>1 DEF Tells, WillTell, Awaits, SessionInv, SessionOf
  <2> DEFINE known == dnet[s] # NoNet /\ dseed[s]["props"] # None
  <2>2. out[s] = <<>> /\ UNCHANGED <<defaultIface, coreDefault, core, cores, dnet, dseed, cleanup, running>> /\ running[s]
        /\ dsent'[s] = (IF known THEN <<dnet[s], dseed[s]["caps"]>> ELSE <<>>)
    BY <1>7, <1>0 DEF HandleReplay, Idle, TypeOK
  <2>3. Calls(s) = {} /\ ~Tells(s)
    BY <2>2, ElementsShort DEF Calls, Tells
  <2>4. PICK q \in Seq(Downcall) :
          /\ out' = [out EXCEPT ![s] = q]
          /\ Elements(q) =
               {Call("update", n, tracked[s][n]) : n \in Ready(s)}
                 \cup (IF known THEN {Call("default", dnet[s], NoLink)} ELSE {})
    BY <1>7, <1>0, Replayed
  <2>5. Calls(s)' = Elements(q) /\ out'[s] = q /\ (q # <<>> => In(s)' \in Elements(q))
    BY <1>0, <2>4, SetOut
  <2>6. out'[s] # <<>> => In(s)'.op # "notify"
    BY <2>4, <2>5, CallIs
  <2>7. CASE known
    <3>1. Call("default", dnet[s], NoLink) \in Calls(s)'
      BY <2>4, <2>5, <2>7
    <3>2. WillTell(s)'
      BY <3>1, CallIs DEF WillTell
    <3> QED
      BY <2>1, <2>2, <2>3, <2>6, <3>2, DefaultOther
  <2>8. CASE ~known /\ dnet[s] # NoNet
    <3>1. WillTell(s)'
      BY <2>2, <2>8 DEF WillTell, Awaits
    <3> QED
      BY <2>1, <2>2, <2>3, <2>6, <3>1, DefaultOther
  <2>9. CASE dnet[s] = NoNet
    <3>1. defaultIface = NoNet
      BY <2>2, <2>3, <2>9 DEF KnownInv, KnownOf
    <3>2. core = "started" => coreDefault = defaultIface
      BY <2>1, <2>3, <3>1 DEF DefaultInv
    <3> QED
      BY <2>1, <2>2, <2>3, <2>6, <3>1, <3>2 DEF DefaultInv
  <2> QED
    BY <2>7, <2>8, <2>9
<1>8. ASSUME NEW s \in Sessions, HandleCleanup(s) PROVE DefaultInv'
  <2>1. \A t \in Sessions : t # s => out[t] = <<>> /\ out'[t] = <<>> /\ ~Tells(t) /\ ~WillTell(t)
    <3>1. ASSUME NEW t \in Sessions, t # s
          PROVE  ~running[t] /\ ~cleanup[t] /\ out[t] = <<>> /\ out'[t] = <<>> /\ Calls(t) = {}
      BY <1>8, <1>0, <3>1, ThreadFrame, ElementsShort DEF Thread, OneThread, Works, Calls
    <3> QED
      BY <1>0, <3>1 DEF Tells, WillTell, Awaits, SessionInv, SessionOf
  <2>2. out[s] = <<>> /\ UNCHANGED <<defaultIface, coreDefault, core, cores>> /\ out'[s] = <<Call("reset", NoNet, NoLink)>>
    BY <1>8, <1>0 DEF HandleCleanup, TypeOK
  <2>3. ~Tells(s) /\ WillTell(s)' /\ In(s)'.op # "notify"
    BY <2>2, FewCalls, CallIs DEF Tells, WillTell
  <2> QED
    BY <2>1, <2>2, <2>3, DefaultOther
<1>9. ASSUME NEW s \in Sessions, Drop(s) PROVE DefaultInv'
  <2>1. \A t \in Sessions : t # s => out[t] = <<>> /\ out'[t] = <<>> /\ ~Tells(t) /\ ~WillTell(t)
    <3>1. ASSUME NEW t \in Sessions, t # s
          PROVE  ~running[t] /\ ~cleanup[t] /\ out[t] = <<>> /\ out'[t] = <<>> /\ Calls(t) = {}
      BY <1>9, <1>0, <3>1, ThreadFrame, ElementsShort DEF Thread, OneThread, Works, Calls
    <3> QED
      BY <1>0, <3>1 DEF Tells, WillTell, Awaits, SessionInv, SessionOf
  <2>2. defaultIface' = NoNet /\ coreDefault' = NoNet
    BY <1>9, <1>0 DEF Drop, UnboundInv, Empty
  <2>3. out'[s] # <<>> => In(s)'.op # "notify"
    BY <1>9, <1>0, TailOut DEF Drop, OutInv, OutOf
  <2> QED
    BY <2>1, <2>2, <2>3 DEF DefaultInv
<1>10. ASSUME NEW s \in Sessions, Update(s) PROVE DefaultInv'
  <2>1. \A t \in Sessions : t # s => out[t] = <<>> /\ out'[t] = <<>> /\ ~Tells(t) /\ ~WillTell(t)
    <3>1. ASSUME NEW t \in Sessions, t # s
          PROVE  ~running[t] /\ ~cleanup[t] /\ out[t] = <<>> /\ out'[t] = <<>> /\ Calls(t) = {}
      BY <1>10, <1>0, <3>1, ThreadFrame, ElementsShort DEF Thread, OneThread, Works, Calls
    <3> QED
      BY <1>0, <3>1 DEF Tells, WillTell, Awaits, SessionInv, SessionOf
  <2>2. /\ ~Tells(s) /\ (out'[s] # <<>> => In(s)'.op # "notify")
        /\ \A c \in Calls(s) : c.op \in {"default", "reset"} => c \in Calls(s)'
    <3>1. NoNet \in Handles /\ out' = Then(s, "refresh", NoNet) /\ out[s] # <<>> /\ In(s).op = "update"
      BY <1>10 DEF Update, Handles, In
    <3>2. Calls(s) = {In(s)} \cup Rest(s) /\ Calls(s)' = {In(s)'} \cup Rest(s) /\ In(s)'.op = "refresh"
      BY <1>0, <3>1, ThenOut
    <3> QED
      BY <3>1, <3>2 DEF Tells
  <2>3. UNCHANGED <<defaultIface, coreDefault, core, cores, replay, cleanup, running, dnet, dseed, dsent>>
    BY <1>10 DEF Update
  <2>4. Awaits(s) => Awaits(s)'
    BY <2>3 DEF Awaits
  <2>5. WillTell(s) => WillTell(s)'
    BY <2>2, <2>3, <2>4 DEF WillTell
  <2> QED
    BY <2>1, <2>2, <2>3, <2>5, DefaultOther
<1>11. ASSUME NEW s \in Sessions, Lost(s) PROVE DefaultInv'
  <2>1. \A t \in Sessions : t # s => out[t] = <<>> /\ out'[t] = <<>> /\ ~Tells(t) /\ ~WillTell(t)
    <3>1. ASSUME NEW t \in Sessions, t # s
          PROVE  ~running[t] /\ ~cleanup[t] /\ out[t] = <<>> /\ out'[t] = <<>> /\ Calls(t) = {}
      BY <1>11, <1>0, <3>1, ThreadFrame, ElementsShort DEF Thread, OneThread, Works, Calls
    <3> QED
      BY <1>0, <3>1 DEF Tells, WillTell, Awaits, SessionInv, SessionOf
  <2>2. /\ ~Tells(s) /\ (out'[s] # <<>> => In(s)'.op # "notify")
        /\ \A c \in Calls(s) : c.op \in {"default", "reset"} => c \in Calls(s)'
    <3>1. NoNet \in Handles /\ out[s] # <<>> /\ In(s).op = "lost"
      BY <1>11 DEF Lost, Handles, In
    <3>2. CASE out' = Then(s, "refresh", NoNet)
      <4>1. Calls(s) = {In(s)} \cup Rest(s) /\ Calls(s)' = {In(s)'} \cup Rest(s) /\ In(s)'.op = "refresh"
        BY <1>0, <3>1, <3>2, ThenOut
      <4> QED
        BY <3>1, <4>1 DEF Tells
    <3>3. CASE out' = Past(s)
      <4>1. Calls(s) = {In(s)} \cup Rest(s) /\ Calls(s)' = Rest(s) /\ (out'[s] # <<>> => In(s)' \in Rest(s))
        BY <1>0, <3>1, <3>3, PastOut
      <4>2. \A c \in Rest(s) : c.op # "notify"
        BY <1>0, <3>1 DEF OutInv, OutOf
      <4> QED
        BY <3>1, <4>1, <4>2 DEF Tells
    <3> QED
      BY <1>11, <3>2, <3>3, LostOut
  <2>3. UNCHANGED <<defaultIface, coreDefault, core, cores, replay, cleanup, running, dnet, dseed, dsent>>
    BY <1>11 DEF Lost
  <2>4. Awaits(s) => Awaits(s)'
    BY <2>3 DEF Awaits
  <2>5. WillTell(s) => WillTell(s)'
    BY <2>2, <2>3, <2>4 DEF WillTell
  <2> QED
    BY <2>1, <2>2, <2>3, <2>5, DefaultOther
<1>12. ASSUME NEW s \in Sessions, SetDefault(s) PROVE DefaultInv'
  <2>1. \A t \in Sessions : t # s => out[t] = <<>> /\ out'[t] = <<>> /\ ~Tells(t) /\ ~WillTell(t)
    <3>1. ASSUME NEW t \in Sessions, t # s
          PROVE  ~running[t] /\ ~cleanup[t] /\ out[t] = <<>> /\ out'[t] = <<>> /\ Calls(t) = {}
      BY <1>12, <1>0, <3>1, ThreadFrame, ElementsShort DEF Thread, OneThread, Works, Calls
    <3> QED
      BY <1>0, <3>1 DEF Tells, WillTell, Awaits, SessionInv, SessionOf
  <2>2. Head(out[s]).net \in Handles /\ out' = Then(s, "notify", Head(out[s]).net) /\ out[s] # <<>>
    BY <1>12, <1>0, InCalls DEF SetDefault, Handles, Downcall, In
  <2>3. In(s)'.net = Head(out[s]).net /\ In(s)'.op = "notify" /\ In(s)'.cbs = callbacks /\ out'[s] # <<>>
    BY <1>0, <2>2, ThenOut
  <2>4. defaultIface' = Head(out[s]).net /\ UNCHANGED <<core, cores>>
    BY <1>12 DEF SetDefault
  <2>5. core' # "off" => Tells(s)' /\ WillTell(s)'
    BY <1>0, <2>3, <2>4 DEF ListenInv, Tells, WillTell
  <2> QED
    BY <2>1, <2>3, <2>4, <2>5 DEF DefaultInv
<1>13. ASSUME NEW s \in Sessions, Reset(s) PROVE DefaultInv'
  <2>1. \A t \in Sessions : t # s => out[t] = <<>> /\ out'[t] = <<>> /\ ~Tells(t) /\ ~WillTell(t)
    <3>1. ASSUME NEW t \in Sessions, t # s
          PROVE  ~running[t] /\ ~cleanup[t] /\ out[t] = <<>> /\ out'[t] = <<>> /\ Calls(t) = {}
      BY <1>13, <1>0, <3>1, ThreadFrame, ElementsShort DEF Thread, OneThread, Works, Calls
    <3> QED
      BY <1>0, <3>1 DEF Tells, WillTell, Awaits, SessionInv, SessionOf
  <2>2. NoNet \in Handles /\ out' = Then(s, "notify", NoNet) /\ out[s] # <<>>
    BY <1>13, <1>0, InCalls DEF Reset, Handles, Downcall, In
  <2>3. In(s)'.net = NoNet /\ In(s)'.op = "notify" /\ In(s)'.cbs = callbacks /\ out'[s] # <<>>
    BY <1>0, <2>2, ThenOut
  <2>4. defaultIface' = NoNet /\ UNCHANGED <<core, cores>>
    BY <1>13 DEF Reset
  <2>5. core' # "off" => Tells(s)' /\ WillTell(s)'
    BY <1>0, <2>3, <2>4 DEF ListenInv, Tells, WillTell
  <2> QED
    BY <2>1, <2>3, <2>4, <2>5 DEF DefaultInv
<1>14. ASSUME NEW s \in Sessions, Notify(s) PROVE DefaultInv'
  <2>1. \A t \in Sessions : t # s => out[t] = <<>> /\ out'[t] = <<>> /\ ~Tells(t) /\ ~WillTell(t)
    <3>1. ASSUME NEW t \in Sessions, t # s
          PROVE  ~running[t] /\ ~cleanup[t] /\ out[t] = <<>> /\ out'[t] = <<>> /\ Calls(t) = {}
      BY <1>14, <1>0, <3>1, ThreadFrame, ElementsShort DEF Thread, OneThread, Works, Calls
    <3> QED
      BY <1>0, <3>1 DEF Tells, WillTell, Awaits, SessionInv, SessionOf
  <2>2. /\ Calls(s) = {In(s)} \cup Rest(s) /\ Calls(s)' = Rest(s) /\ In(s).op \in {"refresh", "notify"} /\ out[s] # <<>>
        /\ out'[s] # <<>> => In(s)' \in Rest(s)
    BY <1>14, <1>0, TailOut DEF Notify, In
  <2>3. out'[s] # <<>> => In(s)'.op # "notify"
    BY <1>0, <2>2 DEF OutInv, OutOf
  <2>4. UNCHANGED <<defaultIface, core, cores, replay, cleanup, running, dnet, dseed, dsent>>
    BY <1>14 DEF Notify
  <2>5. WillTell(s) => Tells(s) \/ WillTell(s)'
    <3>1. Awaits(s) => Awaits(s)'
      BY <2>4 DEF Awaits
    <3> QED
      BY <2>2, <2>4, <3>1 DEF WillTell
  <2>6. coreDefault' = (IF In(s).op = "notify" /\ cores \in In(s).cbs /\ core # "off" THEN In(s).net ELSE coreDefault)
    BY <1>14 DEF Notify, Listens, In
  <2>7. CASE In(s).op = "notify" /\ cores \in In(s).cbs /\ core # "off"
    <3>1. coreDefault' = defaultIface'
      BY <2>2, <2>4, <2>6, <2>7 DEF DefaultInv
    <3> QED
      BY <2>1, <2>3, <3>1 DEF DefaultInv
  <2>8. CASE core = "off"
    BY <2>1, <2>3, <2>4, <2>8 DEF DefaultInv
  <2>9. CASE ~(In(s).op = "notify" /\ cores \in In(s).cbs) /\ core # "off"
    <3>1. ~Tells(s) /\ coreDefault' = coreDefault
      BY <2>6, <2>9 DEF Tells
    <3> QED
      BY <2>1, <2>3, <2>4, <2>5, <3>1, DefaultOther
  <2> QED
    BY <2>7, <2>8, <2>9
<1>15. CASE CoreCreate
  <2>1. UNCHANGED <<defaultIface, coreDefault, out>> /\ core' = "created" /\ core = "off"
    BY <1>15 DEF CoreCreate
  <2> QED
    BY <1>0, <2>1, SameOut DEF DefaultInv, ListenInv
<1>16. CASE Initialize
  <2>1. UNCHANGED <<defaultIface, coreDefault, cores, out>> /\ core' = "initialized" /\ core = "created"
    BY <1>16 DEF Initialize
  <2>2. \A t \in Sessions : Tells(t) => Tells(t)'
    BY <2>1, SameOut DEF Tells
  <2> QED
    BY <1>0, <2>1, <2>2, SameOut DEF DefaultInv
<1>17. CASE CoreStart
  <2>1. UNCHANGED <<defaultIface, coreDefault, cores, out, running, cleanup, dnet, dseed, dsent>>
        /\ core = "initialized" /\ core' = "started"
    BY <1>17 DEF CoreStart
  <2>2. \A t \in Sessions : (replay[t] => replay'[t]) /\ (cleanup[t] => cleanup'[t]) /\ (Awaits(t) => Awaits(t)')
    BY <1>17, <1>0, <2>1 DEF CoreStart, requestReplay, TypeOK, Awaits
  <2>3. \A t \in Sessions : (Tells(t) => Tells(t)') /\ (Tells(t) => WillTell(t)) /\ (WillTell(t) => WillTell(t)')
    BY <2>1, <2>2, TellOther DEF WillTell
  <2>4. coreDefault \in {defaultIface, NoNet} \/ \E t \in Sessions : Tells(t)
    BY <2>1 DEF DefaultInv
  <2>5. coreDefault = defaultIface \/ \E t \in Sessions : WillTell(t)'
    <3>1. CASE ~bound
      BY <1>0, <3>1 DEF UnboundInv, Empty
    <3>2. CASE bound /\ monitor # None
      <4>1. monitor \in Sessions /\ replay'[monitor]
        BY <1>17, <1>0, <3>2 DEF CoreStart, requestReplay, TypeOK
      <4>2. PICK t \in Sessions : replay'[t]
        BY <4>1
      <4> QED
        BY <4>2 DEF WillTell
    <3>3. CASE monitor = None
      <4>1. \A t \in Sessions : WillWipe(t) => WillTell(t)
        BY <1>0, <3>3, InCalls, Bounds DEF WillWipe, WillTell, SessionInv, SessionOf, None
      <4>2. Empty => coreDefault = defaultIface \/ \E t \in Sessions : Tells(t)
        BY <2>4 DEF Empty
      <4> QED
        BY <1>0, <2>3, <4>1, <4>2 DEF EmptyInv
    <3> QED
      BY <3>1, <3>2, <3>3
  <2> QED
    BY <2>1, <2>3, <2>4, <2>5, SameOut DEF DefaultInv
<1>18. CASE CoreClose
  <2>1. UNCHANGED <<defaultIface, out>> /\ core' = "off"
    BY <1>18 DEF CoreClose
  <2> QED
    BY <2>1, SameOut DEF DefaultInv
<1>19. CASE UNCHANGED vars
  <2>1. /\ UNCHANGED <<defaultIface, coreDefault, core, cores, out, dsent, dnet, dseed>>
        /\ \A t \in Sessions : replay[t] \/ cleanup[t] => replay'[t] \/ cleanup'[t]
        /\ \A t \in Sessions : running[t] => running'[t] \/ cleanup'[t]
    BY <1>19 DEF vars
  <2>2. \A t \in Sessions : Awaits(t) => cleanup'[t] \/ Awaits(t)'
    BY <2>1 DEF Awaits
  <2> QED
    BY <1>00, <2>1, <2>2
<1> QED
  BY <1>1, <1>2, <1>3, <1>4, <1>5, <1>6, <1>7, <1>8, <1>9, <1>10,
     <1>11, <1>12, <1>13, <1>14, <1>15, <1>16, <1>17, <1>18, <1>19
  DEF Next, Thread

-----------------------------------------------------------------------------
(* What was sent arrives, with one thread.                                 *)

LEMMA SentOther ==
    ASSUME SentInv, ~missed, NEW t \in Sessions, running[t], ifaces' = ifaces, defaultIface' = defaultIface,
           \A c \in Calls(t) : c \in Calls(t)' \/ c.op \notin {"update", "lost", "default"},
           sent'[t] = sent[t], dsent'[t] = dsent[t]
    PROVE  SentOf(t)'
BY DEF SentInv, SentOf

LEMMA SentKept ==
    ASSUME ThreadInv, KnownInv, SentInv, OneThread, OneThread', [Next]_vars
    PROVE  SentInv'
<1> SUFFICES ASSUME ~missed', NEW t \in Sessions, running'[t] PROVE SentOf(t)'
  BY DEF SentInv
<1> USE DEF trackVars, queueVars, registryVars, bridgeVars
<1>0. /\ TypeOK /\ SessionInv /\ OutInv /\ UnboundInv /\ EmptyInv /\ EventInv /\ TrackInv
  BY DEF ThreadInv
<1>00. ASSUME running[t], UNCHANGED <<missed, ifaces, defaultIface, sent, dsent, out>>
       PROVE  SentOf(t)'
  BY <1>00, SentOther, SameOut
<1>1. CASE World
  <2>1. running[t] /\ UNCHANGED <<missed, ifaces, defaultIface, sent, dsent, out>>
    BY <1>1, WorldFrame
  <2> QED
    BY <1>00, <2>1
<1>2. ASSUME startMonitor, monitor # None PROVE SentOf(t)'
  <2>1. running[t] /\ UNCHANGED <<missed, ifaces, defaultIface, sent, dsent, out>>
    BY <1>2 DEF startMonitor
  <2> QED
    BY <1>00, <2>1
<1>3. ASSUME startMonitor, monitor = None PROVE SentOf(t)'
  <2>1. t > sessions /\ Empty
    BY <1>3, <1>0, StartsEmpty
  <2>2. sent[t] = NoLinks /\ dsent[t] = <<>>
    BY <1>0, <2>1 DEF SessionInv, SessionOf
  <2>3. UNCHANGED <<sent, dsent, ifaces>>
    BY <1>3 DEF startMonitor
  <2> QED
    BY <2>1, <2>2, <2>3 DEF SentOf, Empty, NoLinks
<1>4. CASE stopMonitor
  <2>1. monitor \in Sessions
    BY <1>4, <1>0 DEF stopMonitor, TypeOK
  <2> QED
    BY <1>4, <1>0, <2>1 DEF stopMonitor, TypeOK, SessionInv, SessionOf
<1>5. ASSUME NEW s \in Sessions, HandleNetwork(s) PROVE SentOf(t)'
  <2>1. running[s] /\ t = s
    BY <1>5, <1>0, TheThread, SMTT(20) DEF Thread
  <2> DEFINE n == Head(netq[s]).net
  <2>2. /\ out[s] = <<>> /\ Calls(s) = {} /\ UNCHANGED <<missed, ifaces, defaultIface, dsent>>
    BY <1>5, <1>0, NetworkEffect, ElementsShort DEF Calls, HandleNetwork
  <2>3. SentOf(s)
    BY <2>1, <2>2 DEF SentInv
  <2>4. \A m \in Networks : m # n => sent'[s][m] = sent[s][m]
    BY <1>5, <1>0, NetworkEffect
  <2>5. \/ sent'[s][n] = sent[s][n]
        \/ out'[s] = <<Call("update", n, tracked'[s][n])>>
        \/ out'[s] = <<Call("lost", n, NoLink)>>
    BY <1>5, <1>0, NetworkEffect
  <2> HIDE DEF n
  <2>6. sent'[s][n] = sent[s][n] \/ \E c \in Calls(s)' : c.op \in {"update", "lost"} /\ c.net = n
    BY <2>5, FewCalls, CallIs
  <2> QED
    BY <2>1, <2>2, <2>3, <2>4, <2>6 DEF SentOf
<1>6. ASSUME NEW s \in Sessions, HandleDefault(s) PROVE SentOf(t)'
  <2>1. running[s] /\ t = s
    BY <1>6, <1>0, TheThread DEF Thread
  <2>2. /\ out[s] = <<>> /\ Calls(s) = {} /\ UNCHANGED <<missed, ifaces, defaultIface, sent>>
    BY <1>6, <1>0, DefaultEffect, ElementsShort DEF Calls, HandleDefault
  <2>3. SentOf(s)
    BY <2>1, <2>2 DEF SentInv
  <2>4. dsent'[s] = dsent[s] \/ \E v : out'[s] = <<Call("default", v, NoLink)>>
    BY <1>6, <1>0, DefaultEffect DEF Emitted
  <2>5. dsent'[s] = dsent[s] \/ \E c \in Calls(s)' : c.op = "default"
    BY <2>4, FewCalls, CallIs
  <2> QED
    BY <2>1, <2>2, <2>3, <2>5 DEF SentOf
<1>7. ASSUME NEW s \in Sessions, HandleReplay(s) PROVE SentOf(t)'
  <2>1. running[s] /\ t = s
    BY <1>7, <1>0, TheThread DEF Thread
  <2> DEFINE known == dnet[s] # NoNet /\ dseed[s]["props"] # None
  <2>2. /\ Calls(s) = {} /\ UNCHANGED <<ifaces, defaultIface>>
        /\ sent'[s] = [n \in Networks |-> IF n \in Ready(s) THEN tracked[s][n] ELSE NoLink]
        /\ dsent'[s] = (IF known THEN <<dnet[s], dseed[s]["caps"]>> ELSE <<>>)
    BY <1>7, <1>0, ElementsShort DEF HandleReplay, Idle, Calls, TypeOK
  <2>3. PICK q \in Seq(Downcall) :
          /\ out' = [out EXCEPT ![s] = q]
          /\ Elements(q) =
               {Call("update", n, tracked[s][n]) : n \in Ready(s)}
                 \cup (IF known THEN {Call("default", dnet[s], NoLink)} ELSE {})
    BY <1>7, <1>0, Replayed
  <2>4. Calls(s)' = Elements(q)
    BY <1>0, <2>3, SetOut
  <2>5. \A n \in Ready(s) : \E c \in Calls(s)' : c.op = "update" /\ c.net = n
    BY <2>3, <2>4, CallIs
  <2>6. known => \E c \in Calls(s)' : c.op = "default"
    BY <2>3, <2>4, CallIs
  <2>7. \A n \in Networks \ Ready(s) : ifaces[n] = NoLink
    BY <2>1, <2>2 DEF KnownInv, KnownOf, Ready
  <2> QED
    BY <2>1, <2>2, <2>5, <2>6, <2>7 DEF SentOf
<1>8. ASSUME NEW s \in Sessions, HandleCleanup(s) PROVE SentOf(t)'
  <2>1. running[s] /\ t = s
    BY <1>8, <1>0, TheThread DEF Thread
  <2> QED
    BY <1>8, <1>0, <2>1 DEF HandleCleanup, SessionInv, SessionOf
<1>9. ASSUME NEW s \in Sessions, Drop(s) PROVE SentOf(t)'
  BY <1>9 DEF Drop
<1>10. ASSUME NEW s \in Sessions, Update(s) PROVE SentOf(t)'
  <2>1. running[s] /\ t = s
    BY <1>10, <1>0, TheThread DEF Thread
  <2>2. NoNet \in Handles /\ out' = Then(s, "refresh", NoNet) /\ out[s] # <<>>
    BY <1>10, <1>0, InCalls DEF Update, Handles, Downcall, In
  <2>3. /\ Calls(s) = {In(s)} \cup Rest(s) /\ Calls(s)' = {In(s)'} \cup Rest(s) /\ In(s)'.op = "refresh"
    BY <1>0, <2>2, ThenOut
  <2>4. In(s).op = "update" /\ ifaces' = [ifaces EXCEPT ![In(s).net] = In(s).link]
        /\ UNCHANGED <<missed, defaultIface, sent, dsent>>
    BY <1>10 DEF Update, In
  <2>5. /\ Complete(tracked[s][In(s).net]) /\ In(s).link = tracked[s][In(s).net] /\ SentOf(s)
        /\ In(s).net \in Networks
    BY <1>0, <2>1, <2>3, <2>4 DEF TrackInv, TrackOf, SentInv, OutInv, OutOf
  <2>6. sent[s][In(s).net] = In(s).link
    BY <1>0, <2>1, <2>5 DEF TrackInv, TrackOf
  <2>7. \A m \in Networks : ifaces'[m] = (IF m = In(s).net THEN sent[s][m] ELSE ifaces[m])
    BY <1>0, <2>4, <2>6 DEF TypeOK
  <2> QED
    BY <2>1, <2>3, <2>4, <2>5, <2>7 DEF SentOf
<1>11. ASSUME NEW s \in Sessions, Lost(s) PROVE SentOf(t)'
  <2>1. running[s] /\ t = s
    BY <1>11, <1>0, TheThread DEF Thread
  <2>2. In(s).op = "lost" /\ ifaces' = [ifaces EXCEPT ![In(s).net] = NoLink]
        /\ UNCHANGED <<missed, defaultIface, sent, dsent>>
    BY <1>11 DEF Lost, In
  <2>3. Calls(s) = {In(s)} \cup Rest(s) /\ Rest(s) \subseteq Calls(s)'
    <3>1. CASE out' = Past(s)
      BY <1>11, <1>0, <3>1, LostOut, PastOut
    <3>2. CASE out' = Then(s, "refresh", NoNet)
      <4>1. NoNet \in Handles /\ out[s] # <<>>
        BY <1>11, LostOut DEF Handles
      <4> QED
        BY <1>0, <3>2, <4>1, ThenOut
    <3> QED
      BY <1>11, <3>1, <3>2, LostOut
  <2>4. In(s).net \in Networks /\ ~Complete(tracked[s][In(s).net]) /\ SentOf(s)
    BY <1>0, <2>1, <2>2, <2>3 DEF TrackInv, TrackOf, OutInv, OutOf, SentInv
  <2>5. sent[s][In(s).net] = NoLink
    BY <1>0, <2>1, <2>4 DEF TrackInv, TrackOf
  <2>6. \A m \in Networks : ifaces'[m] = (IF m = In(s).net THEN sent[s][m] ELSE ifaces[m])
    BY <1>0, <2>2, <2>5 DEF TypeOK
  <2> QED
    BY <2>1, <2>2, <2>3, <2>4, <2>6 DEF SentOf
<1>12. ASSUME NEW s \in Sessions, SetDefault(s) PROVE SentOf(t)'
  <2>1. running[s] /\ t = s
    BY <1>12, <1>0, TheThread DEF Thread
  <2>2. Head(out[s]).net \in Handles /\ out' = Then(s, "notify", Head(out[s]).net) /\ out[s] # <<>>
    BY <1>12, <1>0, InCalls DEF SetDefault, Handles, Downcall, In
  <2>3. /\ Calls(s) = {In(s)} \cup Rest(s) /\ Calls(s)' = {In(s)'} \cup Rest(s) /\ In(s)'.op = "notify"
    BY <1>0, <2>2, ThenOut
  <2>4. In(s).op = "default" /\ defaultIface' = In(s).net /\ UNCHANGED <<missed, ifaces, sent, dsent>>
    BY <1>12 DEF SetDefault, In
  <2>5. dsent[s][1] = In(s).net /\ SentOf(s)
    BY <1>0, <2>1, <2>3, <2>4 DEF TrackInv, TrackOf, SentInv
  <2> QED
    BY <2>1, <2>3, <2>4, <2>5 DEF SentOf
<1>13. ASSUME NEW s \in Sessions, Reset(s) PROVE SentOf(t)'
  <2>1. running[s] /\ t = s
    BY <1>13, <1>0, TheThread DEF Thread
  <2>2. In(s).op = "reset" /\ out[s] # <<>>
    BY <1>13 DEF Reset, In
  <2> QED
    BY <1>0, <2>1, <2>2, InCalls DEF TrackInv, TrackOf
<1>14. ASSUME NEW s \in Sessions, Notify(s) PROVE SentOf(t)'
  <2>1. running[s] /\ t = s
    BY <1>14, <1>0, TheThread DEF Thread
  <2>2. Calls(s) = {In(s)} \cup Rest(s) /\ Calls(s)' = Rest(s) /\ In(s).op \in {"refresh", "notify"}
    BY <1>14, <1>0, TailOut DEF Notify, In
  <2> QED
    BY <1>14, <2>1, <2>2, SentOther DEF Notify
<1>15. CASE CoreCreate \/ Initialize \/ CoreStart \/ CoreClose
  <2>1. running[t] /\ UNCHANGED <<missed, ifaces, defaultIface, sent, dsent, out>>
    BY <1>15, CoreFrame
  <2> QED
    BY <1>00, <2>1
<1>16. CASE UNCHANGED vars
  <2>1. running[t] /\ UNCHANGED <<missed, ifaces, defaultIface, sent, dsent, out>>
    BY <1>16 DEF vars
  <2> QED
    BY <1>00, <2>1
<1> QED
  BY <1>1, <1>2, <1>3, <1>4, <1>5, <1>6, <1>7, <1>8, <1>9, <1>10,
     <1>11, <1>12, <1>13, <1>14, <1>15, <1>16
  DEF Next, Thread

-----------------------------------------------------------------------------
(* The callback queues against the world.                                  *)

\* Each place of a concatenation is a place of one of its parts.
LEMMA Places ==
    ASSUME NEW p \in Seq(Event), NEW q \in Seq(Event)
    PROVE  /\ p \o q \in Seq(Event) /\ Len(p) \in Nat /\ Len(q) \in Nat /\ Len(p \o q) = Len(p) + Len(q)
           /\ \A i \in 1 .. Len(p) : i \in 1 .. Len(p \o q) /\ (p \o q)[i] = p[i]
           /\ \A i \in 1 .. Len(q) : Len(p) + i \in 1 .. Len(p \o q) /\ (p \o q)[Len(p) + i] = q[i]
           /\ \A i \in 1 .. Len(p \o q) : i \in 1 .. Len(p) \/ \E j \in 1 .. Len(q) : i = Len(p) + j
<1>1. /\ p \o q \in Seq(Event) /\ Len(p) \in Nat /\ Len(q) \in Nat /\ Len(p \o q) = Len(p) + Len(q)
      /\ \A i \in 1 .. Len(p) : (p \o q)[i] = p[i]
      /\ \A i \in 1 .. Len(q) : (p \o q)[Len(p) + i] = q[i]
  BY ElementsConcat
<1>2. \A i \in 1 .. Len(p) : i \in 1 .. Len(p \o q)
  BY <1>1
<1>3. \A i \in 1 .. Len(q) : Len(p) + i \in 1 .. Len(p \o q)
  BY <1>1
<1>4. ASSUME NEW i \in 1 .. Len(p \o q), i \notin 1 .. Len(p)
      PROVE  \E j \in 1 .. Len(q) : i = Len(p) + j
  <2>1. i - Len(p) \in 1 .. Len(q) /\ i = Len(p) + (i - Len(p))
    BY <1>1, <1>4
  <2> QED
    BY <2>1
<1> QED
  BY <1>1, <1>2, <1>3, <1>4

LEMMA BecomesAppended ==
    ASSUME NEW p \in Seq(Event), NEW q \in Seq(Event), NEW n, NEW h, NEW u, NEW v, NEW w,
           Becomes(p, n, h, u, v), Becomes(q, n, h, v, w)
    PROVE  Becomes(p \o q, n, h, u, w)
<1> DEFINE r == p \o q
<1>1. /\ Len(p) \in Nat /\ Len(q) \in Nat
      /\ \A i \in 1 .. Len(p) : i \in 1 .. Len(r) /\ r[i] = p[i]
      /\ \A i \in 1 .. Len(q) : Len(p) + i \in 1 .. Len(r) /\ r[Len(p) + i] = q[i]
      /\ \A i \in 1 .. Len(r) : i \in 1 .. Len(p) \/ \E j \in 1 .. Len(q) : i = Len(p) + j
  BY Places
<1> HIDE DEF r
<1>2. CASE w = v /\ \A i \in 1 .. Len(q) : ~Touches(q[i], n, h)
  <2>1. CASE v = u /\ \A i \in 1 .. Len(p) : ~Touches(p[i], n, h)
    <3>1. \A i \in 1 .. Len(r) : ~Touches(r[i], n, h)
      BY <1>1, <1>2, <2>1
    <3> QED
      BY <1>2, <2>1, <3>1 DEF Becomes, r
  <2>2. ASSUME NEW i \in 1 .. Len(p), Touches(p[i], n, h), p[i].state = v,
               \A j \in 1 .. Len(p) : j > i => ~Touches(p[j], n, h)
        PROVE  Becomes(p \o q, n, h, u, w)
    <3>1. i \in 1 .. Len(r) /\ Touches(r[i], n, h) /\ r[i].state = w
      BY <1>1, <1>2, <2>2
    <3>2. \A j \in 1 .. Len(r) : j > i => ~Touches(r[j], n, h)
      BY <1>1, <1>2, <2>2
    <3> QED
      BY <3>1, <3>2 DEF Becomes, r
  <2> QED
    BY <2>1, <2>2 DEF Becomes
<1>3. ASSUME NEW i \in 1 .. Len(q), Touches(q[i], n, h), q[i].state = w,
             \A j \in 1 .. Len(q) : j > i => ~Touches(q[j], n, h)
      PROVE  Becomes(p \o q, n, h, u, w)
  <2>1. Len(p) + i \in 1 .. Len(r) /\ Touches(r[Len(p) + i], n, h) /\ r[Len(p) + i].state = w
    BY <1>1, <1>3
  <2>2. ASSUME NEW j \in 1 .. Len(r), j > Len(p) + i
        PROVE  ~Touches(r[j], n, h)
    <3>1. j \notin 1 .. Len(p)
      BY <1>1, <2>2
    <3>2. PICK l \in 1 .. Len(q) : j = Len(p) + l
      BY <1>1, <3>1
    <3>3. l > i
      BY <1>1, <2>2, <3>2
    <3> QED
      BY <1>1, <1>3, <3>2, <3>3
  <2> QED
    BY <2>1, <2>2 DEF Becomes, r
<1> QED
  BY <1>2, <1>3 DEF Becomes

LEMMA BecomesTail ==
    ASSUME NEW q \in Seq(Event), q # <<>>, NEW n, NEW h, NEW u, NEW v, Becomes(q, n, h, u, v)
    PROVE  /\ Touches(Head(q), n, h) => Becomes(Tail(q), n, h, Head(q).state, v)
           /\ ~Touches(Head(q), n, h) => Becomes(Tail(q), n, h, u, v)
<1> DEFINE r == Tail(q)
<1>1. /\ Head(q) = q[1] /\ Len(q) \in Nat \ {0} /\ Len(r) = Len(q) - 1
      /\ \A i \in 1 .. Len(r) : i + 1 \in 1 .. Len(q) /\ r[i] = q[i + 1]
  BY ElementsTail
<1>2. \A i \in 1 .. Len(q) : i = 1 \/ (i - 1 \in 1 .. Len(r) /\ r[i - 1] = q[i])
  BY <1>1
<1> HIDE DEF r
<1>3. 1 \in 1 .. Len(q)
  BY <1>1
<1>4. CASE v = u /\ \A i \in 1 .. Len(q) : ~Touches(q[i], n, h)
  BY <1>1, <1>3, <1>4 DEF Becomes, r
<1>5. ASSUME NEW i \in 1 .. Len(q), Touches(q[i], n, h), q[i].state = v,
             \A j \in 1 .. Len(q) : j > i => ~Touches(q[j], n, h)
      PROVE  /\ Touches(Head(q), n, h) => Becomes(r, n, h, Head(q).state, v)
             /\ ~Touches(Head(q), n, h) => Becomes(r, n, h, u, v)
  <2>1. CASE i = 1
    <3>1. \A j \in 1 .. Len(r) : ~Touches(r[j], n, h)
      BY <1>1, <1>5, <2>1
    <3> QED
      BY <1>1, <1>5, <2>1, <3>1 DEF Becomes
  <2>2. CASE i # 1
    <3>1. i - 1 \in 1 .. Len(r) /\ Touches(r[i - 1], n, h) /\ r[i - 1].state = v
      BY <1>2, <1>5, <2>2
    <3>2. \A j \in 1 .. Len(r) : j > i - 1 => ~Touches(r[j], n, h)
      BY <1>1, <1>5
    <3>3. \A x : Becomes(r, n, h, x, v)
      BY <3>1, <3>2 DEF Becomes
    <3> QED
      BY <3>3
  <2> QED
    BY <2>1, <2>2
<1> QED
  BY <1>4, <1>5 DEF Becomes, r

LEMMA BecomesShort ==
    ASSUME NEW n, NEW h, NEW u
    PROVE  /\ \A v : Becomes(<<>>, n, h, u, v) <=> u = v
           /\ \A e : Touches(e, n, h) => Becomes(<<e>>, n, h, u, e.state)
           /\ \A e : ~Touches(e, n, h) => Becomes(<<e>>, n, h, u, u)
<1>1. Len(<<>>) = 0 /\ 1 .. 0 = {} /\ 1 .. 1 = {1} /\ ~(1 > 1)
  OBVIOUS
<1>2. \A e : Len(<<e>>) = 1 /\ <<e>>[1] = e
  OBVIOUS
<1> QED
  BY <1>1, <1>2 DEF Becomes

\* What the announcement of a network makes of its halves.
LEMMA BecomesAnnounced ==
    ASSUME TypeOK, NEW m \in Networks, NEW n, NEW h \in Half, NEW u
    PROVE  Becomes(Announce(m, link[m]), n, h, u, IF n = m THEN link[m][h] ELSE u)
<1> DEFINE q == Announce(m, link[m])
<1>1. /\ Len(q) = 3 /\ q[1] = Ev("available", m, None)
      /\ q[2] = Ev("caps", m, link[m]["caps"]) /\ q[3] = Ev("props", m, link[m]["props"])
  BY Announced
<1> HIDE DEF q
<1>2. 1 .. 3 = {1, 2, 3}
  OBVIOUS
<1>3. /\ ~Touches(q[1], n, h)
      /\ Touches(q[2], n, h) <=> n = m /\ h = "caps"
      /\ Touches(q[3], n, h) <=> n = m /\ h = "props"
      /\ q[2].state = link[m]["caps"] /\ q[3].state = link[m]["props"]
  BY <1>1, EvIs DEF Touches, Half
<1>4. CASE n # m
  BY <1>1, <1>2, <1>3, <1>4 DEF Becomes, q
<1>5. CASE n = m /\ h = "caps"
  <2>1. \E i \in 1 .. Len(q) : /\ Touches(q[i], n, h) /\ q[i].state = link[m][h]
                               /\ \A j \in 1 .. Len(q) : j > i => ~Touches(q[j], n, h)
    <3>1. 2 \in 1 .. Len(q) /\ Touches(q[2], n, h) /\ q[2].state = link[m][h]
      BY <1>1, <1>2, <1>3, <1>5
    <3>2. \A j \in 1 .. Len(q) : j > 2 => ~Touches(q[j], n, h)
      BY <1>1, <1>2, <1>3, <1>5
    <3> QED
      BY <3>1, <3>2
  <2> QED
    BY <1>5, <2>1 DEF Becomes, q
<1>6. CASE n = m /\ h = "props"
  <2>1. \E i \in 1 .. Len(q) : /\ Touches(q[i], n, h) /\ q[i].state = link[m][h]
                               /\ \A j \in 1 .. Len(q) : j > i => ~Touches(q[j], n, h)
    <3>1. 3 \in 1 .. Len(q) /\ Touches(q[3], n, h) /\ q[3].state = link[m][h]
      BY <1>1, <1>2, <1>3, <1>6
    <3>2. \A j \in 1 .. Len(q) : j > 3 => ~Touches(q[j], n, h)
      BY <1>1, <1>2
    <3> QED
      BY <3>1, <3>2
  <2> QED
    BY <1>6, <2>1 DEF Becomes, q
<1> QED
  BY <1>4, <1>5, <1>6 DEF Half

\* What a new callback hears makes the halves of all networks true.
LEMMA BecomesAll ==
    ASSUME TypeOK, NEW order \in SetToSeqs(Up), NEW n \in Networks, NEW h \in Half
    PROVE  Becomes(Announcements(order), n, h, None, Truth(n, h))
<1> DEFINE q == Announcements(order)
           N == Len(order)
<1>1. /\ N \in Nat /\ Len(q) = 3 * N
      /\ \A k \in 1 .. N :
           /\ order[k] \in Up
           /\ q[3 * k - 2] = Ev("available", order[k], None)
           /\ q[3 * k - 1] = Ev("caps", order[k], link[order[k]]["caps"])
           /\ q[3 * k] = Ev("props", order[k], link[order[k]]["props"])
      /\ \A i \in 1 .. Len(q) : \E k \in 1 .. N : i \in {3 * k - 2, 3 * k - 1, 3 * k}
  BY AnnouncedAll
<1>2. /\ \A i, j \in 1 .. N : i # j => order[i] # order[j]
      /\ n \in Up => \E k \in 1 .. N : order[k] = n
  <2>1. IsFiniteSet(Up)
    BY NetworksAssumption, FS_Subset DEF Up
  <2>2. Elements(order) = Up /\ N = Cardinality(Up)
    BY <2>1, Permuted
  <2>3. \A i, j \in 1 .. N : i # j => order[i] # order[j]
    BY <2>2 DEF SetToSeqs
  <2> QED
    BY <2>2, <2>3 DEF Elements
<1> HIDE DEF q, N
<1>3. ASSUME NEW k \in 1 .. N
      PROVE  /\ ~Touches(q[3 * k - 2], n, h)
             /\ Touches(q[3 * k - 1], n, h) <=> n = order[k] /\ h = "caps"
             /\ Touches(q[3 * k], n, h) <=> n = order[k] /\ h = "props"
             /\ q[3 * k - 1].state = link[order[k]]["caps"] /\ q[3 * k].state = link[order[k]]["props"]
  BY <1>1, EvIs DEF Touches, Half
<1>4. CASE n \notin Up
  <2>1. ASSUME NEW i \in 1 .. Len(q) PROVE ~Touches(q[i], n, h)
    <3>1. PICK k \in 1 .. N : i \in {3 * k - 2, 3 * k - 1, 3 * k}
      BY <1>1
    <3>2. order[k] # n
      BY <1>1, <1>4
    <3> QED
      BY <1>3, <3>1, <3>2
  <2>2. Truth(n, h) = None
    BY <1>4 DEF Truth, Up
  <2> QED
    BY <2>1, <2>2 DEF Becomes, q
<1>5. CASE n \in Up
  <2>1. PICK k \in 1 .. N : order[k] = n
    BY <1>2, <1>5
  <2>2. Truth(n, h) = link[n][h]
    BY <1>5 DEF Truth, Up
  <2> DEFINE at == IF h = "caps" THEN 3 * k - 1 ELSE 3 * k
  <2>3. at \in 1 .. Len(q) /\ Touches(q[at], n, h) /\ q[at].state = link[n][h]
    <3>1. 3 * k - 1 \in 1 .. Len(q) /\ 3 * k \in 1 .. Len(q)
      BY <1>1
    <3> QED
      BY <1>3, <2>1, <3>1 DEF Half
  <2>4. ASSUME NEW j \in 1 .. Len(q), j > at, Touches(q[j], n, h)
        PROVE  FALSE
    <3>1. PICK l \in 1 .. N : j \in {3 * l - 2, 3 * l - 1, 3 * l}
      BY <1>1
    <3>2. \/ j = 3 * l - 1 /\ n = order[l] /\ h = "caps"
          \/ j = 3 * l /\ n = order[l] /\ h = "props"
      BY <1>3, <2>4, <3>1
    <3>3. l = k
      BY <1>2, <2>1, <3>2
    <3> QED
      BY <1>1, <2>4, <3>2, <3>3
  <2> HIDE DEF at
  <2> QED
    BY <2>2, <2>3, <2>4 DEF Becomes, q
<1> QED
  BY <1>4, <1>5

LEMMA BecomesTold ==
    ASSUME TypeOK, NetqInv, NEW t \in Sessions, running[t], NEW m \in Networks, NEW g \in Half,
           NEW e \in Seq(Event), NEW w, Becomes(e, m, g, Truth(m, g), w)
    PROVE  Becomes(Told(netq, e)[t], m, g, tracked[t][m][g], w)
<1>1. Told(netq, e)[t] = netq[t] \o e /\ netq[t] \in Seq(Event)
  BY ToldQueue DEF TypeOK
<1>2. Becomes(netq[t], m, g, tracked[t][m][g], Truth(m, g))
  BY DEF NetqInv
<1> QED
  BY <1>1, <1>2, BecomesAppended

LEMMA NetqKept ==
    ASSUME TypeOK, SessionInv, EventInv, NetqInv, [Next]_vars
    PROVE  NetqInv'
<1> SUFFICES ASSUME NEW t \in Sessions, running'[t], NEW m \in Networks, NEW g \in Half
             PROVE  Becomes(netq'[t], m, g, tracked'[t][m][g], Truth(m, g)')
  BY DEF NetqInv
<1> USE DEF trackVars, queueVars, worldVars
<1>00. ASSUME running[t], netq'[t] = netq[t], tracked'[t] = tracked[t], UNCHANGED <<net, link>>
       PROVE  Becomes(netq'[t], m, g, tracked'[t][m][g], Truth(m, g)')
  BY <1>00 DEF NetqInv, Truth
<1>1. ASSUME NEW n \in Networks, NetworkUp(n) PROVE Becomes(netq'[t], m, g, tracked'[t][m][g], Truth(m, g)')
  <2> DEFINE w == IF m = n THEN link[n][g] ELSE Truth(m, g)
             e == Announce(n, link[n])
  <2>1. running[t] /\ tracked' = tracked /\ netq'[t] = Told(netq, e)[t]
    BY <1>1 DEF NetworkUp
  <2>2. e \in Seq(Event) /\ Becomes(e, m, g, Truth(m, g), w)
    BY Announced, BecomesAnnounced
  <2>3. Truth(m, g)' = w
    BY <1>1 DEF NetworkUp, Truth, TypeOK
  <2> HIDE DEF w, e
  <2>4. Becomes(Told(netq, e)[t], m, g, tracked[t][m][g], w)
    BY <2>1, <2>2, BecomesTold
  <2> QED
    BY <2>1, <2>3, <2>4
<1>2. ASSUME NEW n \in Networks, BestChange(n) PROVE Becomes(netq'[t], m, g, tracked'[t][m][g], Truth(m, g)')
  <2>1. running[t] /\ netq'[t] = netq[t] /\ tracked'[t] = tracked[t] /\ UNCHANGED <<net, link>>
    BY <1>2 DEF BestChange
  <2> QED
    BY <1>00, <2>1
<1>3. ASSUME NEW n \in Networks, NetworkDown(n) PROVE Becomes(netq'[t], m, g, tracked'[t][m][g], Truth(m, g)')
  <2> DEFINE w == IF m = n THEN None ELSE Truth(m, g)
             e == <<Ev("lost", n, None)>>
  <2>1. running[t] /\ tracked' = tracked /\ netq'[t] = Told(netq, e)[t]
    BY <1>3 DEF NetworkDown
  <2>2. e \in Seq(Event)
    <3>1. Ev("lost", n, None) \in Event
      BY DEF Ev, Event
    <3> QED
      BY <3>1
  <2>3. Becomes(e, m, g, Truth(m, g), w)
    <3>1. Touches(Ev("lost", n, None), m, g) <=> m = n
      BY EvIs DEF Touches
    <3>2. Ev("lost", n, None).state = None
      BY EvIs
    <3> QED
      BY <3>1, <3>2, BecomesShort
  <2>4. Truth(m, g)' = w
    BY <1>3 DEF NetworkDown, Truth, TypeOK
  <2> HIDE DEF w, e
  <2>5. Becomes(Told(netq, e)[t], m, g, tracked[t][m][g], w)
    BY <2>1, <2>2, <2>3, BecomesTold
  <2> QED
    BY <2>1, <2>4, <2>5
<1>4. ASSUME NEW n \in Networks, NEW h \in Half, LinkChange(n, h) PROVE Becomes(netq'[t], m, g, tracked'[t][m][g], Truth(m, g)')
  <2> DEFINE w == IF m = n /\ g = h THEN 2 ELSE Truth(m, g)
             e == <<Ev(h, n, 2)>>
  <2>1. running[t] /\ tracked' = tracked /\ netq'[t] = Told(netq, e)[t]
    BY <1>4 DEF LinkChange
  <2>2. e \in Seq(Event)
    <3>1. Ev(h, n, 2) \in Event
      BY DEF Ev, Event, States, Half
    <3> QED
      BY <3>1
  <2>3. Becomes(e, m, g, Truth(m, g), w)
    <3>1. Touches(Ev(h, n, 2), m, g) <=> m = n /\ g = h
      BY EvIs DEF Touches, Half
    <3>2. Ev(h, n, 2).state = 2
      BY EvIs
    <3> QED
      BY <3>1, <3>2, BecomesShort
  <2>4. Truth(m, g)' = w
    BY <1>4 DEF LinkChange, Truth, TypeOK, Link
  <2> HIDE DEF w, e
  <2>5. Becomes(Told(netq, e)[t], m, g, tracked[t][m][g], w)
    BY <2>1, <2>2, <2>3, BecomesTold
  <2> QED
    BY <2>1, <2>4, <2>5
<1>5. ASSUME startMonitor, monitor # None PROVE Becomes(netq'[t], m, g, tracked'[t][m][g], Truth(m, g)')
  <2>1. running[t] /\ netq'[t] = netq[t] /\ tracked'[t] = tracked[t] /\ UNCHANGED <<net, link>>
    BY <1>5 DEF startMonitor
  <2> QED
    BY <1>00, <2>1
<1>6. ASSUME startMonitor, monitor = None PROVE Becomes(netq'[t], m, g, tracked'[t][m][g], Truth(m, g)')
  <2>1. sessions + 1 \in Sessions /\ running' = [running EXCEPT ![sessions + 1] = TRUE]
        /\ UNCHANGED <<tracked, net, link>> /\ sessions \in Nat
    BY <1>6, NextSession DEF startMonitor, NewMonitor
  <2>2. PICK order \in SetToSeqs(Up) : netq' = [netq EXCEPT ![sessions + 1] = Announcements(order)]
    BY <1>6 DEF startMonitor, NewMonitor
  <2>3. CASE t # sessions + 1
    BY <1>00, <2>1, <2>2, <2>3 DEF TypeOK
  <2>4. CASE t = sessions + 1
    <3>1. t > sessions
      BY <2>1, <2>4
    <3>2. tracked[t][m][g] = None
      BY <3>1 DEF SessionInv, SessionOf, NoLinks, NoLink
    <3>3. netq'[t] = Announcements(order)
      BY <2>1, <2>2, <2>4 DEF TypeOK
    <3>4. Truth(m, g)' = Truth(m, g)
      BY <2>1 DEF Truth
    <3> QED
      BY <2>1, <3>2, <3>3, <3>4, BecomesAll
  <2> QED
    BY <2>3, <2>4
<1>7. CASE stopMonitor
  <2>1. monitor \in Sessions
    BY <1>7 DEF stopMonitor, TypeOK
  <2> QED
    BY <1>7, <2>1 DEF stopMonitor, TypeOK, SessionInv, SessionOf
<1>8. ASSUME NEW s \in Sessions, HandleNetwork(s) PROVE Becomes(netq'[t], m, g, tracked'[t][m][g], Truth(m, g)')
  <2>1. running[t] /\ UNCHANGED <<net, link>>
        /\ (t # s => netq'[t] = netq[t] /\ tracked'[t] = tracked[t])
    BY <1>8, NetworkEffect DEF HandleNetwork
  <2>2. CASE t # s
    BY <1>00, <2>1, <2>2
  <2>3. CASE t = s
    <3> DEFINE q == netq[s]
               e == Head(q)
    <3>1. q # <<>> /\ netq'[s] = Tail(q) /\ e.net \in Networks
      BY <1>8, NetworkEffect
    <3>2. q \in Seq(Event) /\ tracked[s][e.net] \in Partial
      BY <3>1 DEF TypeOK
    <3>3. Sound(e)
      <4>1. e \in Elements(q)
        BY <3>1, <3>2, TailElements
      <4> QED
        BY <4>1 DEF EventInv, EventOf
    <3>4. Becomes(q, m, g, tracked[s][m][g], Truth(m, g))
      BY <2>1, <2>3 DEF NetqInv
    <3>5. /\ Touches(e, m, g) => Becomes(Tail(q), m, g, e.state, Truth(m, g))
          /\ ~Touches(e, m, g) => Becomes(Tail(q), m, g, tracked[s][m][g], Truth(m, g))
      <4>1. q \in Seq(Event) /\ q # <<>>
        BY <3>1, <3>2, SMTT(20)
      <4> HIDE DEF q
      <4> QED
        BY <3>4, <4>1, BecomesTail DEF e
    <3>6. tracked'[s][m][g] = (IF Touches(e, m, g) THEN e.state ELSE tracked[s][m][g])
      <4>1. CASE m # e.net
        <5>1. tracked'[s][m] = tracked[s][m]
          BY <1>8, <4>1, NetworkEffect
        <5> QED
          BY <4>1, <5>1 DEF Touches
      <4>2. CASE m = e.net /\ e.kind = "available" /\ tracked'[s][e.net] = tracked[s][e.net]
        BY <4>2 DEF Touches, Half
      <4>3. CASE m = e.net /\ e.kind \in Half /\ tracked'[s][e.net] = [tracked[s][e.net] EXCEPT ![e.kind] = e.state]
        BY <3>2, <4>3 DEF Touches, Half, Partial
      <4>4. CASE m = e.net /\ e.kind = "lost" /\ tracked'[s][e.net] = NoLink
        BY <3>3, <4>4 DEF Touches, Sound, NoLink
      <4> QED
        BY <1>8, <4>1, <4>2, <4>3, <4>4, NetworkEffect
    <3>7. Truth(m, g)' = Truth(m, g)
      BY <2>1 DEF Truth
    <3> QED
      BY <2>3, <3>1, <3>5, <3>6, <3>7
  <2> QED
    BY <2>2, <2>3, SMTT(20)
<1>9. ASSUME NEW s \in Sessions, HandleDefault(s) PROVE Becomes(netq'[t], m, g, tracked'[t][m][g], Truth(m, g)')
  <2>1. running[t] /\ netq'[t] = netq[t] /\ tracked'[t] = tracked[t] /\ UNCHANGED <<net, link>>
    BY <1>9 DEF HandleDefault
  <2> QED
    BY <1>00, <2>1
<1>10. ASSUME NEW s \in Sessions, HandleReplay(s) PROVE Becomes(netq'[t], m, g, tracked'[t][m][g], Truth(m, g)')
  <2>1. running[t] /\ netq'[t] = netq[t] /\ tracked'[t] = tracked[t] /\ UNCHANGED <<net, link>>
    BY <1>10 DEF HandleReplay
  <2> QED
    BY <1>00, <2>1
<1>11. ASSUME NEW s \in Sessions, HandleCleanup(s) PROVE Becomes(netq'[t], m, g, tracked'[t][m][g], Truth(m, g)')
  <2>1. running[t] /\ t # s
    BY <1>11 DEF HandleCleanup, SessionInv, SessionOf
  <2>2. netq'[t] = netq[t] /\ tracked'[t] = tracked[t] /\ UNCHANGED <<net, link>>
    BY <1>11, <2>1 DEF HandleCleanup, TypeOK
  <2> QED
    BY <1>00, <2>1, <2>2
<1>12. ASSUME NEW s \in Sessions, Drop(s) PROVE Becomes(netq'[t], m, g, tracked'[t][m][g], Truth(m, g)')
  <2>1. running[t] /\ netq'[t] = netq[t] /\ tracked'[t] = tracked[t] /\ UNCHANGED <<net, link>>
    BY <1>12 DEF Drop
  <2> QED
    BY <1>00, <2>1
<1>13. ASSUME NEW s \in Sessions, Update(s) PROVE Becomes(netq'[t], m, g, tracked'[t][m][g], Truth(m, g)')
  <2>1. running[t] /\ netq'[t] = netq[t] /\ tracked'[t] = tracked[t] /\ UNCHANGED <<net, link>>
    BY <1>13 DEF Update
  <2> QED
    BY <1>00, <2>1
<1>14. ASSUME NEW s \in Sessions, Lost(s) PROVE Becomes(netq'[t], m, g, tracked'[t][m][g], Truth(m, g)')
  <2>1. running[t] /\ netq'[t] = netq[t] /\ tracked'[t] = tracked[t] /\ UNCHANGED <<net, link>>
    BY <1>14 DEF Lost
  <2> QED
    BY <1>00, <2>1
<1>15. ASSUME NEW s \in Sessions, SetDefault(s) PROVE Becomes(netq'[t], m, g, tracked'[t][m][g], Truth(m, g)')
  <2>1. running[t] /\ netq'[t] = netq[t] /\ tracked'[t] = tracked[t] /\ UNCHANGED <<net, link>>
    BY <1>15 DEF SetDefault
  <2> QED
    BY <1>00, <2>1
<1>16. ASSUME NEW s \in Sessions, Reset(s) PROVE Becomes(netq'[t], m, g, tracked'[t][m][g], Truth(m, g)')
  <2>1. running[t] /\ netq'[t] = netq[t] /\ tracked'[t] = tracked[t] /\ UNCHANGED <<net, link>>
    BY <1>16 DEF Reset
  <2> QED
    BY <1>00, <2>1
<1>17. ASSUME NEW s \in Sessions, Notify(s) PROVE Becomes(netq'[t], m, g, tracked'[t][m][g], Truth(m, g)')
  <2>1. running[t] /\ netq'[t] = netq[t] /\ tracked'[t] = tracked[t] /\ UNCHANGED <<net, link>>
    BY <1>17 DEF Notify
  <2> QED
    BY <1>00, <2>1
<1>18. CASE CoreCreate
  <2>1. running[t] /\ netq'[t] = netq[t] /\ tracked'[t] = tracked[t] /\ UNCHANGED <<net, link>>
    BY <1>18 DEF CoreCreate
  <2> QED
    BY <1>00, <2>1
<1>19. CASE Initialize
  <2>1. running[t] /\ netq'[t] = netq[t] /\ tracked'[t] = tracked[t] /\ UNCHANGED <<net, link>>
    BY <1>19 DEF Initialize
  <2> QED
    BY <1>00, <2>1
<1>20. CASE CoreStart
  <2>1. running[t] /\ netq'[t] = netq[t] /\ tracked'[t] = tracked[t] /\ UNCHANGED <<net, link>>
    BY <1>20 DEF CoreStart
  <2> QED
    BY <1>00, <2>1
<1>21. CASE CoreClose
  <2>1. running[t] /\ netq'[t] = netq[t] /\ tracked'[t] = tracked[t] /\ UNCHANGED <<net, link>>
    BY <1>21 DEF CoreClose
  <2> QED
    BY <1>00, <2>1
<1>22. CASE UNCHANGED vars
  <2>1. running[t] /\ netq'[t] = netq[t] /\ tracked'[t] = tracked[t] /\ UNCHANGED <<net, link>>
    BY <1>22 DEF vars
  <2> QED
    BY <1>00, <2>1
<1> QED
  BY <1>1, <1>2, <1>3, <1>4, <1>5, <1>6, <1>7, <1>8, <1>9, <1>10,
     <1>11, <1>12, <1>13, <1>14, <1>15, <1>16, <1>17, <1>18, <1>19, <1>20,
     <1>21, <1>22
  DEF Next, Thread, World

LEMMA AnnouncedNotLost ==
    ASSUME TypeOK, NEW n \in Networks
    PROVE  /\ Announce(n, link[n]) \in Seq(Event)
           /\ \A x \in Elements(Announce(n, link[n])) : x.kind # "lost"
<1>1. /\ Ev("available", n, None).kind # "lost"
      /\ Ev("caps", n, link[n]["caps"]).kind # "lost" /\ Ev("props", n, link[n]["props"]).kind # "lost"
  BY EvIs
<1> QED
  BY <1>1, Announced

\* Only a network that has gone is reported lost.
LEMMA LossKept == ASSUME TypeOK, LossInv, [Next]_vars PROVE LossInv'
<1> USE DEF worldVars, queueVars
<1> DEFINE Gone(q) == \A e \in Elements(q) : e.kind = "lost" => net'[e.net] = "gone"
<1>0. /\ \A t \in Sessions : \A e \in Elements(defq[t]) : e.kind = "lost" => net[e.net] = "gone" /\ e.net \in Networks
      /\ defq \in [Sessions -> Seq(Event)]
  <2>1. \A t \in Sessions : Elements(defq[t]) \subseteq Event
    BY ElementsTyped DEF TypeOK
  <2> QED
    BY <2>1 DEF LossInv, TypeOK, Event
<1>00. ASSUME UNCHANGED <<net, best>>, \A t \in Sessions : Elements(defq'[t]) \subseteq Elements(defq[t])
       PROVE  LossInv'
  BY <1>00 DEF LossInv
<1>1. ASSUME NEW n \in Networks, NetworkUp(n) PROVE LossInv'
  <2>1. UNCHANGED <<best, defq>> /\ \A m \in Networks : net[m] \in {"up", "gone"} => net'[m] = net[m]
    BY <1>1 DEF NetworkUp, TypeOK
  <2> QED
    BY <1>0, <2>1 DEF LossInv, TypeOK, Handles
<1>2. ASSUME NEW n \in Networks, BestChange(n) PROVE LossInv'
  <2> DEFINE e == Announce(n, link[n])
  <2>1. e \in Seq(Event) /\ \A x \in Elements(e) : x.kind # "lost"
    BY AnnouncedNotLost
  <2>2. net' = net /\ best' = n /\ net[n] = "up" /\ defq' = Told(defq, e)
    BY <1>2 DEF BestChange
  <2> HIDE DEF e
  <2> QED
    BY <1>0, <2>1, <2>2, ToldElements DEF LossInv
<1>3. ASSUME NEW n \in Networks, NetworkDown(n) PROVE LossInv'
  <2>1. net[n] = "up" /\ net'[n] = "gone" /\ \A m \in Networks : m # n => net'[m] = net[m]
    BY <1>3 DEF NetworkDown, TypeOK
  <2>2. \A t \in Sessions : Gone(defq[t])
    BY <1>0, <2>1
  <2> DEFINE l == <<Ev("lost", n, None)>>
  <2>3. l \in Seq(Event) /\ Gone(l) /\ <<>> \in Seq(Event) /\ Gone(<<>>)
    <3>1. Ev("lost", n, None) \in Event
      BY DEF Ev, Event
    <3> QED
      BY <2>1, <3>1, ElementsShort, EvIs
  <2>4. CASE best # n /\ best' = best /\ defq' = defq
    BY <2>1, <2>2, <2>4 DEF LossInv, TypeOK, Handles
  <2>5. CASE best' = NoNet /\ defq' = Told(defq, l)
    <3> HIDE DEF l
    <3>1. \A t \in Sessions : Gone(defq'[t])
      BY <1>0, <2>2, <2>3, <2>5, ToldElements
    <3> QED
      BY <2>5, <3>1 DEF LossInv
  <2>6. ASSUME NEW m \in Up \ {n}, best' = m, NEW late \in {<<>>, l}, defq' = Told(defq, Announce(m, link[m]) \o late)
        PROVE  LossInv'
    <3>1. m \in Networks /\ net'[m] = "up"
      BY <2>1, <2>6 DEF Up
    <3>2. late \in Seq(Event) /\ Gone(late)
      BY <2>3
    <3>3. Announce(m, link[m]) \in Seq(Event) /\ Gone(Announce(m, link[m]))
      BY <3>1, AnnouncedNotLost
    <3> DEFINE e == Announce(m, link[m]) \o late
    <3>4. e \in Seq(Event) /\ Gone(e)
      BY <3>2, <3>3, ElementsConcat
    <3> HIDE DEF e
    <3>5. \A t \in Sessions : Gone(Told(defq, e)[t])
      BY <1>0, <2>2, <3>4, ToldElements
    <3>6. \A t \in Sessions : Gone(defq'[t])
      BY <2>6, <3>5 DEF e
    <3> QED
      BY <2>6, <3>1, <3>6 DEF LossInv
  <2> QED
    BY <1>3, <2>4, <2>5, <2>6 DEF NetworkDown
<1>4. ASSUME NEW n \in Networks, NEW h \in Half, LinkChange(n, h) PROVE LossInv'
  <2> DEFINE e == <<Ev(h, n, 2)>>
  <2>1. e \in Seq(Event) /\ \A x \in Elements(e) : x.kind # "lost"
    <3>1. Ev(h, n, 2) \in Event
      BY DEF Ev, Event, States, Half
    <3> QED
      BY <3>1, ElementsShort, EvIs DEF Half
  <2>2. UNCHANGED <<net, best>> /\ (defq' = defq \/ defq' = Told(defq, e))
    BY <1>4 DEF LinkChange
  <2> HIDE DEF e
  <2> QED
    BY <1>0, <2>1, <2>2, ToldElements DEF LossInv
<1>5. ASSUME startMonitor, monitor # None PROVE LossInv'
  <2>1. UNCHANGED <<net, best, defq>>
    BY <1>5 DEF startMonitor
  <2> QED
    BY <1>00, <2>1
<1>6. ASSUME startMonitor, monitor = None PROVE LossInv'
  <2>1. sessions + 1 \in Sessions /\ UNCHANGED <<net, link, best>>
        /\ defq' = [defq EXCEPT ![sessions + 1] = IF best = NoNet THEN <<>> ELSE Announce(best, link[best])]
    BY <1>6, NextSession DEF startMonitor, NewMonitor
  <2>2. best # NoNet => \A x \in Elements(Announce(best, link[best])) : x.kind # "lost"
    BY AnnouncedNotLost DEF TypeOK, Handles
  <2>3. ASSUME NEW t \in Sessions PROVE Gone(defq'[t])
    <3>1. defq'[t] = defq[t] \/ defq'[t] = <<>> \/ (best # NoNet /\ defq'[t] = Announce(best, link[best]))
      BY <1>0, <2>1
    <3> QED
      BY <1>0, <2>1, <2>2, <3>1, ElementsShort
  <2> QED
    BY <2>1, <2>3 DEF LossInv
<1>7. CASE stopMonitor
  <2>1. \A t \in Sessions : defq'[t] = defq[t] \/ defq'[t] = <<>>
    BY <1>7, <1>0 DEF stopMonitor
  <2> QED
    BY <1>7, <1>00, <2>1, ElementsShort DEF stopMonitor
<1>8. ASSUME NEW s \in Sessions, HandleNetwork(s) PROVE LossInv'
  <2>1. UNCHANGED <<net, best, defq>>
    BY <1>8 DEF HandleNetwork
  <2> QED
    BY <1>00, <2>1
<1>9. ASSUME NEW s \in Sessions, HandleDefault(s) PROVE LossInv'
  <2>1. \A t \in Sessions : defq'[t] = defq[t] \/ (defq[t] # <<>> /\ defq'[t] = Tail(defq[t]))
    BY <1>9, DefaultEffect
  <2>2. \A t \in Sessions : Elements(defq'[t]) \subseteq Elements(defq[t])
    BY <1>0, <2>1, TailElements
  <2> QED
    BY <1>9, <1>00, <2>2 DEF HandleDefault
<1>10. ASSUME NEW s \in Sessions, HandleReplay(s) PROVE LossInv'
  <2>1. UNCHANGED <<net, best, defq>>
    BY <1>10 DEF HandleReplay
  <2> QED
    BY <1>00, <2>1
<1>11. ASSUME NEW s \in Sessions, HandleCleanup(s) PROVE LossInv'
  <2>1. UNCHANGED <<net, best, defq>>
    BY <1>11 DEF HandleCleanup
  <2> QED
    BY <1>00, <2>1
<1>12. ASSUME NEW s \in Sessions, Drop(s) PROVE LossInv'
  <2>1. UNCHANGED <<net, best, defq>>
    BY <1>12 DEF Drop
  <2> QED
    BY <1>00, <2>1
<1>13. ASSUME NEW s \in Sessions, Update(s) PROVE LossInv'
  <2>1. UNCHANGED <<net, best, defq>>
    BY <1>13 DEF Update
  <2> QED
    BY <1>00, <2>1
<1>14. ASSUME NEW s \in Sessions, Lost(s) PROVE LossInv'
  <2>1. UNCHANGED <<net, best, defq>>
    BY <1>14 DEF Lost
  <2> QED
    BY <1>00, <2>1
<1>15. ASSUME NEW s \in Sessions, SetDefault(s) PROVE LossInv'
  <2>1. UNCHANGED <<net, best, defq>>
    BY <1>15 DEF SetDefault
  <2> QED
    BY <1>00, <2>1
<1>16. ASSUME NEW s \in Sessions, Reset(s) PROVE LossInv'
  <2>1. UNCHANGED <<net, best, defq>>
    BY <1>16 DEF Reset
  <2> QED
    BY <1>00, <2>1
<1>17. ASSUME NEW s \in Sessions, Notify(s) PROVE LossInv'
  <2>1. UNCHANGED <<net, best, defq>>
    BY <1>17 DEF Notify
  <2> QED
    BY <1>00, <2>1
<1>18. CASE CoreCreate \/ Initialize \/ CoreStart \/ CoreClose
  <2>1. UNCHANGED <<net, best, defq>>
    BY <1>18, CoreFrame
  <2> QED
    BY <1>00, <2>1
<1>19. CASE UNCHANGED vars
  <2>1. UNCHANGED <<net, best, defq>>
    BY <1>19 DEF vars
  <2> QED
    BY <1>00, <2>1
<1> QED
  BY <1>1, <1>2, <1>3, <1>4, <1>5, <1>6, <1>7, <1>8, <1>9, <1>10,
     <1>11, <1>12, <1>13, <1>14, <1>15, <1>16, <1>17, <1>18, <1>19
  DEF Next, Thread, World

-----------------------------------------------------------------------------
(* The default callback's queue chooses the best network.                  *)

\* Events that announce nothing leave the choice alone.
LEMMA ChoiceAppended ==
    ASSUME NEW p \in Seq(Event), NEW q \in Seq(Event), NEW d, NEW m, NEW k \in 0 .. Len(p),
           SetAt(p, d, m, k), \A x \in Elements(q) : x.kind # "available"
    PROVE  /\ k \in 0 .. Len(p \o q) /\ SetAt(p \o q, d, m, k)
           /\ LossAfter(p, m, k) => LossAfter(p \o q, m, k)
           /\ (\E x \in Elements(q) : x.kind = "lost" /\ x.net = m) => LossAfter(p \o q, m, k)
<1> DEFINE r == p \o q
<1>1. /\ r \in Seq(Event) /\ Len(p) \in Nat /\ Len(q) \in Nat /\ Len(r) = Len(p) + Len(q)
      /\ \A i \in 1 .. Len(p) : i \in 1 .. Len(r) /\ r[i] = p[i]
      /\ \A i \in 1 .. Len(q) : Len(p) + i \in 1 .. Len(r) /\ r[Len(p) + i] = q[i]
      /\ \A i \in 1 .. Len(r) : i \in 1 .. Len(p) \/ \E j \in 1 .. Len(q) : i = Len(p) + j
  BY Places
<1>2. \A i \in 1 .. Len(q) : q[i].kind # "available"
  BY DEF Elements
<1> HIDE DEF r
<1>3. ASSUME NEW i \in 1 .. Len(r), i > k PROVE r[i].kind # "available"
  <2>1. CASE i \in 1 .. Len(p)
    BY <1>1, <1>3, <2>1 DEF SetAt
  <2>2. ASSUME NEW j \in 1 .. Len(q), i = Len(p) + j PROVE r[i].kind # "available"
    BY <1>1, <1>2, <2>2
  <2> QED
    BY <1>1, <2>1, <2>2
<1>4. IF k = 0 THEN d = m ELSE r[k].kind = "available" /\ r[k].net = m
  <2>1. k # 0 => k \in 1 .. Len(p)
    BY <1>1
  <2> QED
    BY <1>1, <2>1 DEF SetAt
<1>5. k \in 0 .. Len(r)
  BY <1>1
<1>6. LossAfter(p, m, k) => LossAfter(r, m, k)
  BY <1>1 DEF LossAfter
<1>7. ASSUME NEW x \in Elements(q), x.kind = "lost", x.net = m PROVE LossAfter(r, m, k)
  <2>1. PICK i \in 1 .. Len(q) : q[i] = x
    BY DEF Elements
  <2>2. Len(p) + i \in 1 .. Len(r) /\ r[Len(p) + i] = x /\ Len(p) + i > k
    BY <1>1, <2>1
  <2> QED
    BY <1>7, <2>2 DEF LossAfter
<1>8. SetAt(r, d, m, k)
  BY <1>3, <1>4 DEF SetAt
<1> QED
  BY <1>5, <1>6, <1>7, <1>8 DEF r

\* The last announcement decides.
LEMMA ChoiceAnnounced ==
    ASSUME NEW p \in Seq(Event), NEW q \in Seq(Event), NEW d, NEW m, Len(q) # 0,
           q[1].kind = "available", q[1].net = m,
           \A i \in 1 .. Len(q) : i > 1 => q[i].kind # "available"
    PROVE  Len(p) + 1 \in 0 .. Len(p \o q) /\ SetAt(p \o q, d, m, Len(p) + 1)
<1> DEFINE r == p \o q
<1>1. /\ r \in Seq(Event) /\ Len(p) \in Nat /\ Len(q) \in Nat /\ Len(r) = Len(p) + Len(q)
      /\ \A i \in 1 .. Len(q) : Len(p) + i \in 1 .. Len(r) /\ r[Len(p) + i] = q[i]
      /\ \A i \in 1 .. Len(r) : i \in 1 .. Len(p) \/ \E j \in 1 .. Len(q) : i = Len(p) + j
  BY Places
<1> HIDE DEF r
<1>2. ASSUME NEW i \in 1 .. Len(r), i > Len(p) + 1 PROVE r[i].kind # "available"
  <2>1. i \notin 1 .. Len(p)
    BY <1>1, <1>2
  <2>2. PICK j \in 1 .. Len(q) : i = Len(p) + j
    BY <1>1, <2>1
  <2>3. j > 1 /\ r[i] = q[j]
    BY <1>1, <1>2, <2>2
  <2> QED
    BY <2>2, <2>3
<1>3. 1 \in 1 .. Len(q) /\ Len(p) + 1 # 0 /\ Len(p) + 1 \in 0 .. Len(r)
  BY <1>1
<1>4. r[Len(p) + 1].kind = "available" /\ r[Len(p) + 1].net = m
  BY <1>1, <1>3
<1>5. SetAt(r, d, m, Len(p) + 1)
  BY <1>2, <1>3, <1>4 DEF SetAt
<1> QED
  BY <1>3, <1>5 DEF r

\* The event that is handled does to the default what the rest of the queue counts on.
LEMMA ChoiceTail ==
    ASSUME NEW q \in Seq(Event), q # <<>>, NEW d, NEW dd, NEW b, Chooses(q, d, b),
           Head(q).kind = "available" => dd = Head(q).net,
           Head(q).kind \in Half => dd = d,
           Head(q).kind = "lost" => dd = (IF Head(q).net = d THEN NoNet ELSE d),
           Head(q).kind = "lost" => Head(q).net # b
    PROVE  Chooses(Tail(q), dd, b)
<1> DEFINE p == Tail(q)
           e == Head(q)
<1>1. /\ Head(q) \in Event /\ p \in Seq(Event) /\ Head(q) = q[1]
      /\ Len(q) \in Nat \ {0} /\ Len(p) = Len(q) - 1
      /\ \A i \in 1 .. Len(p) : i + 1 \in 1 .. Len(q) /\ p[i] = q[i + 1]
  BY ElementsTail
<1>2. PICK k \in 0 .. Len(q), m \in Handles :
        SetAt(q, d, m, k) /\ IF b # NoNet THEN m = b ELSE m = NoNet \/ LossAfter(q, m, k)
  BY DEF Chooses
<1>3. e.kind \in {"available", "lost"} \cup Half
  BY <1>1 DEF Event, Half
<1>4. NoNet \in Handles
  BY DEF Handles
<1> HIDE DEF p, e
<1>5. 1 \in 1 .. Len(q) /\ Len(p) \in Nat /\ 0 \in 0 .. Len(p)
  BY <1>1
<1>6. \A i \in 1 .. Len(p) : i + 1 > k => p[i].kind # "available"
  BY <1>1, <1>2 DEF SetAt
<1>7. k # 0 => \A i \in 1 .. Len(q) : i > k => i - 1 \in 1 .. Len(p) /\ p[i - 1] = q[i] /\ i - 1 > k - 1
  <2>1. ASSUME k # 0, NEW i \in 1 .. Len(q), i > k PROVE i - 1 \in 1 .. Len(p) /\ (i - 1) + 1 = i
    BY <1>1, <2>1
  <2> QED
    BY <1>1, <2>1
<1>8. CASE k > 1
  <2>1. k - 1 \in 1 .. Len(p) /\ k - 1 \in 0 .. Len(p) /\ k - 1 # 0 /\ p[k - 1] = q[k]
    <3>1. k - 1 \in 1 .. Len(p) /\ (k - 1) + 1 = k
      BY <1>1, <1>8
    <3> QED
      BY <1>1, <3>1
  <2>2. \A i \in 1 .. Len(p) : i > k - 1 => p[i].kind # "available"
    BY <1>6
  <2>3. SetAt(p, dd, m, k - 1)
    BY <1>2, <1>8, <2>1, <2>2 DEF SetAt
  <2>4. LossAfter(q, m, k) => LossAfter(p, m, k - 1)
    <3>1. SUFFICES ASSUME LossAfter(q, m, k) PROVE LossAfter(p, m, k - 1)
      OBVIOUS
    <3>2. PICK i \in 1 .. Len(q) : i > k /\ q[i].kind = "lost" /\ q[i].net = m
      BY <3>1 DEF LossAfter
    <3>3. i - 1 \in 1 .. Len(p) /\ p[i - 1] = q[i] /\ i - 1 > k - 1
      BY <1>7, <1>8, <3>2
    <3> QED
      BY <3>2, <3>3 DEF LossAfter
  <2> QED
    BY <1>2, <2>1, <2>3, <2>4 DEF Chooses, p
<1>9. CASE k = 1
  <2>1. e.kind = "available" /\ e.net = m
    BY <1>1, <1>2, <1>9 DEF SetAt, e
  <2>2. dd = m
    BY <2>1 DEF e
  <2>3. SetAt(p, dd, m, 0)
    BY <1>6, <1>9, <2>2 DEF SetAt
  <2>4. LossAfter(q, m, k) => LossAfter(p, m, 0)
    BY <1>7, <1>9 DEF LossAfter
  <2> QED
    BY <1>2, <1>5, <2>3, <2>4 DEF Chooses, p
<1>10. CASE k = 0
  <2>1. d = m /\ e.kind # "available"
    BY <1>1, <1>2, <1>5, <1>10 DEF SetAt, e
  <2>2. \A i \in 1 .. Len(p) : i > 0 => p[i].kind # "available"
    BY <1>6, <1>10
  <2>3. CASE e.kind = "lost" /\ e.net = d
    <3>1. dd = NoNet /\ b = NoNet
      BY <1>2, <2>1, <2>3 DEF e
    <3>2. SetAt(p, dd, NoNet, 0)
      BY <2>2, <3>1 DEF SetAt
    <3> QED
      BY <1>4, <1>5, <3>1, <3>2 DEF Chooses, p
  <2>4. CASE ~(e.kind = "lost" /\ e.net = d)
    <3>1. dd = d
      BY <1>3, <2>1, <2>4 DEF e
    <3>2. SetAt(p, dd, m, 0)
      BY <2>1, <2>2, <3>1 DEF SetAt
    <3>3. ASSUME LossAfter(q, m, k) PROVE LossAfter(p, m, 0)
      <4>1. PICK i \in 1 .. Len(q) : i > k /\ q[i].kind = "lost" /\ q[i].net = m
        BY <3>3 DEF LossAfter
      <4>2. i # 1
        BY <1>1, <2>1, <2>4, <4>1 DEF e
      <4>3. i - 1 \in 1 .. Len(p) /\ (i - 1) + 1 = i /\ i - 1 > 0
        BY <1>1, <4>2
      <4>4. p[i - 1] = q[i]
        BY <1>1, <4>3
      <4> QED
        BY <4>1, <4>3, <4>4 DEF LossAfter
    <3> QED
      BY <1>2, <1>5, <3>2, <3>3 DEF Chooses, p
  <2> QED
    BY <2>3, <2>4
<1> QED
  <2>1. k = 0 \/ k = 1 \/ k > 1
    BY <1>1
  <2> QED
    BY <1>8, <1>9, <1>10, <2>1

LEMMA AnnouncedFirst ==
    ASSUME TypeOK, NEW n \in Networks
    PROVE  /\ Announce(n, link[n]) \in Seq(Event) /\ Len(Announce(n, link[n])) = 3
           /\ Announce(n, link[n])[1].kind = "available" /\ Announce(n, link[n])[1].net = n
           /\ \A i \in 1 .. 3 : i > 1 => Announce(n, link[n])[i].kind # "available"
<1>1. \A i \in 1 .. 3 : i > 1 => i = 2 \/ i = 3
  OBVIOUS
<1> QED
  BY <1>1, Announced, EvIs

\* What the default callback has still to handle brings the monitor to the best network.
LEMMA DefqKept == ASSUME TypeOK, SessionInv, LossInv, DefqInv, [Next]_vars PROVE DefqInv'
<1> SUFFICES ASSUME NEW t \in Sessions, running'[t] PROVE Chooses(defq'[t], dnet'[t], best')
  BY DEF DefqInv
<1> USE DEF worldVars, queueVars, trackVars
<1>0. /\ defq \in [Sessions -> Seq(Event)] /\ defq[t] \in Seq(Event) /\ Len(defq[t]) \in Nat
      /\ running \in [Sessions -> BOOLEAN]
      /\ running[t] => Chooses(defq[t], dnet[t], best)
      /\ dnet \in [Sessions -> Handles] /\ best \in Handles /\ NoNet \notin Networks
  BY NetworksAssumption DEF TypeOK, DefqInv
<1>00. ASSUME running[t], defq'[t] = defq[t], dnet'[t] = dnet[t], best' = best
       PROVE  Chooses(defq'[t], dnet'[t], best')
  BY <1>0, <1>00
<1>1. ASSUME NEW n \in Networks, NetworkUp(n) PROVE Chooses(defq'[t], dnet'[t], best')
  <2>1. running[t] /\ defq'[t] = defq[t] /\ dnet'[t] = dnet[t] /\ best' = best
    BY <1>0, <1>1 DEF NetworkUp
  <2> QED
    BY <1>00, <2>1
<1>2. ASSUME NEW n \in Networks, BestChange(n) PROVE Chooses(defq'[t], dnet'[t], best')
  <2> DEFINE e == Announce(n, link[n])
  <2>1. /\ e \in Seq(Event) /\ Len(e) # 0 /\ e[1].kind = "available" /\ e[1].net = n
        /\ \A i \in 1 .. Len(e) : i > 1 => e[i].kind # "available"
    BY AnnouncedFirst
  <2>2. UNCHANGED <<running, dnet>> /\ best' = n /\ defq' = Told(defq, e)
    BY <1>2 DEF BestChange
  <2> HIDE DEF e
  <2>3. defq'[t] = defq[t] \o e
    <3>1. running[t]
      BY <2>2
    <3>2. defq \in [Sessions -> Seq(Event)] /\ e \in Seq(Event)
      BY <1>0, <2>1
    <3>3. Told(defq, e)[t] = defq[t] \o e
      BY <3>1, <3>2, ToldQueue
    <3> QED
      BY <2>2, <3>3
  <2>4. Len(defq[t]) + 1 \in 0 .. Len(defq'[t]) /\ SetAt(defq'[t], dnet[t], n, Len(defq[t]) + 1)
    <3> DEFINE p == defq[t]
    <3>1. p \in Seq(Event)
      BY <1>0
    <3> HIDE DEF p
    <3>2. Len(p) + 1 \in 0 .. Len(p \o e) /\ SetAt(p \o e, dnet[t], n, Len(p) + 1)
      BY <2>1, <3>1, ChoiceAnnounced
    <3> QED
      BY <2>3, <3>2 DEF p
  <2>5. n \in Handles /\ n # NoNet
    BY <1>0 DEF Handles
  <2>6. Chooses(defq'[t], dnet[t], n)
    BY <2>4, <2>5 DEF Chooses
  <2> QED
    BY <2>2, <2>6
<1>3. ASSUME NEW n \in Networks, NetworkDown(n) PROVE Chooses(defq'[t], dnet'[t], best')
  <2> DEFINE l == <<Ev("lost", n, None)>>
  <2>1. /\ l \in Seq(Event) /\ \A x \in Elements(l) : x.kind # "available"
        /\ \E x \in Elements(l) : x.kind = "lost" /\ x.net = n
        /\ Len(l) \in Nat /\ \A i \in 1 .. Len(l) : l[i].kind # "available"
    <3>1. Ev("lost", n, None) \in Event
      BY DEF Ev, Event
    <3>2. l \in Seq(Event) /\ Elements(l) = {Ev("lost", n, None)} /\ Len(l) = 1 /\ l[1] = Ev("lost", n, None)
      BY <3>1, ElementsShort
    <3> QED
      BY <3>2, EvIs
  <2>2. UNCHANGED <<running, dnet>> /\ running[t]
    BY <1>3 DEF NetworkDown
  <2>3. CASE best # n
    BY <1>3, <1>00, <2>2, <2>3 DEF NetworkDown
  <2> HIDE DEF l
  <2>4. CASE best = n /\ best' = NoNet /\ defq' = Told(defq, l)
    <3>1. defq'[t] = defq[t] \o l
      BY <1>0, <2>1, <2>2, <2>4, ToldQueue
    <3>2. n # NoNet
      BY <1>0
    <3>3. PICK k \in 0 .. Len(defq[t]) : SetAt(defq[t], dnet[t], n, k)
      BY <1>0, <2>2, <2>4, <3>2 DEF Chooses
    <3>4. k \in 0 .. Len(defq'[t]) /\ SetAt(defq'[t], dnet[t], n, k) /\ LossAfter(defq'[t], n, k)
      BY <1>0, <2>1, <3>1, <3>3, ChoiceAppended
    <3>5. n \in Handles
      BY DEF Handles
    <3>6. Chooses(defq'[t], dnet[t], NoNet)
      BY <3>4, <3>5 DEF Chooses
    <3> QED
      BY <2>2, <2>4, <3>6
  <2>5. ASSUME NEW m \in Up \ {n}, best' = m, NEW late \in {<<>>, l}, defq' = Told(defq, Announce(m, link[m]) \o late)
        PROVE  Chooses(defq'[t], dnet'[t], best')
    <3>1. m \in Networks
      BY <2>5 DEF Up
    <3>2. late \in Seq(Event) /\ Len(late) \in Nat /\ \A i \in 1 .. Len(late) : late[i].kind # "available"
      <4>1. CASE late = <<>>
        BY <4>1
      <4>2. CASE late = l
        BY <2>1, <4>2
      <4> QED
        BY <4>1, <4>2
    <3> DEFINE a == Announce(m, link[m])
               e == a \o late
    <3>3. /\ a \in Seq(Event) /\ Len(a) = 3 /\ a[1].kind = "available" /\ a[1].net = m
          /\ \A i \in 1 .. 3 : i > 1 => a[i].kind # "available"
      BY <3>1, AnnouncedFirst
    <3> HIDE DEF a
    <3>4. /\ e \in Seq(Event) /\ Len(e) = 3 + Len(late)
          /\ \A i \in 1 .. 3 : e[i] = a[i]
          /\ \A i \in 1 .. Len(late) : e[3 + i] = late[i]
          /\ \A i \in 1 .. Len(e) : i \in 1 .. 3 \/ \E j \in 1 .. Len(late) : i = 3 + j
      <4>1. /\ e \in Seq(Event) /\ Len(e) = Len(a) + Len(late)
            /\ \A i \in 1 .. Len(a) : i \in 1 .. Len(e) /\ e[i] = a[i]
            /\ \A i \in 1 .. Len(late) : Len(a) + i \in 1 .. Len(e) /\ e[Len(a) + i] = late[i]
            /\ \A i \in 1 .. Len(e) : i \in 1 .. Len(a) \/ \E j \in 1 .. Len(late) : i = Len(a) + j
        <5>1. a \in Seq(Event) /\ late \in Seq(Event)
          BY <3>2, <3>3
        <5> QED
          BY <5>1, Places
      <4> HIDE DEF e
      <4> QED
        BY <3>3, <4>1
    <3>5. defq' = Told(defq, e)
      BY <2>5 DEF a
    <3> HIDE DEF e
    <3>6. Len(e) # 0 /\ e[1].kind = "available" /\ e[1].net = m
      BY <3>2, <3>3, <3>4
    <3>7. ASSUME NEW i \in 1 .. Len(e), i > 1 PROVE e[i].kind # "available"
      <4>1. CASE i \in 1 .. 3
        BY <3>3, <3>4, <3>7, <4>1
      <4>2. ASSUME NEW j \in 1 .. Len(late), i = 3 + j PROVE e[i].kind # "available"
        BY <3>2, <3>4, <4>2
      <4> QED
        BY <3>4, <4>1, <4>2
    <3>8. defq'[t] = defq[t] \o e
      BY <1>0, <2>2, <3>4, <3>5, ToldQueue
    <3>9. Len(defq[t]) + 1 \in 0 .. Len(defq'[t]) /\ SetAt(defq'[t], dnet[t], m, Len(defq[t]) + 1)
      <4>1. e \in Seq(Event) /\ defq[t] \in Seq(Event)
        BY <1>0, <3>4
      <4> QED
        BY <3>6, <3>7, <3>8, <4>1, ChoiceAnnounced
    <3>10. m \in Handles /\ m # NoNet
      BY <1>0, <3>1 DEF Handles
    <3>11. Chooses(defq'[t], dnet[t], m)
      BY <3>9, <3>10 DEF Chooses
    <3> QED
      BY <2>2, <2>5, <3>11
  <2> QED
    BY <1>3, <2>3, <2>4, <2>5 DEF NetworkDown, l
<1>4. ASSUME NEW n \in Networks, NEW h \in Half, LinkChange(n, h) PROVE Chooses(defq'[t], dnet'[t], best')
  <2> DEFINE e == <<Ev(h, n, 2)>>
  <2>1. e \in Seq(Event) /\ \A x \in Elements(e) : x.kind # "available"
    <3>1. Ev(h, n, 2) \in Event
      BY DEF Ev, Event, States, Half
    <3> QED
      BY <3>1, ElementsShort, EvIs DEF Half
  <2>2. UNCHANGED <<running, dnet, best>> /\ (defq' = defq \/ defq' = Told(defq, e))
    BY <1>4 DEF LinkChange
  <2> HIDE DEF e
  <2>3. CASE defq' = defq
    BY <1>00, <2>2, <2>3
  <2>4. CASE defq' = Told(defq, e)
    <3>1. defq'[t] = defq[t] \o e
      BY <1>0, <2>1, <2>2, <2>4, ToldQueue
    <3>2. PICK k \in 0 .. Len(defq[t]), m \in Handles :
            SetAt(defq[t], dnet[t], m, k)
            /\ IF best # NoNet THEN m = best ELSE m = NoNet \/ LossAfter(defq[t], m, k)
      BY <1>0, <2>2 DEF Chooses
    <3>3. /\ k \in 0 .. Len(defq'[t]) /\ SetAt(defq'[t], dnet[t], m, k)
          /\ LossAfter(defq[t], m, k) => LossAfter(defq'[t], m, k)
      BY <1>0, <2>1, <3>1, <3>2, ChoiceAppended
    <3>4. Chooses(defq'[t], dnet[t], best)
      BY <3>2, <3>3 DEF Chooses
    <3> QED
      BY <2>2, <3>4
  <2> QED
    BY <2>2, <2>3, <2>4
<1>5. ASSUME startMonitor, monitor # None PROVE Chooses(defq'[t], dnet'[t], best')
  <2>1. running[t] /\ defq'[t] = defq[t] /\ dnet'[t] = dnet[t] /\ best' = best
    BY <1>0, <1>5 DEF startMonitor
  <2> QED
    BY <1>00, <2>1
<1>6. ASSUME startMonitor, monitor = None PROVE Chooses(defq'[t], dnet'[t], best')
  <2> DEFINE u == sessions + 1
  <2>1. /\ u \in Sessions /\ UNCHANGED <<dnet, best, link>>
        /\ defq' = [defq EXCEPT ![u] = IF best = NoNet THEN <<>> ELSE Announce(best, link[best])]
        /\ running' = [running EXCEPT ![u] = TRUE]
    BY <1>6, NextSession DEF startMonitor, NewMonitor
  <2>2. \A r \in Sessions : ~running[r]
    BY <1>6, Bounds DEF SessionInv, SessionOf, None
  <2>3. t = u /\ dnet[t] = NoNet
    <3>1. t = u
      BY <1>0, <2>1, <2>2
    <3>2. t > sessions
      BY <1>6, <2>1, <3>1, NextSession DEF startMonitor, NewMonitor
    <3> QED
      BY <3>1, <3>2 DEF SessionInv, SessionOf
  <2> HIDE DEF u
  <2>4. defq'[t] = IF best = NoNet THEN <<>> ELSE Announce(best, link[best])
    BY <1>0, <2>1, <2>3
  <2>5. CASE best = NoNet
    <3>1. SetAt(<<>>, NoNet, NoNet, 0) /\ 0 \in 0 .. Len(<<>>) /\ NoNet \in Handles
      BY DEF SetAt, Handles
    <3>2. Chooses(<<>>, NoNet, NoNet)
      BY <3>1 DEF Chooses
    <3> QED
      BY <2>1, <2>3, <2>4, <2>5, <3>2
  <2>6. CASE best # NoNet
    <3> DEFINE a == Announce(best, link[best])
    <3>1. best \in Networks
      BY <1>0, <2>6 DEF Handles
    <3>2. /\ Len(a) = 3 /\ a[1].kind = "available" /\ a[1].net = best
          /\ \A i \in 1 .. 3 : i > 1 => a[i].kind # "available"
      BY <3>1, AnnouncedFirst
    <3> HIDE DEF a
    <3>3. 1 \in 0 .. Len(a) /\ SetAt(a, NoNet, best, 1)
      BY <3>2 DEF SetAt
    <3>4. Chooses(a, NoNet, best)
      BY <1>0, <2>6, <3>3 DEF Chooses
    <3>5. defq'[t] = a
      BY <2>4, <2>6 DEF a
    <3> QED
      BY <2>1, <2>3, <3>4, <3>5
  <2> QED
    BY <2>5, <2>6
<1>7. CASE stopMonitor
  <2>1. monitor \in Sessions /\ running' = [running EXCEPT ![monitor] = FALSE]
    BY <1>7 DEF stopMonitor, TypeOK
  <2>2. \A r \in Sessions : running[r] => r = monitor
    BY DEF SessionInv, SessionOf
  <2> QED
    BY <1>0, <2>1, <2>2
<1>8. ASSUME NEW s \in Sessions, HandleNetwork(s) PROVE Chooses(defq'[t], dnet'[t], best')
  <2>1. running[t] /\ defq'[t] = defq[t] /\ dnet'[t] = dnet[t] /\ best' = best
    BY <1>0, <1>8 DEF HandleNetwork
  <2> QED
    BY <1>00, <2>1
<1>9. ASSUME NEW s \in Sessions, HandleDefault(s) PROVE Chooses(defq'[t], dnet'[t], best')
  <2>1. UNCHANGED <<running, net, best>>
    BY <1>9 DEF HandleDefault
  <2>2. CASE t # s
    <3>1. defq'[t] = defq[t] /\ dnet'[t] = dnet[t]
      BY <1>9, <2>2, DefaultEffect
    <3> QED
      BY <1>00, <2>1, <3>1
  <2>3. CASE t = s
    <3>1. /\ defq[t] # <<>> /\ defq'[t] = Tail(defq[t]) /\ Head(defq[t]).net \in Networks
          /\ Head(defq[t]).kind = "available" => dnet'[t] = Head(defq[t]).net
          /\ Head(defq[t]).kind \in Half => dnet'[t] = dnet[t]
          /\ Head(defq[t]).kind = "lost" => dnet'[t] = IF Head(defq[t]).net = dnet[t] THEN NoNet ELSE dnet[t]
      BY <1>9, <2>3, DefaultEffect DEF Half
    <3>2. Head(defq[t]) \in Elements(defq[t])
      BY <1>0, <3>1, ElementsTail
    <3>3. Head(defq[t]).kind = "lost" => Head(defq[t]).net # best
      <4>1. Head(defq[t]).kind = "lost" => net[Head(defq[t]).net] = "gone"
        BY <3>2 DEF LossInv
      <4> QED
        BY <1>0, <3>1, <4>1 DEF LossInv
    <3>4. Chooses(Tail(defq[t]), dnet'[t], best)
      BY <1>0, <2>1, <3>1, <3>3, ChoiceTail
    <3> QED
      BY <2>1, <3>1, <3>4
  <2> QED
    BY <2>2, <2>3
<1>10. ASSUME NEW s \in Sessions, HandleReplay(s) PROVE Chooses(defq'[t], dnet'[t], best')
  <2>1. running[t] /\ defq'[t] = defq[t] /\ dnet'[t] = dnet[t] /\ best' = best
    BY <1>0, <1>10 DEF HandleReplay
  <2> QED
    BY <1>00, <2>1
<1>11. ASSUME NEW s \in Sessions, HandleCleanup(s) PROVE Chooses(defq'[t], dnet'[t], best')
  <2>1. UNCHANGED <<running, defq, best>> /\ cleanup[s] /\ dnet' = [dnet EXCEPT ![s] = NoNet]
    BY <1>11 DEF HandleCleanup
  <2>2. t # s
    BY <1>0, <2>1 DEF SessionInv, SessionOf
  <2>3. dnet'[t] = dnet[t]
    BY <1>0, <2>1, <2>2
  <2> QED
    BY <1>00, <2>1, <2>3
<1>12. ASSUME NEW s \in Sessions, Drop(s) PROVE Chooses(defq'[t], dnet'[t], best')
  <2>1. running[t] /\ defq'[t] = defq[t] /\ dnet'[t] = dnet[t] /\ best' = best
    BY <1>0, <1>12 DEF Drop
  <2> QED
    BY <1>00, <2>1
<1>13. ASSUME NEW s \in Sessions, Update(s) PROVE Chooses(defq'[t], dnet'[t], best')
  <2>1. running[t] /\ defq'[t] = defq[t] /\ dnet'[t] = dnet[t] /\ best' = best
    BY <1>0, <1>13 DEF Update
  <2> QED
    BY <1>00, <2>1
<1>14. ASSUME NEW s \in Sessions, Lost(s) PROVE Chooses(defq'[t], dnet'[t], best')
  <2>1. running[t] /\ defq'[t] = defq[t] /\ dnet'[t] = dnet[t] /\ best' = best
    BY <1>0, <1>14 DEF Lost
  <2> QED
    BY <1>00, <2>1
<1>15. ASSUME NEW s \in Sessions, SetDefault(s) PROVE Chooses(defq'[t], dnet'[t], best')
  <2>1. running[t] /\ defq'[t] = defq[t] /\ dnet'[t] = dnet[t] /\ best' = best
    BY <1>0, <1>15 DEF SetDefault
  <2> QED
    BY <1>00, <2>1
<1>16. ASSUME NEW s \in Sessions, Reset(s) PROVE Chooses(defq'[t], dnet'[t], best')
  <2>1. running[t] /\ defq'[t] = defq[t] /\ dnet'[t] = dnet[t] /\ best' = best
    BY <1>0, <1>16 DEF Reset
  <2> QED
    BY <1>00, <2>1
<1>17. ASSUME NEW s \in Sessions, Notify(s) PROVE Chooses(defq'[t], dnet'[t], best')
  <2>1. running[t] /\ defq'[t] = defq[t] /\ dnet'[t] = dnet[t] /\ best' = best
    BY <1>0, <1>17 DEF Notify
  <2> QED
    BY <1>00, <2>1
<1>18. CASE CoreCreate \/ Initialize \/ CoreStart \/ CoreClose
  <2>1. running[t] /\ defq'[t] = defq[t] /\ dnet'[t] = dnet[t] /\ best' = best
    BY <1>0, <1>18, CoreFrame
  <2> QED
    BY <1>00, <2>1
<1>19. CASE UNCHANGED vars
  <2>1. running[t] /\ defq'[t] = defq[t] /\ dnet'[t] = dnet[t] /\ best' = best
    BY <1>0, <1>19 DEF vars
  <2> QED
    BY <1>00, <2>1
<1> QED
  BY <1>1, <1>2, <1>3, <1>4, <1>5, <1>6, <1>7, <1>8, <1>9, <1>10,
     <1>11, <1>12, <1>13, <1>14, <1>15, <1>16, <1>17, <1>18, <1>19
  DEF Next, Thread, World

-----------------------------------------------------------------------------
(* Theorems with one thread.                                               *)

\* If no monitor is started before the thread of the last one has wound down, the registry
\* holds what the running monitor has sent, the monitor will know what the world is, and
\* the core is told whatever it does not know yet.
THEOREM Registry == Spec /\ []OneThread => []RegistryInv
<1>1. Init => RegistryInv
  <2> SUFFICES ASSUME Init PROVE RegistryInv
    OBVIOUS
  <2>1. \A s \in Sessions : ~running[s] /\ out[s] = <<>> /\ defq[s] = <<>>
    BY DEF Init
  <2>2. KnownInv /\ SentInv /\ NetqInv /\ DefqInv
    BY <2>1 DEF KnownInv, SentInv, NetqInv, DefqInv
  <2>3. LossInv
    BY <2>1, ElementsShort DEF Init, LossInv
  <2>4. IfaceInv /\ DefaultInv
    BY <2>1 DEF Init, IfaceInv, DefaultInv
  <2> QED
    BY <2>2, <2>3, <2>4 DEF RegistryInv, QueueInv
<1>2. ThreadInv /\ ThreadInv' /\ OneThread /\ OneThread' /\ RegistryInv /\ [Next]_vars => RegistryInv'
  BY KnownKept, SentKept, LossKept, NetqKept, DefqKept, IfaceKept, DefaultKept
  DEF RegistryInv, QueueInv, ThreadInv
<1> QED
  BY <1>1, <1>2, Threads, PTL DEF Spec

\* Whatever is interleaved with the core's start, a settled core believes what the
\* registry holds: a report that passes it by while it starts is made up by the replay.
THEOREM CoreHolds == Spec /\ []OneThread => []CoreAgrees
<1>1. ThreadInv /\ RegistryInv => CoreAgrees
  <2> SUFFICES ASSUME ThreadInv, RegistryInv, Settled, core = "started"
               PROVE  coreIfaces = ifaces /\ coreDefault = defaultIface
    BY DEF CoreAgrees
  <2>1. ASSUME NEW s \in Sessions PROVE out[s] = <<>> /\ Calls(s) = {} /\ ~replay[s] /\ ~cleanup[s] /\ defq[s] = <<>>
    BY ElementsShort DEF Settled, Calls
  <2>2. coreIfaces = ifaces
    BY <2>1 DEF RegistryInv, IfaceInv, WillRefresh, Refreshes
  <2>3. ASSUME NEW s \in Sessions PROVE ~Awaits(s)
    <3>1. ~Coming(<<>>, dnet[s])
      BY DEF Coming
    <3> QED
      BY <2>1, <3>1 DEF ThreadInv, AwaitInv, AwaitOf, Awaits
  <2>4. coreDefault = defaultIface
    BY <2>1, <2>3 DEF RegistryInv, DefaultInv, WillTell, Tells
  <2> QED
    BY <2>2, <2>4
<1> QED
  BY <1>1, Threads, Registry, PTL

\* Once everything posted has been worked off the registry holds exactly the live networks
\* in their latest state and the best of them: deduplication, the two halves of a snapshot
\* and the two callback streams lose nothing.
THEOREM RegistryHolds == Spec /\ []OneThread => []RegistryAgrees
<1>1. ThreadInv /\ RegistryInv => RegistryAgrees
  <2> SUFFICES ASSUME ThreadInv, RegistryInv, Settled, monitor # None, ~missed
               PROVE  ifaces = Alive /\ defaultIface = best
    BY DEF RegistryAgrees
  <2> DEFINE s == monitor
  <2>0. s \in Sessions /\ running[s]
    BY DEF ThreadInv, TypeOK, SessionInv
  <2>1. netq[s] = <<>> /\ defq[s] = <<>> /\ Calls(s) = {}
    BY <2>0, ElementsShort DEF Settled, Calls
  <2>2. /\ TypeOK /\ TrackOf(s) /\ AwaitOf(s) /\ KnownOf(s) /\ SentOf(s)
        /\ Chooses(defq[s], dnet[s], best)
        /\ \A n \in Networks, h \in Half : Becomes(netq[s], n, h, tracked[s][n][h], Truth(n, h))
    BY <2>0 DEF ThreadInv, RegistryInv, QueueInv, TrackInv, AwaitInv, KnownInv, SentInv, NetqInv, DefqInv
  <2> HIDE DEF s
  <2>3. ASSUME NEW n \in Networks, NEW h \in Half PROVE tracked[s][n][h] = Truth(n, h)
    <3>1. Becomes(<<>>, n, h, tracked[s][n][h], Truth(n, h))
      BY <2>1, <2>2
    <3> QED
      BY <3>1, BecomesShort
  <2>4. ASSUME NEW n \in Networks PROVE ifaces[n] = Alive[n]
    <3>1. ifaces[n] = sent[s][n]
      BY <2>1, <2>2 DEF SentOf
    <3>2. /\ tracked[s][n] \in Partial /\ link[n] \in Link /\ NoLink \in Partial /\ Link \subseteq Partial
          /\ \A h \in Half : link[n][h] # None
      <4>1. tracked[s][n] \in Partial /\ link[n] \in Link
        BY <2>0, <2>2 DEF TypeOK
      <4>2. NoLink \in Partial /\ Link \subseteq Partial
        BY DEF Partial, Link, NoLink
      <4>3. \A h \in Half : link[n][h] \in States
        BY <4>1 DEF Link
      <4> QED
        BY <4>1, <4>2, <4>3 DEF States, None
    <3>3. CASE net[n] = "up"
      <4>1. tracked[s][n] = link[n]
        BY <2>3, <3>2, <3>3 DEF Truth, Partial
      <4>2. Complete(tracked[s][n])
        BY <3>2, <4>1 DEF Complete
      <4> QED
        BY <2>2, <3>1, <3>3, <4>1, <4>2 DEF TrackOf, Alive
    <3>4. CASE net[n] # "up"
      <4>1. tracked[s][n]["caps"] = None
        BY <2>3, <3>4 DEF Truth, Half
      <4>2. ~Complete(tracked[s][n])
        BY <4>1 DEF Complete, Half
      <4> QED
        BY <2>2, <3>1, <3>4, <4>2 DEF TrackOf, Alive
    <3> QED
      BY <3>3, <3>4
  <2>5. ifaces = Alive
    <3>1. ifaces \in [Networks -> Link \cup {NoLink}] /\ Alive = [n \in Networks |-> Alive[n]]
      BY <2>2 DEF TypeOK, Alive
    <3> QED
      BY <2>4, <3>1
  <2>6. PICK m \in Handles : dnet[s] = m /\ IF best # NoNet THEN m = best ELSE m = NoNet
    <3>1. PICK k \in 0 .. Len(<<>>), m \in Handles :
            SetAt(<<>>, dnet[s], m, k) /\ IF best # NoNet THEN m = best ELSE m = NoNet \/ LossAfter(<<>>, m, k)
      BY <2>1, <2>2 DEF Chooses
    <3>2. Len(<<>>) = 0 /\ k = 0 /\ ~LossAfter(<<>>, m, k)
      BY <3>1 DEF LossAfter
    <3> QED
      BY <3>1, <3>2 DEF SetAt
  <2>7. defaultIface = best
    <3>1. CASE best # NoNet
      <4>1. dseed[s]["props"] # None
        <5>1. ~Coming(<<>>, dnet[s])
          BY DEF Coming
        <5> QED
          BY <2>1, <2>2, <2>6, <3>1, <5>1 DEF AwaitOf
      <4>2. dsent[s] = <<dnet[s], dseed[s]["caps"]>>
        BY <2>2, <2>6, <3>1, <4>1 DEF TrackOf
      <4> QED
        BY <2>1, <2>2, <2>6, <3>1, <4>2 DEF SentOf
    <3>2. CASE best = NoNet
      BY <2>1, <2>2, <2>6, <3>2 DEF KnownOf
    <3> QED
      BY <3>1, <3>2
  <2> QED
    BY <2>5, <2>7
<1> QED
  BY <1>1, Threads, Registry, PTL

\* A process that starts its monitor once needs no such assumption.
THEOREM OneMonitor == ASSUME MaxSessions = 1 PROVE Spec => [](RegistryAgrees /\ CoreAgrees)
<1>1. OneThread
  <2>1. \A s \in Sessions : s = 1
    BY Bounds
  <2> QED
    BY <2>1 DEF OneThread
<1> QED
  BY <1>1, RegistryHolds, CoreHolds, PTL
=============================================================================

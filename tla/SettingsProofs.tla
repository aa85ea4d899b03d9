--------------------------- MODULE SettingsProofs ---------------------------
(***************************************************************************)
(* Proofs about Settings, for any number of overlapping changes, crashes   *)
(* and reboots.  Statements and answers form one queue, answers ahead of   *)
(* statements; the invariant only speaks of who is ahead of whom in it.    *)
(***************************************************************************)
EXTENDS Settings, TLAPS

-----------------------------------------------------------------------------
(* Queues in which nobody stands twice.                                    *)

On(q, x) == \E i \in 1 .. Len(q) : q[i] = x
Prec(q, x, y) == \E i, j \in 1 .. Len(q) : i < j /\ q[i] = x /\ q[j] = y
Distinct(q) == \A i, j \in 1 .. Len(q) : q[i] = q[j] => i = j

\* A newcomer stands behind everyone else.
LEMMA Joins ==
    ASSUME NEW S, NEW q \in Seq(S), NEW e \in S, ~On(q, e), Distinct(q)
    PROVE  /\ Append(q, e) \in Seq(S) /\ Distinct(Append(q, e))
           /\ \A x : On(Append(q, e), x) <=> On(q, x) \/ x = e
           /\ \A x, y : Prec(Append(q, e), x, y) <=> Prec(q, x, y) \/ (On(q, x) /\ y = e)
<1> DEFINE r == Append(q, e)
<1>1. r \in Seq(S) /\ Len(r) = Len(q) + 1 /\ Len(q) \in Nat
  OBVIOUS
<1>2. \A i \in 1 .. Len(q) : r[i] = q[i]
  OBVIOUS
<1>3. r[Len(q) + 1] = e
  OBVIOUS
<1>4. \A i \in 1 .. Len(q) : q[i] # e
  BY DEF On
<1> HIDE DEF r
<1>5. Distinct(r)
  BY <1>1, <1>2, <1>3, <1>4 DEF Distinct
<1>6. ASSUME NEW x PROVE On(r, x) <=> On(q, x) \/ x = e
  BY <1>1, <1>2, <1>3 DEF On
<1>7. ASSUME NEW x, NEW y PROVE Prec(r, x, y) <=> Prec(q, x, y) \/ (On(q, x) /\ y = e)
  <2>1. Prec(q, x, y) => Prec(r, x, y)
    BY <1>1, <1>2 DEF Prec
  <2>2. On(q, x) /\ y = e => Prec(r, x, y)
    BY <1>1, <1>2, <1>3 DEF Prec, On
  <2>3. Prec(r, x, y) => Prec(q, x, y) \/ (On(q, x) /\ y = e)
    BY <1>1, <1>2, <1>3 DEF Prec, On
  <2> QED
    BY <2>1, <2>2, <2>3
<1> QED
  BY <1>1, <1>5, <1>6, <1>7 DEF r

\* The first stands ahead of all others, and its leaving changes nothing else.
LEMMA Leaves ==
    ASSUME NEW S, NEW q \in Seq(S), q # <<>>, Distinct(q)
    PROVE  /\ Tail(q) \in Seq(S) /\ Distinct(Tail(q)) /\ On(q, Head(q)) /\ Head(q) \in S
           /\ \A x : On(Tail(q), x) <=> On(q, x) /\ x # Head(q)
           /\ \A x, y : Prec(Tail(q), x, y) <=> Prec(q, x, y) /\ x # Head(q)
           /\ \A y : On(q, y) /\ y # Head(q) => Prec(q, Head(q), y)
           /\ \A y : ~Prec(q, y, Head(q))
<1> DEFINE r == Tail(q)
           n == Len(q)
<1>1. r \in Seq(S) /\ n \in Nat \ {0} /\ Len(r) = n - 1
  OBVIOUS
<1>2. \A i \in 1 .. n - 1 : r[i] = q[i + 1]
  OBVIOUS
<1>3. Head(q) = q[1] /\ Head(q) \in S
  OBVIOUS
<1> HIDE DEF r
<1>4. \A i \in 2 .. n : i - 1 \in 1 .. Len(r) /\ q[i] = r[i - 1] /\ q[i] # q[1]
  BY <1>1, <1>2 DEF Distinct
<1>5. Distinct(r)
  BY <1>1, <1>2 DEF Distinct
<1>6. ASSUME NEW x PROVE On(r, x) <=> On(q, x) /\ x # q[1]
  <2>1. On(r, x) => On(q, x) /\ x # q[1]
    BY <1>1, <1>2, <1>4 DEF On
  <2>2. On(q, x) /\ x # q[1] => On(r, x)
    BY <1>1, <1>4 DEF On
  <2> QED
    BY <2>1, <2>2
<1>7. ASSUME NEW x, NEW y PROVE Prec(r, x, y) <=> Prec(q, x, y) /\ x # q[1]
  <2>1. Prec(r, x, y) => Prec(q, x, y) /\ x # q[1]
    BY <1>1, <1>2, <1>4 DEF Prec
  <2>2. Prec(q, x, y) /\ x # q[1] => Prec(r, x, y)
    BY <1>1, <1>4 DEF Prec
  <2> QED
    BY <2>1, <2>2
<1>8. ASSUME NEW y, On(q, y), y # q[1] PROVE Prec(q, q[1], y)
  BY <1>1, <1>8 DEF On, Prec
<1>9. ASSUME NEW y PROVE ~Prec(q, y, q[1])
  BY <1>1 DEF Prec, Distinct
<1>10. On(q, q[1])
  BY <1>1 DEF On
<1> QED
  BY <1>1, <1>3, <1>5, <1>6, <1>7, <1>8, <1>9, <1>10 DEF r

\* Nobody is ahead of somebody who is ahead of them.
LEMMA Asymmetric ==
    ASSUME NEW S, NEW q \in Seq(S), Distinct(q), NEW x, NEW y, Prec(q, x, y)
    PROVE  On(q, x) /\ On(q, y) /\ x # y /\ ~Prec(q, y, x)
BY DEF Prec, Distinct, On

-----------------------------------------------------------------------------
(* The queue of the settings.                                              *)

Asking == {"reading", "writing", "toggleReading", "toggleWriting"}
Answered == {"read", "written", "toggleRead", "toggleWritten", "failed"}

\* A task stands in the queue exactly while its program point says so.
QueueInv ==
    /\ Distinct(db) /\ Distinct(answers)
    /\ \A t \in All : (On(db, t) <=> pc[t] \in Asking) /\ (On(answers, t) <=> pc[t] \in Answered)

Ahead(x, y) == Prec(answers, x, y) \/ Prec(db, x, y) \/ (On(answers, x) /\ On(db, y))

\* Being ahead is a matter of two different tasks in the queue, and not mutual.
LEMMA AheadAsym ==
    ASSUME TypeOK, QueueInv, NEW x \in All, NEW y \in All, Ahead(x, y)
    PROVE  x # y /\ ~Ahead(y, x) /\ pc[x] # "idle" /\ pc[y] # "idle"
<1>1. db \in Seq(All) /\ answers \in Seq(All)
  BY DEF TypeOK
<1>2. \A t \in All : ~(On(db, t) /\ On(answers, t))
  BY DEF QueueInv, Asking, Answered
<1>3. \A t \in All : On(db, t) \/ On(answers, t) => pc[t] # "idle"
  BY DEF QueueInv, Asking, Answered
<1>4. Distinct(db) /\ Distinct(answers)
  BY DEF QueueInv
<1>5. CASE Prec(answers, x, y)
  <2>1. On(answers, x) /\ On(answers, y) /\ x # y /\ ~Prec(answers, y, x)
    BY <1>1, <1>4, <1>5, Asymmetric
  <2>2. ~Prec(db, y, x)
    BY <1>1, <1>2, <1>4, <2>1, Asymmetric
  <2> QED
    BY <1>2, <1>3, <2>1, <2>2 DEF Ahead
<1>6. CASE Prec(db, x, y)
  <2>1. On(db, x) /\ On(db, y) /\ x # y /\ ~Prec(db, y, x)
    BY <1>1, <1>4, <1>6, Asymmetric
  <2>2. ~Prec(answers, y, x)
    BY <1>1, <1>2, <1>4, <2>1, Asymmetric
  <2> QED
    BY <1>2, <1>3, <2>1, <2>2 DEF Ahead
<1>7. CASE On(answers, x) /\ On(db, y)
  <2>1. ~Prec(answers, y, x) /\ ~Prec(db, y, x)
    BY <1>1, <1>2, <1>4, <1>7, Asymmetric
  <2> QED
    BY <1>2, <1>3, <1>7, <2>1 DEF Ahead
<1> QED
  BY <1>5, <1>6, <1>7 DEF Ahead

\* A task that queues a statement stands behind all that are there.
LEMMA Enqueue ==
    ASSUME TypeOK, QueueInv, NEW t \in All, NEW s \in Asking, pc[t] = "idle",
           pc' = [pc EXCEPT ![t] = s], db' = Append(db, t), answers' = answers
    PROVE  /\ QueueInv'
           /\ \A x, y \in All : Ahead(x, y)' <=> Ahead(x, y) \/ (pc[x] # "idle" /\ y = t)
<1>1. db \in Seq(All) /\ pc \in [All -> Asking \cup Answered \cup {"idle"}]
  BY DEF TypeOK, Toggling, Asking, Answered
<1>2. ~On(db, t) /\ ~On(answers, t)
  BY DEF QueueInv, Asking, Answered
<1>3. /\ Distinct(db')
      /\ \A x : On(db', x) <=> On(db, x) \/ x = t
      /\ \A x, y : Prec(db', x, y) <=> Prec(db, x, y) \/ (On(db, x) /\ y = t)
  BY <1>1, <1>2, Joins DEF QueueInv
<1>4. QueueInv'
  <2>1. Distinct(answers')
    BY DEF QueueInv
  <2>2. ASSUME NEW u \in All
        PROVE  (On(db', u) <=> pc'[u] \in Asking) /\ (On(answers', u) <=> pc'[u] \in Answered)
    BY <1>1, <1>2, <1>3 DEF QueueInv, Asking, Answered
  <2> QED
    BY <1>3, <2>1, <2>2 DEF QueueInv
<1>5. ASSUME NEW x \in All, NEW y \in All
      PROVE  Ahead(x, y)' <=> Ahead(x, y) \/ (pc[x] # "idle" /\ y = t)
  <2>1. pc[x] # "idle" <=> On(db, x) \/ On(answers, x)
    BY <1>1 DEF QueueInv, Asking, Answered
  <2>2. Ahead(x, y)' <=> Prec(answers, x, y) \/ Prec(db', x, y) \/ (On(answers, x) /\ On(db', y))
    BY DEF Ahead
  <2> QED
    BY <1>3, <2>1, <2>2 DEF Ahead
<1> QED
  BY <1>4, <1>5

\* A statement that is run becomes an answer without changing its place.
LEMMA Move ==
    ASSUME TypeOK, QueueInv, db # <<>>, NEW s \in Answered, Reply(Head(db), s)
    PROVE  /\ QueueInv' /\ Head(db) \in All /\ pc[Head(db)] \in Asking
           /\ \A x, y \in All : Ahead(x, y)' <=> Ahead(x, y)
           /\ \A y \in All : pc[y] \in Asking => y = Head(db) \/ Ahead(Head(db), y)
           /\ \A y \in All : pc[y] \in Answered => Ahead(y, Head(db))
<1> DEFINE t == Head(db)
<1>1. db \in Seq(All) /\ answers \in Seq(All) /\ pc \in [All -> Asking \cup Answered \cup {"idle"}]
  BY DEF TypeOK, Toggling, Asking, Answered
<1>2. /\ Tail(db) \in Seq(All) /\ Distinct(Tail(db)) /\ On(db, t) /\ t \in All
      /\ \A x : On(Tail(db), x) <=> On(db, x) /\ x # t
      /\ \A x, y : Prec(Tail(db), x, y) <=> Prec(db, x, y) /\ x # t
      /\ \A y : On(db, y) /\ y # t => Prec(db, t, y)
      /\ \A y : ~Prec(db, y, t)
  BY <1>1, Leaves DEF QueueInv
<1> HIDE DEF t
<1>3. db' = Tail(db) /\ answers' = Append(answers, t) /\ pc' = [pc EXCEPT ![t] = s]
  BY DEF Reply, t
<1>4. pc[t] \in Asking /\ ~On(answers, t)
  BY <1>2 DEF QueueInv, Asking, Answered
<1>5. /\ Distinct(answers')
      /\ \A x : On(answers', x) <=> On(answers, x) \/ x = t
      /\ \A x, y : Prec(answers', x, y) <=> Prec(answers, x, y) \/ (On(answers, x) /\ y = t)
  BY <1>1, <1>2, <1>3, <1>4, Joins DEF QueueInv
<1>6. QueueInv'
  <2>1. ASSUME NEW u \in All
        PROVE  (On(db', u) <=> pc'[u] \in Asking) /\ (On(answers', u) <=> pc'[u] \in Answered)
    BY <1>1, <1>2, <1>3, <1>4, <1>5 DEF QueueInv, Asking, Answered
  <2> QED
    BY <1>2, <1>3, <1>5, <2>1 DEF QueueInv
<1>7. ASSUME NEW x \in All, NEW y \in All PROVE Ahead(x, y)' <=> Ahead(x, y)
  <2>1. Ahead(x, y)' <=> Prec(answers', x, y) \/ Prec(db', x, y) \/ (On(answers', x) /\ On(db', y))
    BY DEF Ahead
  <2>2. Prec(db, t, y) => On(db, y) /\ y # t
    BY <1>1, Asymmetric DEF QueueInv
  <2> QED
    BY <1>2, <1>3, <1>5, <2>1, <2>2 DEF Ahead
<1>8. ASSUME NEW y \in All PROVE /\ pc[y] \in Asking => y = t \/ Ahead(t, y)
                                 /\ pc[y] \in Answered => Ahead(y, t)
  BY <1>2 DEF QueueInv, Ahead
<1> QED
  BY <1>2, <1>4, <1>6, <1>7, <1>8 DEF t

\* The task whose answer is taken was ahead of all others.
LEMMA Dequeue ==
    ASSUME TypeOK, QueueInv, answers # <<>>, NEW t, t = Head(answers),
           pc' = [pc EXCEPT ![t] = "idle"], db' = db, answers' = Tail(answers)
    PROVE  /\ QueueInv' /\ t \in All /\ pc[t] \in Answered
           /\ \A x, y \in All : Ahead(x, y)' <=> Ahead(x, y) /\ x # t
           /\ \A y \in All : pc[y] # "idle" => y = t \/ Ahead(t, y)
<1>1. db \in Seq(All) /\ answers \in Seq(All) /\ pc \in [All -> Asking \cup Answered \cup {"idle"}]
  BY DEF TypeOK, Toggling, Asking, Answered
<1>2. /\ Distinct(answers') /\ On(answers, t) /\ t \in All
      /\ \A x : On(answers', x) <=> On(answers, x) /\ x # t
      /\ \A x, y : Prec(answers', x, y) <=> Prec(answers, x, y) /\ x # t
      /\ \A y : On(answers, y) /\ y # t => Prec(answers, t, y)
  BY <1>1, Leaves DEF QueueInv
<1>3. pc[t] \in Answered /\ ~On(db, t)
  BY <1>2 DEF QueueInv, Asking, Answered
<1>4. QueueInv'
  <2>1. ASSUME NEW u \in All
        PROVE  (On(db', u) <=> pc'[u] \in Asking) /\ (On(answers', u) <=> pc'[u] \in Answered)
    BY <1>1, <1>2, <1>3 DEF QueueInv, Asking, Answered
  <2>2. Distinct(db')
    BY DEF QueueInv
  <2> QED
    BY <1>2, <2>1, <2>2 DEF QueueInv
<1>5. ASSUME NEW x \in All, NEW y \in All PROVE Ahead(x, y)' <=> Ahead(x, y) /\ x # t
  <2>1. Ahead(x, y)' <=> Prec(answers', x, y) \/ Prec(db, x, y) \/ (On(answers', x) /\ On(db, y))
    BY DEF Ahead
  <2>2. ~Prec(db, t, y)
    BY <1>1, <1>3, Asymmetric DEF QueueInv
  <2> QED
    BY <1>2, <2>1, <2>2 DEF Ahead
<1>6. ASSUME NEW y \in All, pc[y] # "idle" PROVE y = t \/ Ahead(t, y)
  BY <1>1, <1>2, <1>6 DEF QueueInv, Ahead
<1> QED
  BY <1>2, <1>3, <1>4, <1>5, <1>6

\* The same, for a task that goes on to queue its next statement.
LEMMA Requeue ==
    ASSUME TypeOK, QueueInv, answers # <<>>, NEW t, t = Head(answers), NEW s \in Asking,
           pc' = [pc EXCEPT ![t] = s], db' = Append(db, t), answers' = Tail(answers)
    PROVE  /\ QueueInv' /\ t \in All /\ pc[t] \in Answered
           /\ \A x, y \in All :
                Ahead(x, y)' <=> x # t /\ (Ahead(x, y) \/ (pc[x] # "idle" /\ y = t))
           /\ \A y \in All : pc[y] # "idle" => y = t \/ Ahead(t, y)
<1>1. db \in Seq(All) /\ answers \in Seq(All) /\ pc \in [All -> Asking \cup Answered \cup {"idle"}]
  BY DEF TypeOK, Toggling, Asking, Answered
<1>2. /\ Distinct(answers') /\ On(answers, t) /\ t \in All
      /\ \A x : On(answers', x) <=> On(answers, x) /\ x # t
      /\ \A x, y : Prec(answers', x, y) <=> Prec(answers, x, y) /\ x # t
      /\ \A y : On(answers, y) /\ y # t => Prec(answers, t, y)
  BY <1>1, Leaves DEF QueueInv
<1>3. pc[t] \in Answered /\ ~On(db, t)
  BY <1>2 DEF QueueInv, Asking, Answered
<1>4. /\ Distinct(db')
      /\ \A x : On(db', x) <=> On(db, x) \/ x = t
      /\ \A x, y : Prec(db', x, y) <=> Prec(db, x, y) \/ (On(db, x) /\ y = t)
  BY <1>1, <1>2, <1>3, Joins DEF QueueInv
<1>5. QueueInv'
  <2>1. ASSUME NEW u \in All
        PROVE  (On(db', u) <=> pc'[u] \in Asking) /\ (On(answers', u) <=> pc'[u] \in Answered)
    BY <1>1, <1>2, <1>3, <1>4 DEF QueueInv, Asking, Answered
  <2> QED
    BY <1>2, <1>4, <2>1 DEF QueueInv
<1>6. ASSUME NEW x \in All, NEW y \in All
      PROVE  Ahead(x, y)' <=> x # t /\ (Ahead(x, y) \/ (pc[x] # "idle" /\ y = t))
  <2>1. Ahead(x, y)' <=> Prec(answers', x, y) \/ Prec(db', x, y) \/ (On(answers', x) /\ On(db', y))
    BY DEF Ahead
  <2>2. ~Prec(db, t, y)
    BY <1>1, <1>3, Asymmetric DEF QueueInv
  <2>3. pc[x] # "idle" <=> On(db, x) \/ On(answers, x)
    BY <1>1 DEF QueueInv, Asking, Answered
  <2> QED
    BY <1>2, <1>3, <1>4, <2>1, <2>2, <2>3 DEF Ahead
<1>7. ASSUME NEW y \in All, pc[y] # "idle" PROVE y = t \/ Ahead(t, y)
  BY <1>1, <1>2, <1>7 DEF QueueInv, Ahead
<1> QED
  BY <1>2, <1>3, <1>5, <1>6, <1>7

-----------------------------------------------------------------------------
(* Types.                                                                  *)

\* Counting one more change or start within its bound stays within it.
LEMMA NextCount ==
    ASSUME NEW m \in Nat, NEW n \in 0 .. m, n < m PROVE n + 1 \in 0 .. m
OBVIOUS

\* The settings of a row, and a change of one setting, are settings.
LEMMA SettingsTypes ==
    /\ Defaults \in AppSettings
    /\ \A row \in AppSettings \cup {NoRow} : Load(row) \in AppSettings
    /\ \A s \in AppSettings, on \in BOOLEAN :
        /\ [s EXCEPT !.autoWifi = on] \in AppSettings
        /\ [s EXCEPT !.killSwitch = on] \in AppSettings
    /\ \A s \in AppSettings : AutoStart(s) \in BOOLEAN
BY DEF AppSettings, Defaults, Load, AutoStart

\* TypeOK in four parts.
FlagsOK == {running, loaded, flag, rested, thrown, failed, overlapped} \subseteq BOOLEAN
ValuesOK ==
    /\ mem \in AppSettings /\ chosen \in AppSettings /\ disk \in AppSettings \cup {NoRow}
    /\ value \in [All -> AppSettings] /\ asked \in [All -> BOOLEAN]
QueuesOK ==
    /\ pc \in [All -> Asking \cup Answered \cup {"idle"}]
    /\ db \in Seq(All) /\ answers \in Seq(All) /\ channel \in Seq(BOOLEAN)
CountsOK ==
    /\ boot \in {"none", "declined", "headless", "refused", "gaveUp", "connected"}
    /\ changes \in 0 .. MaxChanges /\ starts \in 0 .. MaxStarts

\* Together they are TypeOK.
LEMMA TypeParts == TypeOK <=> FlagsOK /\ ValuesOK /\ QueuesOK /\ CountsOK
<1>1. Toggling \cup {"idle", "reading", "read", "writing", "written", "failed"}
      = Asking \cup Answered \cup {"idle"}
  BY DEF Toggling, Asking, Answered
<1> QED
  BY <1>1 DEF TypeOK, FlagsOK, ValuesOK, QueuesOK, CountsOK

\* The tasks and the loader are what may stand in the queue.
LEMMA Standing == Tasks \subseteq All /\ Loader \in All /\ Loader \notin Tasks
BY TasksAssumption DEF All, Loader

\* Every action keeps the variables in their types.
LEMMA TypeStep == TypeOK /\ [Next]_vars => TypeOK'
<1> SUFFICES ASSUME FlagsOK, ValuesOK, QueuesOK, CountsOK, [Next]_vars PROVE TypeOK'
  BY TypeParts
<1>0. FlagsOK' /\ ValuesOK' /\ QueuesOK' /\ CountsOK' => TypeOK'
  BY DEF TypeOK, FlagsOK, ValuesOK, QueuesOK, CountsOK, Toggling, Asking, Answered
<1> USE Standing DEF appVars, taskVars, dbVars, flagVars, bootVars, faultVars, history, boundVars
<1>1. CASE Start
  <2>1. FlagsOK'
    BY <1>1 DEF FlagsOK, QueuesOK, Start
  <2>2. ValuesOK'
    BY <1>1, SettingsTypes DEF ValuesOK, QueuesOK, Start
  <2>3. QueuesOK'
    BY <1>1, SettingsTypes DEF ValuesOK, QueuesOK, Asking, Answered, Start
  <2>4. CountsOK'
    <3>1. starts + 1 \in 0 .. MaxStarts
      BY <1>1, NextCount, BoundsAssumption DEF CountsOK, Start
    <3> QED
      BY <1>1, <3>1 DEF CountsOK, Start
  <2> QED
    BY <1>0, <2>1, <2>2, <2>3, <2>4
<1>2. CASE LoadDone
  <2>1. FlagsOK'
    BY <1>2 DEF FlagsOK, QueuesOK, LoadDone, SyncBootFlag
  <2>2. ValuesOK'
    BY <1>2, SettingsTypes DEF ValuesOK, QueuesOK, LoadDone, SyncBootFlag
  <2>3. QueuesOK'
    BY <1>2, SettingsTypes DEF ValuesOK, QueuesOK, Asking, Answered, LoadDone, SyncBootFlag
  <2>4. CountsOK'
    BY <1>2 DEF CountsOK, LoadDone, SyncBootFlag
  <2> QED
    BY <1>0, <2>1, <2>2, <2>3, <2>4
<1>3. CASE Read
  <2>1. FlagsOK'
    BY <1>3 DEF FlagsOK, QueuesOK, Read, Reply
  <2>2. ValuesOK'
    BY <1>3, SettingsTypes DEF ValuesOK, QueuesOK, Read, Reply
  <2>3. QueuesOK'
    <3>1. PICK s \in Answered : Reply(Head(db), s)
      BY <1>3 DEF Read, Answered
    <3>2. Head(db) \in All /\ Tail(db) \in Seq(All)
      BY <1>3 DEF Read, QueuesOK
    <3>3. pc' \in [All -> Asking \cup Answered \cup {"idle"}]
      BY <3>1, <3>2 DEF Reply, QueuesOK
    <3> QED
      BY <1>3, <3>1, <3>2, <3>3 DEF Read, Reply, QueuesOK
  <2>4. CountsOK'
    BY <1>3 DEF CountsOK, Read, Reply
  <2> QED
    BY <1>0, <2>1, <2>2, <2>3, <2>4
<1>4. CASE Write
  <2>1. FlagsOK'
    BY <1>4 DEF FlagsOK, QueuesOK, Write, Reply
  <2>2. ValuesOK'
    BY <1>4, SettingsTypes DEF ValuesOK, QueuesOK, Write, Reply
  <2>3. QueuesOK'
    <3>1. PICK s \in Answered : Reply(Head(db), s)
      BY <1>4 DEF Write, Answered
    <3>2. Head(db) \in All /\ Tail(db) \in Seq(All)
      BY <1>4 DEF Write, QueuesOK
    <3>3. pc' \in [All -> Asking \cup Answered \cup {"idle"}]
      BY <3>1, <3>2 DEF Reply, QueuesOK
    <3> QED
      BY <1>4, <3>1, <3>2, <3>3 DEF Write, Reply, QueuesOK
  <2>4. CountsOK'
    BY <1>4 DEF CountsOK, Write, Reply
  <2> QED
    BY <1>0, <2>1, <2>2, <2>3, <2>4
<1>5. CASE StoreFlag
  <2>1. FlagsOK'
    BY <1>5 DEF FlagsOK, QueuesOK, StoreFlag
  <2>2. ValuesOK'
    BY <1>5, SettingsTypes DEF ValuesOK, QueuesOK, StoreFlag
  <2>3. QueuesOK'
    BY <1>5, SettingsTypes DEF ValuesOK, QueuesOK, Asking, Answered, StoreFlag
  <2>4. CountsOK'
    BY <1>5 DEF CountsOK, StoreFlag
  <2> QED
    BY <1>0, <2>1, <2>2, <2>3, <2>4
<1>6. CASE Crash
  <2>1. FlagsOK'
    BY <1>6 DEF FlagsOK, QueuesOK, Crash, Die
  <2>2. ValuesOK'
    BY <1>6, SettingsTypes DEF ValuesOK, QueuesOK, Crash, Die
  <2>3. QueuesOK'
    BY <1>6, SettingsTypes DEF ValuesOK, QueuesOK, Asking, Answered, Crash, Die
  <2>4. CountsOK'
    BY <1>6 DEF CountsOK, Crash, Die
  <2> QED
    BY <1>0, <2>1, <2>2, <2>3, <2>4
<1>7. CASE BootReceive
  <2>1. FlagsOK'
    BY <1>7 DEF FlagsOK, QueuesOK, BootReceive, Die, Quiet
  <2>2. ValuesOK'
    BY <1>7, SettingsTypes DEF ValuesOK, QueuesOK, BootReceive, Die
  <2>3. QueuesOK'
    BY <1>7, SettingsTypes DEF ValuesOK, QueuesOK, Asking, Answered, BootReceive, Die
  <2>4. CountsOK'
    BY <1>7 DEF CountsOK, BootReceive, Die
  <2> QED
    BY <1>0, <2>1, <2>2, <2>3, <2>4
<1>8. CASE VpnBoot
  <2>1. FlagsOK'
    BY <1>8 DEF FlagsOK, QueuesOK, VpnBoot
  <2>2. ValuesOK'
    BY <1>8, SettingsTypes DEF ValuesOK, QueuesOK, VpnBoot
  <2>3. QueuesOK'
    BY <1>8, SettingsTypes DEF ValuesOK, QueuesOK, Asking, Answered, VpnBoot
  <2>4. CountsOK'
    BY <1>8 DEF CountsOK, VpnBoot
  <2> QED
    BY <1>0, <2>1, <2>2, <2>3, <2>4
<1>9. ASSUME NEW t \in Tasks, NEW on \in BOOLEAN, Patch(t, on) PROVE TypeOK'
  <2>1. FlagsOK'
    BY <1>9 DEF FlagsOK, QueuesOK, Patch, Current
  <2>2. ValuesOK'
    BY <1>9, SettingsTypes DEF ValuesOK, QueuesOK, Patch
  <2>3. QueuesOK'
    BY <1>9, SettingsTypes DEF ValuesOK, QueuesOK, Asking, Answered, Patch
  <2>4. CountsOK'
    <3>1. changes + 1 \in 0 .. MaxChanges
      BY <1>9, NextCount, BoundsAssumption DEF CountsOK, Patch, MayChange
    <3> QED
      BY <1>9, <3>1 DEF CountsOK, Patch
  <2> QED
    BY <1>0, <2>1, <2>2, <2>3, <2>4
<1>10. ASSUME NEW t \in Tasks, NEW on \in BOOLEAN, Toggle(t, on) PROVE TypeOK'
  <2>1. FlagsOK'
    BY <1>10 DEF FlagsOK, QueuesOK, Toggle
  <2>2. ValuesOK'
    BY <1>10, SettingsTypes DEF ValuesOK, QueuesOK, Toggle
  <2>3. QueuesOK'
    BY <1>10, SettingsTypes DEF ValuesOK, QueuesOK, Asking, Answered, Toggle
  <2>4. CountsOK'
    <3>1. changes + 1 \in 0 .. MaxChanges
      BY <1>10, NextCount, BoundsAssumption DEF CountsOK, Toggle, MayChange
    <3> QED
      BY <1>10, <3>1 DEF CountsOK, Toggle
  <2> QED
    BY <1>0, <2>1, <2>2, <2>3, <2>4
<1>11. ASSUME NEW t \in Tasks, PatchDone(t) PROVE TypeOK'
  <2>1. FlagsOK'
    BY <1>11 DEF FlagsOK, QueuesOK, PatchDone, SyncBootFlag
  <2>2. ValuesOK'
    BY <1>11, SettingsTypes DEF ValuesOK, QueuesOK, PatchDone, SyncBootFlag
  <2>3. QueuesOK'
    BY <1>11, SettingsTypes DEF ValuesOK, QueuesOK, Asking, Answered, PatchDone, SyncBootFlag
  <2>4. CountsOK'
    BY <1>11 DEF CountsOK, PatchDone, SyncBootFlag
  <2> QED
    BY <1>0, <2>1, <2>2, <2>3, <2>4
<1>12. ASSUME NEW t \in Tasks, ToggleSave(t) PROVE TypeOK'
  <2>1. FlagsOK'
    BY <1>12 DEF FlagsOK, QueuesOK, ToggleSave
  <2>2. ValuesOK'
    BY <1>12, SettingsTypes DEF ValuesOK, QueuesOK, ToggleSave
  <2>3. QueuesOK'
    BY <1>12, SettingsTypes DEF ValuesOK, QueuesOK, Asking, Answered, ToggleSave
  <2>4. CountsOK'
    BY <1>12 DEF CountsOK, ToggleSave
  <2> QED
    BY <1>0, <2>1, <2>2, <2>3, <2>4
<1>13. ASSUME NEW t \in Tasks, Adopt(t) PROVE TypeOK'
  <2>1. FlagsOK'
    BY <1>13 DEF FlagsOK, QueuesOK, Adopt, SyncBootFlag
  <2>2. ValuesOK'
    BY <1>13, SettingsTypes DEF ValuesOK, QueuesOK, Adopt, SyncBootFlag
  <2>3. QueuesOK'
    BY <1>13, SettingsTypes DEF ValuesOK, QueuesOK, Asking, Answered, Adopt, SyncBootFlag
  <2>4. CountsOK'
    BY <1>13 DEF CountsOK, Adopt, SyncBootFlag
  <2> QED
    BY <1>0, <2>1, <2>2, <2>3, <2>4
<1>14. ASSUME NEW t \in Tasks, ToggleThrows(t) PROVE TypeOK'
  <2>1. FlagsOK'
    BY <1>14 DEF FlagsOK, QueuesOK, ToggleThrows
  <2>2. ValuesOK'
    BY <1>14, SettingsTypes DEF ValuesOK, QueuesOK, ToggleThrows
  <2>3. QueuesOK'
    BY <1>14, SettingsTypes DEF ValuesOK, QueuesOK, Asking, Answered, ToggleThrows
  <2>4. CountsOK'
    BY <1>14 DEF CountsOK, ToggleThrows
  <2> QED
    BY <1>0, <2>1, <2>2, <2>3, <2>4
<1>15. CASE UNCHANGED vars
  BY <1>0, <1>15 DEF vars, FlagsOK, ValuesOK, QueuesOK, CountsOK
<1>16. CASE Fail
  <2>1. FlagsOK'
    BY <1>16 DEF FlagsOK, QueuesOK, Fail, Reply
  <2>2. ValuesOK'
    BY <1>16, SettingsTypes DEF ValuesOK, QueuesOK, Fail, Reply
  <2>3. QueuesOK'
    <3>1. "failed" \in Answered /\ Reply(Head(db), "failed")
      BY <1>16 DEF Fail, Answered
    <3>2. Head(db) \in All /\ Tail(db) \in Seq(All)
      BY <1>16 DEF Fail, QueuesOK
    <3>3. pc' \in [All -> Asking \cup Answered \cup {"idle"}]
      BY <3>1, <3>2 DEF Reply, QueuesOK
    <3> QED
      BY <1>16, <3>1, <3>2, <3>3 DEF Fail, Reply, QueuesOK
  <2>4. CountsOK'
    BY <1>16 DEF CountsOK, Fail, Reply
  <2> QED
    BY <1>0, <2>1, <2>2, <2>3, <2>4
<1>17. ASSUME NEW t \in All, GiveUp(t) PROVE TypeOK'
  <2>1. FlagsOK'
    BY <1>17 DEF FlagsOK, QueuesOK, GiveUp
  <2>2. ValuesOK'
    BY <1>17, SettingsTypes DEF ValuesOK, QueuesOK, GiveUp
  <2>3. QueuesOK'
    BY <1>17, SettingsTypes DEF ValuesOK, QueuesOK, Asking, Answered, GiveUp
  <2>4. CountsOK'
    BY <1>17 DEF CountsOK, GiveUp
  <2> QED
    BY <1>0, <2>1, <2>2, <2>3, <2>4
<1> QED
  BY <1>1, <1>2, <1>3, <1>4, <1>5, <1>6, <1>7, <1>8, <1>9, <1>10, <1>11, <1>12, <1>13, <1>14, <1>15,
     <1>16, <1>17
  DEF Next, Change, Finish

-----------------------------------------------------------------------------
(* The invariant.                                                          *)

Readers == {t \in Tasks : pc[t] \in {"toggleReading", "toggleRead"}}
Savers == {t \in Tasks : pc[t] \in {"toggleWriting", "toggleWritten"}}
Patchers == {t \in Tasks : pc[t] \in {"writing", "written"}}
Unwritten == {t \in Tasks : pc[t] = "writing"}
Written == {t \in Tasks : pc[t] \in {"written", "toggleWritten"}}

Last(t, S) == t \in S /\ \A u \in S : u = t \/ Ahead(u, t)

Row == Load(disk)
FlagToBe == IF channel = <<>> THEN flag ELSE channel[Len(channel)]

\* The app that runs, and the loader, which is ahead of everybody else.
Off == ~running => ~loaded /\ \A t \in All : pc[t] = "idle"
Loading ==
    /\ running /\ ~loaded /\ ~failed => pc[Loader] \in {"reading", "read"}
    /\ loaded => pc[Loader] = "idle"
    /\ pc[Loader] \in {"idle", "reading", "read", "failed"}
    /\ \A t \in Tasks : pc[t] \notin {"reading", "read"}
    /\ \A t \in All : pc[t] = "failed" => failed
LoaderFirst == pc[Loader] # "idle" => \A t \in Tasks : pc[t] # "idle" => Ahead(Loader, t)
LoaderReads == pc[Loader] = "read" /\ Written = {} => value[Loader] = Row
LoadInv == Off /\ Loading /\ LoaderFirst /\ LoaderReads

\* The row is the last value written, and what is mirrored last is what it asks for.
RowIsLast == \A t \in Tasks : Last(t, Written) => Row = value[t]
FlagRow == loaded /\ ~thrown /\ Written = {} => FlagToBe = AutoStart(Row)

\* With the types and the queue these are inductive, whatever overlaps and fails.
RowInv == TypeOK /\ QueueInv /\ LoadInv /\ RowIsLast /\ FlagRow

\* Where no patch overlapped and no statement failed: no save is made before the first
\* load has finished, or by a patch behind a toggle.
WaitsForLoad == ~loaded => Savers = {} /\ Patchers = {}
PatchFirst == \A t \in Patchers, u \in Readers \cup Savers : Ahead(t, u)

\* Memory is what the row will be, unless a toggle has yet to be adopted.
MemoryRow == loaded /\ ~thrown /\ Savers = {} /\ Patchers = {} => mem = Row
MemoryLast ==
    loaded /\ ~thrown /\ Savers = {} => \A t \in Tasks : Last(t, Patchers) => mem = value[t]

\* What the user chose is on its way to the row.
ChoiceRow == Readers = {} /\ Savers = {} /\ Patchers = {} => Row = chosen
ChoiceLast == Readers = {} /\ Savers = {} => \A t \in Tasks : Last(t, Patchers) => value[t] = chosen
ChoiceMemory == Readers = {} /\ Savers = {} /\ loaded /\ ~thrown => mem = chosen
AskedLast == \A t \in Tasks : Last(t, Readers) => asked[t] = chosen.killSwitch
SavedLast == Readers = {} => \A t \in Tasks : Last(t, Savers) => value[t] = chosen
WifiCarried ==
    \A t \in Tasks : pc[t] = "toggleRead" \/ t \in Savers => value[t].autoWifi = chosen.autoWifi
WifiRow == Unwritten = {} => Row.autoWifi = chosen.autoWifi
WifiLast == \A t \in Tasks : Last(t, Unwritten) => value[t].autoWifi = chosen.autoWifi
ChoiceInv ==
    /\ WaitsForLoad /\ PatchFirst /\ MemoryRow /\ MemoryLast
    /\ ChoiceRow /\ ChoiceLast /\ ChoiceMemory /\ AskedLast /\ SavedLast
    /\ WifiCarried /\ WifiRow /\ WifiLast

\* Where no statement failed: the kill switch the user chose is on its way to the screen.
KillRow ==
    ~loaded /\ pc[Loader] # "read" /\ Readers = {} /\ Savers = {} =>
        Row.killSwitch = chosen.killSwitch
KillLoad ==
    pc[Loader] = "read" /\ Readers = {} /\ Savers = {} =>
        value[Loader].killSwitch = chosen.killSwitch
KillSaved ==
    Readers = {} => \A t \in Tasks : Last(t, Savers) => value[t].killSwitch = chosen.killSwitch
KillMemory ==
    loaded /\ ~thrown /\ Readers = {} /\ Savers = {} => mem.killSwitch = chosen.killSwitch
KillInv == KillRow /\ KillLoad /\ AskedLast /\ KillSaved /\ KillMemory

Sound == ~overlapped /\ ~failed

\* The inductive invariant.
IInv == RowInv /\ (Sound => ChoiceInv) /\ (~failed => KillInv)

\* What a step has to keep of it.
Keeps ==
    /\ RowInv'
    /\ Sound' /\ (Sound => ChoiceInv) => ChoiceInv'
    /\ ~failed' /\ (~failed => KillInv) => KillInv'

\* What the invariant says of the order, and of who is in it.
LEMMA InOrder ==
    ASSUME RowInv
    PROVE  /\ \A x, y \in All : Ahead(x, y) => x # y /\ ~Ahead(y, x) /\ pc[x] # "idle" /\ pc[y] # "idle"
           /\ \A x \in Readers \cup Savers \cup Patchers \cup Unwritten \cup Written :
                x \in Tasks /\ x \in All /\ pc[x] # "idle"
           /\ Unwritten \subseteq Patchers /\ Written \subseteq Savers \cup Patchers
<1>1. TypeOK /\ QueueInv
  BY DEF RowInv
<1>2. ASSUME NEW x \in All, NEW y \in All, Ahead(x, y)
      PROVE  x # y /\ ~Ahead(y, x) /\ pc[x] # "idle" /\ pc[y] # "idle"
  BY <1>1, <1>2, AheadAsym
<1>3. ASSUME NEW x \in Readers \cup Savers \cup Patchers \cup Unwritten \cup Written
      PROVE  x \in Tasks /\ x \in All /\ pc[x] # "idle"
  BY Standing DEF Readers, Savers, Patchers, Unwritten, Written
<1>4. Unwritten \subseteq Patchers /\ Written \subseteq Savers \cup Patchers
  BY DEF Savers, Patchers, Unwritten, Written
<1> QED
  BY <1>2, <1>3, <1>4

\* The only member of a set is the last of it.
LEMMA Only == ASSUME NEW t, NEW S, S = {t} PROVE Last(t, S)
BY DEF Last

\* The flag that will be stored last is the one mirrored last.
LEMMA Mirrored ==
    ASSUME TypeOK, NEW s \in AppSettings, SyncBootFlag(s) PROVE FlagToBe' = AutoStart(s)
<1>1. channel \in Seq(BOOLEAN) /\ AutoStart(s) \in BOOLEAN
  BY SettingsTypes DEF TypeOK
<1>2. channel' = Append(channel, AutoStart(s))
  BY DEF SyncBootFlag
<1>3. channel' # <<>> /\ channel'[Len(channel')] = AutoStart(s)
  BY <1>1, <1>2
<1> QED
  BY <1>3 DEF FlagToBe

\* LoadDone keeps the invariant.
LEMMA KeepsLoadDone ==
    ASSUME RowInv, TypeOK', LoadDone PROVE Keeps
<1> USE Standing DEF appVars, taskVars, dbVars, flagVars, bootVars, faultVars, history, boundVars
<1>0. TypeOK /\ QueueInv
  BY DEF RowInv
<1>s. failed' = failed /\ (Sound' => Sound)
  BY DEF Sound, LoadDone
<1>1. Off /\ Loading /\ LoaderFirst /\ LoaderReads /\ RowIsLast /\ FlagRow
  BY DEF RowInv, LoadInv
<1>2. /\ \A x, y \in All : Ahead(x, y) => x # y /\ ~Ahead(y, x) /\ pc[x] # "idle" /\ pc[y] # "idle"
      /\ \A x \in Readers \cup Savers \cup Patchers \cup Unwritten \cup Written :
            x \in Tasks /\ x \in All /\ pc[x] # "idle"
      /\ Unwritten \subseteq Patchers /\ Written \subseteq Savers \cup Patchers
  BY InOrder
<1>3. /\ QueueInv' /\ pc[Loader] \in Answered
      /\ \A x, y \in All : Ahead(x, y)' <=> Ahead(x, y) /\ x # Loader
      /\ \A y \in All : pc[y] # "idle" => y = Loader \/ Ahead(Loader, y)
  BY <1>0, Dequeue DEF LoadDone, Asking
<1>4. /\ running' = running /\ loaded' /\ mem' = value[Loader] /\ Row' = Row
      /\ \A x \in All : pc'[x] = IF x = Loader THEN "idle" ELSE pc[x]
      /\ value' = value /\ asked' = asked /\ thrown' = thrown /\ chosen' = chosen
  BY <1>0, <1>3 DEF TypeOK, LoadDone, Row
<1>5. running /\ ~loaded /\ pc[Loader] = "read" /\ (Written = {} => value[Loader] = Row)
  BY <1>1 DEF LoadDone, Off, Loading, LoaderReads
<1>6. FlagToBe' = AutoStart(value[Loader]) /\ AutoStart(Row)' = AutoStart(Row)
  BY <1>0, <1>4, Mirrored DEF LoadDone, TypeOK, AutoStart
<1>7. /\ Readers' = Readers /\ Savers' = Savers /\ Patchers' = Patchers
      /\ Unwritten' = Unwritten /\ Written' = Written
  BY <1>0, <1>3, <1>4, <1>5 DEF Readers, Savers, Patchers, Unwritten, Written
<1>8. ASSUME NEW u \in Tasks
      PROVE  /\ Last(u, Readers)' => Last(u, Readers)
             /\ Last(u, Savers)' => Last(u, Savers)
             /\ Last(u, Patchers)' => Last(u, Patchers)
             /\ Last(u, Unwritten)' => Last(u, Unwritten)
             /\ Last(u, Written)' => Last(u, Written)
  <2>1. Last(u, Readers)' => Last(u, Readers)
    BY <1>2, <1>3, <1>5, <1>7 DEF Last
  <2>2. Last(u, Savers)' => Last(u, Savers)
    BY <1>2, <1>3, <1>5, <1>7 DEF Last
  <2>3. Last(u, Patchers)' => Last(u, Patchers)
    BY <1>2, <1>3, <1>5, <1>7 DEF Last
  <2>4. Last(u, Unwritten)' => Last(u, Unwritten)
    BY <1>2, <1>3, <1>5, <1>7 DEF Last
  <2>5. Last(u, Written)' => Last(u, Written)
    BY <1>2, <1>3, <1>5, <1>7 DEF Last
  <2> QED
    BY <2>1, <2>2, <2>3, <2>4, <2>5
<1>9. Off'
  BY <1>1, <1>4, <1>5, <1>6, <1>7, <1>8 DEF Off
<1>10. Loading'
  BY <1>1, <1>4, <1>5, <1>6, <1>7, <1>8, <1>s DEF Loading
<1>11. LoaderFirst'
  BY <1>1, <1>2, <1>3, <1>4, <1>5, <1>6, <1>7 DEF LoaderFirst
<1>12. LoaderReads'
  BY <1>1, <1>4, <1>5, <1>6, <1>7, <1>8 DEF LoaderReads
<1>13. RowIsLast'
  BY <1>1, <1>4, <1>5, <1>6, <1>7, <1>8 DEF RowIsLast
<1>14. FlagRow'
  BY <1>1, <1>2, <1>4, <1>5, <1>6, <1>7, <1>8 DEF FlagRow
<1>15. RowInv'
  BY <1>3, <1>9, <1>10, <1>11, <1>12, <1>13, <1>14 DEF RowInv, LoadInv
<1>16. ASSUME Sound', ChoiceInv PROVE ChoiceInv'
  <2>1. /\ WaitsForLoad /\ PatchFirst /\ MemoryRow /\ MemoryLast
        /\ ChoiceRow /\ ChoiceLast /\ ChoiceMemory /\ AskedLast
        /\ SavedLast /\ WifiCarried /\ WifiRow /\ WifiLast
    BY <1>16 DEF ChoiceInv
  <2>2. Savers = {} /\ Patchers = {} /\ Unwritten = {} /\ value[Loader] = Row
    BY <1>2, <1>5, <2>1 DEF WaitsForLoad
  <2>3. WaitsForLoad'
    BY <1>4, <1>5, <1>6, <1>7, <1>8, <2>1, <2>2 DEF WaitsForLoad
  <2>4. PatchFirst'
    BY <1>2, <1>3, <1>4, <1>5, <1>6, <1>7, <2>1, <2>2 DEF PatchFirst
  <2>5. MemoryRow'
    BY <1>4, <1>5, <1>6, <1>7, <1>8, <2>1, <2>2 DEF MemoryRow
  <2>6. MemoryLast'
    BY <1>4, <1>5, <1>6, <1>7, <1>8, <2>1, <2>2 DEF MemoryLast, Last
  <2>7. ChoiceRow'
    BY <1>4, <1>5, <1>6, <1>7, <1>8, <2>1, <2>2 DEF ChoiceRow
  <2>8. ChoiceLast'
    BY <1>4, <1>5, <1>6, <1>7, <1>8, <2>1, <2>2 DEF ChoiceLast
  <2>9. ChoiceMemory'
    BY <1>4, <1>5, <1>6, <1>7, <1>8, <2>1, <2>2 DEF ChoiceMemory, ChoiceRow
  <2>10. AskedLast'
    BY <1>4, <1>5, <1>6, <1>7, <1>8, <2>1, <2>2 DEF AskedLast
  <2>11. SavedLast'
    BY <1>4, <1>5, <1>6, <1>7, <1>8, <2>1, <2>2 DEF SavedLast
  <2>12. WifiCarried'
    BY <1>4, <1>5, <1>6, <1>7, <1>8, <2>1, <2>2 DEF WifiCarried
  <2>13. WifiRow'
    BY <1>4, <1>5, <1>6, <1>7, <1>8, <2>1, <2>2 DEF WifiRow
  <2>14. WifiLast'
    BY <1>4, <1>5, <1>6, <1>7, <1>8, <2>1, <2>2 DEF WifiLast
  <2> QED
    BY <2>3, <2>4, <2>5, <2>6, <2>7, <2>8, <2>9, <2>10, <2>11, <2>12, <2>13, <2>14 DEF ChoiceInv
<1>17. ASSUME ~failed', KillInv PROVE KillInv'
  <2>1. ~failed /\ KillRow /\ KillLoad /\ AskedLast /\ KillSaved /\ KillMemory
    BY <1>17, <1>s DEF KillInv
  <2>2. KillRow'
    BY <1>4, <1>5, <1>6, <1>7, <1>8, <1>1, <1>2, <1>3, <2>1 DEF KillRow
  <2>3. KillLoad'
    BY <1>4, <1>5, <1>6, <1>7, <1>8, <1>1, <1>2, <1>3, <2>1 DEF KillLoad
  <2>4. AskedLast'
    BY <1>4, <1>5, <1>6, <1>7, <1>8, <1>1, <1>2, <1>3, <2>1 DEF AskedLast
  <2>5. KillSaved'
    BY <1>4, <1>5, <1>6, <1>7, <1>8, <1>1, <1>2, <1>3, <2>1 DEF KillSaved
  <2>6. KillMemory'
    BY <1>4, <1>5, <1>6, <1>7, <1>8, <1>1, <1>2, <1>3, <2>1 DEF KillMemory, KillLoad
  <2> QED
    BY <2>2, <2>3, <2>4, <2>5, <2>6 DEF KillInv
<1> QED
  BY <1>s, <1>15, <1>16, <1>17 DEF Keeps, Sound

\* PatchDone keeps the invariant.
LEMMA KeepsPatchDone ==
    ASSUME RowInv, TypeOK', NEW t \in Tasks, PatchDone(t) PROVE Keeps
<1> USE Standing DEF appVars, taskVars, dbVars, flagVars, bootVars, faultVars, history, boundVars
<1>0. TypeOK /\ QueueInv
  BY DEF RowInv
<1>s. failed' = failed /\ (Sound' => Sound)
  BY DEF Sound, PatchDone
<1>1. Off /\ Loading /\ LoaderFirst /\ LoaderReads /\ RowIsLast /\ FlagRow
  BY DEF RowInv, LoadInv
<1>2. /\ \A x, y \in All : Ahead(x, y) => x # y /\ ~Ahead(y, x) /\ pc[x] # "idle" /\ pc[y] # "idle"
      /\ \A x \in Readers \cup Savers \cup Patchers \cup Unwritten \cup Written :
            x \in Tasks /\ x \in All /\ pc[x] # "idle"
      /\ Unwritten \subseteq Patchers /\ Written \subseteq Savers \cup Patchers
  BY InOrder
<1>3. /\ QueueInv' /\ pc[t] \in Answered
      /\ \A x, y \in All : Ahead(x, y)' <=> Ahead(x, y) /\ x # t
      /\ \A y \in All : pc[y] # "idle" => y = t \/ Ahead(t, y)
  BY <1>0, Dequeue DEF PatchDone, Asking
<1>4. /\ running' = running /\ loaded' = loaded /\ mem' = mem /\ thrown' = thrown /\ Row' = Row
      /\ \A x \in All : pc'[x] = IF x = t THEN "idle" ELSE pc[x]
      /\ value' = value /\ asked' = asked /\ chosen' = chosen
  BY <1>0, <1>3 DEF TypeOK, PatchDone, Row
<1>5. t \in Patchers /\ t \in Written /\ t \notin Readers /\ t \notin Savers /\ t \notin Unwritten /\ pc[t] # "idle"
  BY DEF PatchDone, Readers, Savers, Patchers, Unwritten, Written
<1>6. pc[Loader] = "idle" /\ running /\ (loaded \/ failed)
  BY <1>1, <1>2, <1>3, <1>5 DEF Off, Loading, LoaderFirst
<1>7. /\ Written \ {t} = {} => Row = value[t]
      /\ Savers = {} /\ Patchers \ {t} = {} => Row = value[t] /\ Last(t, Patchers)
  BY <1>1, <1>2, <1>5, Only DEF RowIsLast
<1>8. FlagToBe' = AutoStart(value[t]) /\ AutoStart(Row)' = AutoStart(Row)
  BY <1>0, <1>4, Mirrored DEF PatchDone, TypeOK, AutoStart
<1>9. /\ Readers' = Readers /\ Savers' = Savers /\ Patchers' = Patchers \ {t}
      /\ Unwritten' = Unwritten /\ Written' = Written \ {t}
  BY <1>0, <1>3, <1>4, <1>5 DEF Readers, Savers, Patchers, Unwritten, Written
<1>10. ASSUME NEW u \in Tasks
      PROVE  /\ Last(u, Readers)' => Last(u, Readers)
             /\ Last(u, Savers)' => Last(u, Savers)
             /\ Last(u, Patchers)' => Last(u, Patchers)
             /\ Last(u, Unwritten)' => Last(u, Unwritten)
             /\ Last(u, Written)' => Last(u, Written)
  <2>1. Last(u, Readers)' => Last(u, Readers)
    BY <1>2, <1>3, <1>5, <1>9 DEF Last
  <2>2. Last(u, Savers)' => Last(u, Savers)
    BY <1>2, <1>3, <1>5, <1>9 DEF Last
  <2>3. Last(u, Patchers)' => Last(u, Patchers)
    BY <1>2, <1>3, <1>5, <1>9 DEF Last
  <2>4. Last(u, Unwritten)' => Last(u, Unwritten)
    BY <1>2, <1>3, <1>5, <1>9 DEF Last
  <2>5. Last(u, Written)' => Last(u, Written)
    BY <1>2, <1>3, <1>5, <1>9 DEF Last
  <2> QED
    BY <2>1, <2>2, <2>3, <2>4, <2>5
<1>11. Off'
  BY <1>1, <1>4, <1>5, <1>6, <1>7, <1>8, <1>9, <1>10 DEF Off
<1>12. Loading'
  BY <1>1, <1>4, <1>5, <1>6, <1>7, <1>8, <1>9, <1>10, <1>s DEF Loading
<1>13. LoaderFirst'
  BY <1>1, <1>2, <1>3, <1>4, <1>5, <1>6, <1>7, <1>8, <1>9 DEF LoaderFirst
<1>14. LoaderReads'
  BY <1>1, <1>4, <1>5, <1>6, <1>7, <1>8, <1>9, <1>10 DEF LoaderReads
<1>15. RowIsLast'
  BY <1>1, <1>4, <1>5, <1>6, <1>7, <1>8, <1>9, <1>10 DEF RowIsLast
<1>16. FlagRow'
  BY <1>1, <1>4, <1>5, <1>6, <1>7, <1>8, <1>9, <1>10 DEF FlagRow
<1>17. RowInv'
  BY <1>3, <1>11, <1>12, <1>13, <1>14, <1>15, <1>16 DEF RowInv, LoadInv
<1>18. ASSUME Sound', ChoiceInv PROVE ChoiceInv'
  <2>1. /\ WaitsForLoad /\ PatchFirst /\ MemoryRow /\ MemoryLast
        /\ ChoiceRow /\ ChoiceLast /\ ChoiceMemory /\ AskedLast
        /\ SavedLast /\ WifiCarried /\ WifiRow /\ WifiLast
    BY <1>18 DEF ChoiceInv
  <2>2. WaitsForLoad'
    BY <1>4, <1>5, <1>6, <1>7, <1>8, <1>9, <1>10, <2>1 DEF WaitsForLoad
  <2>3. PatchFirst'
    BY <1>2, <1>3, <1>4, <1>5, <1>6, <1>7, <1>8, <1>9, <2>1 DEF PatchFirst
  <2>4. MemoryRow'
    BY <1>4, <1>5, <1>6, <1>7, <1>8, <1>9, <1>10, <2>1 DEF MemoryRow, MemoryLast
  <2>5. MemoryLast'
    BY <1>4, <1>5, <1>6, <1>7, <1>8, <1>9, <1>10, <2>1 DEF MemoryLast
  <2>6. ChoiceRow'
    BY <1>4, <1>5, <1>6, <1>7, <1>8, <1>9, <1>10, <2>1 DEF ChoiceRow, ChoiceLast
  <2>7. ChoiceLast'
    BY <1>4, <1>5, <1>6, <1>7, <1>8, <1>9, <1>10, <2>1 DEF ChoiceLast
  <2>8. ChoiceMemory'
    BY <1>4, <1>5, <1>6, <1>7, <1>8, <1>9, <1>10, <2>1 DEF ChoiceMemory
  <2>9. AskedLast'
    BY <1>4, <1>5, <1>6, <1>7, <1>8, <1>9, <1>10, <2>1 DEF AskedLast
  <2>10. SavedLast'
    BY <1>4, <1>5, <1>6, <1>7, <1>8, <1>9, <1>10, <2>1 DEF SavedLast
  <2>11. WifiCarried'
    BY <1>4, <1>5, <1>6, <1>7, <1>8, <1>9, <1>10, <2>1 DEF WifiCarried
  <2>12. WifiRow'
    BY <1>4, <1>5, <1>6, <1>7, <1>8, <1>9, <1>10, <2>1 DEF WifiRow
  <2>13. WifiLast'
    BY <1>4, <1>5, <1>6, <1>7, <1>8, <1>9, <1>10, <2>1 DEF WifiLast
  <2> QED
    BY <2>2, <2>3, <2>4, <2>5, <2>6, <2>7, <2>8, <2>9, <2>10, <2>11, <2>12, <2>13 DEF ChoiceInv
<1>19. ASSUME ~failed', KillInv PROVE KillInv'
  <2>1. ~failed /\ KillRow /\ KillLoad /\ AskedLast /\ KillSaved /\ KillMemory
    BY <1>19, <1>s DEF KillInv
  <2>2. KillRow'
    BY <1>4, <1>5, <1>6, <1>7, <1>8, <1>9, <1>10, <1>1, <1>2, <1>3, <2>1 DEF KillRow
  <2>3. KillLoad'
    BY <1>4, <1>5, <1>6, <1>7, <1>8, <1>9, <1>10, <1>1, <1>2, <1>3, <2>1 DEF KillLoad
  <2>4. AskedLast'
    BY <1>4, <1>5, <1>6, <1>7, <1>8, <1>9, <1>10, <1>1, <1>2, <1>3, <2>1 DEF AskedLast
  <2>5. KillSaved'
    BY <1>4, <1>5, <1>6, <1>7, <1>8, <1>9, <1>10, <1>1, <1>2, <1>3, <2>1 DEF KillSaved
  <2>6. KillMemory'
    BY <1>4, <1>5, <1>6, <1>7, <1>8, <1>9, <1>10, <1>1, <1>2, <1>3, <2>1 DEF KillMemory
  <2> QED
    BY <2>2, <2>3, <2>4, <2>5, <2>6 DEF KillInv
<1> QED
  BY <1>s, <1>17, <1>18, <1>19 DEF Keeps, Sound

\* Adopt keeps the invariant.
LEMMA KeepsAdopt ==
    ASSUME RowInv, TypeOK', NEW t \in Tasks, Adopt(t) PROVE Keeps
<1> USE Standing DEF appVars, taskVars, dbVars, flagVars, bootVars, faultVars, history, boundVars
<1>0. TypeOK /\ QueueInv
  BY DEF RowInv
<1>s. failed' = failed /\ (Sound' => Sound)
  BY DEF Sound, Adopt
<1>1. Off /\ Loading /\ LoaderFirst /\ LoaderReads /\ RowIsLast /\ FlagRow
  BY DEF RowInv, LoadInv
<1>2. /\ \A x, y \in All : Ahead(x, y) => x # y /\ ~Ahead(y, x) /\ pc[x] # "idle" /\ pc[y] # "idle"
      /\ \A x \in Readers \cup Savers \cup Patchers \cup Unwritten \cup Written :
            x \in Tasks /\ x \in All /\ pc[x] # "idle"
      /\ Unwritten \subseteq Patchers /\ Written \subseteq Savers \cup Patchers
  BY InOrder
<1>3. /\ QueueInv' /\ pc[t] \in Answered
      /\ \A x, y \in All : Ahead(x, y)' <=> Ahead(x, y) /\ x # t
      /\ \A y \in All : pc[y] # "idle" => y = t \/ Ahead(t, y)
  BY <1>0, Dequeue DEF Adopt, Asking
<1>4. /\ running' = running /\ loaded' = loaded /\ mem' = value[t] /\ thrown' = thrown /\ Row' = Row
      /\ \A x \in All : pc'[x] = IF x = t THEN "idle" ELSE pc[x]
      /\ value' = value /\ asked' = asked /\ chosen' = chosen
  BY <1>0, <1>3 DEF TypeOK, Adopt, Row
<1>5. t \in Savers /\ t \in Written /\ t \notin Readers /\ t \notin Patchers /\ t \notin Unwritten /\ pc[t] # "idle"
  BY DEF Adopt, Readers, Savers, Patchers, Unwritten, Written
<1>6. pc[Loader] = "idle" /\ running /\ (loaded \/ failed)
  BY <1>1, <1>2, <1>3, <1>5 DEF Off, Loading, LoaderFirst
<1>7. /\ Written \ {t} = {} => Row = value[t]
      /\ Savers \ {t} = {} => Last(t, Savers)
      /\ Savers \ {t} = {} /\ Patchers = {} => Row = value[t]
  BY <1>1, <1>2, <1>5, Only DEF RowIsLast
<1>8. FlagToBe' = AutoStart(value[t]) /\ AutoStart(Row)' = AutoStart(Row)
  BY <1>0, <1>4, Mirrored DEF Adopt, TypeOK, AutoStart
<1>9. /\ Readers' = Readers /\ Savers' = Savers \ {t} /\ Patchers' = Patchers
      /\ Unwritten' = Unwritten /\ Written' = Written \ {t}
  BY <1>0, <1>3, <1>4, <1>5 DEF Readers, Savers, Patchers, Unwritten, Written
<1>10. ASSUME NEW u \in Tasks
      PROVE  /\ Last(u, Readers)' => Last(u, Readers)
             /\ Last(u, Savers)' => Last(u, Savers)
             /\ Last(u, Patchers)' => Last(u, Patchers)
             /\ Last(u, Unwritten)' => Last(u, Unwritten)
             /\ Last(u, Written)' => Last(u, Written)
  <2>1. Last(u, Readers)' => Last(u, Readers)
    BY <1>2, <1>3, <1>5, <1>9 DEF Last
  <2>2. Last(u, Savers)' => Last(u, Savers)
    BY <1>2, <1>3, <1>5, <1>9 DEF Last
  <2>3. Last(u, Patchers)' => Last(u, Patchers)
    BY <1>2, <1>3, <1>5, <1>9 DEF Last
  <2>4. Last(u, Unwritten)' => Last(u, Unwritten)
    BY <1>2, <1>3, <1>5, <1>9 DEF Last
  <2>5. Last(u, Written)' => Last(u, Written)
    BY <1>2, <1>3, <1>5, <1>9 DEF Last
  <2> QED
    BY <2>1, <2>2, <2>3, <2>4, <2>5
<1>11. Off'
  BY <1>1, <1>4, <1>5, <1>6, <1>7, <1>8, <1>9, <1>10 DEF Off
<1>12. Loading'
  BY <1>1, <1>4, <1>5, <1>6, <1>7, <1>8, <1>9, <1>10, <1>s DEF Loading
<1>13. LoaderFirst'
  BY <1>1, <1>2, <1>3, <1>4, <1>5, <1>6, <1>7, <1>8, <1>9 DEF LoaderFirst
<1>14. LoaderReads'
  BY <1>1, <1>4, <1>5, <1>6, <1>7, <1>8, <1>9, <1>10 DEF LoaderReads
<1>15. RowIsLast'
  BY <1>1, <1>4, <1>5, <1>6, <1>7, <1>8, <1>9, <1>10 DEF RowIsLast
<1>16. FlagRow'
  BY <1>1, <1>4, <1>5, <1>6, <1>7, <1>8, <1>9, <1>10 DEF FlagRow
<1>17. RowInv'
  BY <1>3, <1>11, <1>12, <1>13, <1>14, <1>15, <1>16 DEF RowInv, LoadInv
<1>18. ASSUME Sound', ChoiceInv PROVE ChoiceInv'
  <2>1. /\ WaitsForLoad /\ PatchFirst /\ MemoryRow /\ MemoryLast
        /\ ChoiceRow /\ ChoiceLast /\ ChoiceMemory /\ AskedLast
        /\ SavedLast /\ WifiCarried /\ WifiRow /\ WifiLast
    BY <1>18 DEF ChoiceInv
  <2>2. Patchers = {} /\ Unwritten = {}
    BY <1>2, <1>3, <1>5, <2>1 DEF PatchFirst
  <2>3. WaitsForLoad'
    BY <1>4, <1>5, <1>6, <1>7, <1>8, <1>9, <1>10, <2>1, <2>2 DEF WaitsForLoad
  <2>4. PatchFirst'
    BY <1>2, <1>3, <1>4, <1>5, <1>6, <1>7, <1>8, <1>9, <2>1, <2>2 DEF PatchFirst
  <2>5. MemoryRow'
    BY <1>4, <1>5, <1>6, <1>7, <1>8, <1>9, <1>10, <2>1, <2>2 DEF MemoryRow
  <2>6. MemoryLast'
    BY <1>4, <1>5, <1>6, <1>7, <1>8, <1>9, <1>10, <2>1, <2>2 DEF MemoryLast, Last
  <2>7. ChoiceRow'
    BY <1>4, <1>5, <1>6, <1>7, <1>8, <1>9, <1>10, <2>1, <2>2 DEF ChoiceRow, SavedLast
  <2>8. ChoiceLast'
    BY <1>4, <1>5, <1>6, <1>7, <1>8, <1>9, <1>10, <2>1, <2>2 DEF ChoiceLast, Last
  <2>9. ChoiceMemory'
    BY <1>4, <1>5, <1>6, <1>7, <1>8, <1>9, <1>10, <2>1, <2>2 DEF ChoiceMemory, SavedLast
  <2>10. AskedLast'
    BY <1>4, <1>5, <1>6, <1>7, <1>8, <1>9, <1>10, <2>1, <2>2 DEF AskedLast
  <2>11. SavedLast'
    BY <1>4, <1>5, <1>6, <1>7, <1>8, <1>9, <1>10, <2>1, <2>2 DEF SavedLast
  <2>12. WifiCarried'
    BY <1>4, <1>5, <1>6, <1>7, <1>8, <1>9, <1>10, <2>1, <2>2 DEF WifiCarried
  <2>13. WifiRow'
    BY <1>4, <1>5, <1>6, <1>7, <1>8, <1>9, <1>10, <2>1, <2>2 DEF WifiRow
  <2>14. WifiLast'
    BY <1>4, <1>5, <1>6, <1>7, <1>8, <1>9, <1>10, <2>1, <2>2 DEF WifiLast
  <2> QED
    BY <2>3, <2>4, <2>5, <2>6, <2>7, <2>8, <2>9, <2>10, <2>11, <2>12, <2>13, <2>14 DEF ChoiceInv
<1>19. ASSUME ~failed', KillInv PROVE KillInv'
  <2>1. ~failed /\ KillRow /\ KillLoad /\ AskedLast /\ KillSaved /\ KillMemory
    BY <1>19, <1>s DEF KillInv
  <2>2. loaded /\ pc'[Loader] # "read"
    BY <1>1, <1>4, <1>6, <2>1 DEF Loading
  <2>3. KillRow'
    BY <1>4, <1>5, <1>6, <1>7, <1>8, <1>9, <1>10, <1>1, <1>2, <1>3, <1>s, <2>1, <2>2 DEF KillRow
  <2>4. KillLoad'
    BY <1>4, <1>5, <1>6, <1>7, <1>8, <1>9, <1>10, <1>1, <1>2, <1>3, <1>s, <2>1, <2>2 DEF KillLoad
  <2>5. AskedLast'
    BY <1>4, <1>5, <1>6, <1>7, <1>8, <1>9, <1>10, <1>1, <1>2, <1>3, <1>s, <2>1, <2>2 DEF AskedLast
  <2>6. KillSaved'
    BY <1>4, <1>5, <1>6, <1>7, <1>8, <1>9, <1>10, <1>1, <1>2, <1>3, <1>s, <2>1, <2>2 DEF KillSaved
  <2>7. KillMemory'
    BY <1>4, <1>5, <1>6, <1>7, <1>8, <1>9, <1>10, <1>1, <1>2, <1>3, <1>s, <2>1, <2>2 DEF KillMemory, KillSaved
  <2> QED
    BY <2>3, <2>4, <2>5, <2>6, <2>7 DEF KillInv
<1> QED
  BY <1>s, <1>17, <1>18, <1>19 DEF Keeps, Sound

\* ToggleThrows keeps the invariant.
LEMMA KeepsToggleThrows ==
    ASSUME RowInv, TypeOK', NEW t \in Tasks, ToggleThrows(t) PROVE Keeps
<1> USE Standing DEF appVars, taskVars, dbVars, flagVars, bootVars, faultVars, history, boundVars
<1>0. TypeOK /\ QueueInv
  BY DEF RowInv
<1>s. failed' = failed /\ (Sound' => Sound)
  BY DEF Sound, ToggleThrows
<1>1. Off /\ Loading /\ LoaderFirst /\ LoaderReads /\ RowIsLast /\ FlagRow
  BY DEF RowInv, LoadInv
<1>2. /\ \A x, y \in All : Ahead(x, y) => x # y /\ ~Ahead(y, x) /\ pc[x] # "idle" /\ pc[y] # "idle"
      /\ \A x \in Readers \cup Savers \cup Patchers \cup Unwritten \cup Written :
            x \in Tasks /\ x \in All /\ pc[x] # "idle"
      /\ Unwritten \subseteq Patchers /\ Written \subseteq Savers \cup Patchers
  BY InOrder
<1>3. /\ QueueInv' /\ pc[t] \in Answered
      /\ \A x, y \in All : Ahead(x, y)' <=> Ahead(x, y) /\ x # t
      /\ \A y \in All : pc[y] # "idle" => y = t \/ Ahead(t, y)
  BY <1>0, Dequeue DEF ToggleThrows, Asking
<1>4. /\ running' = running /\ loaded' = loaded /\ mem' = mem /\ thrown' /\ Row' = Row
      /\ \A x \in All : pc'[x] = IF x = t THEN "idle" ELSE pc[x]
      /\ value' = value /\ asked' = asked /\ chosen' = chosen
  BY <1>0, <1>3 DEF TypeOK, ToggleThrows, Row
<1>5. t \in Savers /\ t \in Written /\ t \notin Readers /\ t \notin Patchers /\ t \notin Unwritten /\ pc[t] # "idle"
  BY DEF ToggleThrows, Readers, Savers, Patchers, Unwritten, Written
<1>6. pc[Loader] = "idle" /\ running /\ (loaded \/ failed)
  BY <1>1, <1>2, <1>3, <1>5 DEF Off, Loading, LoaderFirst
<1>7. /\ Written \ {t} = {} => Row = value[t]
      /\ Savers \ {t} = {} => Last(t, Savers)
      /\ Savers \ {t} = {} /\ Patchers = {} => Row = value[t]
  BY <1>1, <1>2, <1>5, Only DEF RowIsLast
<1>8. /\ Readers' = Readers /\ Savers' = Savers \ {t} /\ Patchers' = Patchers
      /\ Unwritten' = Unwritten /\ Written' = Written \ {t}
  BY <1>0, <1>3, <1>4, <1>5 DEF Readers, Savers, Patchers, Unwritten, Written
<1>9. ASSUME NEW u \in Tasks
      PROVE  /\ Last(u, Readers)' => Last(u, Readers)
             /\ Last(u, Savers)' => Last(u, Savers)
             /\ Last(u, Patchers)' => Last(u, Patchers)
             /\ Last(u, Unwritten)' => Last(u, Unwritten)
             /\ Last(u, Written)' => Last(u, Written)
  <2>1. Last(u, Readers)' => Last(u, Readers)
    BY <1>2, <1>3, <1>5, <1>8 DEF Last
  <2>2. Last(u, Savers)' => Last(u, Savers)
    BY <1>2, <1>3, <1>5, <1>8 DEF Last
  <2>3. Last(u, Patchers)' => Last(u, Patchers)
    BY <1>2, <1>3, <1>5, <1>8 DEF Last
  <2>4. Last(u, Unwritten)' => Last(u, Unwritten)
    BY <1>2, <1>3, <1>5, <1>8 DEF Last
  <2>5. Last(u, Written)' => Last(u, Written)
    BY <1>2, <1>3, <1>5, <1>8 DEF Last
  <2> QED
    BY <2>1, <2>2, <2>3, <2>4, <2>5
<1>10. Off'
  BY <1>1, <1>4, <1>5, <1>6, <1>7, <1>8, <1>9 DEF Off
<1>11. Loading'
  BY <1>1, <1>4, <1>5, <1>6, <1>7, <1>8, <1>9, <1>s DEF Loading
<1>12. LoaderFirst'
  BY <1>1, <1>2, <1>3, <1>4, <1>5, <1>6, <1>7, <1>8 DEF LoaderFirst
<1>13. LoaderReads'
  BY <1>1, <1>4, <1>5, <1>6, <1>7, <1>8, <1>9 DEF LoaderReads
<1>14. RowIsLast'
  BY <1>1, <1>4, <1>5, <1>6, <1>7, <1>8, <1>9 DEF RowIsLast
<1>15. FlagRow'
  BY <1>1, <1>4, <1>5, <1>6, <1>7, <1>8, <1>9 DEF FlagRow
<1>16. RowInv'
  BY <1>3, <1>10, <1>11, <1>12, <1>13, <1>14, <1>15 DEF RowInv, LoadInv
<1>17. ASSUME Sound', ChoiceInv PROVE ChoiceInv'
  <2>1. /\ WaitsForLoad /\ PatchFirst /\ MemoryRow /\ MemoryLast
        /\ ChoiceRow /\ ChoiceLast /\ ChoiceMemory /\ AskedLast
        /\ SavedLast /\ WifiCarried /\ WifiRow /\ WifiLast
    BY <1>17 DEF ChoiceInv
  <2>2. Patchers = {} /\ Unwritten = {}
    BY <1>2, <1>3, <1>5, <2>1 DEF PatchFirst
  <2>3. WaitsForLoad'
    BY <1>4, <1>5, <1>6, <1>7, <1>8, <1>9, <2>1, <2>2 DEF WaitsForLoad
  <2>4. PatchFirst'
    BY <1>2, <1>3, <1>4, <1>5, <1>6, <1>7, <1>8, <2>1, <2>2 DEF PatchFirst
  <2>5. MemoryRow'
    BY <1>4, <1>5, <1>6, <1>7, <1>8, <1>9, <2>1, <2>2 DEF MemoryRow
  <2>6. MemoryLast'
    BY <1>4, <1>5, <1>6, <1>7, <1>8, <1>9, <2>1, <2>2 DEF MemoryLast
  <2>7. ChoiceRow'
    BY <1>4, <1>5, <1>6, <1>7, <1>8, <1>9, <2>1, <2>2 DEF ChoiceRow, SavedLast
  <2>8. ChoiceLast'
    BY <1>4, <1>5, <1>6, <1>7, <1>8, <1>9, <2>1, <2>2 DEF ChoiceLast, Last
  <2>9. ChoiceMemory'
    BY <1>4, <1>5, <1>6, <1>7, <1>8, <1>9, <2>1, <2>2 DEF ChoiceMemory
  <2>10. AskedLast'
    BY <1>4, <1>5, <1>6, <1>7, <1>8, <1>9, <2>1, <2>2 DEF AskedLast
  <2>11. SavedLast'
    BY <1>4, <1>5, <1>6, <1>7, <1>8, <1>9, <2>1, <2>2 DEF SavedLast
  <2>12. WifiCarried'
    BY <1>4, <1>5, <1>6, <1>7, <1>8, <1>9, <2>1, <2>2 DEF WifiCarried
  <2>13. WifiRow'
    BY <1>4, <1>5, <1>6, <1>7, <1>8, <1>9, <2>1, <2>2 DEF WifiRow
  <2>14. WifiLast'
    BY <1>4, <1>5, <1>6, <1>7, <1>8, <1>9, <2>1, <2>2 DEF WifiLast
  <2> QED
    BY <2>3, <2>4, <2>5, <2>6, <2>7, <2>8, <2>9, <2>10, <2>11, <2>12, <2>13, <2>14 DEF ChoiceInv
<1>18. ASSUME ~failed', KillInv PROVE KillInv'
  <2>1. ~failed /\ KillRow /\ KillLoad /\ AskedLast /\ KillSaved /\ KillMemory
    BY <1>18, <1>s DEF KillInv
  <2>2. loaded /\ pc'[Loader] # "read"
    BY <1>1, <1>4, <1>6, <2>1 DEF Loading
  <2>3. KillRow'
    BY <1>4, <1>5, <1>6, <1>7, <1>8, <1>9, <1>1, <1>2, <1>3, <1>s, <2>1, <2>2 DEF KillRow
  <2>4. KillLoad'
    BY <1>4, <1>5, <1>6, <1>7, <1>8, <1>9, <1>1, <1>2, <1>3, <1>s, <2>1, <2>2 DEF KillLoad
  <2>5. AskedLast'
    BY <1>4, <1>5, <1>6, <1>7, <1>8, <1>9, <1>1, <1>2, <1>3, <1>s, <2>1, <2>2 DEF AskedLast
  <2>6. KillSaved'
    BY <1>4, <1>5, <1>6, <1>7, <1>8, <1>9, <1>1, <1>2, <1>3, <1>s, <2>1, <2>2 DEF KillSaved
  <2>7. KillMemory'
    BY <1>4, <1>5, <1>6, <1>7, <1>8, <1>9, <1>1, <1>2, <1>3, <1>s, <2>1, <2>2 DEF KillMemory
  <2> QED
    BY <2>3, <2>4, <2>5, <2>6, <2>7 DEF KillInv
<1> QED
  BY <1>s, <1>16, <1>17, <1>18 DEF Keeps, Sound

\* Patch keeps the invariant.
LEMMA KeepsPatch ==
    ASSUME RowInv, TypeOK', NEW t \in Tasks, NEW on \in BOOLEAN, Patch(t, on) PROVE Keeps
<1> USE Standing DEF appVars, taskVars, dbVars, flagVars, bootVars, faultVars, history, boundVars
<1>0. TypeOK /\ QueueInv
  BY DEF RowInv
<1>s. failed' = failed /\ (Sound' => Sound)
  BY DEF Sound, Patch
<1>1. Off /\ Loading /\ LoaderFirst /\ LoaderReads /\ RowIsLast /\ FlagRow
  BY DEF RowInv, LoadInv
<1>2. /\ \A x, y \in All : Ahead(x, y) => x # y /\ ~Ahead(y, x) /\ pc[x] # "idle" /\ pc[y] # "idle"
      /\ \A x \in Readers \cup Savers \cup Patchers \cup Unwritten \cup Written :
            x \in Tasks /\ x \in All /\ pc[x] # "idle"
      /\ Unwritten \subseteq Patchers /\ Written \subseteq Savers \cup Patchers
  BY InOrder
<1>3. QueueInv' /\ \A x, y \in All : Ahead(x, y)' <=> Ahead(x, y) \/ (pc[x] # "idle" /\ y = t)
  BY <1>0, Enqueue DEF Patch, Asking, MayChange
<1>4. /\ running' = running /\ loaded' = loaded /\ Row' = Row /\ mem' = [mem EXCEPT !.autoWifi = on]
      /\ \A x \in All : pc'[x] = IF x = t THEN "writing" ELSE pc[x]
      /\ \A x \in All : value'[x] = IF x = t THEN mem' ELSE value[x]
      /\ asked' = asked /\ thrown' = thrown /\ chosen' = [chosen EXCEPT !.autoWifi = on]
  BY <1>0, <1>3 DEF TypeOK, Patch, Row, MayChange
<1>5. t \notin Written /\ pc[t] = "idle" /\ running
  BY DEF Patch, MayChange, Written
<1>6. /\ Readers' = Readers /\ Savers' = Savers /\ Patchers' = Patchers \cup {t}
      /\ Unwritten' = Unwritten \cup {t} /\ Written' = Written
  BY <1>0, <1>3, <1>4, <1>5 DEF Readers, Savers, Patchers, Unwritten, Written
<1>7. ASSUME NEW u \in Tasks
      PROVE  /\ Last(u, Readers)' => Last(u, Readers)
             /\ Last(u, Savers)' => Last(u, Savers)
             /\ Last(u, Patchers)' => u = t
             /\ Last(u, Unwritten)' => u = t
             /\ Last(u, Written)' => Last(u, Written)
  <2>1. Last(u, Readers)' => Last(u, Readers)
    BY <1>2, <1>3, <1>5, <1>6 DEF Last
  <2>2. Last(u, Savers)' => Last(u, Savers)
    BY <1>2, <1>3, <1>5, <1>6 DEF Last
  <2>3. Last(u, Patchers)' => u = t
    BY <1>2, <1>3, <1>5, <1>6 DEF Last
  <2>4. Last(u, Unwritten)' => u = t
    BY <1>2, <1>3, <1>5, <1>6 DEF Last
  <2>5. Last(u, Written)' => Last(u, Written)
    BY <1>2, <1>3, <1>5, <1>6 DEF Last
  <2> QED
    BY <2>1, <2>2, <2>3, <2>4, <2>5
<1>8. Off'
  BY <1>1, <1>4, <1>5, <1>6, <1>7 DEF Off
<1>9. Loading'
  BY <1>1, <1>4, <1>5, <1>6, <1>7, <1>s DEF Loading
<1>10. LoaderFirst'
  BY <1>1, <1>2, <1>3, <1>4, <1>5, <1>6 DEF LoaderFirst
<1>11. LoaderReads'
  BY <1>1, <1>4, <1>5, <1>6, <1>7 DEF LoaderReads
<1>12. RowIsLast'
  BY <1>1, <1>2, <1>4, <1>5, <1>6, <1>7 DEF RowIsLast, Last
<1>13. FlagRow'
  <2>1. FlagToBe' = FlagToBe /\ AutoStart(Row)' = AutoStart(Row)
    BY <1>4 DEF Patch, FlagToBe, AutoStart
  <2> QED
    BY <1>1, <1>4, <1>5, <1>6, <1>7, <2>1 DEF FlagRow
<1>14. RowInv'
  BY <1>3, <1>8, <1>9, <1>10, <1>11, <1>12, <1>13 DEF RowInv, LoadInv
<1>15. ASSUME Sound', ChoiceInv PROVE ChoiceInv'
  <2>0. Current
    BY <1>15 DEF Patch, Sound
  <2>1. /\ WaitsForLoad /\ PatchFirst /\ MemoryRow /\ MemoryLast
        /\ ChoiceRow /\ ChoiceLast /\ ChoiceMemory /\ AskedLast
        /\ SavedLast /\ WifiCarried /\ WifiRow /\ WifiLast
    BY <1>15 DEF ChoiceInv
  <2>2. loaded /\ ~thrown /\ Readers = {} /\ Savers = {}
    BY <2>0 DEF Current, Toggling, Readers, Savers
  <2>3. mem' = chosen'
    BY <1>4, <2>1, <2>2 DEF ChoiceMemory
  <2>4. WaitsForLoad'
    BY <1>4, <1>5, <1>6, <1>7, <2>1, <2>2, <2>3 DEF WaitsForLoad
  <2>5. PatchFirst'
    BY <1>2, <1>3, <1>4, <1>5, <1>6, <2>1, <2>2, <2>3 DEF PatchFirst
  <2>6. MemoryRow'
    BY <1>4, <1>5, <1>6, <1>7, <2>1, <2>2, <2>3 DEF MemoryRow
  <2>7. MemoryLast'
    BY <1>4, <1>5, <1>6, <1>7, <2>1, <2>2, <2>3 DEF MemoryLast
  <2>8. ChoiceRow'
    BY <1>4, <1>5, <1>6, <1>7, <2>1, <2>2, <2>3 DEF ChoiceRow
  <2>9. ChoiceLast'
    BY <1>4, <1>5, <1>6, <1>7, <2>1, <2>2, <2>3 DEF ChoiceLast
  <2>10. ChoiceMemory'
    BY <1>4, <1>5, <1>6, <1>7, <2>1, <2>2, <2>3 DEF ChoiceMemory
  <2>11. AskedLast'
    BY <1>4, <1>5, <1>6, <1>7, <2>1, <2>2, <2>3 DEF AskedLast
  <2>12. SavedLast'
    BY <1>4, <1>5, <1>6, <1>7, <2>1, <2>2, <2>3 DEF SavedLast, Last
  <2>13. WifiCarried'
    BY <1>4, <1>5, <1>6, <1>7, <2>1, <2>2, <2>3 DEF WifiCarried, Readers
  <2>14. WifiRow'
    BY <1>4, <1>5, <1>6, <1>7, <2>1, <2>2, <2>3 DEF WifiRow
  <2>15. WifiLast'
    BY <1>4, <1>5, <1>6, <1>7, <2>1, <2>2, <2>3 DEF WifiLast
  <2> QED
    BY <2>4, <2>5, <2>6, <2>7, <2>8, <2>9, <2>10, <2>11, <2>12, <2>13, <2>14, <2>15 DEF ChoiceInv
<1>16. ASSUME ~failed', KillInv PROVE KillInv'
  <2>1. ~failed /\ KillRow /\ KillLoad /\ AskedLast /\ KillSaved /\ KillMemory
    BY <1>16, <1>s DEF KillInv
  <2>2. mem'.killSwitch = mem.killSwitch /\ chosen'.killSwitch = chosen.killSwitch
    BY <1>0, <1>4 DEF TypeOK, AppSettings
  <2>3. KillRow'
    BY <1>4, <1>5, <1>6, <1>7, <1>1, <1>2, <1>3, <2>1, <2>2 DEF KillRow
  <2>4. KillLoad'
    BY <1>4, <1>5, <1>6, <1>7, <1>1, <1>2, <1>3, <2>1, <2>2 DEF KillLoad
  <2>5. AskedLast'
    BY <1>4, <1>5, <1>6, <1>7, <1>1, <1>2, <1>3, <2>1, <2>2 DEF AskedLast
  <2>6. KillSaved'
    BY <1>4, <1>5, <1>6, <1>7, <1>1, <1>2, <1>3, <2>1, <2>2 DEF KillSaved, Last
  <2>7. KillMemory'
    BY <1>4, <1>5, <1>6, <1>7, <1>1, <1>2, <1>3, <2>1, <2>2 DEF KillMemory
  <2> QED
    BY <2>3, <2>4, <2>5, <2>6, <2>7 DEF KillInv
<1> QED
  BY <1>s, <1>14, <1>15, <1>16 DEF Keeps, Sound

\* Toggle keeps the invariant.
LEMMA KeepsToggle ==
    ASSUME RowInv, TypeOK', NEW t \in Tasks, NEW on \in BOOLEAN, Toggle(t, on) PROVE Keeps
<1> USE Standing DEF appVars, taskVars, dbVars, flagVars, bootVars, faultVars, history, boundVars
<1>0. TypeOK /\ QueueInv
  BY DEF RowInv
<1>s. failed' = failed /\ (Sound' => Sound)
  BY DEF Sound, Toggle
<1>1. Off /\ Loading /\ LoaderFirst /\ LoaderReads /\ RowIsLast /\ FlagRow
  BY DEF RowInv, LoadInv
<1>2. /\ \A x, y \in All : Ahead(x, y) => x # y /\ ~Ahead(y, x) /\ pc[x] # "idle" /\ pc[y] # "idle"
      /\ \A x \in Readers \cup Savers \cup Patchers \cup Unwritten \cup Written :
            x \in Tasks /\ x \in All /\ pc[x] # "idle"
      /\ Unwritten \subseteq Patchers /\ Written \subseteq Savers \cup Patchers
  BY InOrder
<1>3. QueueInv' /\ \A x, y \in All : Ahead(x, y)' <=> Ahead(x, y) \/ (pc[x] # "idle" /\ y = t)
  BY <1>0, Enqueue DEF Toggle, Asking, MayChange
<1>4. /\ running' = running /\ loaded' = loaded /\ Row' = Row /\ mem' = mem
      /\ \A x \in All : pc'[x] = IF x = t THEN "toggleReading" ELSE pc[x]
      /\ value' = value /\ thrown' = thrown
      /\ asked'[t] = on /\ chosen'.killSwitch = on /\ chosen'.autoWifi = chosen.autoWifi
  BY <1>0, <1>3 DEF TypeOK, Toggle, Row, MayChange
<1>5. running /\ pc[t] = "idle" /\ t \notin Patchers /\ t \notin Savers
  BY DEF Toggle, MayChange, Patchers, Savers
<1>6. FlagToBe' = FlagToBe /\ AutoStart(Row)' = AutoStart(Row)
  BY <1>4 DEF Toggle, FlagToBe, AutoStart
<1>7. /\ Readers' = Readers \cup {t} /\ Savers' = Savers /\ Patchers' = Patchers
      /\ Unwritten' = Unwritten /\ Written' = Written
  BY <1>0, <1>3, <1>4, <1>5 DEF Readers, Savers, Patchers, Unwritten, Written
<1>8. ASSUME NEW u \in Tasks
      PROVE  /\ Last(u, Readers)' => u = t
             /\ Last(u, Savers)' => Last(u, Savers)
             /\ Last(u, Patchers)' => Last(u, Patchers)
             /\ Last(u, Unwritten)' => Last(u, Unwritten)
             /\ Last(u, Written)' => Last(u, Written)
  <2>1. Last(u, Readers)' => u = t
    BY <1>2, <1>3, <1>5, <1>7 DEF Last
  <2>2. Last(u, Savers)' => Last(u, Savers)
    BY <1>2, <1>3, <1>5, <1>7 DEF Last
  <2>3. Last(u, Patchers)' => Last(u, Patchers)
    BY <1>2, <1>3, <1>5, <1>7 DEF Last
  <2>4. Last(u, Unwritten)' => Last(u, Unwritten)
    BY <1>2, <1>3, <1>5, <1>7 DEF Last
  <2>5. Last(u, Written)' => Last(u, Written)
    BY <1>2, <1>3, <1>5, <1>7 DEF Last
  <2> QED
    BY <2>1, <2>2, <2>3, <2>4, <2>5
<1>9. Off'
  BY <1>1, <1>4, <1>5, <1>6, <1>7, <1>8 DEF Off
<1>10. Loading'
  BY <1>1, <1>4, <1>5, <1>6, <1>7, <1>8, <1>s DEF Loading
<1>11. LoaderFirst'
  BY <1>1, <1>2, <1>3, <1>4, <1>5, <1>6, <1>7 DEF LoaderFirst
<1>12. LoaderReads'
  BY <1>1, <1>4, <1>5, <1>6, <1>7, <1>8 DEF LoaderReads
<1>13. RowIsLast'
  BY <1>1, <1>4, <1>5, <1>6, <1>7, <1>8 DEF RowIsLast
<1>14. FlagRow'
  BY <1>1, <1>4, <1>5, <1>6, <1>7, <1>8 DEF FlagRow
<1>15. RowInv'
  BY <1>3, <1>9, <1>10, <1>11, <1>12, <1>13, <1>14 DEF RowInv, LoadInv
<1>16. ASSUME Sound', ChoiceInv PROVE ChoiceInv'
  <2>1. /\ WaitsForLoad /\ PatchFirst /\ MemoryRow /\ MemoryLast
        /\ ChoiceRow /\ ChoiceLast /\ ChoiceMemory /\ AskedLast
        /\ SavedLast /\ WifiCarried /\ WifiRow /\ WifiLast
    BY <1>16 DEF ChoiceInv
  <2>2. WaitsForLoad'
    BY <1>4, <1>5, <1>6, <1>7, <1>8, <2>1 DEF WaitsForLoad
  <2>3. PatchFirst'
    BY <1>2, <1>3, <1>4, <1>5, <1>6, <1>7, <2>1 DEF PatchFirst
  <2>4. MemoryRow'
    BY <1>4, <1>5, <1>6, <1>7, <1>8, <2>1 DEF MemoryRow
  <2>5. MemoryLast'
    BY <1>4, <1>5, <1>6, <1>7, <1>8, <2>1 DEF MemoryLast
  <2>6. ChoiceRow'
    BY <1>4, <1>5, <1>6, <1>7, <1>8, <2>1 DEF ChoiceRow
  <2>7. ChoiceLast'
    BY <1>4, <1>5, <1>6, <1>7, <1>8, <2>1 DEF ChoiceLast
  <2>8. ChoiceMemory'
    BY <1>4, <1>5, <1>6, <1>7, <1>8, <2>1 DEF ChoiceMemory
  <2>9. AskedLast'
    BY <1>4, <1>5, <1>6, <1>7, <1>8, <2>1 DEF AskedLast
  <2>10. SavedLast'
    BY <1>4, <1>5, <1>6, <1>7, <1>8, <2>1 DEF SavedLast
  <2>11. WifiCarried'
    BY <1>4, <1>5, <1>6, <1>7, <1>8, <2>1 DEF WifiCarried
  <2>12. WifiRow'
    BY <1>4, <1>5, <1>6, <1>7, <1>8, <2>1 DEF WifiRow
  <2>13. WifiLast'
    BY <1>4, <1>5, <1>6, <1>7, <1>8, <2>1 DEF WifiLast
  <2> QED
    BY <2>2, <2>3, <2>4, <2>5, <2>6, <2>7, <2>8, <2>9, <2>10, <2>11, <2>12, <2>13 DEF ChoiceInv
<1>17. ASSUME ~failed', KillInv PROVE KillInv'
  <2>1. ~failed /\ KillRow /\ KillLoad /\ AskedLast /\ KillSaved /\ KillMemory
    BY <1>17, <1>s DEF KillInv
  <2>2. KillRow'
    BY <1>4, <1>5, <1>6, <1>7, <1>8, <1>1, <1>2, <1>3, <2>1 DEF KillRow
  <2>3. KillLoad'
    BY <1>4, <1>5, <1>6, <1>7, <1>8, <1>1, <1>2, <1>3, <2>1 DEF KillLoad
  <2>4. AskedLast'
    BY <1>4, <1>5, <1>6, <1>7, <1>8, <1>1, <1>2, <1>3, <2>1 DEF AskedLast
  <2>5. KillSaved'
    BY <1>4, <1>5, <1>6, <1>7, <1>8, <1>1, <1>2, <1>3, <2>1 DEF KillSaved
  <2>6. KillMemory'
    BY <1>4, <1>5, <1>6, <1>7, <1>8, <1>1, <1>2, <1>3, <2>1 DEF KillMemory
  <2> QED
    BY <2>2, <2>3, <2>4, <2>5, <2>6 DEF KillInv
<1> QED
  BY <1>s, <1>15, <1>16, <1>17 DEF Keeps, Sound

\* ToggleSave keeps the invariant.
LEMMA KeepsToggleSave ==
    ASSUME RowInv, TypeOK', NEW t \in Tasks, ToggleSave(t) PROVE Keeps
<1> USE Standing DEF appVars, taskVars, dbVars, flagVars, bootVars, faultVars, history, boundVars
<1>0. TypeOK /\ QueueInv
  BY DEF RowInv
<1>s. failed' = failed /\ (Sound' => Sound)
  BY DEF Sound, ToggleSave
<1>1. Off /\ Loading /\ LoaderFirst /\ LoaderReads /\ RowIsLast /\ FlagRow
  BY DEF RowInv, LoadInv
<1>2. /\ \A x, y \in All : Ahead(x, y) => x # y /\ ~Ahead(y, x) /\ pc[x] # "idle" /\ pc[y] # "idle"
      /\ \A x \in Readers \cup Savers \cup Patchers \cup Unwritten \cup Written :
            x \in Tasks /\ x \in All /\ pc[x] # "idle"
      /\ Unwritten \subseteq Patchers /\ Written \subseteq Savers \cup Patchers
  BY InOrder
<1>3. /\ QueueInv' /\ pc[t] \in Answered
      /\ \A x, y \in All : Ahead(x, y)' <=> x # t /\ (Ahead(x, y) \/ (pc[x] # "idle" /\ y = t))
      /\ \A y \in All : pc[y] # "idle" => y = t \/ Ahead(t, y)
  BY <1>0, Requeue DEF ToggleSave, Asking
<1>4. /\ running' = running /\ loaded' = loaded /\ Row' = Row /\ mem' = mem
      /\ \A x \in All : pc'[x] = IF x = t THEN "toggleWriting" ELSE pc[x]
      /\ \A x \in All : value'[x] = IF x = t THEN [value[t] EXCEPT !.killSwitch = asked[t]] ELSE value[x]
      /\ asked' = asked /\ thrown' = thrown /\ chosen' = chosen
  BY <1>0, <1>3 DEF TypeOK, ToggleSave, Row
<1>5. /\ pc[t] = "toggleRead" /\ t \in Readers /\ t \notin Savers /\ t \notin Patchers
      /\ t \notin Unwritten /\ t \notin Written
  BY DEF ToggleSave, Readers, Savers, Patchers, Unwritten, Written
<1>6. pc[Loader] = "idle" /\ running /\ (loaded \/ failed)
  BY <1>1, <1>2, <1>3, <1>5 DEF Off, Loading, LoaderFirst
<1>7. /\ Readers' = Readers \ {t} /\ Savers' = Savers \cup {t} /\ Patchers' = Patchers
      /\ Unwritten' = Unwritten /\ Written' = Written
  BY <1>0, <1>3, <1>4, <1>5 DEF Readers, Savers, Patchers, Unwritten, Written
<1>8. ASSUME NEW u \in Tasks
      PROVE  /\ Last(u, Readers)' => Last(u, Readers)
             /\ Last(u, Savers)' => u = t
             /\ Last(u, Patchers)' => Last(u, Patchers)
             /\ Last(u, Unwritten)' => Last(u, Unwritten)
             /\ Last(u, Written)' => Last(u, Written)
  <2>1. Last(u, Readers)' => Last(u, Readers)
    BY <1>2, <1>3, <1>5, <1>7 DEF Last
  <2>2. Last(u, Savers)' => u = t
    BY <1>2, <1>3, <1>5, <1>7 DEF Last
  <2>3. Last(u, Patchers)' => Last(u, Patchers)
    BY <1>2, <1>3, <1>5, <1>7 DEF Last
  <2>4. Last(u, Unwritten)' => Last(u, Unwritten)
    BY <1>2, <1>3, <1>5, <1>7 DEF Last
  <2>5. Last(u, Written)' => Last(u, Written)
    BY <1>2, <1>3, <1>5, <1>7 DEF Last
  <2> QED
    BY <2>1, <2>2, <2>3, <2>4, <2>5
<1>9. Off'
  BY <1>1, <1>4, <1>5, <1>6, <1>7, <1>8 DEF Off
<1>10. Loading'
  BY <1>1, <1>4, <1>5, <1>6, <1>7, <1>8, <1>s DEF Loading
<1>11. LoaderFirst'
  BY <1>1, <1>2, <1>3, <1>4, <1>5, <1>6, <1>7 DEF LoaderFirst
<1>12. LoaderReads'
  BY <1>1, <1>4, <1>5, <1>6, <1>7, <1>8 DEF LoaderReads
<1>13. RowIsLast'
  BY <1>1, <1>2, <1>4, <1>5, <1>6, <1>7, <1>8 DEF RowIsLast, Last
<1>14. FlagRow'
  <2>1. FlagToBe' = FlagToBe /\ AutoStart(Row)' = AutoStart(Row)
    BY <1>4 DEF ToggleSave, FlagToBe, AutoStart
  <2> QED
    BY <1>1, <1>4, <1>5, <1>6, <1>7, <1>8, <2>1 DEF FlagRow
<1>15. RowInv'
  BY <1>3, <1>9, <1>10, <1>11, <1>12, <1>13, <1>14 DEF RowInv, LoadInv
<1>16. ASSUME Sound', ChoiceInv PROVE ChoiceInv'
  <2>1. /\ WaitsForLoad /\ PatchFirst /\ MemoryRow /\ MemoryLast
        /\ ChoiceRow /\ ChoiceLast /\ ChoiceMemory /\ AskedLast
        /\ SavedLast /\ WifiCarried /\ WifiRow /\ WifiLast
    BY <1>16 DEF ChoiceInv
  <2>2. Patchers = {} /\ Unwritten = {}
    BY <1>2, <1>3, <1>5, <2>1 DEF PatchFirst
  <2>3. Readers \ {t} = {} => value'[t] = chosen
    <3>1. SUFFICES ASSUME Readers \ {t} = {} PROVE value'[t] = chosen
      OBVIOUS
    <3>2. Last(t, Readers)
      BY <1>5, <3>1, Only
    <3>3. asked[t] = chosen.killSwitch /\ value[t].autoWifi = chosen.autoWifi
      BY <1>5, <2>1, <3>2 DEF AskedLast, WifiCarried
    <3>4. value[t] \in AppSettings /\ chosen \in AppSettings
      BY <1>0 DEF TypeOK
    <3> QED
      BY <1>4, <3>3, <3>4 DEF AppSettings
  <2>4. WaitsForLoad'
    BY <1>16, <1>s, <1>4, <1>5, <1>6, <1>7, <1>8, <2>1, <2>2, <2>3 DEF WaitsForLoad, Sound
  <2>5. PatchFirst'
    BY <1>2, <1>3, <1>4, <1>5, <1>6, <1>7, <2>1, <2>2, <2>3 DEF PatchFirst
  <2>6. MemoryRow'
    BY <1>4, <1>5, <1>6, <1>7, <1>8, <2>1, <2>2, <2>3 DEF MemoryRow
  <2>7. MemoryLast'
    BY <1>4, <1>5, <1>6, <1>7, <1>8, <2>1, <2>2, <2>3 DEF MemoryLast, Last
  <2>8. ChoiceRow'
    BY <1>4, <1>5, <1>6, <1>7, <1>8, <2>1, <2>2, <2>3 DEF ChoiceRow
  <2>9. ChoiceLast'
    BY <1>4, <1>5, <1>6, <1>7, <1>8, <2>1, <2>2, <2>3 DEF ChoiceLast
  <2>10. ChoiceMemory'
    BY <1>4, <1>5, <1>6, <1>7, <1>8, <2>1, <2>2, <2>3 DEF ChoiceMemory
  <2>11. AskedLast'
    BY <1>4, <1>5, <1>6, <1>7, <1>8, <2>1, <2>2, <2>3 DEF AskedLast
  <2>12. SavedLast'
    BY <1>4, <1>5, <1>6, <1>7, <1>8, <2>1, <2>2, <2>3 DEF SavedLast
  <2>13. WifiCarried'
    BY <1>0, <1>4, <1>5, <1>6, <1>7, <1>8, <2>1, <2>2, <2>3 DEF WifiCarried, TypeOK, AppSettings
  <2>14. WifiRow'
    BY <1>4, <1>5, <1>6, <1>7, <1>8, <2>1, <2>2, <2>3 DEF WifiRow
  <2>15. WifiLast'
    BY <1>4, <1>5, <1>6, <1>7, <1>8, <2>1, <2>2, <2>3 DEF WifiLast, Last
  <2> QED
    BY <2>4, <2>5, <2>6, <2>7, <2>8, <2>9, <2>10, <2>11, <2>12, <2>13, <2>14, <2>15 DEF ChoiceInv
<1>17. ASSUME ~failed', KillInv PROVE KillInv'
  <2>1. ~failed /\ KillRow /\ KillLoad /\ AskedLast /\ KillSaved /\ KillMemory
    BY <1>17, <1>s DEF KillInv
  <2>2. loaded /\ pc'[Loader] # "read" /\ value'[t].killSwitch = asked[t]
    <3>1. value[t] \in AppSettings /\ asked[t] \in BOOLEAN
      BY <1>0, <1>5 DEF TypeOK, Readers
    <3> QED
      BY <1>1, <1>4, <1>5, <1>6, <2>1, <3>1, SettingsTypes DEF Loading, AppSettings, Readers
  <2>3. Readers \ {t} = {} => Last(t, Readers)
    BY <1>5, Only
  <2>4. KillRow'
    BY <1>4, <1>5, <1>6, <1>7, <1>8, <1>1, <1>2, <1>3, <2>1, <2>2, <2>3 DEF KillRow
  <2>5. KillLoad'
    BY <1>4, <1>5, <1>6, <1>7, <1>8, <1>1, <1>2, <1>3, <2>1, <2>2, <2>3 DEF KillLoad
  <2>6. AskedLast'
    BY <1>4, <1>5, <1>6, <1>7, <1>8, <1>1, <1>2, <1>3, <2>1, <2>2, <2>3 DEF AskedLast
  <2>7. KillSaved'
    BY <1>4, <1>5, <1>6, <1>7, <1>8, <1>1, <1>2, <1>3, <2>1, <2>2, <2>3 DEF KillSaved, AskedLast
  <2>8. KillMemory'
    BY <1>4, <1>5, <1>6, <1>7, <1>8, <1>1, <1>2, <1>3, <2>1, <2>2, <2>3 DEF KillMemory
  <2> QED
    BY <2>4, <2>5, <2>6, <2>7, <2>8 DEF KillInv
<1> QED
  BY <1>s, <1>15, <1>16, <1>17 DEF Keeps, Sound

\* Read keeps the invariant.
LEMMA KeepsRead ==
    ASSUME RowInv, TypeOK', Read PROVE Keeps
<1> USE Standing DEF appVars, taskVars, dbVars, flagVars, bootVars, faultVars, history, boundVars
<1> DEFINE t == Head(db)
<1>0. TypeOK /\ QueueInv
  BY DEF RowInv
<1>s. failed' = failed /\ (Sound' => Sound)
  BY DEF Sound, Read
<1>1. Off /\ Loading /\ LoaderFirst /\ LoaderReads /\ RowIsLast /\ FlagRow
  BY DEF RowInv, LoadInv
<1>2. /\ \A x, y \in All : Ahead(x, y) => x # y /\ ~Ahead(y, x) /\ pc[x] # "idle" /\ pc[y] # "idle"
      /\ \A x \in Readers \cup Savers \cup Patchers \cup Unwritten \cup Written :
            x \in Tasks /\ x \in All /\ pc[x] # "idle"
      /\ Unwritten \subseteq Patchers /\ Written \subseteq Savers \cup Patchers
  BY InOrder
<1>3. /\ QueueInv' /\ t \in All /\ pc[t] \in Asking
      /\ \A x, y \in All : Ahead(x, y)' <=> Ahead(x, y)
      /\ \A y \in All : pc[y] \in Asking => y = t \/ Ahead(t, y)
      /\ \A y \in All : pc[y] \in Answered => Ahead(y, t)
  <2>1. PICK s \in Answered : Reply(t, s)
    BY DEF Read, Answered
  <2> QED
    BY <1>0, <2>1, Move DEF Read
<1>4. /\ running' = running /\ loaded' = loaded /\ Row' = Row /\ mem' = mem
      /\ pc[t] \in {"reading", "toggleReading"}
      /\ \A x \in All : pc'[x] = IF x = t THEN IF pc[t] = "reading" THEN "read" ELSE "toggleRead" ELSE pc[x]
      /\ \A x \in All : value'[x] = IF x = t THEN Row ELSE value[x]
      /\ asked' = asked /\ thrown' = thrown /\ chosen' = chosen
  BY <1>0, <1>3 DEF TypeOK, Read, Row, Reply
<1> HIDE DEF t
<1>5. t \notin Savers /\ t \notin Patchers /\ t \notin Written /\ t \notin Unwritten
  BY <1>4 DEF Savers, Patchers, Written, Unwritten
<1>6. /\ pc[t] = "reading" => t = Loader
      /\ pc[t] = "toggleReading" => t \in Tasks /\ t \in Readers
  BY <1>1, <1>3 DEF Off, Loading, All, Readers
<1>7. FlagToBe' = FlagToBe /\ AutoStart(Row)' = AutoStart(Row)
  BY <1>4 DEF Read, FlagToBe, AutoStart
<1>8. /\ Readers' = Readers /\ Savers' = Savers /\ Patchers' = Patchers
      /\ Unwritten' = Unwritten /\ Written' = Written
  BY <1>0, <1>3, <1>4, <1>5 DEF Readers, Savers, Patchers, Unwritten, Written
<1>9. ASSUME NEW u \in Tasks
      PROVE  /\ Last(u, Readers)' => Last(u, Readers)
             /\ Last(u, Savers)' => Last(u, Savers)
             /\ Last(u, Patchers)' => Last(u, Patchers)
             /\ Last(u, Unwritten)' => Last(u, Unwritten)
             /\ Last(u, Written)' => Last(u, Written)
  <2>1. Last(u, Readers)' => Last(u, Readers)
    BY <1>2, <1>3, <1>5, <1>8 DEF Last
  <2>2. Last(u, Savers)' => Last(u, Savers)
    BY <1>2, <1>3, <1>5, <1>8 DEF Last
  <2>3. Last(u, Patchers)' => Last(u, Patchers)
    BY <1>2, <1>3, <1>5, <1>8 DEF Last
  <2>4. Last(u, Unwritten)' => Last(u, Unwritten)
    BY <1>2, <1>3, <1>5, <1>8 DEF Last
  <2>5. Last(u, Written)' => Last(u, Written)
    BY <1>2, <1>3, <1>5, <1>8 DEF Last
  <2> QED
    BY <2>1, <2>2, <2>3, <2>4, <2>5
<1>10. Off'
  BY <1>1, <1>4, <1>5, <1>6, <1>7, <1>8, <1>9 DEF Off
<1>11. Loading'
  BY <1>1, <1>4, <1>5, <1>6, <1>7, <1>8, <1>9, <1>s DEF Loading
<1>12. LoaderFirst'
  BY <1>1, <1>2, <1>3, <1>4, <1>5, <1>6, <1>7, <1>8 DEF LoaderFirst
<1>13. LoaderReads'
  BY <1>1, <1>4, <1>5, <1>6, <1>7, <1>8, <1>9 DEF LoaderReads
<1>14. RowIsLast'
  BY <1>1, <1>2, <1>4, <1>5, <1>6, <1>7, <1>8, <1>9 DEF RowIsLast, Last
<1>15. FlagRow'
  BY <1>1, <1>4, <1>5, <1>6, <1>7, <1>8, <1>9 DEF FlagRow
<1>16. RowInv'
  BY <1>3, <1>10, <1>11, <1>12, <1>13, <1>14, <1>15 DEF RowInv, LoadInv
<1>17. ASSUME Sound', ChoiceInv PROVE ChoiceInv'
  <2>1. /\ WaitsForLoad /\ PatchFirst /\ MemoryRow /\ MemoryLast
        /\ ChoiceRow /\ ChoiceLast /\ ChoiceMemory /\ AskedLast
        /\ SavedLast /\ WifiCarried /\ WifiRow /\ WifiLast
    BY <1>17 DEF ChoiceInv
  <2>2. pc[t] = "toggleReading" => Unwritten = {}
    <3>1. SUFFICES ASSUME pc[t] = "toggleReading", NEW x \in Unwritten PROVE FALSE
      OBVIOUS
    <3>2. x \in Patchers /\ pc[x] \in Asking /\ x # t
      BY <3>1 DEF Unwritten, Patchers, Asking
    <3> QED
      BY <1>2, <1>3, <1>6, <2>1, <3>1, <3>2 DEF PatchFirst
  <2>3. WaitsForLoad'
    BY <1>4, <1>5, <1>6, <1>7, <1>8, <1>9, <2>1, <2>2 DEF WaitsForLoad
  <2>4. PatchFirst'
    BY <1>2, <1>3, <1>4, <1>5, <1>6, <1>7, <1>8, <2>1, <2>2 DEF PatchFirst
  <2>5. MemoryRow'
    BY <1>4, <1>5, <1>6, <1>7, <1>8, <1>9, <2>1, <2>2 DEF MemoryRow
  <2>6. MemoryLast'
    BY <1>2, <1>4, <1>5, <1>6, <1>7, <1>8, <1>9, <2>1, <2>2 DEF MemoryLast, Last
  <2>7. ChoiceRow'
    BY <1>4, <1>5, <1>6, <1>7, <1>8, <1>9, <2>1, <2>2 DEF ChoiceRow
  <2>8. ChoiceLast'
    BY <1>2, <1>4, <1>5, <1>6, <1>7, <1>8, <1>9, <2>1, <2>2 DEF ChoiceLast, Last
  <2>9. ChoiceMemory'
    BY <1>4, <1>5, <1>6, <1>7, <1>8, <1>9, <2>1, <2>2 DEF ChoiceMemory
  <2>10. AskedLast'
    BY <1>4, <1>5, <1>6, <1>7, <1>8, <1>9, <2>1, <2>2 DEF AskedLast
  <2>11. SavedLast'
    BY <1>2, <1>4, <1>5, <1>6, <1>7, <1>8, <1>9, <2>1, <2>2 DEF SavedLast, Last
  <2>12. WifiCarried'
    BY <1>2, <1>4, <1>5, <1>6, <1>7, <1>8, <1>9, <2>1, <2>2 DEF WifiCarried, WifiRow
  <2>13. WifiRow'
    BY <1>4, <1>5, <1>6, <1>7, <1>8, <1>9, <2>1, <2>2 DEF WifiRow
  <2>14. WifiLast'
    BY <1>2, <1>4, <1>5, <1>6, <1>7, <1>8, <1>9, <2>1, <2>2 DEF WifiLast, Last
  <2> QED
    BY <2>3, <2>4, <2>5, <2>6, <2>7, <2>8, <2>9, <2>10, <2>11, <2>12, <2>13, <2>14 DEF ChoiceInv
<1>18. ASSUME ~failed', KillInv PROVE KillInv'
  <2>1. ~failed /\ KillRow /\ KillLoad /\ AskedLast /\ KillSaved /\ KillMemory
    BY <1>18, <1>s DEF KillInv
  <2>2. KillRow'
    BY <1>4, <1>5, <1>6, <1>7, <1>8, <1>9, <1>1, <1>2, <1>3, <2>1 DEF KillRow
  <2>3. KillLoad'
    BY <1>4, <1>5, <1>6, <1>7, <1>8, <1>9, <1>1, <1>2, <1>3, <2>1 DEF KillLoad, KillRow, Loading
  <2>4. AskedLast'
    BY <1>4, <1>5, <1>6, <1>7, <1>8, <1>9, <1>1, <1>2, <1>3, <2>1 DEF AskedLast
  <2>5. KillSaved'
    BY <1>4, <1>5, <1>6, <1>7, <1>8, <1>9, <1>1, <1>2, <1>3, <2>1 DEF KillSaved
  <2>6. KillMemory'
    BY <1>4, <1>5, <1>6, <1>7, <1>8, <1>9, <1>1, <1>2, <1>3, <2>1 DEF KillMemory
  <2> QED
    BY <2>2, <2>3, <2>4, <2>5, <2>6 DEF KillInv
<1> QED
  BY <1>s, <1>16, <1>17, <1>18 DEF Keeps, Sound

\* Write keeps the invariant.
LEMMA KeepsWrite ==
    ASSUME RowInv, TypeOK', Write PROVE Keeps
<1> USE Standing DEF appVars, taskVars, dbVars, flagVars, bootVars, faultVars, history, boundVars
<1> DEFINE t == Head(db)
<1>0. TypeOK /\ QueueInv
  BY DEF RowInv
<1>s. failed' = failed /\ (Sound' => Sound)
  BY DEF Sound, Write
<1>1. Off /\ Loading /\ LoaderFirst /\ LoaderReads /\ RowIsLast /\ FlagRow
  BY DEF RowInv, LoadInv
<1>2. /\ \A x, y \in All : Ahead(x, y) => x # y /\ ~Ahead(y, x) /\ pc[x] # "idle" /\ pc[y] # "idle"
      /\ \A x \in Readers \cup Savers \cup Patchers \cup Unwritten \cup Written :
            x \in Tasks /\ x \in All /\ pc[x] # "idle"
      /\ Unwritten \subseteq Patchers /\ Written \subseteq Savers \cup Patchers
  BY InOrder
<1>3. /\ QueueInv' /\ t \in All /\ pc[t] \in Asking
      /\ \A x, y \in All : Ahead(x, y)' <=> Ahead(x, y)
      /\ \A y \in All : pc[y] \in Asking => y = t \/ Ahead(t, y)
      /\ \A y \in All : pc[y] \in Answered => Ahead(y, t)
  <2>1. PICK s \in Answered : Reply(t, s)
    BY DEF Write, Answered
  <2> QED
    BY <1>0, <2>1, Move DEF Write
<1>4. /\ running' = running /\ loaded' = loaded /\ Row' = value[t] /\ mem' = mem
      /\ pc[t] \in {"writing", "toggleWriting"}
      /\ \A x \in All : pc'[x] = IF x = t THEN IF pc[t] = "writing" THEN "written" ELSE "toggleWritten" ELSE pc[x]
      /\ value' = value /\ asked' = asked /\ thrown' = thrown /\ chosen' = chosen
  BY <1>0, <1>3, NoRowAssumption DEF TypeOK, Write, Row, Reply, Load, AppSettings
<1> HIDE DEF t
<1>5. t \in Tasks /\ (t \in Savers \/ (t \in Patchers /\ t \in Unwritten))
  BY <1>1, <1>3, <1>4 DEF Off, Loading, All, Savers, Patchers, Unwritten
<1>6. /\ Readers' = Readers /\ Savers' = Savers /\ Patchers' = Patchers
      /\ Unwritten' = Unwritten \ {t} /\ Written' = Written \cup {t}
  BY <1>0, <1>3, <1>4, <1>5 DEF Readers, Savers, Patchers, Unwritten, Written
<1>7. ASSUME NEW u \in Tasks
      PROVE  /\ Last(u, Readers)' => Last(u, Readers)
             /\ Last(u, Savers)' => Last(u, Savers)
             /\ Last(u, Patchers)' => Last(u, Patchers)
             /\ Last(u, Unwritten)' => Last(u, Unwritten)
             /\ Last(u, Written)' => u = t
  <2>1. Last(u, Readers)' => Last(u, Readers)
    BY <1>2, <1>3, <1>5, <1>6 DEF Last, Written, Unwritten, Answered, Asking
  <2>2. Last(u, Savers)' => Last(u, Savers)
    BY <1>2, <1>3, <1>5, <1>6 DEF Last, Written, Unwritten, Answered, Asking
  <2>3. Last(u, Patchers)' => Last(u, Patchers)
    BY <1>2, <1>3, <1>5, <1>6 DEF Last, Written, Unwritten, Answered, Asking
  <2>4. Last(u, Unwritten)' => Last(u, Unwritten)
    BY <1>2, <1>3, <1>5, <1>6 DEF Last, Written, Unwritten, Answered, Asking
  <2>5. Last(u, Written)' => u = t
    BY <1>2, <1>3, <1>5, <1>6 DEF Last, Written, Unwritten, Answered, Asking
  <2> QED
    BY <2>1, <2>2, <2>3, <2>4, <2>5
<1>8. Off'
  BY <1>1, <1>4, <1>5, <1>6, <1>7 DEF Off
<1>9. Loading'
  BY <1>1, <1>4, <1>5, <1>6, <1>7, <1>s DEF Loading
<1>10. LoaderFirst'
  BY <1>1, <1>2, <1>3, <1>4, <1>5, <1>6 DEF LoaderFirst
<1>11. LoaderReads'
  BY <1>1, <1>4, <1>5, <1>6, <1>7 DEF LoaderReads
<1>12. RowIsLast'
  BY <1>1, <1>4, <1>5, <1>6, <1>7 DEF RowIsLast
<1>13. FlagRow'
  BY <1>1, <1>4, <1>5, <1>6, <1>7 DEF FlagRow
<1>14. RowInv'
  BY <1>3, <1>8, <1>9, <1>10, <1>11, <1>12, <1>13 DEF RowInv, LoadInv
<1>15. ASSUME Sound', ChoiceInv PROVE ChoiceInv'
  <2>1. /\ WaitsForLoad /\ PatchFirst /\ MemoryRow /\ MemoryLast
        /\ ChoiceRow /\ ChoiceLast /\ ChoiceMemory /\ AskedLast
        /\ SavedLast /\ WifiCarried /\ WifiRow /\ WifiLast
    BY <1>15 DEF ChoiceInv
  <2>2. loaded
    BY <1>5, <2>1 DEF WaitsForLoad
  <2>3. Unwritten \ {t} = {} => value[t].autoWifi = chosen.autoWifi
    BY <1>5, <2>1, Only DEF WifiLast, WifiCarried
  <2>4. WaitsForLoad'
    BY <1>4, <1>5, <1>6, <1>7, <2>1, <2>2, <2>3 DEF WaitsForLoad
  <2>5. PatchFirst'
    BY <1>2, <1>3, <1>4, <1>5, <1>6, <2>1, <2>2, <2>3 DEF PatchFirst
  <2>6. MemoryRow'
    BY <1>4, <1>5, <1>6, <1>7, <2>1, <2>2, <2>3 DEF MemoryRow
  <2>7. MemoryLast'
    BY <1>4, <1>5, <1>6, <1>7, <2>1, <2>2, <2>3 DEF MemoryLast
  <2>8. ChoiceRow'
    BY <1>4, <1>5, <1>6, <1>7, <2>1, <2>2, <2>3 DEF ChoiceRow
  <2>9. ChoiceLast'
    BY <1>4, <1>5, <1>6, <1>7, <2>1, <2>2, <2>3 DEF ChoiceLast
  <2>10. ChoiceMemory'
    BY <1>4, <1>5, <1>6, <1>7, <2>1, <2>2, <2>3 DEF ChoiceMemory
  <2>11. AskedLast'
    BY <1>4, <1>5, <1>6, <1>7, <2>1, <2>2, <2>3 DEF AskedLast
  <2>12. SavedLast'
    BY <1>4, <1>5, <1>6, <1>7, <2>1, <2>2, <2>3 DEF SavedLast
  <2>13. WifiCarried'
    BY <1>4, <1>5, <1>6, <1>7, <2>1, <2>2, <2>3 DEF WifiCarried
  <2>14. WifiRow'
    BY <1>4, <1>5, <1>6, <1>7, <2>1, <2>2, <2>3 DEF WifiRow
  <2>15. WifiLast'
    BY <1>4, <1>5, <1>6, <1>7, <2>1, <2>2, <2>3 DEF WifiLast
  <2> QED
    BY <2>4, <2>5, <2>6, <2>7, <2>8, <2>9, <2>10, <2>11, <2>12, <2>13, <2>14, <2>15 DEF ChoiceInv
<1>16. ASSUME ~failed', KillInv PROVE KillInv'
  <2>1. ~failed /\ KillRow /\ KillLoad /\ AskedLast /\ KillSaved /\ KillMemory
    BY <1>16, <1>s DEF KillInv
  <2>2. loaded \/ pc[Loader] = "read"
    <3>1. pc[Loader] # "reading"
      BY <1>1, <1>2, <1>3, <1>5 DEF LoaderFirst, Asking
    <3>2. running
      BY <1>1, <1>3, <1>4 DEF Off
    <3> QED
      BY <1>1, <2>1, <3>1, <3>2 DEF Loading
  <2>3. KillRow'
    BY <1>4, <1>5, <1>6, <1>7, <1>1, <1>2, <1>3, <2>1, <2>2 DEF KillRow
  <2>4. KillLoad'
    BY <1>4, <1>5, <1>6, <1>7, <1>1, <1>2, <1>3, <2>1, <2>2 DEF KillLoad
  <2>5. AskedLast'
    BY <1>4, <1>5, <1>6, <1>7, <1>1, <1>2, <1>3, <2>1, <2>2 DEF AskedLast
  <2>6. KillSaved'
    BY <1>4, <1>5, <1>6, <1>7, <1>1, <1>2, <1>3, <2>1, <2>2 DEF KillSaved
  <2>7. KillMemory'
    BY <1>4, <1>5, <1>6, <1>7, <1>1, <1>2, <1>3, <2>1, <2>2 DEF KillMemory
  <2> QED
    BY <2>3, <2>4, <2>5, <2>6, <2>7 DEF KillInv
<1> QED
  BY <1>s, <1>14, <1>15, <1>16 DEF Keeps, Sound

\* A statement that throws changes neither the row nor the order; who has written
\* stays who has written.
LEMMA KeepsFail == ASSUME RowInv, TypeOK', Fail PROVE Keeps
<1> USE Standing DEF appVars, taskVars, dbVars, flagVars, bootVars, faultVars, history, boundVars
<1> DEFINE t == Head(db)
<1>0. TypeOK /\ QueueInv
  BY DEF RowInv
<1>1. Off /\ Loading /\ LoaderFirst /\ LoaderReads /\ RowIsLast /\ FlagRow
  BY DEF RowInv, LoadInv
<1>2. /\ QueueInv' /\ t \in All /\ pc[t] \in Asking
      /\ \A x, y \in All : Ahead(x, y)' <=> Ahead(x, y)
  BY <1>0, Move DEF Fail, Answered
<1>3. /\ failed' /\ Row' = Row /\ FlagToBe' = FlagToBe /\ AutoStart(Row)' = AutoStart(Row)
      /\ UNCHANGED <<running, loaded, value, thrown>>
      /\ \A x \in All : pc'[x] = IF x = t THEN "failed" ELSE pc[x]
  BY <1>0, <1>2 DEF Fail, Reply, TypeOK, Row, FlagToBe, AutoStart
<1> HIDE DEF t
<1>4. Written' = Written /\ \A u \in Written : u \in All
  BY <1>2, <1>3 DEF Written, Asking
<1>5. Off'
  BY <1>1, <1>2, <1>3 DEF Off, Asking
<1>6. Loading'
  BY <1>1, <1>2, <1>3 DEF Loading, Asking
<1>7. LoaderFirst'
  BY <1>1, <1>2, <1>3 DEF LoaderFirst, Asking
<1>8. LoaderReads'
  BY <1>1, <1>2, <1>3, <1>4 DEF LoaderReads
<1>9. RowIsLast'
  BY <1>1, <1>2, <1>3, <1>4 DEF RowIsLast, Last
<1>10. FlagRow'
  BY <1>1, <1>3, <1>4 DEF FlagRow
<1> QED
  BY <1>2, <1>3, <1>5, <1>6, <1>7, <1>8, <1>9, <1>10 DEF Keeps, RowInv, LoadInv, Sound

\* A change that gives up leaves the queue, and the others behind it as they are.
LEMMA KeepsGiveUp == ASSUME RowInv, TypeOK', NEW t \in All, GiveUp(t) PROVE Keeps
<1> USE Standing DEF appVars, taskVars, dbVars, flagVars, bootVars, faultVars, history, boundVars
<1>0. TypeOK /\ QueueInv
  BY DEF RowInv
<1>1. Off /\ Loading /\ LoaderFirst /\ LoaderReads /\ RowIsLast /\ FlagRow
  BY DEF RowInv, LoadInv
<1>2. QueueInv' /\ \A x, y \in All : Ahead(x, y)' <=> Ahead(x, y) /\ x # t
  BY <1>0, Dequeue DEF GiveUp
<1>3. /\ failed' /\ Row' = Row /\ FlagToBe' = FlagToBe /\ AutoStart(Row)' = AutoStart(Row)
      /\ pc[t] = "failed" /\ UNCHANGED <<running, loaded, value, thrown>>
      /\ \A x \in All : pc'[x] = IF x = t THEN "idle" ELSE pc[x]
  BY <1>0, <1>1 DEF GiveUp, TypeOK, Row, FlagToBe, AutoStart, Loading
<1>4. Written' = Written /\ \A u \in Written : u \in All /\ u # t
  BY <1>3 DEF Written
<1>5. Off'
  BY <1>1, <1>3 DEF Off
<1>6. Loading'
  BY <1>1, <1>3 DEF Loading
<1>7. LoaderFirst'
  BY <1>1, <1>2, <1>3 DEF LoaderFirst
<1>8. LoaderReads'
  BY <1>1, <1>3, <1>4 DEF LoaderReads
<1>9. RowIsLast'
  BY <1>1, <1>2, <1>3, <1>4 DEF RowIsLast, Last
<1>10. FlagRow'
  BY <1>1, <1>3, <1>4 DEF FlagRow
<1> QED
  BY <1>2, <1>3, <1>5, <1>6, <1>7, <1>8, <1>9, <1>10 DEF Keeps, RowInv, LoadInv, Sound

\* Start keeps the invariant.
LEMMA KeepsStart == ASSUME RowInv, TypeOK', Start PROVE Keeps
<1> USE Standing DEF appVars, taskVars, dbVars, flagVars, bootVars, faultVars, history, boundVars
<1>0. TypeOK /\ QueueInv
  BY DEF RowInv
<1>s. failed' = failed /\ (Sound' => Sound)
  BY DEF Sound, Start
<1>1. Off /\ Loading /\ LoaderFirst /\ LoaderReads /\ RowIsLast /\ FlagRow
  BY DEF RowInv, LoadInv
<1>2. ~running /\ \A t \in All : pc[t] = "idle"
  BY <1>1 DEF Start, Off
<1>3. QueueInv'
  BY <1>0, <1>2, Enqueue DEF Start, Asking
<1>4. /\ running' /\ ~loaded' /\ Row' = Row /\ chosen' = chosen
      /\ \A x \in All : pc'[x] = IF x = Loader THEN "reading" ELSE "idle"
  BY <1>0, <1>2 DEF TypeOK, Start, Row
<1>5. /\ Readers = {} /\ Savers = {} /\ Patchers = {} /\ Unwritten = {} /\ Written = {}
      /\ Readers' = {} /\ Savers' = {} /\ Patchers' = {} /\ Unwritten' = {} /\ Written' = {}
  BY <1>2, <1>4 DEF Readers, Savers, Patchers, Unwritten, Written
<1>6. Off'
  BY <1>1, <1>4, <1>5 DEF Off
<1>7. Loading'
  BY <1>1, <1>4, <1>5, <1>s DEF Loading
<1>8. LoaderFirst'
  BY <1>1, <1>4, <1>5 DEF LoaderFirst
<1>9. LoaderReads'
  BY <1>1, <1>4, <1>5 DEF LoaderReads
<1>10. RowIsLast'
  BY <1>1, <1>4, <1>5 DEF RowIsLast, Last
<1>11. FlagRow'
  BY <1>1, <1>4, <1>5 DEF FlagRow
<1>12. RowInv'
  BY <1>3, <1>6, <1>7, <1>8, <1>9, <1>10, <1>11 DEF RowInv, LoadInv
<1>13. ASSUME Sound', ChoiceInv PROVE ChoiceInv'
  <2>1. /\ WaitsForLoad /\ PatchFirst /\ MemoryRow /\ MemoryLast
        /\ ChoiceRow /\ ChoiceLast /\ ChoiceMemory /\ AskedLast
        /\ SavedLast /\ WifiCarried /\ WifiRow /\ WifiLast
    BY <1>13 DEF ChoiceInv
  <2>2. WaitsForLoad'
    BY <1>4, <1>5, <2>1 DEF WaitsForLoad
  <2>3. PatchFirst'
    BY <1>4, <1>5, <2>1 DEF PatchFirst
  <2>4. MemoryRow'
    BY <1>4, <1>5, <2>1 DEF MemoryRow
  <2>5. MemoryLast'
    BY <1>4, <1>5, <2>1 DEF MemoryLast, Last
  <2>6. ChoiceRow'
    BY <1>4, <1>5, <2>1 DEF ChoiceRow
  <2>7. ChoiceLast'
    BY <1>4, <1>5, <2>1 DEF ChoiceLast, Last
  <2>8. ChoiceMemory'
    BY <1>4, <1>5, <2>1 DEF ChoiceMemory
  <2>9. AskedLast'
    BY <1>4, <1>5, <2>1 DEF AskedLast, Last
  <2>10. SavedLast'
    BY <1>4, <1>5, <2>1 DEF SavedLast, Last
  <2>11. WifiCarried'
    BY <1>4, <1>5, <2>1 DEF WifiCarried
  <2>12. WifiRow'
    BY <1>4, <1>5, <2>1 DEF WifiRow
  <2>13. WifiLast'
    BY <1>4, <1>5, <2>1 DEF WifiLast, Last
  <2> QED
    BY <2>2, <2>3, <2>4, <2>5, <2>6, <2>7, <2>8, <2>9, <2>10, <2>11, <2>12, <2>13 DEF ChoiceInv
<1>14. ASSUME ~failed', KillInv PROVE KillInv'
  <2>1. ~failed /\ KillRow /\ KillLoad /\ AskedLast /\ KillSaved /\ KillMemory
    BY <1>14, <1>s DEF KillInv
  <2>2. KillRow'
    BY <1>4, <1>5, <1>1, <1>2, <2>1 DEF KillRow, Off
  <2>3. KillLoad'
    BY <1>4, <1>5, <1>1, <1>2, <2>1 DEF KillLoad
  <2>4. AskedLast'
    BY <1>4, <1>5, <1>1, <1>2, <2>1 DEF AskedLast, Last
  <2>5. KillSaved'
    BY <1>4, <1>5, <1>1, <1>2, <2>1 DEF KillSaved, Last
  <2>6. KillMemory'
    BY <1>4, <1>5, <1>1, <1>2, <2>1 DEF KillMemory
  <2> QED
    BY <2>2, <2>3, <2>4, <2>5, <2>6 DEF KillInv
<1> QED
  BY <1>s, <1>12, <1>13, <1>14 DEF Keeps, Sound

\* A step that leaves the settings, the tasks and the queue alone keeps the invariant.
LEMMA KeepsStill ==
    ASSUME RowInv, TypeOK', FlagToBe' = FlagToBe,
           UNCHANGED <<appVars, disk, taskVars, dbVars, history>>
    PROVE  Keeps
<1> USE Standing DEF appVars, taskVars, dbVars, flagVars, bootVars, faultVars, history, boundVars
<1>0. TypeOK /\ QueueInv
  BY DEF RowInv
<1>1. Off /\ Loading /\ LoaderFirst /\ LoaderReads /\ RowIsLast /\ FlagRow
  BY DEF RowInv, LoadInv
<1>2. \A x, y \in All : Ahead(x, y)' <=> Ahead(x, y)
  BY DEF Ahead, On, Prec
<1>3. QueueInv'
  BY <1>0 DEF QueueInv, On, Distinct
<1>4. /\ UNCHANGED <<Readers, Savers, Patchers, Unwritten, Written>>
      /\ Row' = Row /\ AutoStart(Row)' = AutoStart(Row)
  BY DEF Readers, Savers, Patchers, Unwritten, Written, Row, AutoStart
<1>5. \A x \in Readers \cup Savers \cup Patchers \cup Unwritten \cup Written : x \in Tasks /\ x \in All
  BY InOrder
<1>6. ASSUME NEW u \in Tasks
      PROVE  /\ Last(u, Readers)' <=> Last(u, Readers)
             /\ Last(u, Savers)' <=> Last(u, Savers)
             /\ Last(u, Patchers)' <=> Last(u, Patchers)
             /\ Last(u, Unwritten)' <=> Last(u, Unwritten)
             /\ Last(u, Written)' <=> Last(u, Written)
  BY <1>2, <1>4, <1>5 DEF Last
<1>7. Off'
  BY <1>1, <1>2, <1>4, <1>6 DEF Off
<1>8. Loading'
  BY <1>1, <1>2, <1>4, <1>6 DEF Loading
<1>9. LoaderFirst'
  BY <1>1, <1>2, <1>4, <1>6 DEF LoaderFirst
<1>10. LoaderReads'
  BY <1>1, <1>2, <1>4, <1>6 DEF LoaderReads
<1>11. RowIsLast'
  BY <1>1, <1>2, <1>4, <1>6 DEF RowIsLast
<1>12. FlagRow'
  BY <1>1, <1>2, <1>4, <1>6 DEF FlagRow
<1>13. RowInv'
  BY <1>3, <1>7, <1>8, <1>9, <1>10, <1>11, <1>12 DEF RowInv, LoadInv
<1>14. ASSUME ChoiceInv PROVE ChoiceInv'
  <2>1. /\ WaitsForLoad /\ PatchFirst /\ MemoryRow /\ MemoryLast
        /\ ChoiceRow /\ ChoiceLast /\ ChoiceMemory /\ AskedLast
        /\ SavedLast /\ WifiCarried /\ WifiRow /\ WifiLast
    BY <1>14 DEF ChoiceInv
  <2>2. WaitsForLoad'
    BY <1>2, <1>4, <1>5, <1>6, <2>1 DEF WaitsForLoad
  <2>3. PatchFirst'
    BY <1>2, <1>4, <1>5, <1>6, <2>1 DEF PatchFirst
  <2>4. MemoryRow'
    BY <1>2, <1>4, <1>5, <1>6, <2>1 DEF MemoryRow
  <2>5. MemoryLast'
    BY <1>2, <1>4, <1>5, <1>6, <2>1 DEF MemoryLast
  <2>6. ChoiceRow'
    BY <1>2, <1>4, <1>5, <1>6, <2>1 DEF ChoiceRow
  <2>7. ChoiceLast'
    BY <1>2, <1>4, <1>5, <1>6, <2>1 DEF ChoiceLast
  <2>8. ChoiceMemory'
    BY <1>2, <1>4, <1>5, <1>6, <2>1 DEF ChoiceMemory
  <2>9. AskedLast'
    BY <1>2, <1>4, <1>5, <1>6, <2>1 DEF AskedLast
  <2>10. SavedLast'
    BY <1>2, <1>4, <1>5, <1>6, <2>1 DEF SavedLast
  <2>11. WifiCarried'
    BY <1>2, <1>4, <1>5, <1>6, <2>1 DEF WifiCarried
  <2>12. WifiRow'
    BY <1>2, <1>4, <1>5, <1>6, <2>1 DEF WifiRow
  <2>13. WifiLast'
    BY <1>2, <1>4, <1>5, <1>6, <2>1 DEF WifiLast
  <2> QED
    BY <2>2, <2>3, <2>4, <2>5, <2>6, <2>7, <2>8, <2>9, <2>10, <2>11, <2>12, <2>13 DEF ChoiceInv
<1>15. ASSUME KillInv PROVE KillInv'
  <2>1. KillRow /\ KillLoad /\ AskedLast /\ KillSaved /\ KillMemory
    BY <1>15 DEF KillInv
  <2>2. KillRow'
    BY <1>4, <2>1 DEF KillRow
  <2>3. KillLoad'
    BY <1>4, <2>1 DEF KillLoad
  <2>4. AskedLast'
    BY <1>4, <1>6, <2>1 DEF AskedLast
  <2>5. KillSaved'
    BY <1>4, <1>6, <2>1 DEF KillSaved
  <2>6. KillMemory'
    BY <1>4, <2>1 DEF KillMemory
  <2> QED
    BY <2>2, <2>3, <2>4, <2>5, <2>6 DEF KillInv
<1> QED
  BY <1>13, <1>14, <1>15 DEF Keeps, Sound

\* Storing the flag that was mirrored first leaves the last one to be stored.
LEMMA KeepsStoreFlag == ASSUME RowInv, TypeOK', StoreFlag PROVE Keeps
<1>1. channel \in Seq(BOOLEAN) /\ channel # <<>> /\ flag' = Head(channel) /\ channel' = Tail(channel)
  BY DEF RowInv, TypeOK, StoreFlag
<1>2. FlagToBe' = FlagToBe
  <2>1. CASE Len(channel) = 1
    <3>1. Tail(channel) = <<>> /\ Head(channel) = channel[Len(channel)]
      BY <1>1, <2>1
    <3> QED
      BY <1>1, <3>1 DEF FlagToBe
  <2>2. CASE Len(channel) # 1
    <3> DEFINE n == Len(channel)
               rest == Tail(channel)
    <3>1. n \in Nat \ {0} /\ n # 1 /\ rest \in Seq(BOOLEAN) /\ Len(rest) = n - 1
      BY <1>1, <2>2
    <3>2. \A i \in 1 .. n - 1 : rest[i] = channel[i + 1]
      BY <1>1
    <3> HIDE DEF n, rest
    <3>3. n - 1 \in 1 .. n - 1 /\ (n - 1) + 1 = n
      BY <3>1
    <3>4. rest # <<>> /\ rest[Len(rest)] = channel[n]
      BY <3>1, <3>2, <3>3
    <3> QED
      BY <1>1, <3>4 DEF FlagToBe, n, rest
  <2> QED
    BY <2>1, <2>2
<1> QED
  BY <1>2, KeepsStill DEF StoreFlag

\* Once the process is gone nothing is under way.
LEMMA KeepsDie == ASSUME TypeOK', Die PROVE Keeps
<1> USE Standing
<1>2. /\ ~running' /\ ~loaded' /\ chosen' = Row' /\ db' = <<>> /\ answers' = <<>>
      /\ \A x \in All : pc'[x] = "idle"
  BY DEF Die, Row
<1>3. QueueInv'
  BY <1>2 DEF QueueInv, On, Distinct, Asking, Answered
<1>4. Readers' = {} /\ Savers' = {} /\ Patchers' = {} /\ Unwritten' = {} /\ Written' = {}
  BY <1>2 DEF Readers, Savers, Patchers, Unwritten, Written
<1>5. Off'
  BY <1>2, <1>4 DEF Off
<1>6. Loading'
  BY <1>2, <1>4 DEF Loading
<1>7. LoaderFirst'
  BY <1>2, <1>4 DEF LoaderFirst
<1>8. LoaderReads'
  BY <1>2, <1>4 DEF LoaderReads
<1>9. RowIsLast'
  BY <1>2, <1>4 DEF RowIsLast, Last
<1>10. FlagRow'
  BY <1>2, <1>4 DEF FlagRow
<1>11. RowInv'
  BY <1>3, <1>5, <1>6, <1>7, <1>8, <1>9, <1>10 DEF RowInv, LoadInv
<1>12. ChoiceInv'
  <2>1. WaitsForLoad'
    BY <1>2, <1>4 DEF WaitsForLoad
  <2>2. PatchFirst'
    BY <1>2, <1>4 DEF PatchFirst
  <2>3. MemoryRow'
    BY <1>2, <1>4 DEF MemoryRow
  <2>4. MemoryLast'
    BY <1>2, <1>4 DEF MemoryLast, Last
  <2>5. ChoiceRow'
    BY <1>2, <1>4 DEF ChoiceRow
  <2>6. ChoiceLast'
    BY <1>2, <1>4 DEF ChoiceLast, Last
  <2>7. ChoiceMemory'
    BY <1>2, <1>4 DEF ChoiceMemory
  <2>8. AskedLast'
    BY <1>2, <1>4 DEF AskedLast, Last
  <2>9. SavedLast'
    BY <1>2, <1>4 DEF SavedLast, Last
  <2>10. WifiCarried'
    BY <1>2, <1>4 DEF WifiCarried
  <2>11. WifiRow'
    BY <1>2, <1>4 DEF WifiRow
  <2>12. WifiLast'
    BY <1>2, <1>4 DEF WifiLast, Last
  <2> QED
    BY <2>1, <2>2, <2>3, <2>4, <2>5, <2>6, <2>7, <2>8, <2>9, <2>10, <2>11, <2>12 DEF ChoiceInv
<1>13. KillInv'
  <2>1. KillRow'
    BY <1>2, <1>4 DEF KillRow
  <2>2. KillLoad'
    BY <1>2, <1>4 DEF KillLoad
  <2>3. AskedLast'
    BY <1>2, <1>4 DEF AskedLast, Last
  <2>4. KillSaved'
    BY <1>2, <1>4 DEF KillSaved, Last
  <2>5. KillMemory'
    BY <1>2, <1>4 DEF KillMemory
  <2> QED
    BY <2>1, <2>2, <2>3, <2>4, <2>5 DEF KillInv
<1> QED
  BY <1>11, <1>12, <1>13 DEF Keeps

\* A fresh installation satisfies the types.
LEMMA InitTypes == Init => TypeOK
<1> SUFFICES ASSUME Init PROVE TypeOK
  OBVIOUS
<1>1. FlagsOK
  BY DEF Init, FlagsOK
<1>2. ValuesOK
  BY SettingsTypes DEF Init, ValuesOK
<1>3. QueuesOK
  BY DEF Init, QueuesOK
<1>4. CountsOK
  BY BoundsAssumption DEF Init, CountsOK
<1> QED
  BY <1>1, <1>2, <1>3, <1>4, TypeParts

\* And the invariants.
LEMMA InitKeeps == Init => IInv
<1> SUFFICES ASSUME Init PROVE IInv
  OBVIOUS
<1> USE Standing
<1>1. TypeOK
  BY InitTypes
<1>2. /\ ~running /\ ~loaded /\ chosen = Row /\ db = <<>> /\ answers = <<>>
      /\ \A x \in All : pc[x] = "idle"
  BY DEF Init, Row, Load
<1>3. QueueInv
  BY <1>2 DEF QueueInv, On, Distinct, Asking, Answered
<1>4. Readers = {} /\ Savers = {} /\ Patchers = {} /\ Unwritten = {} /\ Written = {}
  BY <1>2 DEF Readers, Savers, Patchers, Unwritten, Written
<1>5. Off
  BY <1>2, <1>4 DEF Off
<1>6. Loading
  BY <1>2, <1>4 DEF Loading
<1>7. LoaderFirst
  BY <1>2, <1>4 DEF LoaderFirst
<1>8. LoaderReads
  BY <1>2, <1>4 DEF LoaderReads
<1>9. RowIsLast
  BY <1>2, <1>4 DEF RowIsLast, Last
<1>10. FlagRow
  BY <1>2, <1>4 DEF FlagRow
<1>11. RowInv
  BY <1>1, <1>3, <1>5, <1>6, <1>7, <1>8, <1>9, <1>10 DEF RowInv, LoadInv
<1>12. ChoiceInv
  <2>1. WaitsForLoad
    BY <1>2, <1>4 DEF WaitsForLoad
  <2>2. PatchFirst
    BY <1>2, <1>4 DEF PatchFirst
  <2>3. MemoryRow
    BY <1>2, <1>4 DEF MemoryRow
  <2>4. MemoryLast
    BY <1>2, <1>4 DEF MemoryLast, Last
  <2>5. ChoiceRow
    BY <1>2, <1>4 DEF ChoiceRow
  <2>6. ChoiceLast
    BY <1>2, <1>4 DEF ChoiceLast, Last
  <2>7. ChoiceMemory
    BY <1>2, <1>4 DEF ChoiceMemory
  <2>8. AskedLast
    BY <1>2, <1>4 DEF AskedLast, Last
  <2>9. SavedLast
    BY <1>2, <1>4 DEF SavedLast, Last
  <2>10. WifiCarried
    BY <1>2, <1>4 DEF WifiCarried
  <2>11. WifiRow
    BY <1>2, <1>4 DEF WifiRow
  <2>12. WifiLast
    BY <1>2, <1>4 DEF WifiLast, Last
  <2> QED
    BY <2>1, <2>2, <2>3, <2>4, <2>5, <2>6, <2>7, <2>8, <2>9, <2>10, <2>11, <2>12 DEF ChoiceInv
<1>13. KillInv
  <2>1. KillRow
    BY <1>2, <1>4 DEF KillRow
  <2>2. KillLoad
    BY <1>2, <1>4 DEF KillLoad
  <2>3. AskedLast
    BY <1>2, <1>4 DEF AskedLast, Last
  <2>4. KillSaved
    BY <1>2, <1>4 DEF KillSaved, Last
  <2>5. KillMemory
    BY <1>2, <1>4 DEF KillMemory
  <2> QED
    BY <2>1, <2>2, <2>3, <2>4, <2>5 DEF KillInv
<1> QED
  BY <1>11, <1>12, <1>13 DEF IInv

-----------------------------------------------------------------------------
(* The theorems.                                                           *)

\* Every value stays in its type: no settings are ever read from a row that is not
\* there, and nobody but the tasks stands in the queue.
THEOREM Types == Spec => []TypeOK
<1>1. Init => TypeOK
  BY InitTypes
<1>2. TypeOK /\ [Next]_vars => TypeOK'
  BY TypeStep
<1> QED
  BY <1>1, <1>2, PTL DEF Spec

\* Every step keeps the invariants.
LEMMA StepKeeps == RowInv /\ [Next]_vars => Keeps
<1> SUFFICES ASSUME RowInv, [Next]_vars PROVE Keeps
  OBVIOUS
<1>0. TypeOK'
  BY TypeStep DEF RowInv
<1>1. CASE Start
  BY <1>0, <1>1, KeepsStart
<1>2. CASE LoadDone
  BY <1>0, <1>2, KeepsLoadDone
<1>3. CASE Read
  BY <1>0, <1>3, KeepsRead
<1>4. CASE Write
  BY <1>0, <1>4, KeepsWrite
<1>5. CASE StoreFlag
  BY <1>0, <1>5, KeepsStoreFlag
<1>6. CASE Crash \/ BootReceive
  BY <1>0, <1>6, KeepsDie DEF Crash, BootReceive
<1>7. CASE VpnBoot \/ UNCHANGED vars
  <2>1. UNCHANGED <<appVars, disk, taskVars, dbVars, flagVars, history>>
    BY <1>7 DEF VpnBoot, vars
  <2>2. FlagToBe' = FlagToBe
    BY <2>1 DEF FlagToBe, flagVars
  <2> QED
    BY <1>0, <2>1, <2>2, KeepsStill
<1>8. ASSUME NEW t \in Tasks, Change(t) PROVE Keeps
  BY <1>0, <1>8, KeepsPatch, KeepsToggle DEF Change
<1>9. ASSUME NEW t \in Tasks, Finish(t) PROVE Keeps
  BY <1>0, <1>9, KeepsPatchDone, KeepsToggleSave, KeepsAdopt, KeepsToggleThrows DEF Finish
<1>10. ASSUME NEW t \in All, GiveUp(t) PROVE Keeps
  BY <1>0, <1>10, KeepsGiveUp
<1>11. CASE Fail
  BY <1>0, <1>11, KeepsFail
<1> QED
  BY <1>1, <1>2, <1>3, <1>4, <1>5, <1>6, <1>7, <1>8, <1>9, <1>10, <1>11 DEF Next

\* The invariant holds in every behaviour.
LEMMA Invariance == Spec => []IInv
<1>1. Init => IInv
  BY InitKeeps
<1>2. IInv /\ [Next]_vars => IInv'
  BY StepKeeps DEF Keeps, IInv
<1> QED
  BY <1>1, <1>2, PTL DEF Spec

\* Nobody is under way once everything has settled.
LEMMA Settled ==
    ASSUME Quiet
    PROVE  loaded /\ channel = <<>> /\ Readers = {} /\ Savers = {} /\ Patchers = {}
BY Standing DEF Quiet, Readers, Savers, Patchers

\* Once everything has settled the row holds all that the user chose, and memory shows
\* it: no save of a toggle or of a patch made on current settings wrote back what
\* another change had replaced.  Toggles may overlap with each other and with patches
\* made before them; crashes, reboots and toggles that throw are allowed.
THEOREM ChoicesKept == Spec => []ChoicesAreKept
<1>1. IInv => ChoicesAreKept
  <2> SUFFICES ASSUME IInv, Quiet, ~overlapped, ~failed
               PROVE  Load(disk) = chosen /\ (~thrown => mem = chosen)
    BY DEF ChoicesAreKept
  <2>1. ChoiceRow /\ ChoiceMemory
    BY DEF IInv, Sound, ChoiceInv
  <2> QED
    BY <2>1, Settled DEF ChoiceRow, ChoiceMemory, Row
<1> QED
  BY <1>1, Invariance, PTL

\* Once everything has settled the screen shows the kill switch where the user left it,
\* also when patches were made before the load, beside toggles and after them.
THEOREM KillSwitchShown == Spec => []KillSwitchIsShown
<1>1. IInv => KillSwitchIsShown
  BY Settled DEF KillSwitchIsShown, IInv, KillInv, KillMemory
<1> QED
  BY <1>1, Invariance, PTL

\* Where everything has settled the stored flag says what the row says.
LEMMA FlagOfRow == RowInv => BootFlagFollows
BY Settled, InOrder DEF BootFlagFollows, RowInv, FlagRow, FlagToBe, Row

\* Once everything has settled the flag BootReceiver reads says what the row says,
\* however many calls of setAutoStart were under way, wherever a crash fell, whichever
\* statements failed, and also when a patch has overwritten the row of a toggle.
THEOREM FlagFollows == Spec => []BootFlagFollows
<1>1. IInv => BootFlagFollows
  BY FlagOfRow DEF IInv
<1> QED
  BY <1>1, Invariance, PTL

\* While the app is down nothing waits to write the row.
DownInv == ~running => db = <<>> /\ answers = <<>>

\* After a restart of the device that found the app at rest, the flag, its mirror and
\* the decision of vpnBoot agree on whether a tunnel is to come up.
THEOREM BootAgreed == Spec => []BootAgrees
<1> DEFINE Inv == DownInv /\ BootAgrees
<1>1. Init => Inv
  BY DEF Init, DownInv, BootAgrees
<1>2. IInv /\ Inv /\ [Next]_vars => Inv'
  <2> SUFFICES ASSUME IInv, DownInv, BootAgrees, [Next]_vars PROVE Inv'
    OBVIOUS
  <2> USE DEF appVars, taskVars, dbVars, flagVars, bootVars, faultVars, history, boundVars
  <2>1. CASE Start
    BY <2>1 DEF Start, DownInv, BootAgrees
  <2>2. CASE Crash
    BY <2>2 DEF Crash, Die, DownInv, BootAgrees
  <2>3. CASE BootReceive
    <3>1. rested' => flag = AutoStart(Load(disk))
      BY <2>3, FlagOfRow DEF BootReceive, IInv, BootFlagFollows
    <3>2. disk' = disk /\ boot' = IF flag THEN "headless" ELSE "declined"
      BY <2>3 DEF BootReceive, Die
    <3>3. flag \in BOOLEAN /\ DownInv'
      BY <2>3 DEF IInv, RowInv, TypeOK, BootReceive, Die, DownInv
    <3> QED
      BY <3>1, <3>2, <3>3 DEF BootAgrees
  <2>4. CASE VpnBoot
    BY <2>4 DEF VpnBoot, DownInv, BootAgrees, AutoStart, Rearms, Load
  <2>5. CASE StoreFlag \/ UNCHANGED vars
    BY <2>5 DEF StoreFlag, vars, DownInv, BootAgrees, AutoStart, Load
  <2>6. CASE LoadDone \/ Read \/ Write \/ Fail
    BY <2>6 DEF LoadDone, Read, Write, Fail, DownInv, BootAgrees
  <2>7. ASSUME NEW t \in Tasks, Change(t) PROVE Inv'
    BY <2>7 DEF Change, Patch, Toggle, MayChange, DownInv, BootAgrees
  <2>8. ASSUME NEW t \in Tasks, Finish(t) PROVE Inv'
    BY <2>8 DEF Finish, PatchDone, ToggleSave, Adopt, ToggleThrows, DownInv, BootAgrees
  <2>9. ASSUME NEW t \in All, GiveUp(t) PROVE Inv'
    BY <2>9 DEF GiveUp, DownInv, BootAgrees
  <2> QED
    BY <2>1, <2>2, <2>3, <2>4, <2>5, <2>6, <2>7, <2>8, <2>9 DEF Next
<1> QED
  BY <1>1, <1>2, Invariance, PTL DEF Spec
=============================================================================

---------------------------- MODULE EngineProofs ----------------------------
(***************************************************************************)
(* Proofs about Engine, for any set of callers, any number of sessions and *)
(* any faults of the core.                                                 *)
(***************************************************************************)
EXTENDS Engine, TLAPS

\* The exported getters only name what they read.
USE DEF GetStatus, GetEngineLastError, GetStats, readTraffic

\* The critical section of e.mu, and the labels outside it.
Held == InStart \cup InCleanup

\* A caller that is idle or waits for e.mu is outside the critical section.
LEMMA Labels == /\ "idle" \notin Held /\ "lock" \notin Held
                /\ InStart \subseteq Held /\ InCleanup \subseteq Held
BY DEF Held, InStart, InCleanup

\* e.instance is nil or a session, never both.
LEMMA NilNoSession == Nil \notin Sessions
BY BoundsAssumption DEF Nil, Sessions

\* Within the bound, the session that start opens next is a session, not nil.
LEMMA NextSession ==
    ASSUME NEW s \in Sessions \cup {Nil}, s < MaxSessions PROVE s + 1 \in Sessions
BY BoundsAssumption DEF Sessions, Nil

\* Counting one more event within its bound stays within the bound.
LEMMA NextCount ==
    ASSUME NEW n \in 0 .. MaxBytes, n < MaxBytes PROVE n + 1 \in 0 .. MaxBytes
BY BoundsAssumption

\* What division rounds down to.
LEMMA Division ==
    ASSUME NEW a \in Nat, NEW d \in Nat \ {0}
    PROVE  /\ a \div d \in Nat
           /\ (a \div d) * d <= a /\ a < ((a \div d) + 1) * d
BY Z3

\* A quotient is no larger than what was divided.
LEMMA QuotientBound ==
    ASSUME NEW a \in Nat, NEW d \in Nat \ {0}, NEW q \in Nat, q * d <= a
    PROVE  q <= a
BY Z3

\* Multiplication is monotone and stays in the naturals.
LEMMA Times ==
    ASSUME NEW m \in Nat, NEW n \in Nat, NEW k \in Nat, m <= n
    PROVE  m * k \in Nat /\ n * k \in Nat /\ m * k <= n * k
BY Z3

\* perSecond rounds down the quotient of bytes and time; no time, no rate.
LEMMA PerSecondSpec ==
    ASSUME NEW bytes \in Nat, NEW time \in Nat
    PROVE  LET r == perSecond(bytes, time)
           IN  /\ r \in Nat /\ r <= bytes * PerSec
               /\ IF time = 0 THEN r = 0
                  ELSE r * time <= bytes * PerSec /\ bytes * PerSec < (r + 1) * time
<1> DEFINE r == perSecond(bytes, time)
<1>0. PerSec \in Nat /\ bytes * PerSec \in Nat
  BY BoundsAssumption, Times
<1>1. CASE time = 0
  BY <1>0, <1>1 DEF perSecond
<1>2. CASE time # 0 /\ bytes = 0
  <2>1. r = 0 /\ bytes * PerSec = 0
    BY <1>0, <1>2 DEF perSecond
  <2> HIDE DEF r
  <2>2. r * time = 0 /\ (r + 1) * time = time
    BY <2>1
  <2> QED
    BY <1>2, <2>1, <2>2 DEF r
<1>3. CASE time # 0 /\ bytes # 0
  <2> DEFINE a == bytes * PerSec
  <2>1. r = a \div time
    BY <1>3 DEF perSecond
  <2>2. a \in Nat /\ time \in Nat \ {0}
    BY <1>0, <1>3
  <2> HIDE DEF a
  <2>3. r \in Nat /\ r * time <= a /\ a < (r + 1) * time
    BY <2>1, <2>2, Division
  <2> HIDE DEF r
  <2>4. r <= a
    BY <2>2, <2>3, QuotientBound
  <2> QED
    BY <1>3, <2>3, <2>4 DEF a, r
<1> QED
  BY <1>1, <1>2, <1>3

\* The snapshot of a tick has its type, whatever the counter did.
LEMMA SampleType ==
    ASSUME NEW old \in Snapshot \cup {NoSnapshot}, NEW i \in Sessions,
           NEW total \in 0 .. MaxBytes, NEW now \in 0 .. MaxTime, old.at <= now
    PROVE  Sample(old, i, total, now) \in Snapshot
<1> DEFINE bytes == total - old.total
           time == now - old.at
           rate == IF old = NoSnapshot THEN 0 ELSE perSecond(bytes, time)
           bound == MaxBytes * PerSec
<1>0. MaxBytes \in Nat /\ MaxTime \in Nat /\ PerSec \in Nat /\ bound \in Nat
  BY BoundsAssumption, Times
<1>1. bytes \in Int /\ time \in Nat /\ bytes <= MaxBytes
  BY <1>0 DEF Snapshot, NoSnapshot
<1>2. CASE bytes \in Nat
  <2> HIDE DEF bytes, time
  <2>1. perSecond(bytes, time) \in Nat /\ perSecond(bytes, time) <= bytes * PerSec
    BY <1>1, <1>2, PerSecondSpec
  <2>2. bytes * PerSec \in Nat /\ bytes * PerSec <= MaxBytes * PerSec
    BY <1>0, <1>1, <1>2, Times
  <2> HIDE DEF bound
  <2>3. perSecond(bytes, time) \in 0 .. bound
    <3> DEFINE r == perSecond(bytes, time)
               volume == bytes * PerSec
    <3>1. volume \in Nat /\ volume <= bound
      BY <2>2 DEF bound
    <3>2. r \in Nat /\ r <= volume
      BY <2>1
    <3> HIDE DEF r, volume
    <3>3. r \in 0 .. bound
      BY <1>0, <3>1, <3>2
    <3> QED
      BY <3>3 DEF r
  <2>4. rate \in 0 .. bound
    BY <1>0, <2>3
  <2> HIDE DEF rate
  <2> QED
    BY <2>4 DEF Sample, Snapshot, rate, bound, bytes, time
<1>3. CASE bytes \notin Nat
  <2>1. rate = 0
    BY <1>1, <1>3 DEF perSecond
  <2> HIDE DEF rate, bound
  <2>2. rate \in 0 .. bound
    BY <1>0, <2>1
  <2> QED
    BY <2>2 DEF Sample, Snapshot, rate, bound
<1> QED
  BY <1>2, <1>3

\* The snapshot of a tick is in step with the one before.
LEMMA SampleStep ==
    ASSUME NEW old \in Snapshot, NEW i \in Sessions,
           NEW total \in 0 .. MaxBytes, NEW now \in 0 .. MaxTime,
           old.total <= total, old.at <= now
    PROVE  InStep(Sample(old, i, total, now), old)
<1> DEFINE bytes == total - old.total
           time == now - old.at
           rate == perSecond(bytes, time)
           volume == bytes * PerSec
           new == Sample(old, i, total, now)
<1>1. bytes \in Nat /\ time \in Nat
  BY BoundsAssumption DEF Snapshot
<1>2. old # NoSnapshot
  BY NilNoSession DEF Snapshot, NoSnapshot
<1>3. new.total - old.total = bytes /\ new.at - old.at = time /\ new.rate = rate
  BY <1>2 DEF Sample
<1> HIDE DEF bytes, time, new
<1>4. IF time = 0 THEN rate = 0 ELSE rate * time <= volume /\ volume < (rate + 1) * time
  BY <1>1, PerSecondSpec
<1> HIDE DEF rate
<1> QED
  BY <1>1, <1>3, <1>4 DEF InStep, new

\* The time of a snapshot, the nil one included, and that of a later tick.
LEMMA TickTime ==
    ASSUME NEW old \in Snapshot \cup {NoSnapshot}
    PROVE  /\ old.at \in 0 .. MaxTime
           /\ \A now \in old.at .. MaxTime : now \in 0 .. MaxTime /\ old.at <= now
<1>1. old.at \in 0 .. MaxTime /\ MaxTime \in Nat
  BY BoundsAssumption DEF Snapshot, NoSnapshot
<1> QED
  BY <1>1

\* Every action keeps the variables in their types.
LEMMA TypeStep == TypeOK /\ [Next]_vars => TypeOK'
<1> SUFFICES ASSUME TypeOK, [Next]_vars PROVE TypeOK'
  OBVIOUS
<1> USE DEF TypeOK, engineVars, meterVars, InStart, InCleanup, Status

<1>1. ASSUME NEW c \in Callers, CallStart(c) PROVE TypeOK'
  BY <1>1 DEF CallStart, Goto
<1>2. ASSUME NEW c \in Callers, CallStop(c) PROVE TypeOK'
  BY <1>2 DEF CallStop, Goto
<1>3. ASSUME NEW c \in Callers, AlreadyRunning(c) PROVE TypeOK'
  BY <1>3 DEF AlreadyRunning, Return, Goto
<1>4. ASSUME NEW c \in Callers, StartBegin(c) PROVE TypeOK'
  <2>1. session + 1 \in Sessions
    BY <1>4, NextSession DEF StartBegin
  <2> QED
    BY <1>4, <2>1 DEF StartBegin, Goto
<1>5. ASSUME NEW c \in Callers, ParseFails(c) PROVE TypeOK'
  BY <1>5 DEF ParseFails, FailWith, Goto
<1>6. ASSUME NEW c \in Callers, ParseSucceeds(c) PROVE TypeOK'
  BY <1>6 DEF ParseSucceeds, Goto
<1>7. ASSUME NEW c \in Callers, NewFails(c) PROVE TypeOK'
  BY <1>7 DEF NewFails, FailWith, Goto
<1>8. ASSUME NEW c \in Callers, NewSucceeds(c) PROVE TypeOK'
  BY <1>8 DEF NewSucceeds, Goto
<1>9. ASSUME NEW c \in Callers, StartFails(c) PROVE TypeOK'
  BY <1>9 DEF StartFails, Goto
<1>10. ASSUME NEW c \in Callers, StartFailed(c) PROVE TypeOK'
  BY <1>10 DEF StartFailed, FailWith, Goto
<1>11. ASSUME NEW c \in Callers, StartSucceeds(c) PROVE TypeOK'
  BY <1>11 DEF StartSucceeds, Goto
<1>12. ASSUME NEW c \in Callers, SetErrorStatus(c) PROVE TypeOK'
  BY <1>12 DEF SetErrorStatus, Return, Goto
<1>13. ASSUME NEW c \in Callers, Publish(c) PROVE TypeOK'
  BY <1>13 DEF Publish, Goto
<1>14. ASSUME NEW c \in Callers, SetRunning(c) PROVE TypeOK'
  BY <1>14 DEF SetRunning, Goto
<1>15. ASSUME NEW c \in Callers, StartTrafficPoller(c) PROVE TypeOK'
  BY <1>15 DEF StartTrafficPoller, newV2RayStatsReader, Return, Goto
<1>16. ASSUME NEW c \in Callers, StartPanics(c) PROVE TypeOK'
  BY <1>16 DEF StartPanics
<1>17. ASSUME NEW c \in Callers, PanicStatus(c) PROVE TypeOK'
  BY <1>17 DEF PanicStatus, Goto
<1>18. ASSUME NEW c \in Callers, PanicFinish(c) PROVE TypeOK'
  BY <1>18 DEF PanicFinish, Return, Goto
<1>19. ASSUME NEW c \in Callers, StopIdle(c) PROVE TypeOK'
  BY <1>19 DEF StopIdle, Return, Goto
<1>20. ASSUME NEW c \in Callers, StopBegin(c) PROVE TypeOK'
  BY <1>20 DEF StopBegin, Goto
<1>21. ASSUME NEW c \in Callers, StopFinish(c) PROVE TypeOK'
  BY <1>21 DEF StopFinish, Return, Goto
<1>22. ASSUME NEW c \in Callers, CleanupClose(c) PROVE TypeOK'
  BY <1>22 DEF CleanupClose, Goto
<1>23. ASSUME NEW c \in Callers, CleanupNothing(c) PROVE TypeOK'
  BY <1>23 DEF CleanupNothing, Goto
<1>24. ASSUME NEW c \in Callers, CleanupClosed(c) PROVE TypeOK'
  BY <1>24 DEF CleanupClosed, DropInstance, Goto
<1>25. ASSUME NEW c \in Callers, CleanupTimeout(c) PROVE TypeOK'
  BY <1>25 DEF CleanupTimeout, DropInstance, Goto
<1>26. ASSUME NEW c \in Callers, CleanupCancel(c) PROVE TypeOK'
  BY <1>26 DEF CleanupCancel, Goto
<1>27. ASSUME NEW i \in Sessions, CloseReturns(i) PROVE TypeOK'
  BY <1>27 DEF CloseReturns, Goto
<1>28. ASSUME NEW i \in Sessions, CountTraffic(i) PROVE TypeOK'
  <2>1. counter[i] + 1 \in 0 .. MaxBytes
    BY <1>28, NextCount DEF CountTraffic
  <2> QED
    BY <1>28, <2>1 DEF CountTraffic
<1>29. ASSUME NEW i \in Sessions, PollTick(i) PROVE TypeOK'
  <2>1. PICK now \in last[i].at .. MaxTime :
           last' = [last EXCEPT ![i] = Sample(@, i, read(i), now)]
    BY <1>29 DEF PollTick
  <2>2. last[i] \in Snapshot \cup {NoSnapshot} /\ counter[i] \in 0 .. MaxBytes
    OBVIOUS
  <2>3. now \in 0 .. MaxTime /\ last[i].at <= now
    BY <2>2, TickTime
  <2>5. Sample(last[i], i, read(i), now) \in Snapshot
    BY <2>2, <2>3, SampleType DEF read
  <2>6. last' \in [Sessions -> Snapshot \cup {NoSnapshot}]
    BY <2>1, <2>5
  <2>7. poller' \in [Sessions -> {"none", "select", "store", "done"}]
    BY <1>29 DEF PollTick
  <2>8. UNCHANGED <<engineVars, core, counter, traffic, peek>>
    BY <1>29 DEF PollTick
  <2> QED
    BY <2>6, <2>7, <2>8
<1>30. ASSUME NEW i \in Sessions, PollStore(i) PROVE TypeOK'
  BY <1>30 DEF PollStore, Goto
<1>31. ASSUME NEW i \in Sessions, PollDone(i) PROVE TypeOK'
  BY <1>31 DEF PollDone, Goto
<1>33. CASE HostReads
  BY <1>33 DEF HostReads, ReadStatus, ReadLastError
<1>32. CASE UNCHANGED vars
  <2>1. /\ UNCHANGED <<mu, op, pc, status, lastError, instance, cancel, session, ctx>>
        /\ UNCHANGED <<core, counter, poller, last, traffic, peek>>
    BY <1>32 DEF vars
  <2> QED
    BY <2>1
<1> QED
  BY <1>1, <1>2, <1>3, <1>4, <1>5, <1>6, <1>7, <1>8, <1>9, <1>10, <1>11, <1>12, <1>13,
     <1>14, <1>15, <1>16, <1>17, <1>18, <1>19, <1>20, <1>21, <1>22, <1>23, <1>24, <1>25,
     <1>26, <1>27, <1>28, <1>29, <1>30, <1>31, <1>32, <1>33
  DEF Next, CallerStep, StartStep, CoreStep, StopStep, CleanupStep, SessionStep

\* A step of the holder of e.mu inside its critical section.
LEMMA InnerStep ==
    ASSUME TypeOK, LockInv, NEW c \in Callers, NEW p \in Held,
           pc[c] \in Held, p \in InStart => pc[c] \in InStart,
           pc' = [pc EXCEPT ![c] = p], UNCHANGED <<mu, op>>
    PROVE  LockInv'
BY Labels DEF LockInv, TypeOK, Held

\* A call that locks, returns and unlocks.
LEMMA ReturnStep ==
    ASSUME TypeOK, LockInv, NEW c \in Callers, NEW from \in Held \cup {"lock"},
           from = "lock" => mu = NoCaller, Return(c, from)
    PROVE  LockInv'
BY CallersAssumption, Labels DEF LockInv, TypeOK, Held, Return, Goto

\* Entering the critical section.
LEMMA EnterStep ==
    ASSUME TypeOK, LockInv, NEW c \in Callers, NEW p \in Held, mu = NoCaller,
           p \in InStart => op[c] = "start",
           Goto(c, "lock", p), mu' = c, UNCHANGED op
    PROVE  LockInv'
BY CallersAssumption, Labels DEF LockInv, TypeOK, Held, Goto

\* e.mu is held by the caller between Lock and Unlock, and by nobody else.
LEMMA LockStep == TypeOK /\ LockInv /\ [Next]_vars => LockInv'
<1> SUFFICES ASSUME TypeOK, LockInv, [Next]_vars PROVE LockInv'
  OBVIOUS
<1>1. ASSUME NEW c \in Callers, CallStart(c) PROVE LockInv'
  BY <1>1, Labels DEF CallStart, Goto, LockInv, TypeOK, Held
<1>2. ASSUME NEW c \in Callers, CallStop(c) PROVE LockInv'
  BY <1>2, Labels DEF CallStop, Goto, LockInv, TypeOK, Held
<1>3. ASSUME NEW c \in Callers, AlreadyRunning(c) PROVE LockInv'
  BY <1>3, ReturnStep DEF AlreadyRunning, Held, InStart, InCleanup
<1>4. ASSUME NEW c \in Callers, StartBegin(c) PROVE LockInv'
  BY <1>4, EnterStep DEF StartBegin, Held, InStart, InCleanup
<1>5. ASSUME NEW c \in Callers, ParseFails(c) PROVE LockInv'
  BY <1>5, InnerStep DEF ParseFails, FailWith, Goto, Held, InStart, InCleanup
<1>6. ASSUME NEW c \in Callers, ParseSucceeds(c) PROVE LockInv'
  BY <1>6, InnerStep DEF ParseSucceeds, Goto, Held, InStart, InCleanup
<1>7. ASSUME NEW c \in Callers, NewFails(c) PROVE LockInv'
  BY <1>7, InnerStep DEF NewFails, FailWith, Goto, Held, InStart, InCleanup
<1>8. ASSUME NEW c \in Callers, NewSucceeds(c) PROVE LockInv'
  BY <1>8, InnerStep DEF NewSucceeds, Goto, Held, InStart, InCleanup
<1>9. ASSUME NEW c \in Callers, StartFails(c) PROVE LockInv'
  BY <1>9, InnerStep DEF StartFails, Goto, Held, InStart, InCleanup
<1>10. ASSUME NEW c \in Callers, StartFailed(c) PROVE LockInv'
  BY <1>10, InnerStep DEF StartFailed, FailWith, Goto, Held, InStart, InCleanup
<1>11. ASSUME NEW c \in Callers, StartSucceeds(c) PROVE LockInv'
  BY <1>11, InnerStep DEF StartSucceeds, Goto, Held, InStart, InCleanup
<1>12. ASSUME NEW c \in Callers, SetErrorStatus(c) PROVE LockInv'
  BY <1>12, ReturnStep DEF SetErrorStatus, Held, InStart, InCleanup
<1>13. ASSUME NEW c \in Callers, Publish(c) PROVE LockInv'
  BY <1>13, InnerStep DEF Publish, Goto, Held, InStart, InCleanup
<1>14. ASSUME NEW c \in Callers, SetRunning(c) PROVE LockInv'
  BY <1>14, InnerStep DEF SetRunning, Goto, Held, InStart, InCleanup
<1>15. ASSUME NEW c \in Callers, StartTrafficPoller(c) PROVE LockInv'
  BY <1>15, ReturnStep DEF StartTrafficPoller, newV2RayStatsReader, Held, InStart, InCleanup
<1>16. ASSUME NEW c \in Callers, StartPanics(c) PROVE LockInv'
  BY <1>16, InnerStep DEF StartPanics, Held, InStart, InCleanup
<1>17. ASSUME NEW c \in Callers, PanicStatus(c) PROVE LockInv'
  BY <1>17, InnerStep DEF PanicStatus, Goto, Held, InStart, InCleanup
<1>18. ASSUME NEW c \in Callers, PanicFinish(c) PROVE LockInv'
  BY <1>18, ReturnStep DEF PanicFinish, Held, InStart, InCleanup
<1>19. ASSUME NEW c \in Callers, StopIdle(c) PROVE LockInv'
  BY <1>19, ReturnStep DEF StopIdle, Held, InStart, InCleanup
<1>20. ASSUME NEW c \in Callers, StopBegin(c) PROVE LockInv'
  BY <1>20, EnterStep DEF StopBegin, Held, InStart, InCleanup
<1>21. ASSUME NEW c \in Callers, StopFinish(c) PROVE LockInv'
  BY <1>21, ReturnStep DEF StopFinish, Held, InStart, InCleanup
<1>22. ASSUME NEW c \in Callers, CleanupClose(c) PROVE LockInv'
  BY <1>22, InnerStep DEF CleanupClose, Goto, Held, InStart, InCleanup
<1>23. ASSUME NEW c \in Callers, CleanupNothing(c) PROVE LockInv'
  BY <1>23, InnerStep DEF CleanupNothing, Goto, Held, InStart, InCleanup
<1>24. ASSUME NEW c \in Callers, CleanupClosed(c) PROVE LockInv'
  BY <1>24, InnerStep DEF CleanupClosed, DropInstance, Goto, Held, InStart, InCleanup
<1>25. ASSUME NEW c \in Callers, CleanupTimeout(c) PROVE LockInv'
  BY <1>25, InnerStep DEF CleanupTimeout, DropInstance, Goto, Held, InStart, InCleanup
<1>26. ASSUME NEW c \in Callers, CleanupCancel(c) PROVE LockInv'
  BY <1>26, InnerStep DEF CleanupCancel, Goto, Held, InStart, InCleanup
<1>27. ASSUME NEW i \in Sessions, CloseReturns(i) PROVE LockInv'
  BY <1>27 DEF CloseReturns, LockInv, engineVars
<1>28. ASSUME NEW i \in Sessions, CountTraffic(i) PROVE LockInv'
  BY <1>28 DEF CountTraffic, LockInv, engineVars
<1>29. ASSUME NEW i \in Sessions, PollTick(i) PROVE LockInv'
  BY <1>29 DEF PollTick, read, LockInv, engineVars
<1>30. ASSUME NEW i \in Sessions, PollStore(i) PROVE LockInv'
  BY <1>30 DEF PollStore, LockInv, engineVars
<1>31. ASSUME NEW i \in Sessions, PollDone(i) PROVE LockInv'
  BY <1>31 DEF PollDone, LockInv, engineVars
<1>33. CASE HostReads
  BY <1>33 DEF HostReads, ReadStatus, ReadLastError, LockInv, engineVars
<1>32. CASE UNCHANGED vars
  BY <1>32 DEF vars, engineVars, LockInv
<1> QED
  BY <1>1, <1>2, <1>3, <1>4, <1>5, <1>6, <1>7, <1>8, <1>9, <1>10, <1>11, <1>12, <1>13,
     <1>14, <1>15, <1>16, <1>17, <1>18, <1>19, <1>20, <1>21, <1>22, <1>23, <1>24, <1>25,
     <1>26, <1>27, <1>28, <1>29, <1>30, <1>31, <1>32, <1>33
  DEF Next, CallerStep, StartStep, CoreStep, StopStep, CleanupStep, SessionStep

\* Sessions and nil are integers, so they can be compared.
LEMMA SessionsAreInts == ASSUME NEW s \in Sessions \cup {Nil} PROVE s \in Int
BY BoundsAssumption DEF Nil, Sessions

\* A fresh counter is within the bound on the bytes counted.
LEMMA ZeroBytes == 0 \in 0 .. MaxBytes
BY BoundsAssumption

\* Byte counts are integers.
LEMMA BytesAreInts == ASSUME NEW n \in 0 .. MaxBytes PROVE n \in Int
BY BoundsAssumption

\* A caller outside the critical section constrains nothing.
LEMMA Outside ==
    ASSUME NEW d \in Callers, pc'[d] \in {"idle", "lock"}
    PROVE  StartPoint(d)' /\ CleanupPoint(d)'
BY DEF StartPoint, CleanupPoint, InCleanup

\* So the assertions of all callers follow from those of the holder, if any.
LEMMA HolderStep ==
    ASSUME TypeOK', LockInv', NEW c \in Callers, mu' = c,
           StartPoint(c)', CleanupPoint(c)'
    PROVE  (\A d \in Callers : StartPoint(d) /\ CleanupPoint(d))' /\ QuietInv'
<1>1. ASSUME NEW d \in Callers, d # c PROVE pc'[d] \in {"idle", "lock"}
  BY <1>1 DEF TypeOK, LockInv
<1>2. \A d \in Callers : StartPoint(d)' /\ CleanupPoint(d)'
  BY <1>1, Outside
<1> QED
  BY <1>2, CallersAssumption DEF QuietInv

\* A step that leaves nobody in the critical section has only the free agreement
\* of the fields to establish.
LEMMA FreeStep ==
    ASSUME TypeOK', LockInv', mu' = NoCaller
    PROVE  (\A d \in Callers : StartPoint(d) /\ CleanupPoint(d))'
<1>1. ASSUME NEW d \in Callers PROVE pc'[d] \in {"idle", "lock"}
  BY <1>1, CallersAssumption DEF TypeOK, LockInv
<1> QED
  BY <1>1, Outside

FieldInv ==
    /\ \A c \in Callers : StartPoint(c) /\ CleanupPoint(c)
    /\ QuietInv
    /\ ErrorInv

\* The assertions at the program points, and the agreement of the fields when
\* e.mu is free, survive every step.
LEMMA FieldStep == IInv /\ [Next]_vars => FieldInv'
<1> SUFFICES ASSUME IInv, [Next]_vars PROVE FieldInv'
  OBVIOUS
<1>t. TypeOK /\ LockInv /\ TypeOK' /\ LockInv'
  BY TypeStep, LockStep DEF IInv
<1>h. ASSUME NEW c \in Callers, mu' = c, StartPoint(c)', CleanupPoint(c)', ErrorInv'
      PROVE  FieldInv'
  BY <1>t, <1>h, HolderStep DEF FieldInv
<1>f. ASSUME mu' = NoCaller, QuietInv', ErrorInv' PROVE FieldInv'
  BY <1>t, <1>f, FreeStep DEF FieldInv
<1>p. ASSUME NEW c \in Callers
      PROVE  StartPoint(c) /\ CleanupPoint(c) /\ QuietInv /\ ErrorInv
  BY DEF IInv
<1>o. ASSUME NEW c \in Callers, pc[c] \in Held PROVE mu = c
  BY <1>t, <1>o DEF LockInv, Held
<1>q. ASSUME NEW c \in Callers, pc[c] = "panicStatus" PROVE op[c] = "start"
  BY <1>t, <1>q DEF LockInv, InStart
<1>1. ASSUME NEW c \in Callers, CallStart(c) PROVE FieldInv'
  <2>1. ASSUME NEW d \in Callers PROVE StartPoint(d)' /\ CleanupPoint(d)'
    <3>1. CASE d = c
      BY <1>1, <3>1, <1>t, Outside DEF CallStart, Goto, TypeOK
    <3>2. CASE d # c
      <4>1. pc'[d] = pc[d] /\ op'[d] = op[d]
        BY <1>1, <3>2, <1>t DEF CallStart, Goto, TypeOK
      <4>2. StartPoint(d)'
        BY <1>1, <4>1, <1>p DEF CallStart, StartPoint, SessionUp
      <4>3. CleanupPoint(d)'
        BY <1>1, <4>1, <1>p DEF CallStart, CleanupPoint, SessionUp
      <4> QED
        BY <4>2, <4>3
    <3> QED
      BY <3>1, <3>2
  <2> QED
    BY <1>1, <2>1, <1>p DEF CallStart, FieldInv, QuietInv, SessionUp, ErrorInv
<1>2. ASSUME NEW c \in Callers, CallStop(c) PROVE FieldInv'
  <2>1. ASSUME NEW d \in Callers PROVE StartPoint(d)' /\ CleanupPoint(d)'
    <3>1. CASE d = c
      BY <1>2, <3>1, <1>t, Outside DEF CallStop, Goto, TypeOK
    <3>2. CASE d # c
      <4>1. pc'[d] = pc[d] /\ op'[d] = op[d]
        BY <1>2, <3>2, <1>t DEF CallStop, Goto, TypeOK
      <4>2. StartPoint(d)'
        BY <1>2, <4>1, <1>p DEF CallStop, StartPoint, SessionUp
      <4>3. CleanupPoint(d)'
        BY <1>2, <4>1, <1>p DEF CallStop, CleanupPoint, SessionUp
      <4> QED
        BY <4>2, <4>3
    <3> QED
      BY <3>1, <3>2
  <2> QED
    BY <1>2, <2>1, <1>p DEF CallStop, FieldInv, QuietInv, SessionUp, ErrorInv
<1>3. ASSUME NEW c \in Callers, AlreadyRunning(c) PROVE FieldInv'
  BY <1>3, <1>f, <1>p
    DEF AlreadyRunning, Return, Goto, StartPoint, CleanupPoint, SessionUp, QuietInv,
     ErrorInv, InCleanup
<1>4. ASSUME NEW c \in Callers, StartBegin(c) PROVE FieldInv'
  <2>1. pc'[c] = "parse" /\ pc[c] = "lock"
    BY <1>4, <1>t DEF StartBegin, Goto, TypeOK
  <2>2. session' \in Sessions
    BY <1>4, <2>1, <1>t, <1>p, NextSession
      DEF StartBegin, Goto, StartPoint, CleanupPoint, SessionUp, TypeOK
  <2>7. ctx'[session'] = "live" /\ session' # Nil
    BY <1>4, <2>2, <1>t, NilNoSession DEF StartBegin, TypeOK
  <2>3. StartPoint(c)'
    BY <1>4, <2>1, <2>7, <1>p DEF StartBegin, Goto, StartPoint, SessionUp, QuietInv
  <2>4. CleanupPoint(c)'
    BY <2>1 DEF CleanupPoint, InCleanup
  <2>5. ErrorInv'
    BY <1>4, <2>1, <1>p DEF StartBegin, Goto, StartPoint, ErrorInv
  <2>6. mu' = c
    BY <1>4 DEF StartBegin
  <2> QED
    BY <2>3, <2>4, <2>5, <2>6, <1>h
<1>5. ASSUME NEW c \in Callers, ParseFails(c) PROVE FieldInv'
  <2>1. pc'[c] = "setError" /\ pc[c] = "parse"
    BY <1>5, <1>t DEF ParseFails, FailWith, Goto, TypeOK
  <2>2. session \in Sessions
    BY <1>5, <2>1, <1>t, <1>p
      DEF ParseFails, FailWith, Goto, StartPoint, CleanupPoint, SessionUp, TypeOK
  <2>3. StartPoint(c)'
    BY <1>5, <2>1, <2>2, <1>t, <1>p
      DEF ParseFails, FailWith, Goto, StartPoint, SessionUp, TypeOK
  <2>4. CleanupPoint(c)'
    BY <2>1 DEF CleanupPoint, InCleanup
  <2>5. ErrorInv'
    BY <1>5, <2>1, <1>p DEF ParseFails, FailWith, Goto, StartPoint, ErrorInv
  <2>6. mu' = c
    BY <1>5, <1>o DEF ParseFails, FailWith, Goto, Held, InStart, InCleanup
  <2> QED
    BY <2>3, <2>4, <2>5, <2>6, <1>h
<1>6. ASSUME NEW c \in Callers, ParseSucceeds(c) PROVE FieldInv'
  <2>1. pc'[c] = "new" /\ pc[c] = "parse"
    BY <1>6, <1>t DEF ParseSucceeds, Goto, TypeOK
  <2>3. StartPoint(c)'
    BY <1>6, <2>1, <1>p DEF ParseSucceeds, Goto, StartPoint, SessionUp
  <2>4. CleanupPoint(c)'
    BY <2>1 DEF CleanupPoint, InCleanup
  <2>5. ErrorInv'
    BY <1>6, <2>1, <1>p DEF ParseSucceeds, Goto, StartPoint, ErrorInv
  <2>6. mu' = c
    BY <1>6, <1>o DEF ParseSucceeds, Goto, Held, InStart, InCleanup
  <2> QED
    BY <2>3, <2>4, <2>5, <2>6, <1>h
<1>7. ASSUME NEW c \in Callers, NewFails(c) PROVE FieldInv'
  <2>1. pc'[c] = "setError" /\ pc[c] = "new"
    BY <1>7, <1>t DEF NewFails, FailWith, Goto, TypeOK
  <2>2. session \in Sessions
    BY <1>7, <2>1, <1>t, <1>p
      DEF NewFails, FailWith, Goto, StartPoint, CleanupPoint, SessionUp, TypeOK
  <2>3. StartPoint(c)'
    BY <1>7, <2>1, <2>2, <1>t, <1>p
      DEF NewFails, FailWith, Goto, StartPoint, SessionUp, TypeOK
  <2>4. CleanupPoint(c)'
    BY <2>1 DEF CleanupPoint, InCleanup
  <2>5. ErrorInv'
    BY <1>7, <2>1, <1>p DEF NewFails, FailWith, Goto, StartPoint, ErrorInv
  <2>6. mu' = c
    BY <1>7, <1>o DEF NewFails, FailWith, Goto, Held, InStart, InCleanup
  <2> QED
    BY <2>3, <2>4, <2>5, <2>6, <1>h
<1>8. ASSUME NEW c \in Callers, NewSucceeds(c) PROVE FieldInv'
  <2>1. pc'[c] = "start" /\ pc[c] = "new"
    BY <1>8, <1>t DEF NewSucceeds, Goto, TypeOK
  <2>2. session \in Sessions
    BY <1>8, <2>1, <1>t, <1>p
      DEF NewSucceeds, Goto, StartPoint, CleanupPoint, SessionUp, TypeOK
  <2>3. StartPoint(c)'
    BY <1>8, <2>1, <2>2, <1>t, <1>p DEF NewSucceeds, Goto, StartPoint, SessionUp, TypeOK
  <2>4. CleanupPoint(c)'
    BY <2>1 DEF CleanupPoint, InCleanup
  <2>5. ErrorInv'
    BY <1>8, <2>1, <1>p DEF NewSucceeds, Goto, StartPoint, ErrorInv
  <2>6. mu' = c
    BY <1>8, <1>o DEF NewSucceeds, Goto, Held, InStart, InCleanup
  <2> QED
    BY <2>3, <2>4, <2>5, <2>6, <1>h
<1>9. ASSUME NEW c \in Callers, StartFails(c) PROVE FieldInv'
  <2>1. pc'[c] = "failClose" /\ pc[c] = "start"
    BY <1>9, <1>t DEF StartFails, Goto, TypeOK
  <2>2. session \in Sessions
    BY <1>9, <2>1, <1>t, <1>p
      DEF StartFails, Goto, StartPoint, CleanupPoint, SessionUp, TypeOK
  <2>3. StartPoint(c)'
    BY <1>9, <2>1, <2>2, <1>t, <1>p DEF StartFails, Goto, StartPoint, SessionUp, TypeOK
  <2>4. CleanupPoint(c)'
    BY <2>1 DEF CleanupPoint, InCleanup
  <2>5. ErrorInv'
    BY <1>9, <2>1, <1>p DEF StartFails, Goto, StartPoint, ErrorInv
  <2>6. mu' = c
    BY <1>9, <1>o DEF StartFails, Goto, Held, InStart, InCleanup
  <2> QED
    BY <2>3, <2>4, <2>5, <2>6, <1>h
<1>10. ASSUME NEW c \in Callers, StartFailed(c) PROVE FieldInv'
  <2>1. pc'[c] = "setError" /\ pc[c] = "failClose"
    BY <1>10, <1>t DEF StartFailed, FailWith, Goto, TypeOK
  <2>2. session \in Sessions
    BY <1>10, <2>1, <1>t, <1>p
      DEF StartFailed, FailWith, Goto, StartPoint, CleanupPoint, SessionUp, TypeOK
  <2>3. StartPoint(c)'
    BY <1>10, <2>1, <2>2, <1>t, <1>p
      DEF StartFailed, FailWith, Goto, StartPoint, SessionUp, TypeOK
  <2>4. CleanupPoint(c)'
    BY <2>1 DEF CleanupPoint, InCleanup
  <2>5. ErrorInv'
    BY <1>10, <2>1, <1>p DEF StartFailed, FailWith, Goto, StartPoint, ErrorInv
  <2>6. mu' = c
    BY <1>10, <1>o DEF StartFailed, FailWith, Goto, Held, InStart, InCleanup
  <2> QED
    BY <2>3, <2>4, <2>5, <2>6, <1>h
<1>11. ASSUME NEW c \in Callers, StartSucceeds(c) PROVE FieldInv'
  <2>1. pc'[c] = "publish" /\ pc[c] = "start"
    BY <1>11, <1>t DEF StartSucceeds, Goto, TypeOK
  <2>3. StartPoint(c)'
    BY <1>11, <2>1, <1>p DEF StartSucceeds, Goto, StartPoint, SessionUp
  <2>4. CleanupPoint(c)'
    BY <2>1 DEF CleanupPoint, InCleanup
  <2>5. ErrorInv'
    BY <1>11, <2>1, <1>p DEF StartSucceeds, Goto, StartPoint, ErrorInv
  <2>6. mu' = c
    BY <1>11, <1>o DEF StartSucceeds, Goto, Held, InStart, InCleanup
  <2> QED
    BY <2>3, <2>4, <2>5, <2>6, <1>h
<1>12. ASSUME NEW c \in Callers, SetErrorStatus(c) PROVE FieldInv'
  BY <1>12, <1>f, <1>p
    DEF SetErrorStatus, Return, Goto, StartPoint, CleanupPoint, SessionUp, QuietInv,
     ErrorInv, InCleanup
<1>13. ASSUME NEW c \in Callers, Publish(c) PROVE FieldInv'
  <2>1. pc'[c] = "setRunning" /\ pc[c] = "publish"
    BY <1>13, <1>t DEF Publish, Goto, TypeOK
  <2>3. StartPoint(c)'
    BY <1>13, <2>1, <1>p DEF Publish, Goto, StartPoint, SessionUp
  <2>4. CleanupPoint(c)'
    BY <2>1 DEF CleanupPoint, InCleanup
  <2>5. ErrorInv'
    BY <1>13, <2>1, <1>p DEF Publish, Goto, StartPoint, ErrorInv
  <2>6. mu' = c
    BY <1>13, <1>o DEF Publish, Goto, Held, InStart, InCleanup
  <2> QED
    BY <2>3, <2>4, <2>5, <2>6, <1>h
<1>14. ASSUME NEW c \in Callers, SetRunning(c) PROVE FieldInv'
  <2>1. pc'[c] = "poller" /\ pc[c] = "setRunning"
    BY <1>14, <1>t DEF SetRunning, Goto, TypeOK
  <2>3. StartPoint(c)'
    BY <1>14, <2>1, <1>p DEF SetRunning, Goto, StartPoint, SessionUp
  <2>4. CleanupPoint(c)'
    BY <2>1 DEF CleanupPoint, InCleanup
  <2>5. ErrorInv'
    BY <1>14, <2>1, <1>p DEF SetRunning, Goto, StartPoint, ErrorInv
  <2>6. mu' = c
    BY <1>14, <1>o DEF SetRunning, Goto, Held, InStart, InCleanup
  <2> QED
    BY <2>3, <2>4, <2>5, <2>6, <1>h
<1>15. ASSUME NEW c \in Callers, StartTrafficPoller(c) PROVE FieldInv'
  BY <1>15, <1>f, <1>p
    DEF StartTrafficPoller, newV2RayStatsReader, Return, Goto, StartPoint, CleanupPoint, SessionUp, QuietInv,
     ErrorInv, InCleanup
<1>16. ASSUME NEW c \in Callers, StartPanics(c) PROVE FieldInv'
  <2>1. pc'[c] = "panicStatus"
    BY <1>16, <1>t DEF StartPanics, TypeOK
  <2>3. StartPoint(c)'
    BY <1>16, <2>1, <1>p DEF StartPanics, StartPoint, SessionUp
  <2>4. CleanupPoint(c)'
    BY <2>1 DEF CleanupPoint, InCleanup
  <2>5. ErrorInv'
    BY <1>16, <2>1, <1>p DEF StartPanics, StartPoint, ErrorInv
  <2>6. mu' = c
    BY <1>16, <1>o DEF StartPanics, Held, InStart, InCleanup
  <2> QED
    BY <2>3, <2>4, <2>5, <2>6, <1>h
<1>17. ASSUME NEW c \in Callers, PanicStatus(c) PROVE FieldInv'
  <2>1. pc'[c] = "close" /\ pc[c] = "panicStatus"
    BY <1>17, <1>t DEF PanicStatus, Goto, TypeOK
  <2>3. StartPoint(c)'
    BY <2>1 DEF StartPoint
  <2>4. CleanupPoint(c)'
    BY <1>17, <2>1, <1>p, <1>q
      DEF PanicStatus, Goto, StartPoint, CleanupPoint, InCleanup, SessionUp
  <2>5. ErrorInv'
    BY <1>17, <2>1, <1>p DEF PanicStatus, Goto, StartPoint, ErrorInv
  <2>6. mu' = c
    BY <1>17, <1>o DEF PanicStatus, Goto, Held, InStart, InCleanup
  <2> QED
    BY <2>3, <2>4, <2>5, <2>6, <1>h
<1>18. ASSUME NEW c \in Callers, PanicFinish(c) PROVE FieldInv'
  BY <1>18, <1>f, <1>p
    DEF PanicFinish, Return, Goto, StartPoint, CleanupPoint, SessionUp, QuietInv,
     ErrorInv, InCleanup
<1>19. ASSUME NEW c \in Callers, StopIdle(c) PROVE FieldInv'
  BY <1>19, <1>f, <1>p
    DEF StopIdle, Return, Goto, StartPoint, CleanupPoint, SessionUp, QuietInv,
     ErrorInv, InCleanup
<1>20. ASSUME NEW c \in Callers, StopBegin(c) PROVE FieldInv'
  <2>1. StartPoint(c)' /\ CleanupPoint(c)' /\ ErrorInv'
    BY <1>20, <1>t, <1>p
      DEF StopBegin, Goto, StartPoint, CleanupPoint, SessionUp, ErrorInv,
          InStart, InCleanup, Held, TypeOK, QuietInv
  <2> QED
    BY <1>20, <2>1, <1>h DEF StopBegin
<1>21. ASSUME NEW c \in Callers, StopFinish(c) PROVE FieldInv'
  BY <1>21, <1>f, <1>p
    DEF StopFinish, Return, Goto, StartPoint, CleanupPoint, SessionUp, QuietInv,
     ErrorInv, InCleanup
<1>22. ASSUME NEW c \in Callers, CleanupClose(c) PROVE FieldInv'
  <2>1. pc'[c] = "wait" /\ pc[c] = "close"
    BY <1>22, <1>t DEF CleanupClose, Goto, TypeOK
  <2>2. instance \in Sessions
    BY <1>22, <2>1, <1>t, <1>p
      DEF CleanupClose, Goto, StartPoint, CleanupPoint, SessionUp, TypeOK
  <2>7. core'[instance] = "closing"
    BY <1>22, <2>2, <1>t DEF CleanupClose, TypeOK
  <2>3. StartPoint(c)'
    BY <2>1 DEF StartPoint
  <2>4. CleanupPoint(c)'
    BY <1>22, <2>1, <2>7, <1>p, <1>q
      DEF CleanupClose, Goto, StartPoint, CleanupPoint, InCleanup, SessionUp
  <2>5. ErrorInv'
    BY <1>22, <2>1, <1>p DEF CleanupClose, Goto, StartPoint, ErrorInv
  <2>6. mu' = c
    BY <1>22, <1>o DEF CleanupClose, Goto, Held, InStart, InCleanup
  <2> QED
    BY <2>3, <2>4, <2>5, <2>6, <1>h
<1>23. ASSUME NEW c \in Callers, CleanupNothing(c) PROVE FieldInv'
  <2>1. pc'[c] = "cancel" /\ pc[c] = "close"
    BY <1>23, <1>t DEF CleanupNothing, Goto, TypeOK
  <2>3. StartPoint(c)'
    BY <2>1 DEF StartPoint
  <2>4. CleanupPoint(c)'
    BY <1>23, <2>1, <1>p, <1>q
      DEF CleanupNothing, Goto, StartPoint, CleanupPoint, InCleanup, SessionUp
  <2>5. ErrorInv'
    BY <1>23, <2>1, <1>p DEF CleanupNothing, Goto, StartPoint, ErrorInv
  <2>6. mu' = c
    BY <1>23, <1>o DEF CleanupNothing, Goto, Held, InStart, InCleanup
  <2> QED
    BY <2>3, <2>4, <2>5, <2>6, <1>h
<1>24. ASSUME NEW c \in Callers, CleanupClosed(c) PROVE FieldInv'
  <2>1. pc'[c] = "cancel" /\ pc[c] = "wait"
    BY <1>24, <1>t DEF CleanupClosed, DropInstance, Goto, TypeOK
  <2>3. StartPoint(c)'
    BY <2>1 DEF StartPoint
  <2>4. CleanupPoint(c)'
    BY <1>24, <2>1, <1>p, <1>q
      DEF CleanupClosed, DropInstance, Goto, StartPoint, CleanupPoint, InCleanup,
          SessionUp
  <2>5. ErrorInv'
    BY <1>24, <2>1, <1>p DEF CleanupClosed, DropInstance, Goto, StartPoint, ErrorInv
  <2>6. mu' = c
    BY <1>24, <1>o DEF CleanupClosed, DropInstance, Goto, Held, InStart, InCleanup
  <2> QED
    BY <2>3, <2>4, <2>5, <2>6, <1>h
<1>25. ASSUME NEW c \in Callers, CleanupTimeout(c) PROVE FieldInv'
  <2>1. pc'[c] = "cancel" /\ pc[c] = "wait"
    BY <1>25, <1>t DEF CleanupTimeout, DropInstance, Goto, TypeOK
  <2>3. StartPoint(c)'
    BY <2>1 DEF StartPoint
  <2>4. CleanupPoint(c)'
    BY <1>25, <2>1, <1>p, <1>q
      DEF CleanupTimeout, DropInstance, Goto, StartPoint, CleanupPoint, InCleanup,
          SessionUp
  <2>5. ErrorInv'
    BY <1>25, <2>1, <1>p DEF CleanupTimeout, DropInstance, Goto, StartPoint, ErrorInv
  <2>6. mu' = c
    BY <1>25, <1>o DEF CleanupTimeout, DropInstance, Goto, Held, InStart, InCleanup
  <2> QED
    BY <2>3, <2>4, <2>5, <2>6, <1>h
<1>26. ASSUME NEW c \in Callers, CleanupCancel(c) PROVE FieldInv'
  <2>1. pc'[c] = "finish" /\ pc[c] = "cancel"
    BY <1>26, <1>t DEF CleanupCancel, Goto, TypeOK
  <2>3. StartPoint(c)'
    BY <2>1 DEF StartPoint
  <2>4. CleanupPoint(c)'
    BY <1>26, <2>1, <1>p, <1>q
      DEF CleanupCancel, Goto, StartPoint, CleanupPoint, InCleanup, SessionUp
  <2>5. ErrorInv'
    BY <1>26, <2>1, <1>p DEF CleanupCancel, Goto, StartPoint, ErrorInv
  <2>6. mu' = c
    BY <1>26, <1>o DEF CleanupCancel, Goto, Held, InStart, InCleanup
  <2> QED
    BY <2>3, <2>4, <2>5, <2>6, <1>h
<1>27. ASSUME NEW i \in Sessions, CloseReturns(i) PROVE FieldInv'
  <2>1. \A j \in Sessions : /\ core[j] = "live" => core'[j] = "live"
                            /\ core[j] \in {"closing", "closed"} => core'[j] \in {"closing", "closed"}
    BY <1>27, <1>t DEF CloseReturns, TypeOK
  <2>2. UNCHANGED engineVars
    BY <1>27 DEF CloseReturns
  <2>3. SessionUp => SessionUp'
    BY <2>1, <2>2, <1>t DEF SessionUp, engineVars, TypeOK
  <2>4. ASSUME NEW c \in Callers PROVE StartPoint(c)'
    BY <2>1, <2>2, <2>3, <1>p, <1>t DEF StartPoint, engineVars, TypeOK
  <2>5. ASSUME NEW c \in Callers PROVE CleanupPoint(c)'
    BY <2>1, <2>2, <2>3, <1>p, <1>t DEF CleanupPoint, engineVars, TypeOK
  <2>6. QuietInv' /\ ErrorInv'
    BY <2>2, <2>3 DEF QuietInv, ErrorInv, engineVars, IInv
  <2> QED
    BY <2>4, <2>5, <2>6 DEF FieldInv
<1>28. CASE UNCHANGED <<engineVars, core>>
  BY <1>28, <1>p DEF FieldInv, engineVars, StartPoint, CleanupPoint, SessionUp, QuietInv,
     ErrorInv, IInv
<1>29. ASSUME NEW i \in Sessions, CountTraffic(i) PROVE FieldInv'
  BY <1>29, <1>28 DEF CountTraffic
<1>30. ASSUME NEW i \in Sessions, PollTick(i) PROVE FieldInv'
  BY <1>30, <1>28 DEF PollTick, read
<1>31. ASSUME NEW i \in Sessions, PollStore(i) PROVE FieldInv'
  BY <1>31, <1>28 DEF PollStore
<1>32. ASSUME NEW i \in Sessions, PollDone(i) PROVE FieldInv'
  BY <1>32, <1>28 DEF PollDone
<1>33. CASE UNCHANGED vars
  BY <1>33, <1>28 DEF vars
<1>34. CASE HostReads
  BY <1>34, <1>28 DEF HostReads, ReadStatus, ReadLastError
<1> QED
  BY <1>1, <1>2, <1>3, <1>4, <1>5, <1>6, <1>7, <1>8, <1>9, <1>10, <1>11, <1>12, <1>13,
     <1>14, <1>15, <1>16, <1>17, <1>18, <1>19, <1>20, <1>21, <1>22, <1>23, <1>24, <1>25,
     <1>26, <1>27, <1>29, <1>30, <1>31, <1>32, <1>33, <1>34
  DEF Next, CallerStep, StartStep, CoreStep, StopStep, CleanupStep, SessionStep

\* Pollers of sessions to come, and of the one being opened, do not exist yet.
LEMMA FreshStep == TypeOK /\ LockInv /\ FreshInv /\ [Next]_vars => FreshInv'
<1> SUFFICES ASSUME TypeOK, LockInv, FreshInv, [Next]_vars PROVE FreshInv'
  OBVIOUS
<1>1. ASSUME UNCHANGED <<session, poller>>,
             \A d \in Callers : pc'[d] \in InStart => pc[d] \in InStart
      PROVE  FreshInv'
  BY <1>1 DEF FreshInv
<1>2. ASSUME NEW c \in Callers, StartBegin(c) PROVE FreshInv'
  <2>1. session \in Int /\ session' = session + 1 /\ UNCHANGED poller
    BY <1>2, SessionsAreInts DEF StartBegin, TypeOK, meterVars
  <2>2. \A i \in Sessions : i \in Int
    BY SessionsAreInts
  <2>3. \A i \in Sessions : i > session' \/ i = session' => i > session
    BY <2>1, <2>2
  <2> QED
    BY <2>1, <2>3 DEF FreshInv
<1>3. ASSUME NEW c \in Callers, StartTrafficPoller(c) PROVE FreshInv'
  <2>1. \A d \in Callers : pc'[d] \notin InStart
    <3>1. mu = c
      BY <1>3 DEF StartTrafficPoller, newV2RayStatsReader, Return, Goto, LockInv, InStart
    <3>2. \A d \in Callers \ {c} : pc'[d] = pc[d] /\ pc[d] \notin InStart
      BY <1>3, <3>1 DEF StartTrafficPoller, newV2RayStatsReader, Return, Goto, TypeOK, LockInv
    <3>3. pc'[c] \notin InStart
      BY <1>3 DEF StartTrafficPoller, newV2RayStatsReader, Return, Goto, TypeOK, InStart
    <3> QED
      BY <3>2, <3>3
  <2>2. ASSUME NEW i \in Sessions, i > session PROVE poller'[i] = poller[i]
    <3>1. session \in Int
      BY SessionsAreInts DEF TypeOK
    <3>2. i # session
      BY <2>2, <3>1
    <3> QED
      BY <1>3, <3>2 DEF StartTrafficPoller, newV2RayStatsReader, TypeOK
  <2> QED
    BY <1>3, <2>1, <2>2 DEF StartTrafficPoller, newV2RayStatsReader, FreshInv
<1>4. ASSUME NEW i \in Sessions, SessionStep(i) PROVE FreshInv'
  <2>1. UNCHANGED engineVars
    BY <1>4 DEF SessionStep, CloseReturns, CountTraffic, PollTick, read, PollStore, PollDone
  <2>2. \A j \in Sessions : poller[j] = "none" => poller'[j] = "none"
    BY <1>4
      DEF SessionStep, CloseReturns, CountTraffic, PollTick, read, PollStore, PollDone,
          TypeOK, meterVars
  <2> QED
    BY <2>1, <2>2 DEF FreshInv, engineVars
<1>5. ASSUME NEW c \in Callers, CallStart(c) PROVE FreshInv'
  BY <1>1, <1>5 DEF CallStart, Goto, TypeOK, InStart, meterVars
<1>6. ASSUME NEW c \in Callers, CallStop(c) PROVE FreshInv'
  BY <1>1, <1>6 DEF CallStop, Goto, TypeOK, InStart, meterVars
<1>7. ASSUME NEW c \in Callers, AlreadyRunning(c) PROVE FreshInv'
  BY <1>1, <1>7 DEF AlreadyRunning, Return, Goto, TypeOK, InStart, meterVars
<1>8. ASSUME NEW c \in Callers, ParseFails(c) PROVE FreshInv'
  BY <1>1, <1>8 DEF ParseFails, FailWith, Goto, TypeOK, InStart, meterVars
<1>9. ASSUME NEW c \in Callers, ParseSucceeds(c) PROVE FreshInv'
  BY <1>1, <1>9 DEF ParseSucceeds, Goto, TypeOK, InStart, meterVars
<1>10. ASSUME NEW c \in Callers, NewFails(c) PROVE FreshInv'
  BY <1>1, <1>10 DEF NewFails, FailWith, Goto, TypeOK, InStart, meterVars
<1>11. ASSUME NEW c \in Callers, NewSucceeds(c) PROVE FreshInv'
  BY <1>1, <1>11 DEF NewSucceeds, Goto, TypeOK, InStart, meterVars
<1>12. ASSUME NEW c \in Callers, StartFails(c) PROVE FreshInv'
  BY <1>1, <1>12 DEF StartFails, Goto, TypeOK, InStart, meterVars
<1>13. ASSUME NEW c \in Callers, StartFailed(c) PROVE FreshInv'
  BY <1>1, <1>13 DEF StartFailed, FailWith, Goto, TypeOK, InStart, meterVars
<1>14. ASSUME NEW c \in Callers, StartSucceeds(c) PROVE FreshInv'
  BY <1>1, <1>14 DEF StartSucceeds, Goto, TypeOK, InStart, meterVars
<1>15. ASSUME NEW c \in Callers, SetErrorStatus(c) PROVE FreshInv'
  BY <1>1, <1>15 DEF SetErrorStatus, Return, Goto, TypeOK, InStart, meterVars
<1>16. ASSUME NEW c \in Callers, Publish(c) PROVE FreshInv'
  BY <1>1, <1>16 DEF Publish, Goto, TypeOK, InStart, meterVars
<1>17. ASSUME NEW c \in Callers, SetRunning(c) PROVE FreshInv'
  BY <1>1, <1>17 DEF SetRunning, Goto, TypeOK, InStart, meterVars
<1>18. ASSUME NEW c \in Callers, StartPanics(c) PROVE FreshInv'
  BY <1>1, <1>18 DEF StartPanics, TypeOK, InStart, meterVars
<1>19. ASSUME NEW c \in Callers, PanicStatus(c) PROVE FreshInv'
  BY <1>1, <1>19 DEF PanicStatus, Goto, TypeOK, InStart, meterVars
<1>20. ASSUME NEW c \in Callers, PanicFinish(c) PROVE FreshInv'
  BY <1>1, <1>20 DEF PanicFinish, Return, Goto, TypeOK, InStart, meterVars
<1>21. ASSUME NEW c \in Callers, StopIdle(c) PROVE FreshInv'
  BY <1>1, <1>21 DEF StopIdle, Return, Goto, TypeOK, InStart, meterVars
<1>22. ASSUME NEW c \in Callers, StopBegin(c) PROVE FreshInv'
  BY <1>1, <1>22 DEF StopBegin, Goto, TypeOK, InStart, meterVars
<1>23. ASSUME NEW c \in Callers, StopFinish(c) PROVE FreshInv'
  BY <1>1, <1>23 DEF StopFinish, Return, Goto, TypeOK, InStart, meterVars
<1>24. ASSUME NEW c \in Callers, CleanupClose(c) PROVE FreshInv'
  BY <1>1, <1>24 DEF CleanupClose, Goto, TypeOK, InStart, meterVars
<1>25. ASSUME NEW c \in Callers, CleanupNothing(c) PROVE FreshInv'
  BY <1>1, <1>25 DEF CleanupNothing, Goto, TypeOK, InStart, meterVars
<1>26. ASSUME NEW c \in Callers, CleanupClosed(c) PROVE FreshInv'
  BY <1>1, <1>26 DEF CleanupClosed, DropInstance, Goto, TypeOK, InStart, meterVars
<1>27. ASSUME NEW c \in Callers, CleanupTimeout(c) PROVE FreshInv'
  BY <1>1, <1>27 DEF CleanupTimeout, DropInstance, Goto, TypeOK, InStart, meterVars
<1>28. ASSUME NEW c \in Callers, CleanupCancel(c) PROVE FreshInv'
  BY <1>1, <1>28 DEF CleanupCancel, Goto, TypeOK, InStart, meterVars
<1>29. CASE UNCHANGED vars
  BY <1>1, <1>29 DEF vars, engineVars, meterVars
<1>30. CASE HostReads
  BY <1>1, <1>30 DEF HostReads, ReadStatus, ReadLastError, engineVars, meterVars
<1> QED
  BY <1>2, <1>3, <1>4, <1>5, <1>6, <1>7, <1>8, <1>9, <1>10, <1>11, <1>12, <1>13, <1>14,
     <1>15, <1>16, <1>17, <1>18, <1>19, <1>20, <1>21, <1>22, <1>23, <1>24, <1>25, <1>26,
     <1>27, <1>28, <1>29, <1>30
  DEF Next, CallerStep, StartStep, CoreStep, StopStep, CleanupStep

\* Pollers and counters: a sample on its way to the meter keeps its relation to
\* what the meter shows.
LEMMA MeterStep == TypeOK /\ LockInv /\ FreshInv /\ MeterInv /\ [Next]_vars => MeterInv'
<1> SUFFICES ASSUME TypeOK, LockInv, FreshInv, MeterInv, [Next]_vars PROVE MeterInv'
  OBVIOUS
<1>1. CASE UNCHANGED meterVars
  BY <1>1 DEF meterVars, MeterInv, MeterHasOwner, MeterPoint
<1>2. ASSUME NEW c \in Callers, StartTrafficPoller(c) PROVE MeterInv'
  <2>1. UNCHANGED <<counter, last, traffic>>
    BY <1>2 DEF StartTrafficPoller, newV2RayStatsReader
  <2>2. session \in Sessions => poller[session] = "none"
    BY <1>2 DEF StartTrafficPoller, newV2RayStatsReader, Return, Goto, FreshInv, InStart
  <2>3. \A j \in Sessions : \/ poller'[j] = poller[j]
                            \/ poller[j] = "none" /\ poller'[j] = "select"
    BY <1>2, <2>2 DEF StartTrafficPoller, newV2RayStatsReader, TypeOK
  <2>4. traffic # NoSnapshot => traffic.session \in Sessions
    BY DEF TypeOK, Snapshot
  <2>5. MeterHasOwner'
    BY <2>1, <2>3, <2>4 DEF MeterInv, MeterHasOwner
  <2>6. ASSUME NEW j \in Sessions PROVE MeterPoint(j)'
    BY <2>1, <2>3 DEF MeterInv, MeterPoint
  <2> QED
    BY <2>5, <2>6 DEF MeterInv
<1>3. ASSUME NEW i \in Sessions, CountTraffic(i) PROVE MeterInv'
  <2>0. \A j \in Sessions : counter[j] \in Int
    BY BytesAreInts DEF TypeOK
  <2>1. \A j \in Sessions : counter'[j] = counter[j] \/ counter'[j] = counter[j] + 1
    BY <1>3, <2>0 DEF CountTraffic, TypeOK
  <2>2. UNCHANGED <<poller, last, traffic>>
    BY <1>3 DEF CountTraffic
  <2>3. \A j \in Sessions : last[j] # NoSnapshot => last[j].total \in Int
    BY BytesAreInts DEF TypeOK, Snapshot
  <2> QED
    BY <2>0, <2>1, <2>2, <2>3 DEF MeterInv, MeterHasOwner, MeterPoint
<1>4. ASSUME NEW i \in Sessions, PollTick(i) PROVE MeterInv'
  <2>0. PICK now \in last[i].at .. MaxTime :
           last' = [last EXCEPT ![i] = Sample(@, i, read(i), now)]
    BY <1>4 DEF PollTick
  <2> DEFINE snap == Sample(last[i], i, counter[i], now)
  <2>1. last'[i] = snap /\ poller[i] = "select" /\ poller'[i] = "store" /\ UNCHANGED <<counter, traffic>>
    BY <1>4, <2>0 DEF PollTick, read, TypeOK
  <2>2. \A j \in Sessions \ {i} : last'[j] = last[j] /\ poller'[j] = poller[j]
    BY <1>4 DEF PollTick, TypeOK
  <2>3. MeterHasOwner'
    BY <2>1, <2>2 DEF MeterInv, MeterHasOwner, TypeOK, Snapshot
  <2>4. ASSUME NEW j \in Sessions, j # i PROVE MeterPoint(j)'
    BY <2>1, <2>2, <2>4 DEF MeterInv, MeterPoint
  <2>5. MeterPoint(i)'
    <3>1. snap # NoSnapshot /\ snap.session = i /\ snap.total = counter[i]
      BY NilNoSession DEF NoSnapshot, Sample
    <3>2. counter[i] \in 0 .. MaxBytes /\ counter[i] \in Int
      BY BytesAreInts DEF TypeOK
    <3>3. ASSUME traffic.session = i PROVE InStep(snap, traffic)
      <4>1. traffic = last[i] /\ traffic # NoSnapshot
        BY <2>1, <3>3, NilNoSession DEF MeterInv, MeterPoint, NoSnapshot
      <4>2. traffic.total <= counter[i] /\ traffic \in Snapshot
        BY <4>1 DEF MeterInv, MeterPoint, TypeOK
      <4>3. now \in 0 .. MaxTime /\ traffic.at <= now
        BY <4>1, <4>2, BoundsAssumption DEF Snapshot
      <4> QED
        BY <3>2, <4>1, <4>2, <4>3, SampleStep
    <3> HIDE DEF snap
    <3> QED
      BY <2>1, <3>1, <3>2, <3>3 DEF MeterPoint
  <2> QED
    BY <2>3, <2>4, <2>5 DEF MeterInv
<1>5. ASSUME NEW i \in Sessions, PollStore(i) PROVE MeterInv'
  <2>1. traffic' = last[i] /\ poller[i] = "store" /\ poller'[i] = "select" /\ UNCHANGED <<counter, last>>
    BY <1>5 DEF PollStore, TypeOK
  <2>2. \A j \in Sessions \ {i} : poller'[j] = poller[j]
    BY <1>5 DEF PollStore, TypeOK
  <2>3. last[i] # NoSnapshot /\ last[i].session = i
    BY <2>1 DEF MeterInv, MeterPoint
  <2>4. MeterHasOwner'
    BY <2>1, <2>3 DEF MeterHasOwner
  <2>5. ASSUME NEW j \in Sessions PROVE MeterPoint(j)'
    BY <2>1, <2>2, <2>3 DEF MeterInv, MeterPoint
  <2> QED
    BY <2>4, <2>5 DEF MeterInv
<1>6. ASSUME NEW i \in Sessions, PollDone(i) PROVE MeterInv'
  <2>1. /\ traffic' = NoSnapshot /\ poller[i] = "select" /\ poller'[i] = "done"
        /\ UNCHANGED <<counter, last>>
    BY <1>6 DEF PollDone, TypeOK
  <2>2. \A j \in Sessions \ {i} : poller'[j] = poller[j]
    BY <1>6 DEF PollDone, TypeOK
  <2>3. \A j \in Sessions : traffic'.session # j
    BY <2>1, NilNoSession DEF NoSnapshot
  <2>4. ASSUME NEW j \in Sessions PROVE MeterPoint(j)'
    BY <2>1, <2>2, <2>3 DEF MeterInv, MeterPoint
  <2> QED
    BY <2>1, <2>4 DEF MeterInv, MeterHasOwner
<1>7. ASSUME NEW i \in Sessions, CloseReturns(i) PROVE MeterInv'
  BY <1>1, <1>7 DEF CloseReturns
<1>8. ASSUME NEW c \in Callers, CallerStep(c) PROVE MeterInv'
  <2>1. UNCHANGED meterVars \/ StartTrafficPoller(c)
    BY <1>8
      DEF CallerStep, StartStep, CoreStep, StopStep, CleanupStep, CallStart, CallStop,
          AlreadyRunning, StartBegin, ParseFails, ParseSucceeds, NewFails, NewSucceeds,
          StartFails, StartFailed, StartSucceeds, SetErrorStatus, Publish, SetRunning,
          StartPanics, PanicStatus, PanicFinish, StopIdle, StopBegin, StopFinish,
          CleanupClose, CleanupNothing, CleanupClosed, CleanupTimeout, CleanupCancel,
          FailWith, DropInstance
  <2> QED
    BY <1>1, <1>2, <2>1
<1>9. CASE UNCHANGED vars
  BY <1>1, <1>9 DEF vars
<1>10. CASE HostReads
  BY <1>1, <1>10 DEF HostReads, ReadStatus, ReadLastError
<1> QED
  BY <1>3, <1>4, <1>5, <1>6, <1>7, <1>8, <1>9, <1>10 DEF Next, SessionStep

\* Every live core stays the published instance or the one that the start in
\* progress is about to publish; a panic takes the latter away as an orphan.
LEMMA TunnelStep == ASSUME IInv, [Next]_vars PROVE TunnelInv'
<1>t. TypeOK /\ LockInv /\ QuietInv /\ TunnelInv
  BY DEF IInv
<1>p. ASSUME NEW c \in Callers PROVE StartPoint(c) /\ CleanupPoint(c)
  BY DEF IInv
<1>u. ASSUME UNCHANGED <<core, instance, session>>,
             \A d \in Callers : pc[d] \in {"start", "publish"} => pc'[d] \in {"start", "publish"}
      PROVE  TunnelInv'
  BY <1>u, <1>t DEF TunnelInv
\* Only the holder of e.mu is at "start" or "publish".
<1>o. ASSUME NEW c \in Callers, mu = c \/ mu = NoCaller, pc[c] \notin {"start", "publish"}
      PROVE  \A d \in Callers : pc[d] \notin {"start", "publish"}
  BY <1>o, <1>t, CallersAssumption DEF LockInv, InStart
<1>1. ASSUME NEW c \in Callers, CallStart(c) PROVE TunnelInv'
  BY <1>1, <1>t, <1>u DEF CallStart, Goto, TypeOK
<1>2. ASSUME NEW c \in Callers, CallStop(c) PROVE TunnelInv'
  BY <1>2, <1>t, <1>u DEF CallStop, Goto, TypeOK
<1>3. ASSUME NEW c \in Callers, AlreadyRunning(c) PROVE TunnelInv'
  BY <1>3, <1>t, <1>u DEF AlreadyRunning, Return, Goto, TypeOK
<1>4. ASSUME NEW c \in Callers, StartBegin(c) PROVE TunnelInv'
  <2>1. \A d \in Callers : pc[d] \notin {"start", "publish"}
    BY <1>4, <1>o DEF StartBegin, Goto
  <2>2. \A i \in Sessions : core[i] # "live"
    BY <1>4, <2>1, <1>t, NilNoSession DEF StartBegin, TunnelInv
  <2> QED
    BY <1>4, <2>2, <1>t DEF StartBegin, TunnelInv
<1>5. ASSUME NEW c \in Callers, ParseFails(c) PROVE TunnelInv'
  BY <1>5, <1>t, <1>u DEF ParseFails, FailWith, Goto, TypeOK
<1>6. ASSUME NEW c \in Callers, ParseSucceeds(c) PROVE TunnelInv'
  BY <1>6, <1>t, <1>u DEF ParseSucceeds, Goto, TypeOK
<1>7. ASSUME NEW c \in Callers, NewFails(c) PROVE TunnelInv'
  BY <1>7, <1>t, <1>u DEF NewFails, FailWith, Goto, TypeOK
<1>8. ASSUME NEW c \in Callers, NewSucceeds(c) PROVE TunnelInv'
  <2>1. pc[c] = "new" /\ pc'[c] = "start" /\ UNCHANGED <<instance, session>>
    BY <1>8, <1>t DEF NewSucceeds, Goto, TypeOK
  <2>2. session \in Sessions /\ instance = Nil
    BY <2>1, <1>t, <1>p DEF StartPoint, TypeOK
  <2>3. \A i \in Sessions \ {session} : core'[i] = core[i] /\ core[i] # "live"
    BY <1>8, <2>2, <1>t, NilNoSession DEF NewSucceeds, TunnelInv, TypeOK
  <2>4. core'[session] = "live"
    BY <1>8, <2>2, <1>t DEF NewSucceeds, TypeOK
  <2> QED
    BY <2>1, <2>2, <2>3, <2>4, <1>t DEF TunnelInv
<1>9. ASSUME NEW c \in Callers, StartFails(c) PROVE TunnelInv'
  <2>1. pc[c] = "start" /\ pc'[c] = "failClose" /\ UNCHANGED <<instance, session>>
    BY <1>9, <1>t DEF StartFails, Goto, TypeOK
  <2>2. session \in Sessions /\ instance = Nil
    BY <2>1, <1>t, <1>p DEF StartPoint, TypeOK
  <2>3. \A i \in Sessions \ {session} : core'[i] = core[i] /\ core[i] # "live"
    BY <1>9, <2>2, <1>t, NilNoSession DEF StartFails, TunnelInv, TypeOK
  <2>4. core'[session] = "closing"
    BY <1>9, <2>2, <1>t DEF StartFails, TypeOK
  <2> QED
    BY <2>1, <2>2, <2>3, <2>4, <1>t DEF TunnelInv
<1>10. ASSUME NEW c \in Callers, StartFailed(c) PROVE TunnelInv'
  BY <1>10, <1>t, <1>u DEF StartFailed, FailWith, Goto, TypeOK
<1>11. ASSUME NEW c \in Callers, StartSucceeds(c) PROVE TunnelInv'
  BY <1>11, <1>t, <1>u DEF StartSucceeds, Goto, TypeOK
<1>12. ASSUME NEW c \in Callers, SetErrorStatus(c) PROVE TunnelInv'
  BY <1>12, <1>t, <1>u DEF SetErrorStatus, Return, Goto, TypeOK
<1>13. ASSUME NEW c \in Callers, Publish(c) PROVE TunnelInv'
  <2>1. pc[c] = "publish" /\ instance' = session /\ UNCHANGED core
    BY <1>13 DEF Publish, Goto
  <2>2. instance = Nil
    BY <2>1, <1>p DEF StartPoint
  <2> QED
    BY <2>1, <2>2, NilNoSession, <1>t DEF TunnelInv
<1>14. ASSUME NEW c \in Callers, SetRunning(c) PROVE TunnelInv'
  BY <1>14, <1>t, <1>u DEF SetRunning, Goto, TypeOK
<1>15. ASSUME NEW c \in Callers, StartTrafficPoller(c) PROVE TunnelInv'
  BY <1>15, <1>t, <1>u DEF StartTrafficPoller, newV2RayStatsReader, Return, Goto, TypeOK
<1>16. ASSUME NEW c \in Callers, StartPanics(c) PROVE TunnelInv'
  <2>1. pc[c] \in {"parse", "new", "start", "failClose", "poller"} /\ UNCHANGED <<instance, session>>
    BY <1>16 DEF StartPanics
  <2>2. mu = c
    BY <2>1, <1>t DEF LockInv, InStart
  <2>3. CASE pc[c] = "start"
    <3>1. session \in Sessions /\ instance = Nil
      BY <2>3, <1>t, <1>p DEF StartPoint, TypeOK
    <3>2. \A i \in Sessions \ {session} : core'[i] = core[i] /\ core[i] # "live"
      BY <1>16, <2>3, <3>1, <1>t, NilNoSession DEF StartPanics, TunnelInv, TypeOK
    <3>3. core'[session] = "orphan"
      BY <1>16, <2>3, <3>1, <1>t DEF StartPanics, TypeOK
    <3> QED
      BY <3>2, <3>3, <1>t DEF TunnelInv
  <2>4. CASE pc[c] # "start"
    <3>1. \A d \in Callers : pc[d] \notin {"start", "publish"}
      BY <2>1, <2>2, <2>4, <1>o
    <3>2. \A i \in Sessions : core'[i] = "live" => core[i] = "live"
      BY <1>16, <1>t DEF StartPanics, TypeOK
    <3> QED
      BY <2>1, <3>1, <3>2, <1>t DEF TunnelInv
  <2> QED
    BY <2>3, <2>4
<1>17. ASSUME NEW c \in Callers, PanicStatus(c) PROVE TunnelInv'
  BY <1>17, <1>t, <1>u DEF PanicStatus, Goto, TypeOK
<1>18. ASSUME NEW c \in Callers, PanicFinish(c) PROVE TunnelInv'
  BY <1>18, <1>t, <1>u DEF PanicFinish, Return, Goto, TypeOK
<1>19. ASSUME NEW c \in Callers, StopIdle(c) PROVE TunnelInv'
  BY <1>19, <1>t, <1>u DEF StopIdle, Return, Goto, TypeOK
<1>20. ASSUME NEW c \in Callers, StopBegin(c) PROVE TunnelInv'
  BY <1>20, <1>t, <1>u DEF StopBegin, Goto, TypeOK
<1>21. ASSUME NEW c \in Callers, StopFinish(c) PROVE TunnelInv'
  BY <1>21, <1>t, <1>u DEF StopFinish, Return, Goto, TypeOK
<1>22. ASSUME NEW c \in Callers, CleanupClose(c) PROVE TunnelInv'
  <2>1. instance \in Sessions /\ UNCHANGED instance
    BY <1>22, <1>t DEF CleanupClose, TypeOK
  <2>2. core'[instance] = "closing" /\ \A i \in Sessions \ {instance} : core'[i] = core[i]
    BY <1>22, <2>1, <1>t DEF CleanupClose, TypeOK
  <2> QED
    BY <1>22, <2>1, <2>2, <1>t DEF CleanupClose, TunnelInv
<1>23. ASSUME NEW c \in Callers, CleanupNothing(c) PROVE TunnelInv'
  BY <1>23, <1>t, <1>u DEF CleanupNothing, Goto, TypeOK
<1>24. ASSUME NEW c \in Callers, CleanupClosed(c) PROVE TunnelInv'
  <2>1. pc[c] = "wait" /\ UNCHANGED core
    BY <1>24 DEF CleanupClosed, DropInstance, Goto
  <2>2. \A i \in Sessions : core[i] # "live"
    BY <2>1, <1>p, <1>t DEF CleanupPoint, TunnelInv
  <2> QED
    BY <2>1, <2>2, <1>t DEF TunnelInv
<1>25. ASSUME NEW c \in Callers, CleanupTimeout(c) PROVE TunnelInv'
  <2>1. pc[c] = "wait" /\ UNCHANGED core
    BY <1>25 DEF CleanupTimeout, DropInstance, Goto
  <2>2. \A i \in Sessions : core[i] # "live"
    BY <2>1, <1>p, <1>t DEF CleanupPoint, TunnelInv
  <2> QED
    BY <2>1, <2>2, <1>t DEF TunnelInv
<1>26. ASSUME NEW c \in Callers, CleanupCancel(c) PROVE TunnelInv'
  BY <1>26, <1>t, <1>u DEF CleanupCancel, Goto, TypeOK
<1>27. ASSUME NEW i \in Sessions, CloseReturns(i) PROVE TunnelInv'
  <2>1. \A j \in Sessions : core'[j] = "live" => core[j] = "live"
    BY <1>27, <1>t DEF CloseReturns, TypeOK
  <2> QED
    BY <1>27, <2>1, <1>t DEF CloseReturns, engineVars, TunnelInv
<1>28. ASSUME NEW i \in Sessions, CountTraffic(i) \/ PollTick(i) \/ PollStore(i) \/ PollDone(i)
       PROVE  TunnelInv'
  BY <1>28, <1>u DEF CountTraffic, PollTick, read, PollStore, PollDone, engineVars
<1>29. CASE UNCHANGED vars
  BY <1>29, <1>u DEF vars, engineVars
<1>30. CASE HostReads
  BY <1>30, <1>u DEF HostReads, ReadStatus, ReadLastError, engineVars
<1> QED
  BY <1>1, <1>2, <1>3, <1>4, <1>5, <1>6, <1>7, <1>8, <1>9, <1>10, <1>11, <1>12, <1>13,
     <1>14, <1>15, <1>16, <1>17, <1>18, <1>19, <1>20, <1>21, <1>22, <1>23, <1>24, <1>25,
     <1>26, <1>27, <1>28, <1>29, <1>30
  DEF Next, CallerStep, StartStep, CoreStep, StopStep, CleanupStep, SessionStep

\* A host between its two loads stays sure of a message: setError stores it before
\* the status, and only a start of a later session can empty it.
LEMMA PeekStep == ASSUME IInv, [Next]_vars PROVE PeekInv'
<1>t. TypeOK /\ LockInv /\ PeekInv /\ ErrorInv
  BY DEF IInv
<1>p. ASSUME NEW c \in Callers PROVE StartPoint(c)
  BY DEF IInv
<1> DEFINE Busy == {"parse", "new", "start", "failClose", "publish"}
<1>i. session \in Int /\ peek \in Int /\ \A i \in Sessions : i \in Int
  <2>1. session \in Sessions \cup {Nil} /\ peek \in Sessions \cup {Nil, NoPeek}
    BY <1>t DEF TypeOK
  <2> QED
    BY <2>1, SessionsAreInts DEF NoPeek
\* Steps that neither empty the message nor enter a start.
<1>u. ASSUME peek' = peek, session' = session,
             \A d \in Callers : pc'[d] \in Busy => pc[d] \in Busy,
             \A i \in Sessions : core'[i] = "none" => core[i] = "none",
             lastError' = "" => lastError = ""
      PROVE  PeekInv'
  BY <1>t, <1>u DEF PeekInv, ErrorHasMessage
<1>1. ASSUME NEW c \in Callers, StartBegin(c) PROVE PeekInv'
  <2>1. peek' = peek /\ session' = session + 1 /\ core' = core /\ lastError' = lastError
    BY <1>1 DEF StartBegin
  <2>2. peek # NoPeek => peek <= session /\ peek < session'
    BY <1>t, <1>i, <2>1 DEF PeekInv
  <2>3. peek # NoPeek => peek <= session'
    BY <1>i, <2>1, <2>2
  <2>4. ErrorHasMessage'
    BY <1>t, <2>1 DEF PeekInv, ErrorHasMessage
  <2> QED
    BY <2>1, <2>2, <2>3, <2>4 DEF PeekInv
<1>2. ASSUME NEW c \in Callers, Publish(c) PROVE PeekInv'
  <2>1. pc[c] = "publish" /\ pc'[c] = "setRunning" /\ UNCHANGED <<peek, session, core>>
    BY <1>2, <1>t DEF Publish, Goto, TypeOK
  <2>2. session \in Sessions /\ core[session] = "live"
    BY <2>1, <1>t, <1>p DEF StartPoint, TypeOK
  <2>3. peek # NoPeek => session > peek
    BY <2>1, <1>t, <1>i DEF PeekInv
  <2>4. \A d \in Callers : pc'[d] \in Busy => pc[d] \in Busy
    BY <1>2, <1>t DEF Publish, Goto, TypeOK
  <2> QED
    BY <1>t, <2>1, <2>2, <2>3, <2>4 DEF PeekInv, ErrorHasMessage
<1>3. CASE ReadStatus
  <2>1. /\ peek' = session /\ status = "error"
        /\ UNCHANGED <<pc, session, lastError, core>>
    BY <1>3 DEF ReadStatus, engineVars
  <2>2. \A d \in Callers : pc[d] \notin Busy
    BY <2>1, <1>p DEF StartPoint
  <2>3. lastError # ""
    BY <2>1, <1>t DEF ErrorInv
  <2>4. peek' = session /\ session <= session
    BY <1>i, <2>1
  <2> QED
    BY <2>1, <2>2, <2>3, <2>4 DEF PeekInv, ErrorHasMessage
<1>4. CASE ReadLastError
  BY <1>4 DEF ReadLastError, PeekInv, ErrorHasMessage, NoPeek
<1>5. ASSUME NEW i \in Sessions, SessionStep(i) PROVE PeekInv'
  <2>1. UNCHANGED <<engineVars, peek>> /\ \A j \in Sessions : core'[j] = "none" => core[j] = "none"
    BY <1>5, <1>t
      DEF SessionStep, CloseReturns, CountTraffic, PollTick, PollStore, PollDone, TypeOK
  <2> QED
    BY <1>u, <2>1 DEF engineVars
<1>6. CASE UNCHANGED vars
  BY <1>u, <1>6 DEF vars, engineVars
<1>7. ASSUME NEW c \in Callers, CallStart(c) PROVE PeekInv'
  BY <1>u, <1>7, <1>t DEF CallStart, Goto, TypeOK
<1>8. ASSUME NEW c \in Callers, CallStop(c) PROVE PeekInv'
  BY <1>u, <1>8, <1>t DEF CallStop, Goto, TypeOK
<1>9. ASSUME NEW c \in Callers, AlreadyRunning(c) PROVE PeekInv'
  BY <1>u, <1>9, <1>t DEF AlreadyRunning, Return, Goto, TypeOK
<1>10. ASSUME NEW c \in Callers, ParseFails(c) PROVE PeekInv'
  BY <1>u, <1>10, <1>t DEF ParseFails, FailWith, Goto, TypeOK
<1>11. ASSUME NEW c \in Callers, ParseSucceeds(c) PROVE PeekInv'
  BY <1>u, <1>11, <1>t DEF ParseSucceeds, Goto, TypeOK
<1>12. ASSUME NEW c \in Callers, NewFails(c) PROVE PeekInv'
  BY <1>u, <1>12, <1>t DEF NewFails, FailWith, Goto, TypeOK
<1>13. ASSUME NEW c \in Callers, NewSucceeds(c) PROVE PeekInv'
  BY <1>u, <1>13, <1>t DEF NewSucceeds, Goto, TypeOK
<1>14. ASSUME NEW c \in Callers, StartFails(c) PROVE PeekInv'
  BY <1>u, <1>14, <1>t DEF StartFails, Goto, TypeOK
<1>15. ASSUME NEW c \in Callers, StartFailed(c) PROVE PeekInv'
  BY <1>u, <1>15, <1>t DEF StartFailed, FailWith, Goto, TypeOK
<1>16. ASSUME NEW c \in Callers, StartSucceeds(c) PROVE PeekInv'
  BY <1>u, <1>16, <1>t DEF StartSucceeds, Goto, TypeOK
<1>17. ASSUME NEW c \in Callers, SetErrorStatus(c) PROVE PeekInv'
  BY <1>u, <1>17, <1>t DEF SetErrorStatus, Return, Goto, TypeOK
<1>18. ASSUME NEW c \in Callers, SetRunning(c) PROVE PeekInv'
  BY <1>u, <1>18, <1>t DEF SetRunning, Goto, TypeOK
<1>19. ASSUME NEW c \in Callers, StartTrafficPoller(c) PROVE PeekInv'
  BY <1>u, <1>19, <1>t DEF StartTrafficPoller, newV2RayStatsReader, Return, Goto, TypeOK
<1>20. ASSUME NEW c \in Callers, StartPanics(c) PROVE PeekInv'
  BY <1>u, <1>20, <1>t DEF StartPanics, TypeOK
<1>21. ASSUME NEW c \in Callers, PanicStatus(c) PROVE PeekInv'
  BY <1>u, <1>21, <1>t DEF PanicStatus, Goto, TypeOK
<1>22. ASSUME NEW c \in Callers, PanicFinish(c) PROVE PeekInv'
  BY <1>u, <1>22, <1>t DEF PanicFinish, Return, Goto, TypeOK
<1>23. ASSUME NEW c \in Callers, StopIdle(c) PROVE PeekInv'
  BY <1>u, <1>23, <1>t DEF StopIdle, Return, Goto, TypeOK
<1>24. ASSUME NEW c \in Callers, StopBegin(c) PROVE PeekInv'
  BY <1>u, <1>24, <1>t DEF StopBegin, Goto, TypeOK
<1>25. ASSUME NEW c \in Callers, StopFinish(c) PROVE PeekInv'
  BY <1>u, <1>25, <1>t DEF StopFinish, Return, Goto, TypeOK
<1>26. ASSUME NEW c \in Callers, CleanupClose(c) PROVE PeekInv'
  BY <1>u, <1>26, <1>t DEF CleanupClose, Goto, TypeOK
<1>27. ASSUME NEW c \in Callers, CleanupNothing(c) PROVE PeekInv'
  BY <1>u, <1>27, <1>t DEF CleanupNothing, Goto, TypeOK
<1>28. ASSUME NEW c \in Callers, CleanupClosed(c) PROVE PeekInv'
  BY <1>u, <1>28, <1>t DEF CleanupClosed, DropInstance, Goto, TypeOK
<1>29. ASSUME NEW c \in Callers, CleanupTimeout(c) PROVE PeekInv'
  BY <1>u, <1>29, <1>t DEF CleanupTimeout, DropInstance, Goto, TypeOK
<1>30. ASSUME NEW c \in Callers, CleanupCancel(c) PROVE PeekInv'
  BY <1>u, <1>30, <1>t DEF CleanupCancel, Goto, TypeOK
<1> QED
  BY <1>1, <1>2, <1>3, <1>4, <1>5, <1>6, <1>7, <1>8, <1>9, <1>10, <1>11, <1>12, <1>13, <1>14, <1>15, <1>16, <1>17, <1>18, <1>19, <1>20, <1>21, <1>22, <1>23, <1>24, <1>25, <1>26, <1>27, <1>28, <1>29, <1>30
  DEF Next, CallerStep, StartStep, CoreStep, StopStep, CleanupStep, HostReads

-----------------------------------------------------------------------------
(* The theorems.                                                           *)

\* The engine as the library is loaded satisfies the inductive invariant.
LEMMA InitIInv == Init => IInv
<1> SUFFICES ASSUME Init PROVE IInv
  OBVIOUS
<1> USE DEF Init
<1>1. TypeOK
  BY ZeroBytes DEF TypeOK, Status
<1>2. LockInv
  BY CallersAssumption DEF LockInv, InStart, InCleanup
<1>3. FreshInv
  BY DEF FreshInv
<1>4. MeterInv
  <2>1. \A i \in Sessions : traffic.session # i
    BY NilNoSession DEF NoSnapshot
  <2> QED
    BY <2>1 DEF MeterInv, MeterHasOwner, MeterPoint
<1>5. \A c \in Callers : StartPoint(c) /\ CleanupPoint(c)
  BY DEF StartPoint, CleanupPoint, InCleanup
<1>6. QuietInv /\ ErrorInv /\ PeekInv /\ TunnelInv
  BY DEF QuietInv, ErrorInv, PeekInv, ErrorHasMessage, NoPeek, TunnelInv
<1> QED
  BY <1>1, <1>2, <1>3, <1>4, <1>5, <1>6 DEF IInv

\* IInv is an inductive invariant of the engine.
THEOREM Invariance == Spec => []IInv
<1>1. IInv /\ [Next]_vars => IInv'
  <2> SUFFICES ASSUME IInv, [Next]_vars PROVE IInv'
    OBVIOUS
  <2>1. TypeOK' /\ LockInv' /\ FreshInv' /\ MeterInv'
    BY TypeStep, LockStep, FreshStep, MeterStep DEF IInv
  <2>2. FieldInv' /\ PeekInv' /\ TunnelInv'
    BY FieldStep, PeekStep, TunnelStep
  <2> QED
    BY <2>1, <2>2 DEF IInv, FieldInv
<1> QED
  BY InitIInv, <1>1, PTL DEF Spec

\* Type correctness of the engine's fields, its sessions and its meter.
THEOREM TypeCorrect == Spec => []TypeOK
<1>1. IInv => TypeOK
  BY DEF IInv
<1> QED
  BY Invariance, <1>1, PTL

\* Between calls of the exported functions status, instance and cancel agree.
THEOREM QuietAgrees == Spec => []QuietAgreement
<1>1. IInv => QuietAgreement
  BY DEF IInv, QuietInv, SessionUp, QuietAgreement
<1> QED
  BY Invariance, <1>1, PTL

\* What the inductive invariant says of a "running" status.
LEMMA RunningFromInv == IInv => RunningIsTrue
<1> SUFFICES ASSUME IInv, status = "running" PROVE SessionUp
  BY DEF RunningIsTrue, SessionUp
<1>1. CASE mu = NoCaller
  BY <1>1 DEF IInv, QuietInv
<1>2. ASSUME NEW c \in Callers, mu = c PROVE SessionUp
  <2>1. pc[c] \in InStart \cup InCleanup
    BY <1>2 DEF IInv, LockInv
  <2>2. StartPoint(c) /\ CleanupPoint(c)
    BY DEF IInv
  <2>3. pc[c] \notin InCleanup
    BY <2>2 DEF CleanupPoint
  <2>4. pc[c] \in {"poller", "panicStatus"}
    BY <2>1, <2>2, <2>3 DEF StartPoint, InStart
  <2> QED
    BY <2>2, <2>4 DEF StartPoint
<1> QED
  BY <1>1, <1>2 DEF IInv, TypeOK

\* GetStatus never says "running" without a live, cancellable core behind it:
\* setStatus(running) comes after the instance and its cancel are published.
THEOREM RunningTrue == Spec => []RunningIsTrue
BY Invariance, RunningFromInv, PTL

\* The host loads the status "error" and then, in a second call, the message: it
\* finds one, unless a start that began after its first load has been to the core.
THEOREM ErrorMessage == Spec => []ErrorHasMessage
<1>1. IInv => ErrorHasMessage
  BY DEF IInv, PeekInv
<1> QED
  BY Invariance, <1>1, PTL

\* No start and no stop, in any order, with any slow Close and any panic, leaves
\* behind a core that is live and that nothing will close.
THEOREM OneTunnelAtATime == Spec => []OneTunnel
<1>1. IInv => OneTunnel
  BY CallersAssumption DEF IInv, LockInv, InStart, TunnelInv, OneTunnel
<1> QED
  BY Invariance, <1>1, PTL

\* The meter only shows samples of pollers that will still clear it.
THEOREM MeterOwned == Spec => []MeterHasOwner
<1>1. IInv => MeterHasOwner
  BY DEF IInv, MeterInv
<1> QED
  BY Invariance, <1>1, PTL

\* Two snapshots of one session in a row: the total does not shrink, and the rate is
\* what was added per second of the time between the two ticks, rounded down.
THEOREM MeterInStep == Spec => MeterSteps
<1> DEFINE Step == (traffic # NoSnapshot /\ traffic'.session = traffic.session) =>
                      InStep(traffic', traffic)
<1>1. ASSUME IInv, [Next]_vars PROVE [Step]_traffic
  <2>m. TypeOK /\ MeterInv
    BY <1>1 DEF IInv
  <2>1. CASE UNCHANGED traffic
    BY <2>1
  <2>2. ASSUME NEW i \in Sessions, PollStore(i) PROVE Step
    <3>1. traffic' = last[i] /\ poller[i] = "store"
      BY <2>2 DEF PollStore
    <3>2. last[i] # NoSnapshot /\ last[i].session = i
      BY <3>1, <2>m DEF MeterInv, MeterPoint
    <3>3. traffic.session = i => InStep(last[i], traffic)
      BY <3>1, <2>m DEF MeterInv, MeterPoint
    <3> QED
      BY <3>1, <3>2, <3>3
  <2>3. ASSUME NEW i \in Sessions, PollDone(i) PROVE Step
    <3>1. traffic # NoSnapshot => traffic.session \in Sessions
      BY <2>m DEF TypeOK, Snapshot
    <3>2. traffic'.session = Nil
      BY <2>3 DEF PollDone, NoSnapshot
    <3> QED
      BY <3>1, <3>2, NilNoSession
  <2>4. ASSUME NEW i \in Sessions, CloseReturns(i) \/ CountTraffic(i) \/ PollTick(i)
        PROVE  UNCHANGED traffic
    BY <2>4 DEF CloseReturns, CountTraffic, PollTick, read, meterVars
  <2>5. ASSUME NEW c \in Callers, CallerStep(c) PROVE UNCHANGED traffic
    BY <2>5
      DEF CallerStep, StartStep, CoreStep, StopStep, CleanupStep, CallStart, CallStop,
          AlreadyRunning, StartBegin, ParseFails, ParseSucceeds, NewFails, NewSucceeds,
          StartFails, StartFailed, StartSucceeds, SetErrorStatus, Publish, SetRunning,
          StartTrafficPoller, StartPanics, PanicStatus, PanicFinish, StopIdle, StopBegin,
          StopFinish, CleanupClose, CleanupNothing, CleanupClosed, CleanupTimeout,
          CleanupCancel, FailWith, DropInstance, meterVars
  <2>6. CASE UNCHANGED vars
    BY <2>6 DEF vars, meterVars
  <2>7. CASE HostReads
    BY <2>7 DEF HostReads, ReadStatus, ReadLastError, meterVars
  <2> HIDE DEF Step
  <2> QED
    BY <1>1, <2>1, <2>2, <2>3, <2>4, <2>5, <2>6, <2>7 DEF Next, SessionStep
<1> QED
  BY Invariance, <1>1, PTL DEF Spec, MeterSteps

-----------------------------------------------------------------------------
(* Engine implements EngineLifecycle.                                      *)

\* Every step of the engine is a step of the life cycle the host is promised, or
\* changes neither the status nor the existence of the tunnel.
LEMMA LifecycleStep ==
    ASSUME IInv, [Next]_vars PROVE [Lifecycle!Next]_<<status, instance # Nil>>
<1>t. TypeOK /\ QuietInv
  BY DEF IInv
<1>p. ASSUME NEW c \in Callers PROVE StartPoint(c) /\ CleanupPoint(c)
  BY DEF IInv
<1>u. CASE UNCHANGED <<status, instance>>
  BY <1>u
<1>1. ASSUME NEW c \in Callers, CallStart(c) PROVE [Lifecycle!Next]_<<status, instance # Nil>>
  BY <1>1, <1>u DEF CallStart, Goto
<1>2. ASSUME NEW c \in Callers, CallStop(c) PROVE [Lifecycle!Next]_<<status, instance # Nil>>
  BY <1>2, <1>u DEF CallStop, Goto
<1>3. ASSUME NEW c \in Callers, AlreadyRunning(c) PROVE [Lifecycle!Next]_<<status, instance # Nil>>
  BY <1>3, <1>u DEF AlreadyRunning, Return, Goto
<1>4. ASSUME NEW c \in Callers, StartBegin(c) PROVE [Lifecycle!Next]_<<status, instance # Nil>>
  <2>1. Lifecycle!BeginStart
    BY <1>4, <1>t DEF StartBegin, Goto, Lifecycle!BeginStart, QuietInv, SessionUp
  <2> QED
    BY <2>1 DEF Lifecycle!Next
<1>5. ASSUME NEW c \in Callers, ParseFails(c) PROVE [Lifecycle!Next]_<<status, instance # Nil>>
  BY <1>5, <1>u DEF ParseFails, FailWith, Goto
<1>6. ASSUME NEW c \in Callers, ParseSucceeds(c) PROVE [Lifecycle!Next]_<<status, instance # Nil>>
  BY <1>6, <1>u DEF ParseSucceeds, Goto
<1>7. ASSUME NEW c \in Callers, NewFails(c) PROVE [Lifecycle!Next]_<<status, instance # Nil>>
  BY <1>7, <1>u DEF NewFails, FailWith, Goto
<1>8. ASSUME NEW c \in Callers, NewSucceeds(c) PROVE [Lifecycle!Next]_<<status, instance # Nil>>
  BY <1>8, <1>u DEF NewSucceeds, Goto
<1>9. ASSUME NEW c \in Callers, StartFails(c) PROVE [Lifecycle!Next]_<<status, instance # Nil>>
  BY <1>9, <1>u DEF StartFails, Goto
<1>10. ASSUME NEW c \in Callers, StartFailed(c) PROVE [Lifecycle!Next]_<<status, instance # Nil>>
  BY <1>10, <1>u DEF StartFailed, FailWith, Goto
<1>11. ASSUME NEW c \in Callers, StartSucceeds(c) PROVE [Lifecycle!Next]_<<status, instance # Nil>>
  BY <1>11, <1>u DEF StartSucceeds, Goto
<1>12. ASSUME NEW c \in Callers, SetErrorStatus(c) PROVE [Lifecycle!Next]_<<status, instance # Nil>>
  <2>1. Lifecycle!Fail
    BY <1>12, <1>p
      DEF SetErrorStatus, Return, Goto, Lifecycle!Fail, StartPoint, CleanupPoint,
          SessionUp
  <2> QED
    BY <2>1 DEF Lifecycle!Next
<1>13. ASSUME NEW c \in Callers, Publish(c) PROVE [Lifecycle!Next]_<<status, instance # Nil>>
  <2>1. Lifecycle!TunnelUp
    BY <1>13, <1>p, NilNoSession
      DEF Publish, Goto, Lifecycle!TunnelUp, StartPoint, CleanupPoint, SessionUp
  <2> QED
    BY <2>1 DEF Lifecycle!Next
<1>14. ASSUME NEW c \in Callers, SetRunning(c) PROVE [Lifecycle!Next]_<<status, instance # Nil>>
  <2>1. Lifecycle!Running
    BY <1>14, <1>p
      DEF SetRunning, Goto, Lifecycle!Running, StartPoint, CleanupPoint, SessionUp
  <2> QED
    BY <2>1 DEF Lifecycle!Next
<1>15. ASSUME NEW c \in Callers, StartTrafficPoller(c) PROVE [Lifecycle!Next]_<<status, instance # Nil>>
  BY <1>15, <1>u DEF StartTrafficPoller, newV2RayStatsReader, Return, Goto
<1>16. ASSUME NEW c \in Callers, StartPanics(c) PROVE [Lifecycle!Next]_<<status, instance # Nil>>
  BY <1>16, <1>u DEF StartPanics
<1>17. ASSUME NEW c \in Callers, PanicStatus(c) PROVE [Lifecycle!Next]_<<status, instance # Nil>>
  <2>1. Lifecycle!Fail
    BY <1>17, <1>p
      DEF PanicStatus, Goto, Lifecycle!Fail, StartPoint, CleanupPoint, SessionUp
  <2> QED
    BY <2>1 DEF Lifecycle!Next
<1>18. ASSUME NEW c \in Callers, PanicFinish(c) PROVE [Lifecycle!Next]_<<status, instance # Nil>>
  BY <1>18, <1>u DEF PanicFinish, Return, Goto
<1>19. ASSUME NEW c \in Callers, StopIdle(c) PROVE [Lifecycle!Next]_<<status, instance # Nil>>
  <2>1. status = "stopped" \/ Lifecycle!Stopped
    BY <1>19, <1>t DEF StopIdle, Return, Goto, Lifecycle!Stopped, QuietInv, SessionUp
  <2> QED
    BY <1>19, <2>1, <1>u DEF StopIdle, Lifecycle!Next
<1>20. ASSUME NEW c \in Callers, StopBegin(c) PROVE [Lifecycle!Next]_<<status, instance # Nil>>
  <2>1. Lifecycle!BeginStop
    BY <1>20, <1>t DEF StopBegin, Goto, Lifecycle!BeginStop, QuietInv, SessionUp
  <2> QED
    BY <2>1 DEF Lifecycle!Next
<1>21. ASSUME NEW c \in Callers, StopFinish(c) PROVE [Lifecycle!Next]_<<status, instance # Nil>>
  <2>1. Lifecycle!Stopped
    BY <1>21, <1>p
      DEF StopFinish, Return, Goto, Lifecycle!Stopped, StartPoint, CleanupPoint,
          SessionUp, InCleanup
  <2> QED
    BY <2>1 DEF Lifecycle!Next
<1>22. ASSUME NEW c \in Callers, CleanupClose(c) PROVE [Lifecycle!Next]_<<status, instance # Nil>>
  BY <1>22, <1>u DEF CleanupClose, Goto
<1>23. ASSUME NEW c \in Callers, CleanupNothing(c) PROVE [Lifecycle!Next]_<<status, instance # Nil>>
  BY <1>23, <1>u DEF CleanupNothing, Goto
<1>24. ASSUME NEW c \in Callers, CleanupClosed(c) PROVE [Lifecycle!Next]_<<status, instance # Nil>>
  <2>1. Lifecycle!TunnelDown
    BY <1>24, <1>p
      DEF CleanupClosed, DropInstance, Goto, Lifecycle!TunnelDown, StartPoint,
          CleanupPoint, SessionUp, InCleanup
  <2> QED
    BY <2>1 DEF Lifecycle!Next
<1>25. ASSUME NEW c \in Callers, CleanupTimeout(c) PROVE [Lifecycle!Next]_<<status, instance # Nil>>
  <2>1. Lifecycle!TunnelDown
    BY <1>25, <1>p
      DEF CleanupTimeout, DropInstance, Goto, Lifecycle!TunnelDown, StartPoint,
          CleanupPoint, SessionUp, InCleanup
  <2> QED
    BY <2>1 DEF Lifecycle!Next
<1>26. ASSUME NEW c \in Callers, CleanupCancel(c) PROVE [Lifecycle!Next]_<<status, instance # Nil>>
  BY <1>26, <1>u DEF CleanupCancel, Goto
<1>27. ASSUME NEW i \in Sessions, SessionStep(i) PROVE [Lifecycle!Next]_<<status, instance # Nil>>
  BY <1>27, <1>u
    DEF SessionStep, CloseReturns, CountTraffic, PollTick, read, PollStore, PollDone,
        engineVars
<1>28. CASE UNCHANGED vars
  BY <1>28, <1>u DEF vars, engineVars
<1>29. CASE HostReads
  BY <1>29, <1>u DEF HostReads, ReadStatus, ReadLastError, engineVars
<1> QED
  BY <1>1, <1>2, <1>3, <1>4, <1>5, <1>6, <1>7, <1>8, <1>9, <1>10, <1>11, <1>12, <1>13,
     <1>14, <1>15, <1>16, <1>17, <1>18, <1>19, <1>20, <1>21, <1>22, <1>23, <1>24, <1>25,
     <1>26, <1>27, <1>28, <1>29
  DEF Next, CallerStep, StartStep, CoreStep, StopStep, CleanupStep

\* The engine implements the life cycle EngineLifecycle promises to the host.
THEOREM Refinement == Spec => RefinesLifecycle
<1>1. Init => Lifecycle!Init
  BY DEF Init, Lifecycle!Init
<1>2. IInv /\ [Next]_vars => [Lifecycle!Next]_<<status, instance # Nil>>
  BY LifecycleStep
<1> QED
  BY <1>1, <1>2, Invariance, PTL DEF Spec, RefinesLifecycle, Lifecycle!Spec
=============================================================================

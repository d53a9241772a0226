----------------------- MODULE EnergyStoreBounds_proofs -----------------------
(* Theorems about how much the counters of EnergyStore hold, how much of it  *)
(* a kill can cost, and what a snapshot shows.  Where time matters the wall  *)
(* clock is never stepped (Skews = {0}), and the energy is integrated.       *)
EXTENDS EnergyStore_proofs

-------------------------------------------------------------------------------
(* Arithmetic. *)

LEMMA ScaleMonotone ==
  ASSUME NEW p \in Nat, NEW a \in Int, NEW b \in Int, a <= b
  PROVE  p * a <= p * b
<1>1. p * (b - a) >= 0
  OBVIOUS
<1>2. p * (b - a) = p * b - p * a
  OBVIOUS
<1> QED
  BY <1>1, <1>2

LEMMA ScaleAdds ==
  ASSUME NEW p \in Nat, NEW a \in Int, NEW b \in Int, NEW c \in Int
  PROVE  p * (b - a) + p * (c - b) = p * (c - a)
  OBVIOUS

\* What flows in one interval, in either direction.
LEMMA FlowBounded ==
  ASSUME NEW p \in Int, -PowerMax <= p, p <= PowerMax, NEW dt \in Nat
  PROVE  /\ Import(p * dt) \in Int /\ Export(p * dt) \in Int
         /\ Import(p * dt) - Export(p * dt) = p * dt
         /\ Import(p * dt) + Export(p * dt) <= PowerMax * dt
<1>1. p * dt \in Int /\ PowerMax * dt \in Int /\ PowerMax \in Int
  BY ConfigAssumption
<1>2. (PowerMax - p) * dt >= 0 /\ (PowerMax + p) * dt >= 0
  BY <1>1
<1>3. (PowerMax - p) * dt = PowerMax * dt - p * dt /\ (PowerMax + p) * dt = PowerMax * dt + p * dt
  BY <1>1
<1> DEFINE x == p * dt
           y == PowerMax * dt
<1>4. x \in Int /\ y \in Int /\ x <= y /\ -x <= y
  BY <1>1, <1>2, <1>3
<1> HIDE DEF x, y
<1>5. /\ Import(x) \in Int /\ Export(x) \in Int
      /\ Import(x) - Export(x) = x /\ Import(x) + Export(x) <= y
  BY <1>4 DEF Import, Export
<1> QED
  BY <1>5 DEF x, y

-------------------------------------------------------------------------------
(* What a save may do. *)

\* A save moves counters, whole, from memory to a payload, to a file, and from
\* state.tmp to state.json; or it leaves zeros.
LEMMA SaveMoves ==
  ASSUME TypeOK, NEW t \in Threads, SaveStep(t)
  PROVE  /\ up /\ up'
         /\ UNCHANGED <<locked, now, storeVars, view, envVars>>
         /\ \A u \in Threads : payload'[u] \in {payload[u], ZeroEnergy, energy}
         /\ Loaded(dst)' \in {Loaded(dst), ZeroEnergy, payload[t], Loaded(tmp)}
         /\ Loaded(tmp)' \in {Loaded(tmp), ZeroEnergy, payload[t]}
         /\ \A u \in Threads \ {t} : pc'[u] = pc[u]
<1> USE DEF Running, Goto
<1>1. up /\ up' /\ UNCHANGED <<locked, now, storeVars, view, envVars>>
  BY DEF SaveStep, SaveCapture, SaveOpen, SaveWrite, SaveReplace, SaveFails, envVars
<1>2. \A u \in Threads \ {t} : pc'[u] = pc[u]
  BY DEF SaveStep, SaveCapture, SaveOpen, SaveWrite, SaveReplace, SaveFails, TypeOK
<1>3. CASE SaveCapture(t)
  BY <1>1, <1>2, <1>3 DEF SaveCapture, TypeOK
<1>4. CASE SaveOpen(t)
  BY <1>1, <1>2, <1>4, LoadedFiles DEF SaveOpen
<1>5. CASE SaveWrite(t)
  <2>1. PICK f \in Overwritten(OpenFile(t), payload[t]) : PutFile(t, f)
    BY <1>5 DEF SaveWrite
  <2>2. Loaded(f) \in {payload[t], ZeroEnergy}
    BY LoadedFiles DEF Overwritten
  <2>3. tmp' \in {tmp, f} /\ dst' \in {dst, f} /\ payload' = payload
    BY <1>5, <2>1 DEF PutFile, SaveWrite
  <2> QED
    BY <1>1, <1>2, <2>2, <2>3
<1>6. CASE SaveReplace(t)
  <2>1. UNCHANGED <<tmp, dst>> \/ (dst' = tmp /\ Loaded(tmp)' = ZeroEnergy)
    BY <1>6, LoadedFiles DEF SaveReplace
  <2>2. \A u \in Threads : payload'[u] \in {payload[u], ZeroEnergy}
    BY <1>6 DEF SaveReplace, TypeOK
  <2> QED
    BY <1>1, <1>2, <2>1, <2>2
<1>7. CASE SaveFails(t)
  <2>1. /\ tmp' = tmp \/ Loaded(tmp)' \in {ZeroEnergy, Loaded(tmp)}
        /\ dst' = dst \/ Loaded(dst)' \in {ZeroEnergy, Loaded(dst)}
    BY <1>7, LoadedFiles DEF SaveFails, PutFile, OpenFile
  <2>2. \A u \in Threads : payload'[u] \in {payload[u], ZeroEnergy}
    BY <1>7 DEF SaveFails, TypeOK
  <2> QED
    BY <1>1, <1>2, <2>1, <2>2
<1> QED
  BY <1>3, <1>4, <1>5, <1>6, <1>7 DEF SaveStep

-------------------------------------------------------------------------------
(* Time: a steady clock, and the start of the next interval. *)

ClockIsSteady == Skews = {0}

\* Without a process the store is as __init__ leaves it, but for the file.
FreshWhenDown ==
    ~up => /\ pc["poller"] = "poll" /\ pc["main"] = "serve" /\ ~locked
           /\ last_integrate_ts = None /\ last_save_ts = 0 /\ meter.last_update_ts = 0

\* While the lock is held the update of now is half done.
UpdateUnderLock ==
    /\ locked <=> pc["poller"] = "energy"
    /\ locked => Epoch <= now /\ now <= time /\ meter.last_update_ts = now

\* The next interval starts at the last update.
IntervalStart ==
    /\ last_integrate_ts = None /\ ~locked => meter.last_update_ts = 0
    /\ last_integrate_ts # None =>
        /\ Epoch <= last_integrate_ts /\ last_integrate_ts <= time
        /\ locked => last_integrate_ts <= now
        /\ ~locked => last_integrate_ts = now /\ last_integrate_ts = meter.last_update_ts

PowerBounded ==
    \A c \in Channels : -PowerMax <= meter.sample.power[c] /\ meter.sample.power[c] <= PowerMax

ClockInv ==
    /\ skew = 0 /\ Epoch <= time
    /\ FreshWhenDown /\ UpdateUnderLock /\ IntervalStart /\ PowerBounded

LEMMA EpochPositive == ClockIsSteady => Epoch \in Nat /\ Epoch > 0
  BY ConfigAssumption, ClockAssumption DEF ClockIsSteady

LEMMA NoSampleBounded == \A c \in Channels : -PowerMax <= NoSample.power[c] /\ NoSample.power[c] <= PowerMax
  BY ConfigAssumption DEF NoSample

LEMMA ClockInit == Init => ClockInv
<1> SUFFICES ASSUME Init PROVE ClockInv
  OBVIOUS
<1>1. skew = 0 /\ Epoch <= time /\ Epoch \in Nat
  BY ConfigAssumption DEF Init
<1>2. FreshWhenDown
  BY DEF Init, FreshWhenDown, InitMeter
<1>3. ~locked /\ pc["poller"] = "poll" /\ last_integrate_ts = None
  BY DEF Init
<1>4. meter.last_update_ts = 0 /\ meter.sample = NoSample
  BY DEF Init, InitMeter
<1>5. PowerBounded
  BY <1>4, NoSampleBounded DEF PowerBounded
<1> QED
  BY <1>1, <1>2, <1>3, <1>4, <1>5 DEF ClockInv, UpdateUnderLock, IntervalStart

\* Steps that change neither the clock nor what ClockInv says of the store.
LEMMA OtherStepsKeepClock ==
  ASSUME ClockInv, UNCHANGED <<time, skew, now, locked, meter, last_integrate_ts>>,
         up, up', pc'["poller"] = "energy" <=> pc["poller"] = "energy"
  PROVE  ClockInv'
<1>1. UNCHANGED <<skew, time>> /\ FreshWhenDown' /\ PowerBounded'
  BY DEF ClockInv, FreshWhenDown, PowerBounded
<1>2. UpdateUnderLock'
  BY DEF ClockInv, UpdateUnderLock
<1>3. IntervalStart'
  BY DEF ClockInv, IntervalStart
<1> QED
  BY <1>1, <1>2, <1>3 DEF ClockInv

LEMMA ClockNext ==
  ASSUME ClockIsSteady, UseAlfenEnergy = FALSE, TypeOK, TypeOK', ClockInv, [Next]_vars
  PROVE  ClockInv'
<1> USE DEF Running, Goto, Threads
<1>0. Epoch \in Nat /\ Epoch > 0 /\ time \in Nat /\ time' \in Nat /\ now \in Int
  BY EpochPositive DEF TypeOK
<1>1. ASSUME NEW m \in Samples, UpdateMeter(m) PROVE ClockInv'
  <2>1. /\ up /\ up' /\ pc'["poller"] = "energy" /\ locked' /\ ~locked /\ now' = time
        /\ UNCHANGED <<time, skew, last_integrate_ts>>
    BY <1>1 DEF UpdateMeter, wall, envVars, ClockInv, TypeOK
  <2>2. meter'.last_update_ts = now' /\ meter'.sample = m
    BY <1>1 DEF UpdateMeter
  <2>3. PowerBounded'
    BY <2>2, SampleAssumption DEF PowerBounded
  <2>4. UpdateUnderLock'
    BY <1>0, <2>1, <2>2 DEF ClockInv, UpdateUnderLock
  <2>5. IntervalStart'
    BY <2>1 DEF ClockInv, IntervalStart
  <2> QED
    BY <2>1, <2>3, <2>4, <2>5 DEF ClockInv, FreshWhenDown
<1>2. CASE UpdateEnergy
  <2>1. /\ up /\ up' /\ locked /\ ~locked' /\ pc'["poller"] = "check"
        /\ UNCHANGED <<time, skew, now, meter>> /\ last_integrate_ts' = now
    <3>1. pc["poller"] = "energy" /\ up
      BY <1>2 DEF UpdateEnergy
    <3>2. locked
      BY <3>1 DEF ClockInv, UpdateUnderLock
    <3>3. IntegratePower
      BY <1>2 DEF UpdateEnergy, ShouldUseAlfenEnergy
    <3> QED
      BY <1>2, <3>1, <3>2, <3>3 DEF UpdateEnergy, IntegratePower, envVars, TypeOK
  <2>2. UpdateUnderLock'
    BY <2>1 DEF UpdateUnderLock
  <2>3. Epoch <= now /\ now <= time /\ meter.last_update_ts = now /\ now # None
    BY <2>1, <1>0, NoneAssumption DEF ClockInv, UpdateUnderLock
  <2>4. IntervalStart'
    BY <2>1, <2>3 DEF IntervalStart
  <2>5. PowerBounded' /\ FreshWhenDown'
    BY <2>1 DEF ClockInv, PowerBounded, FreshWhenDown
  <2> QED
    BY <2>1, <2>2, <2>4, <2>5 DEF ClockInv
<1>3. CASE CheckSave \/ PollFails \/ PollAgain \/ RequestStop \/ JoinReturns
  <2>1. /\ up /\ up' /\ UNCHANGED <<time, skew, now, locked, meter, last_integrate_ts>>
    BY <1>3 DEF CheckSave, PollFails, PollAgain, RequestStop, JoinReturns, storeVars, envVars
  <2>2. pc'["poller"] = "energy" <=> pc["poller"] = "energy"
    BY <1>3 DEF CheckSave, PollFails, PollAgain, RequestStop, JoinReturns, TypeOK
  <2> QED
    BY <2>1, <2>2, OtherStepsKeepClock
<1>4. ASSUME NEW t \in Threads, SaveStep(t) PROVE ClockInv'
  <2>1. /\ up /\ up' /\ UNCHANGED <<time, skew, now, locked, meter, last_integrate_ts>>
    BY <1>4, SaveMoves DEF storeVars, envVars
  <2>2. pc'["poller"] = "energy" <=> pc["poller"] = "energy"
    BY <1>4 DEF SaveStep, SaveCapture, SaveOpen, SaveWrite, SaveReplace, SaveFails, AfterSave,
                TypeOK
  <2> QED
    BY <2>1, <2>2, OtherStepsKeepClock
<1>5. CASE Exit \/ Kill
  <2>1. Die
    BY <1>5 DEF Exit, Kill
  <2>2. /\ ~up' /\ pc'["poller"] = "poll" /\ pc'["main"] = "serve" /\ ~locked'
        /\ last_integrate_ts' = None /\ last_save_ts' = 0 /\ UNCHANGED <<time, skew>>
    BY <2>1 DEF Die
  <2>3. meter'.last_update_ts = 0 /\ meter'.sample = NoSample
    BY <2>1 DEF Die, InitMeter
  <2>4. PowerBounded'
    BY <2>3, NoSampleBounded DEF PowerBounded
  <2> QED
    BY <2>2, <2>3, <2>4 DEF ClockInv, FreshWhenDown, UpdateUnderLock, IntervalStart
<1>6. CASE Start \/ Snapshot \/ UNCHANGED vars
  <2>1. UNCHANGED <<time, skew, pc, now, locked, meter, last_integrate_ts>>
    BY <1>6 DEF Start, Snapshot, vars, threadVars, storeVars, envVars
  <2>2. (up' = up /\ last_save_ts' = last_save_ts) \/ up'
    BY <1>6 DEF Start, Snapshot, vars, storeVars, envVars
  <2>3. FreshWhenDown' /\ UpdateUnderLock' /\ IntervalStart' /\ PowerBounded'
    BY <2>1, <2>2 DEF ClockInv, FreshWhenDown, UpdateUnderLock, IntervalStart, PowerBounded
  <2> QED
    BY <2>1, <2>3 DEF ClockInv
<1>7. CASE Tick
  <2>1. /\ time' = time + 1
        /\ UNCHANGED <<up, skew, pc, now, locked, meter, last_integrate_ts, last_save_ts>>
    BY <1>7 DEF Tick, threadVars, storeVars
  <2>2. FreshWhenDown' /\ PowerBounded'
    BY <2>1 DEF ClockInv, FreshWhenDown, PowerBounded
  <2>3. UpdateUnderLock'
    BY <1>0, <2>1 DEF ClockInv, UpdateUnderLock
  <2>4. last_integrate_ts # None => last_integrate_ts \in Int
    BY DEF TypeOK, OptInt
  <2>5. IntervalStart'
    BY <1>0, <2>1, <2>4 DEF ClockInv, IntervalStart
  <2> QED
    BY <1>0, <2>1, <2>2, <2>3, <2>5 DEF ClockInv
<1>8. ~StepClock
  BY DEF StepClock, ClockIsSteady, ClockInv
<1> QED
  BY <1>1, <1>2, <1>3, <1>4, <1>5, <1>6, <1>7, <1>8 DEF Next, PollerStep, MainStep

LEMMA ClockCorrect ==
  ASSUME ClockIsSteady, UseAlfenEnergy = FALSE
  PROVE  Spec => []ClockInv
<1>1. ClockInv /\ TypeOK /\ TypeOK' /\ [Next]_vars => ClockInv'
  BY ClockNext
<1> QED
  BY <1>1, ClockInit, TypeCorrect, PTL DEF Spec

-------------------------------------------------------------------------------
(* Intervals adjoin, for any clock and any source of the counters. *)

\* The wall clock is past zero, which an update that has a stamp is told by.
ClockPositive == skew \in Skews /\ Epoch <= time

\* The stamp of an update is what it integrates up to.
StampedUnderLock ==
    /\ locked <=> pc["poller"] = "energy"
    /\ locked => now > 0 /\ meter.last_update_ts = now

AdjoinInv == ClockPositive /\ FreshWhenDown /\ StampedUnderLock /\ IntervalsAdjoin

LEMMA AdjoinInit == Init => AdjoinInv
<1> SUFFICES ASSUME Init PROVE AdjoinInv
  OBVIOUS
<1>1. ClockPositive
  BY ConfigAssumption DEF Init, ClockPositive
<1>2. /\ ~up /\ ~locked /\ pc["poller"] = "poll" /\ pc["main"] = "serve"
      /\ last_integrate_ts = None /\ last_save_ts = 0 /\ meter.last_update_ts = 0
  BY DEF Init, InitMeter
<1> QED
  BY <1>1, <1>2 DEF AdjoinInv, FreshWhenDown, StampedUnderLock, IntervalsAdjoin

\* Steps that change nothing of what AdjoinInv speaks of.
LEMMA OtherStepsKeepAdjoin ==
  ASSUME AdjoinInv, UNCHANGED <<time, skew, now, locked, meter, last_integrate_ts>>,
         up, up', pc'["poller"] = "energy" <=> pc["poller"] = "energy"
  PROVE  AdjoinInv'
<1>1. ClockPositive' /\ FreshWhenDown'
  BY DEF AdjoinInv, ClockPositive, FreshWhenDown
<1>2. StampedUnderLock' /\ IntervalsAdjoin'
  BY DEF AdjoinInv, StampedUnderLock, IntervalsAdjoin
<1> QED
  BY <1>1, <1>2 DEF AdjoinInv

LEMMA AdjoinNext ==
  ASSUME TypeOK, TypeOK', AdjoinInv, [Next]_vars
  PROVE  AdjoinInv'
<1> USE DEF Running, Goto, Threads
<1>1. ASSUME NEW m \in Samples, UpdateMeter(m) PROVE AdjoinInv'
  <2>1. /\ up /\ up' /\ pc'["poller"] = "energy" /\ locked' /\ now' = wall
        /\ meter'.last_update_ts = now' /\ UNCHANGED <<time, skew>>
    BY <1>1 DEF UpdateMeter, envVars, TypeOK
  <2>2. now' > 0
    <3>1. skew \in Int /\ time \in Int /\ Epoch \in Nat /\ SaveInterval \in Nat /\ Epoch + skew > SaveInterval
      BY ConfigAssumption, ClockAssumption DEF AdjoinInv, ClockPositive, TypeOK
    <3> QED
      BY <2>1, <3>1 DEF wall, AdjoinInv, ClockPositive
  <2> QED
    BY <2>1, <2>2 DEF AdjoinInv, ClockPositive, FreshWhenDown, StampedUnderLock, IntervalsAdjoin
<1>2. CASE UpdateEnergy
  <2>1. /\ up /\ up' /\ ~locked' /\ pc["poller"] = "energy" /\ pc'["poller"] = "check"
        /\ UNCHANGED <<time, skew, now, meter>> /\ last_integrate_ts' = now
    BY <1>2 DEF UpdateEnergy, CopyAlfenEnergy, IntegratePower, envVars, TypeOK
  <2>2. now > 0 /\ meter.last_update_ts = now
    BY <2>1 DEF AdjoinInv, StampedUnderLock
  <2>3. IntervalsAdjoin'
    BY <2>1, <2>2 DEF IntervalsAdjoin, TypeOK
  <2> QED
    BY <2>1, <2>3 DEF AdjoinInv, ClockPositive, FreshWhenDown, StampedUnderLock
<1>3. CASE CheckSave \/ PollFails \/ PollAgain \/ RequestStop \/ JoinReturns
  <2>1. /\ up /\ up' /\ UNCHANGED <<time, skew, now, locked, meter, last_integrate_ts>>
    BY <1>3 DEF CheckSave, PollFails, PollAgain, RequestStop, JoinReturns, storeVars, envVars
  <2>2. pc'["poller"] = "energy" <=> pc["poller"] = "energy"
    BY <1>3 DEF CheckSave, PollFails, PollAgain, RequestStop, JoinReturns, TypeOK
  <2> QED
    BY <2>1, <2>2, OtherStepsKeepAdjoin
<1>4. ASSUME NEW t \in Threads, SaveStep(t) PROVE AdjoinInv'
  <2>1. /\ up /\ up' /\ UNCHANGED <<time, skew, now, locked, meter, last_integrate_ts>>
    BY <1>4, SaveMoves DEF storeVars, envVars
  <2>2. pc'["poller"] = "energy" <=> pc["poller"] = "energy"
    BY <1>4 DEF SaveStep, SaveCapture, SaveOpen, SaveWrite, SaveReplace, SaveFails, AfterSave,
                TypeOK
  <2> QED
    BY <2>1, <2>2, OtherStepsKeepAdjoin
<1>5. CASE Exit \/ Kill
  <2>1. Die
    BY <1>5 DEF Exit, Kill
  <2>2. /\ ~up' /\ pc'["poller"] = "poll" /\ pc'["main"] = "serve" /\ ~locked'
        /\ last_integrate_ts' = None /\ last_save_ts' = 0 /\ meter'.last_update_ts = 0
        /\ UNCHANGED <<time, skew>>
    BY <2>1 DEF Die, InitMeter
  <2> QED
    BY <2>2 DEF AdjoinInv, ClockPositive, FreshWhenDown, StampedUnderLock, IntervalsAdjoin
<1>6. CASE Start
  <2>1. /\ ~up /\ up' /\ UNCHANGED <<time, skew, pc, now, locked, meter, last_integrate_ts>>
    BY <1>6 DEF Start, threadVars
  <2> QED
    BY <2>1 DEF AdjoinInv, ClockPositive, FreshWhenDown, StampedUnderLock, IntervalsAdjoin
<1>7. CASE Snapshot \/ Tick \/ StepClock \/ UNCHANGED vars
  <2>1. UNCHANGED <<up, pc, now, locked, meter, last_integrate_ts, last_save_ts>>
    BY <1>7 DEF Snapshot, Tick, StepClock, vars, threadVars, storeVars, envVars
  <2>2. skew' \in Skews /\ Epoch <= time'
    <3>1. skew' \in Skews /\ (time' = time \/ time' = time + 1)
      BY <1>7 DEF Snapshot, Tick, StepClock, vars, envVars, AdjoinInv, ClockPositive
    <3> QED
      BY <3>1, ConfigAssumption DEF AdjoinInv, ClockPositive, TypeOK
  <2> QED
    BY <2>1, <2>2 DEF AdjoinInv, ClockPositive, FreshWhenDown, StampedUnderLock, IntervalsAdjoin
<1> QED
  BY <1>1, <1>2, <1>3, <1>4, <1>5, <1>6, <1>7 DEF Next, PollerStep, MainStep

\* Whatever the clock does, and whichever source the counters come from, the next
\* interval starts where the last update ended.
THEOREM IntervalsDoAdjoin == Spec => []IntervalsAdjoin
<1>1. AdjoinInv /\ TypeOK /\ TypeOK' /\ [Next]_vars => AdjoinInv'
  BY AdjoinNext
<1>2. AdjoinInv => IntervalsAdjoin
  BY DEF AdjoinInv
<1> QED
  BY <1>1, <1>2, AdjoinInit, TypeCorrect, PTL DEF Spec

-------------------------------------------------------------------------------
(* No interval is counted twice. *)

Bounded(e, t) == \A c \in Channels : e.act[c] + e.ret[c] <= PowerMax * (t - Epoch)

\* What is counted goes up to here: the last update, or, before the first one, the
\* start of the process, which was no later than now.
CountedUntil ==
    IF last_integrate_ts # None THEN last_integrate_ts ELSE IF locked THEN now ELSE time

BoundInv ==
    /\ Bounded(energy, CountedUntil)
    /\ Bounded(Loaded(dst), time) /\ Bounded(Loaded(tmp), time)
    /\ \A t \in Threads : Bounded(payload[t], time)

LEMMA BoundedLater ==
  ASSUME NEW e \in Energies, NEW t \in Int, NEW u \in Int, t <= u, Bounded(e, t)
  PROVE  Bounded(e, u)
<1> SUFFICES ASSUME NEW c \in Channels
             PROVE  e.act[c] + e.ret[c] <= PowerMax * (u - Epoch)
  BY DEF Bounded
<1>1. e.act[c] + e.ret[c] <= PowerMax * (t - Epoch) /\ e.act[c] + e.ret[c] \in Int
  BY EnergyIsInt DEF Bounded
<1>2. t - Epoch \in Int /\ u - Epoch \in Int /\ t - Epoch <= u - Epoch /\ PowerMax \in Nat
  BY ConfigAssumption
<1>3. PowerMax * (t - Epoch) <= PowerMax * (u - Epoch)
  BY <1>2, ScaleMonotone
<1>4. PowerMax * (t - Epoch) \in Int /\ PowerMax * (u - Epoch) \in Int
  BY <1>2
<1> QED
  BY <1>1, <1>3, <1>4

LEMMA ZeroBounded ==
  ASSUME NEW t \in Int, Epoch <= t
  PROVE  Bounded(ZeroEnergy, t)
<1>1. PowerMax * (t - Epoch) >= 0
  BY ConfigAssumption
<1> QED
  BY <1>1 DEF Bounded, ZeroEnergy

\* One interval adds at most the largest power times its length.
LEMMA IntegratedBounded ==
  ASSUME NEW e \in Energies, NEW power \in [Channels -> Int], NEW t \in Int, NEW u \in Int,
         \A c \in Channels : -PowerMax <= power[c] /\ power[c] <= PowerMax,
         t <= u, Bounded(e, t)
  PROVE  Bounded(Integrated(e, power, u - t), u)
<1> SUFFICES ASSUME NEW c \in Channels
             PROVE  (e.act[c] + Import(power[c] * (u - t))) + (e.ret[c] + Export(power[c] * (u - t)))
                        <= PowerMax * (u - Epoch)
  BY DEF Bounded, Integrated
<1>1. u - t \in Nat /\ power[c] \in Int /\ PowerMax \in Nat /\ Epoch \in Int
  BY ConfigAssumption
<1>2. /\ Import(power[c] * (u - t)) \in Int /\ Export(power[c] * (u - t)) \in Int
      /\ Import(power[c] * (u - t)) + Export(power[c] * (u - t)) <= PowerMax * (u - t)
  BY <1>1, FlowBounded
<1>3. e.act[c] + e.ret[c] <= PowerMax * (t - Epoch) /\ e.act[c] \in Int /\ e.ret[c] \in Int
  BY EnergyIsInt DEF Bounded
<1>4. PowerMax * (t - Epoch) + PowerMax * (u - t) = PowerMax * (u - Epoch)
  BY <1>1, ScaleAdds
<1>5. PowerMax * (t - Epoch) \in Int /\ PowerMax * (u - t) \in Int
  BY <1>1
<1> QED
  BY <1>2, <1>3, <1>4, <1>5

LEMMA EnergiesOf ==
  ASSUME TypeOK
  PROVE  /\ energy \in Energies /\ Loaded(dst) \in Energies /\ Loaded(tmp) \in Energies
         /\ \A t \in Threads : payload[t] \in Energies
  BY LoadedType DEF TypeOK

LEMMA CountedUntilType ==
  ASSUME TypeOK, ClockInv
  PROVE  CountedUntil \in Int /\ Epoch <= CountedUntil /\ CountedUntil <= time
<1>1. time \in Int /\ now \in Int /\ (last_integrate_ts # None => last_integrate_ts \in Int)
  BY DEF TypeOK, OptInt
<1> QED
  BY <1>1 DEF ClockInv, IntervalStart, UpdateUnderLock, CountedUntil

LEMMA BoundInit == Init => BoundInv
<1> SUFFICES ASSUME Init PROVE BoundInv
  OBVIOUS
<1>1. time = Epoch /\ Epoch \in Int /\ CountedUntil = Epoch
  BY ConfigAssumption DEF Init, CountedUntil
<1>2. Bounded(ZeroEnergy, Epoch)
  BY <1>1, ZeroBounded
<1>3. Loaded(dst) = ZeroEnergy /\ Loaded(tmp) = ZeroEnergy /\ energy = ZeroEnergy
  BY LoadedFiles DEF Init
<1>4. \A t \in Threads : payload[t] = ZeroEnergy
  BY DEF Init
<1> QED
  BY <1>1, <1>2, <1>3, <1>4 DEF BoundInv

LEMMA BoundNext ==
  ASSUME ClockIsSteady, UseAlfenEnergy = FALSE, TypeOK, TypeOK', ClockInv, ClockInv',
         BoundInv, [Next]_vars
  PROVE  BoundInv'
<1> USE DEF Running, Goto
<1>1. /\ time \in Int /\ time' \in Int /\ Epoch <= time
      /\ CountedUntil \in Int /\ CountedUntil <= time
      /\ CountedUntil' \in Int /\ CountedUntil' <= time' /\ Epoch <= CountedUntil'
  <2>1. CountedUntil' \in Int /\ CountedUntil' <= time' /\ Epoch <= CountedUntil'
    <3>1. /\ time' \in Int /\ now' \in Int
          /\ last_integrate_ts' # None => last_integrate_ts' \in Int
      BY DEF TypeOK, OptInt
    <3> QED
      BY <3>1 DEF ClockInv, IntervalStart, UpdateUnderLock, CountedUntil
  <2> QED
    BY <2>1, CountedUntilType DEF TypeOK, ClockInv
<1>2. Bounded(ZeroEnergy, time) /\ Bounded(energy, time)
  BY <1>1, ZeroBounded, BoundedLater, EnergiesOf DEF BoundInv
<1>3. CASE UpdateEnergy
  <2>1. locked /\ ~locked' /\ last_integrate_ts' = now /\ UNCHANGED <<time, payload, tmp, dst>>
    BY <1>3 DEF UpdateEnergy, ShouldUseAlfenEnergy, IntegratePower, fileVars, envVars, ClockInv,
                UpdateUnderLock
  <2>2. now # None /\ CountedUntil' = now /\ now \in Int
    BY <2>1, NoneAssumption DEF TypeOK, CountedUntil
  <2>3. Bounded(energy', now)
    <3>1. meter.sample.power \in [Channels -> Int] /\ energy \in Energies
      BY DEF TypeOK, Measurements
    <3>2. CASE last_integrate_ts = None
      <4>1. energy' = energy /\ CountedUntil = now
        BY <1>3, <2>1, <3>2 DEF UpdateEnergy, ShouldUseAlfenEnergy, IntegratePower, CountedUntil
      <4> QED
        BY <4>1 DEF BoundInv
    <3>3. CASE last_integrate_ts # None
      <4>1. /\ last_integrate_ts \in Int /\ last_integrate_ts <= now
            /\ CountedUntil = last_integrate_ts
        BY <2>1, <3>3 DEF TypeOK, OptInt, ClockInv, IntervalStart, CountedUntil
      <4>2. Bounded(energy, now)
        BY <2>2, <3>1, <4>1, BoundedLater DEF BoundInv
      <4>3. Elapsed(last_integrate_ts, now) \in {0, now - last_integrate_ts}
        BY DEF Elapsed
      <4>4. energy' \in {energy, Integrated(energy, meter.sample.power, now - last_integrate_ts)}
        BY <1>3, <4>3 DEF UpdateEnergy, ShouldUseAlfenEnergy, IntegratePower
      <4>5. Bounded(Integrated(energy, meter.sample.power, now - last_integrate_ts), now)
        BY <2>2, <3>1, <4>1, IntegratedBounded DEF BoundInv, ClockInv, PowerBounded
      <4> QED
        BY <4>2, <4>4, <4>5
    <3> QED
      BY <3>2, <3>3
  <2> QED
    BY <2>1, <2>2, <2>3 DEF BoundInv
<1>4. CASE \E m \in Samples : UpdateMeter(m)
  <2>1. ~locked /\ locked' /\ now' = time /\ UNCHANGED <<time, energy, last_integrate_ts, payload, tmp, dst>>
    BY <1>4 DEF UpdateMeter, wall, fileVars, envVars, ClockInv, TypeOK
  <2>2. CountedUntil' = CountedUntil
    BY <2>1 DEF CountedUntil
  <2> QED
    BY <2>1, <2>2 DEF BoundInv
<1>5. CASE CheckSave \/ PollFails \/ PollAgain \/ RequestStop \/ JoinReturns \/ Snapshot \/ UNCHANGED vars
  <2>1. UNCHANGED <<time, energy, last_integrate_ts, locked, now, payload, tmp, dst>>
    BY <1>5 DEF CheckSave, PollFails, PollAgain, RequestStop, JoinReturns, Snapshot, vars,
                threadVars, storeVars, fileVars, envVars
  <2>2. CountedUntil' = CountedUntil
    BY <2>1 DEF CountedUntil
  <2> QED
    BY <2>1, <2>2 DEF BoundInv
<1>6. ASSUME NEW t \in Threads, SaveStep(t) PROVE BoundInv'
  <2>1. UNCHANGED <<time, energy, last_integrate_ts, locked, now>>
    BY <1>6, SaveMoves DEF storeVars, envVars
  <2>2. CountedUntil' = CountedUntil
    BY <2>1 DEF CountedUntil
  <2>3. Bounded(Loaded(dst)', time) /\ Bounded(Loaded(tmp)', time)
    BY <1>2, <1>6, SaveMoves DEF BoundInv
  <2>4. \A u \in Threads : Bounded(payload'[u], time)
    BY <1>2, <1>6, SaveMoves DEF BoundInv
  <2> QED
    BY <2>1, <2>2, <2>3, <2>4 DEF BoundInv
<1>7. CASE Exit \/ Kill
  <2>1. Die
    BY <1>7 DEF Exit, Kill
  <2>2. energy' = ZeroEnergy /\ UNCHANGED <<tmp, dst, time>>
    BY <2>1 DEF Die
  <2>3. \A t \in Threads : payload'[t] = ZeroEnergy
    BY <2>1 DEF Die
  <2>4. Bounded(ZeroEnergy, CountedUntil')
    BY <1>1, ZeroBounded
  <2> QED
    BY <1>2, <2>2, <2>3, <2>4 DEF BoundInv
<1>8. CASE Start
  <2>1. energy' = Loaded(dst) /\ UNCHANGED <<time, tmp, dst, payload, locked, last_integrate_ts>>
    BY <1>8 DEF Start, threadVars, fileVars
  <2>2. CountedUntil' = time
    BY <1>8, <2>1 DEF Start, ClockInv, FreshWhenDown, CountedUntil
  <2> QED
    BY <2>1, <2>2 DEF BoundInv
<1>9. CASE Tick
  <2>1. time' = time + 1 /\ UNCHANGED <<energy, last_integrate_ts, locked, now, payload, tmp, dst>>
    BY <1>9 DEF Tick, threadVars, storeVars, fileVars
  <2>2. CountedUntil <= CountedUntil'
    BY <1>1, <2>1 DEF CountedUntil
  <2>3. Bounded(energy, CountedUntil')
    BY <1>1, <2>2, BoundedLater, EnergiesOf DEF BoundInv
  <2>4. time <= time'
    BY <1>1, <2>1
  <2>5. Bounded(Loaded(dst), time') /\ Bounded(Loaded(tmp), time')
    BY <1>1, <2>4, BoundedLater, EnergiesOf DEF BoundInv
  <2>6. \A t \in Threads : Bounded(payload[t], time')
    BY <1>1, <2>4, BoundedLater, EnergiesOf DEF BoundInv
  <2> QED
    BY <2>1, <2>3, <2>5, <2>6 DEF BoundInv
<1>10. ~StepClock
  BY DEF StepClock, ClockIsSteady, ClockInv
<1> QED
  BY <1>3, <1>4, <1>5, <1>6, <1>7, <1>8, <1>9, <1>10 DEF Next, PollerStep, MainStep, Threads

\* With a steady clock no interval is counted twice: a channel never holds more than
\* the largest power times the time since the first process began, in memory or on
\* disk, whatever is killed, fails, is saved by two threads or falls out for a while.
THEOREM EnergyStaysBounded ==
  ASSUME ClockIsSteady, UseAlfenEnergy = FALSE
  PROVE  Spec => []EnergyBoundedByTime
<1>1. Spec => []ClockInv
  BY ClockCorrect
<1>2. Spec => []BoundInv
  <2>1. BoundInv /\ ClockInv /\ ClockInv' /\ TypeOK /\ TypeOK' /\ [Next]_vars => BoundInv'
    BY BoundNext
  <2> QED
    BY <1>1, <2>1, BoundInit, TypeCorrect, PTL DEF Spec
<1>3. TypeOK /\ ClockInv /\ BoundInv => EnergyBoundedByTime
  <2> SUFFICES ASSUME TypeOK, ClockInv, BoundInv PROVE EnergyBoundedByTime
    OBVIOUS
  <2>1. Bounded(energy, time) /\ Bounded(Loaded(dst), time)
    BY CountedUntilType, EnergiesOf, BoundedLater DEF BoundInv, TypeOK
  <2> QED
    BY <2>1 DEF Bounded, EnergyBoundedByTime
<1> QED
  BY <1>1, <1>2, <1>3, TypeCorrect, PTL
-------------------------------------------------------------------------------
(* A timestamp identifies the counters that were published with it. *)

UpdatedAt == IF last_integrate_ts = None THEN 0 ELSE last_integrate_ts

\* No snapshot is of a later update than the last, and one of the last update has
\* the counters there are now.
StampInv ==
    up => view.ts <= UpdatedAt /\ (view.ts = UpdatedAt => view.energy = energy)

LEMMA StampNext ==
  ASSUME ClockIsSteady, UseAlfenEnergy = FALSE, TypeOK, ClockInv, StampInv, [Next]_vars
  PROVE  StampInv' /\ (up /\ up' /\ view'.ts = view.ts => view'.energy = view.energy)
<1> USE DEF Running, Goto
<1>0. /\ Epoch \in Nat /\ Epoch > 0 /\ now \in Int /\ view.ts \in Int
      /\ last_integrate_ts # None => last_integrate_ts \in Int
  BY EpochPositive DEF TypeOK, OptInt
<1>1. CASE UpdateEnergy
  <2>1. /\ up /\ locked /\ pc["poller"] = "energy" /\ IntegratePower /\ view' = view
        /\ last_integrate_ts' = now
    BY <1>1 DEF UpdateEnergy, ShouldUseAlfenEnergy, IntegratePower, ClockInv, UpdateUnderLock
  <2>2. Epoch <= now /\ UpdatedAt' = now /\ UpdatedAt <= now
    BY <1>0, <2>1, NoneAssumption DEF ClockInv, UpdateUnderLock, IntervalStart, UpdatedAt
  <2>3. CASE UpdatedAt = now
    <3>1. last_integrate_ts # None /\ last_integrate_ts = now
      BY <1>0, <2>2, <2>3 DEF UpdatedAt
    <3>2. energy' = energy
      BY <1>0, <2>1, <3>1 DEF IntegratePower, Elapsed
    <3> QED
      BY <2>1, <2>2, <2>3, <3>2 DEF StampInv
  <2>4. CASE UpdatedAt < now
    <3>1. UpdatedAt \in Int /\ view.ts <= UpdatedAt
      BY <1>0, <2>1 DEF UpdatedAt, StampInv
    <3>2. view.ts < now
      BY <1>0, <2>4, <3>1
    <3> QED
      BY <1>0, <2>1, <2>2, <3>2 DEF StampInv
  <2>5. UpdatedAt \in Int
    BY <1>0 DEF UpdatedAt
  <2> QED
    BY <1>0, <2>2, <2>3, <2>4, <2>5
<1>2. CASE Snapshot
  <2>1. /\ up /\ ~locked /\ view' = [ts |-> meter.last_update_ts, energy |-> energy]
        /\ UNCHANGED <<energy, last_integrate_ts>>
    BY <1>2 DEF Snapshot, storeVars
  <2>2. meter.last_update_ts = UpdatedAt
    BY <2>1 DEF ClockInv, IntervalStart, UpdatedAt
  <2>3. UpdatedAt \in Int /\ UpdatedAt' = UpdatedAt
    BY <1>0, <2>1 DEF UpdatedAt
  <2> QED
    BY <2>1, <2>2, <2>3 DEF StampInv
<1>3. CASE Start
  <2>1. /\ ~up /\ energy' = Loaded(dst) /\ view' = [ts |-> 0, energy |-> Loaded(dst)]
        /\ UNCHANGED last_integrate_ts
    BY <1>3 DEF Start
  <2>2. UpdatedAt' = 0
    BY <2>1 DEF ClockInv, FreshWhenDown, UpdatedAt
  <2> QED
    BY <2>1, <2>2 DEF StampInv
<1>4. CASE Exit \/ Kill
  <2>1. ~up'
    BY <1>4 DEF Exit, Kill, Die
  <2> QED
    BY <2>1 DEF StampInv
<1>5. ASSUME UNCHANGED <<up, view, energy, last_integrate_ts>>
      PROVE  StampInv' /\ (up /\ up' /\ view'.ts = view.ts => view'.energy = view.energy)
  BY <1>5 DEF StampInv, UpdatedAt
<1>6. CASE \E t \in Threads : SaveStep(t)
  BY <1>5, <1>6, SaveMoves DEF storeVars, envVars
<1>7. CASE (\E m \in Samples : UpdateMeter(m)) \/ CheckSave \/ PollFails \/ PollAgain
           \/ RequestStop \/ JoinReturns \/ Tick \/ StepClock \/ UNCHANGED vars
  BY <1>5, <1>7 DEF UpdateMeter, CheckSave, PollFails, PollAgain, RequestStop, JoinReturns, Tick,
                    StepClock, vars, storeVars, envVars
<1> QED
  BY <1>1, <1>2, <1>3, <1>4, <1>6, <1>7 DEF Next, PollerStep, MainStep, Threads

\* With a steady clock a client that reads the same timestamp twice has read the same
\* counters, through reloads, failed saves and polls within one tick.
THEOREM StampsIdentifyEnergy ==
  ASSUME ClockIsSteady, UseAlfenEnergy = FALSE
  PROVE  Spec => StampIdentifiesEnergy
<1>1. Init => StampInv
  BY DEF Init, StampInv
<1>2. StampInv /\ ClockInv /\ TypeOK /\ [Next]_vars
        => StampInv' /\ [up /\ up' /\ view'.ts = view.ts => view'.energy = view.energy]_view
  BY StampNext
<1> QED
  BY <1>1, <1>2, ClockCorrect, TypeCorrect, PTL DEF Spec, StampIdentifiesEnergy

-------------------------------------------------------------------------------
(* A stop that waits for the poller, on a disk that works, saves everything. *)

\* The main thread saves what there is, and nothing changes after that.
SavedInv ==
    /\ pc["main"] \in {"open", "write", "replace"} => payload["main"] = energy
    /\ pc["main"] = "done" => dst = WholeFile(energy)
    /\ ~up => pc["main"] = "serve" /\ pc["poller"] = "poll"

LEMMA SavedNext ==
  ASSUME JoinMayTimeOut = FALSE, FsMayFail = FALSE, TypeOK, FilesInv, FilesInv', SavedInv,
         [Next]_vars
  PROVE  SavedInv'
<1> USE DEF Running, Goto, Threads
<1>1. CASE PollerStep \/ \E t \in {"poller"} : SaveStep(t)
  <2>1. pc["poller"] # "exited" /\ up' = up /\ up /\ pc'["main"] = pc["main"]
    <3>1. pc["poller"] # "exited" /\ up' = up /\ up
      BY <1>1 DEF PollerStep, UpdateMeter, UpdateEnergy, CheckSave, PollFails, PollAgain, SaveStep,
                  SaveCapture, SaveOpen, SaveWrite, SaveReplace, SaveFails, envVars
    <3>2. pc'["main"] = pc["main"]
      BY <1>1 DEF PollerStep, UpdateMeter, UpdateEnergy, CheckSave, PollFails, PollAgain, SaveStep,
                  SaveCapture, SaveOpen, SaveWrite, SaveReplace, SaveFails, TypeOK
    <3> QED
      BY <3>1, <3>2
  <2>2. pc["main"] \notin {"open", "write", "replace", "done"}
    BY <2>1 DEF FilesInv, OneSaver, Saving
  <2> QED
    BY <2>1, <2>2 DEF SavedInv
<1>2. CASE SaveStep("main")
  <2>1. up /\ up' = up /\ energy' = energy
    BY <1>2, SaveMoves DEF storeVars, envVars
  <2>2. CASE SaveCapture("main")
    BY <2>1, <2>2 DEF SaveCapture, SavedInv, TypeOK
  <2>3. CASE SaveOpen("main")
    BY <2>1, <2>3 DEF SaveOpen, SavedInv, TypeOK
  <2>4. CASE SaveWrite("main")
    BY <2>1, <2>4 DEF SaveWrite, SavedInv, TypeOK
  <2>5. CASE SaveReplace("main")
    <3>1. pc["main"] = "replace" /\ tmp = WholeFile(payload["main"]) /\ payload["main"] = energy
      BY <2>5 DEF SaveReplace, FilesInv, OnlyTmpWritten, SavedInv
    <3>2. dst' = WholeFile(energy)
      BY <2>5, <3>1 DEF SaveReplace, WholeFile
    <3>3. pc'["main"] = "done"
      BY <2>5 DEF SaveReplace, AfterSave, TypeOK
    <3> QED
      BY <2>1, <3>2, <3>3 DEF SavedInv
  <2>6. ~SaveFails("main")
    BY DEF SaveFails
  <2> QED
    BY <1>2, <2>2, <2>3, <2>4, <2>5, <2>6 DEF SaveStep
<1>3. CASE RequestStop \/ JoinReturns
  BY <1>3 DEF RequestStop, JoinReturns, envVars, SavedInv, TypeOK
<1>4. CASE Exit \/ Kill
  BY <1>4 DEF Exit, Kill, Die, SavedInv
<1>5. CASE Start
  <2>1. pc["main"] = "serve" /\ pc' = pc /\ up'
    BY <1>5 DEF Start, SavedInv, threadVars
  <2> QED
    BY <2>1 DEF SavedInv
<1>6. CASE Snapshot \/ Tick \/ StepClock \/ UNCHANGED vars
  BY <1>6 DEF Snapshot, Tick, StepClock, vars, threadVars, storeVars, fileVars, envVars, SavedInv
<1> QED
  BY <1>1, <1>2, <1>3, <1>4, <1>5, <1>6 DEF Next, MainStep

\* When stop() has returned, having waited for the poller, state.json holds everything
\* that was counted, as long as file operations succeed.
THEOREM GracefulStopSaves ==
  ASSUME JoinMayTimeOut = FALSE, FsMayFail = FALSE
  PROVE  Spec => []GracefulStopSavesAll
<1>1. Init => SavedInv
  BY DEF Init, SavedInv
<1>2. SavedInv /\ FilesInv /\ FilesInv' /\ TypeOK /\ [Next]_vars => SavedInv'
  BY SavedNext
<1>3. SavedInv => GracefulStopSavesAll
  BY DEF SavedInv, GracefulStopSavesAll
<1>4. FilesInv /\ TypeOK /\ TypeOK' /\ [Next]_vars => FilesInv'
  BY FilesNext
<1> QED
  BY <1>1, <1>2, <1>3, <1>4, FilesInit, TypeCorrect, PTL DEF Spec

-------------------------------------------------------------------------------
(* What a kill can cost while the program serves. *)

Behind(c) == (energy.act[c] + energy.ret[c]) - (Loaded(dst).act[c] + Loaded(dst).ret[c])

\* What memory is ahead of the disk flowed since the last save was found due, and
\* that is less than a save interval ago, but for the moment an update makes it due.
ServingInv ==
    Running("main", "serve") =>
        /\ pc["poller"] # "exited"
        /\ last_integrate_ts = None =>
              /\ pc["poller"] \in {"poll", "energy", "loop"}
              /\ last_save_ts = 0 /\ energy = Loaded(dst)
        /\ last_integrate_ts # None =>
              /\ last_save_ts <= last_integrate_ts
              /\ pc["poller"] \notin Saving =>
                    \A c \in Channels : Behind(c) <= PowerMax * (last_integrate_ts - last_save_ts)
              /\ pc["poller"] \notin Saving \cup {"check"} =>
                    last_integrate_ts - last_save_ts < SaveInterval
              /\ pc["poller"] \in Saving => last_save_ts = last_integrate_ts
              /\ pc["poller"] \in Saving \ {"capture"} => payload["poller"] = energy

\* An update adds at most the largest power times the interval it ends.
LEMMA UpdateFlow ==
  ASSUME UseAlfenEnergy = FALSE, TypeOK, TypeOK', ClockInv, UpdateEnergy, last_integrate_ts # None,
         NEW c \in Channels
  PROVE  (energy'.act[c] + energy'.ret[c]) - (energy.act[c] + energy.ret[c])
            <= PowerMax * (now - last_integrate_ts)
<1>1. /\ last_integrate_ts \in Int /\ now \in Int /\ PowerMax \in Nat
      /\ meter.sample.power[c] \in Int
      /\ energy.act[c] \in Int /\ energy.ret[c] \in Int
  BY ConfigAssumption, EnergyIsInt DEF TypeOK, OptInt, Measurements
<1>2. last_integrate_ts <= now
  <2>1. locked
    BY DEF UpdateEnergy, Running, ClockInv, UpdateUnderLock
  <2> QED
    BY <2>1 DEF ClockInv, IntervalStart
<1>3. now - last_integrate_ts \in Nat /\ PowerMax * (now - last_integrate_ts) >= 0
  BY <1>1, <1>2
<1>4. CASE energy' = energy
  BY <1>1, <1>3, <1>4
<1>5. CASE energy' = Integrated(energy, meter.sample.power, now - last_integrate_ts)
  <2> DEFINE x == meter.sample.power[c] * (now - last_integrate_ts)
             y == PowerMax * (now - last_integrate_ts)
  <2>1. -PowerMax <= meter.sample.power[c] /\ meter.sample.power[c] <= PowerMax
    BY DEF ClockInv, PowerBounded
  <2>2. Import(x) \in Int /\ Export(x) \in Int /\ Import(x) + Export(x) <= y
    BY <1>1, <1>3, <2>1, FlowBounded
  <2>3. energy'.act[c] = energy.act[c] + Import(x) /\ energy'.ret[c] = energy.ret[c] + Export(x)
    BY <1>5 DEF Integrated
  <2>4. y \in Int
    BY <1>1
  <2> HIDE DEF x, y
  <2>5. (energy'.act[c] + energy'.ret[c]) - (energy.act[c] + energy.ret[c]) <= y
    BY <1>1, <2>2, <2>3, <2>4
  <2> QED
    BY <2>5 DEF y
<1>6. Elapsed(last_integrate_ts, now) \in {0, now - last_integrate_ts}
  BY DEF Elapsed
<1> QED
  BY <1>4, <1>5, <1>6 DEF UpdateEnergy, ShouldUseAlfenEnergy, IntegratePower

LEMMA ServingNext ==
  ASSUME ClockIsSteady, UseAlfenEnergy = FALSE, JoinMayTimeOut = FALSE, FsMayFail = FALSE,
         SaveInterval > 0, TypeOK, TypeOK', ClockInv, FilesInv, ServingInv, [Next]_vars
  PROVE  ServingInv'
<1> USE DEF Running, Goto, Threads, Saving
<1>0. /\ Epoch \in Nat /\ Epoch > SaveInterval /\ SaveInterval \in Nat /\ PowerMax \in Nat
      /\ now \in Int /\ last_save_ts \in Int
      /\ last_integrate_ts # None => last_integrate_ts \in Int
      /\ \A c \in Channels : Behind(c) \in Int /\ Behind(c)' \in Int
  <2>1. Epoch \in Nat /\ Epoch > SaveInterval /\ SaveInterval \in Nat /\ PowerMax \in Nat
    BY ConfigAssumption, ClockAssumption DEF ClockIsSteady
  <2>2. \A c \in Channels : Behind(c) \in Int
    BY EnergyIsInt, LoadedType DEF TypeOK, Behind
  <2>3. \A c \in Channels : Behind(c)' \in Int
    BY EnergyIsInt, LoadedType DEF TypeOK, Behind
  <2> QED
    BY <2>1, <2>2, <2>3 DEF TypeOK, OptInt
<1>1. SUFFICES ASSUME up', pc'["main"] = "serve"
               PROVE  ServingInv'
  BY DEF ServingInv
<1>2. CASE UpdateEnergy
  <2>1. /\ up /\ pc["main"] = "serve" /\ pc["poller"] = "energy" /\ pc'["poller"] = "check"
        /\ UNCHANGED <<now, last_save_ts, dst>> /\ locked /\ last_integrate_ts' = now
    BY <1>1, <1>2 DEF UpdateEnergy, ShouldUseAlfenEnergy, IntegratePower, fileVars, TypeOK, ClockInv,
                      UpdateUnderLock
  <2>2. Epoch <= now /\ now # None
    BY <1>0, <2>1, NoneAssumption DEF ClockInv, UpdateUnderLock
  <2>3. CASE last_integrate_ts = None
    <3>1. last_save_ts = 0 /\ energy = Loaded(dst) /\ energy' = energy
      BY <1>2, <2>1, <2>3
      DEF ServingInv, UpdateEnergy, ShouldUseAlfenEnergy, IntegratePower
    <3>2. \A c \in Channels : Behind(c)' = 0
      BY <2>1, <3>1, EnergyIsInt DEF Behind, TypeOK
    <3>3. PowerMax * (now - 0) >= 0 /\ 0 <= now
      BY <1>0, <2>2
    <3> QED
      BY <2>1, <2>2, <3>1, <3>2, <3>3 DEF ServingInv
  <2>4. CASE last_integrate_ts # None
    <3>1. /\ last_save_ts <= last_integrate_ts /\ last_integrate_ts <= now
          /\ \A c \in Channels : Behind(c) <= PowerMax * (last_integrate_ts - last_save_ts)
      BY <2>1, <2>4 DEF ServingInv, ClockInv, IntervalStart
    <3>2. ASSUME NEW c \in Channels
          PROVE  Behind(c)' <= PowerMax * (now - last_save_ts)
      <4>1. (energy'.act[c] + energy'.ret[c]) - (energy.act[c] + energy.ret[c])
              <= PowerMax * (now - last_integrate_ts)
        BY <1>2, <2>4, UpdateFlow
      <4>2. Behind(c)' = Behind(c)
              + ((energy'.act[c] + energy'.ret[c]) - (energy.act[c] + energy.ret[c]))
        BY <2>1, EnergyIsInt, LoadedType DEF Behind, TypeOK
      <4>3. PowerMax * (last_integrate_ts - last_save_ts) + PowerMax * (now - last_integrate_ts)
              = PowerMax * (now - last_save_ts)
        BY <1>0, <2>4, ScaleAdds
      <4>4. /\ (energy'.act[c] + energy'.ret[c]) - (energy.act[c] + energy.ret[c]) \in Int
            /\ PowerMax * (last_integrate_ts - last_save_ts) \in Int
            /\ PowerMax * (now - last_integrate_ts) \in Int
        BY <1>0, <2>4, EnergyIsInt DEF TypeOK
      <4> QED
        BY <1>0, <3>1, <4>1, <4>2, <4>3, <4>4
    <3>3. last_save_ts <= now
      BY <1>0, <2>4, <3>1
    <3> QED
      BY <2>1, <2>2, <3>2, <3>3 DEF ServingInv
  <2> QED
    BY <2>3, <2>4
<1>3. CASE CheckSave
  <2>1. /\ up /\ pc["main"] = "serve" /\ pc["poller"] = "check" /\ last_integrate_ts # None
        /\ UNCHANGED <<energy, last_integrate_ts, dst, payload>>
    BY <1>1, <1>3 DEF CheckSave, fileVars, TypeOK, ServingInv
  <2>2. last_integrate_ts = now
    BY <2>1 DEF ClockInv, UpdateUnderLock, IntervalStart
  <2>3. CASE SaveIsDue
    <3>1. last_save_ts' = now /\ pc'["poller"] = "capture"
      BY <1>3, <2>3 DEF CheckSave, TypeOK
    <3> QED
      BY <1>0, <2>1, <2>2, <3>1 DEF ServingInv
  <2>4. CASE ~SaveIsDue
    <3>1. last_save_ts' = last_save_ts /\ pc'["poller"] = "loop"
      BY <1>3, <2>4 DEF CheckSave, TypeOK
    <3>2. last_integrate_ts - last_save_ts < SaveInterval
      BY <1>0, <2>2, <2>4 DEF SaveIsDue
    <3>3. \A c \in Channels : Behind(c)' = Behind(c)
      BY <2>1 DEF Behind
    <3> QED
      BY <2>1, <3>1, <3>2, <3>3 DEF ServingInv
  <2> QED
    BY <2>3, <2>4
<1>4. CASE SaveStep("poller")
  <2>1. /\ up /\ pc["main"] = "serve" /\ pc["poller"] \in Saving
        /\ UNCHANGED <<energy, last_integrate_ts, last_save_ts>>
    <3>1. up /\ pc["main"] = "serve" /\ UNCHANGED <<energy, last_integrate_ts, last_save_ts>>
      BY <1>1, <1>4, SaveMoves DEF storeVars
    <3>2. pc["poller"] \in Saving
      BY <1>4 DEF SaveStep, SaveCapture, SaveOpen, SaveWrite, SaveReplace, SaveFails
    <3> QED
      BY <3>1, <3>2
  <2>2. last_integrate_ts # None /\ last_save_ts = last_integrate_ts
    BY <2>1 DEF ServingInv
  <2>3. last_save_ts <= last_integrate_ts
    BY <1>0, <2>2
  <2>4. CASE SaveCapture("poller")
    <3>1. pc'["poller"] = "open" /\ payload'["poller"] = energy
      BY <2>4 DEF SaveCapture, TypeOK
    <3> QED
      BY <2>1, <2>2, <2>3, <3>1 DEF ServingInv
  <2>5. CASE SaveOpen("poller") \/ SaveWrite("poller")
    <3>1. /\ pc["poller"] \in {"open", "write"} /\ pc'["poller"] \in {"write", "replace"}
          /\ payload' = payload
      BY <2>5 DEF SaveOpen, SaveWrite, TypeOK
    <3> QED
      BY <2>1, <2>2, <2>3, <3>1 DEF ServingInv
  <2>6. CASE SaveReplace("poller")
    <3>1. pc["poller"] = "replace" /\ tmp = WholeFile(payload["poller"]) /\ pc'["poller"] = "loop"
      BY <2>6 DEF SaveReplace, AfterSave, FilesInv, OnlyTmpWritten, TypeOK
    <3>2. Loaded(dst)' = energy
      BY <2>1, <2>6, <3>1, LoadedFiles DEF SaveReplace, ServingInv, WholeFile
    <3>3. \A c \in Channels : Behind(c)' = 0
      BY <2>1, <3>2, EnergyIsInt DEF Behind, TypeOK
    <3>4. PowerMax * (last_integrate_ts - last_save_ts) = 0
          /\ last_integrate_ts - last_save_ts < SaveInterval
      BY <1>0, <2>2
    <3> QED
      BY <2>1, <2>2, <2>3, <3>1, <3>3, <3>4 DEF ServingInv
  <2>7. ~SaveFails("poller")
    BY DEF SaveFails
  <2> QED
    BY <1>4, <2>4, <2>5, <2>6, <2>7 DEF SaveStep
<1>5. CASE (\E m \in Samples : UpdateMeter(m)) \/ PollFails \/ PollAgain
  <2>1. /\ up /\ pc["main"] = "serve" /\ pc["poller"] \in {"poll", "loop"}
        /\ pc'["poller"] \in {"poll", "energy", "loop"}
        /\ UNCHANGED <<energy, last_integrate_ts, last_save_ts, dst>>
    BY <1>1, <1>5 DEF UpdateMeter, PollFails, PollAgain, stopping, storeVars, fileVars, TypeOK
  <2>2. \A c \in Channels : Behind(c)' = Behind(c)
    BY <2>1 DEF Behind
  <2> QED
    BY <2>1, <2>2 DEF ServingInv
<1>6. CASE Start
  <2>1. ~up /\ energy' = Loaded(dst) /\ UNCHANGED <<pc, last_integrate_ts, last_save_ts, dst>>
    BY <1>6 DEF Start, threadVars, fileVars
  <2> QED
    BY <2>1 DEF ClockInv, FreshWhenDown, ServingInv
<1>7. CASE Snapshot \/ Tick \/ UNCHANGED vars
  <2>1. UNCHANGED <<up, pc, energy, last_integrate_ts, last_save_ts, dst, payload>>
    BY <1>7 DEF Snapshot, Tick, vars, threadVars, storeVars, fileVars, envVars
  <2>2. \A c \in Channels : Behind(c)' = Behind(c)
    BY <2>1 DEF Behind
  <2> QED
    BY <2>1, <2>2 DEF ServingInv
<1>8. ~(RequestStop \/ JoinReturns \/ SaveStep("main") \/ Exit \/ Kill)
  BY <1>1 DEF RequestStop, JoinReturns, SaveStep, SaveCapture, SaveOpen, SaveWrite, SaveReplace,
              SaveFails, AfterSave, Exit, Kill, Die, TypeOK
<1>9. ~StepClock
  BY DEF StepClock, ClockIsSteady, ClockInv
<1> QED
  BY <1>2, <1>3, <1>4, <1>5, <1>6, <1>7, <1>8, <1>9 DEF Next, PollerStep, MainStep

\* Between two polls a kill costs less than one save interval at the largest power, in
\* the first process and in every one after it, while the program serves, the disk works
\* and the clock is steady.
THEOREM LossIsBounded ==
  ASSUME ClockIsSteady, UseAlfenEnergy = FALSE, JoinMayTimeOut = FALSE, FsMayFail = FALSE,
         SaveInterval > 0, PowerMax > 0
  PROVE  Spec => []LossBounded
<1>1. Init => ServingInv
  BY DEF Init, ServingInv, Running
<1>2. ServingInv /\ ClockInv /\ FilesInv /\ TypeOK /\ TypeOK' /\ [Next]_vars => ServingInv'
  BY ServingNext
<1>3. FilesInv /\ TypeOK /\ TypeOK' /\ [Next]_vars => FilesInv'
  BY FilesNext
<1>4. TypeOK /\ ServingInv => LossBounded
  <2> SUFFICES ASSUME TypeOK, ServingInv, Running("main", "serve"), PollerIsIdle, NEW c \in Channels
               PROVE  Behind(c) < PowerMax * SaveInterval
    BY DEF LossBounded, Behind
  <2>1. /\ SaveInterval \in Nat /\ PowerMax \in Nat /\ last_save_ts \in Int /\ Behind(c) \in Int
        /\ PowerMax * SaveInterval > 0 /\ PowerMax * SaveInterval \in Int
    BY ConfigAssumption, EnergyIsInt, LoadedType DEF Behind, TypeOK
  <2>2. CASE last_integrate_ts = None
    <3>1. Behind(c) = 0
      BY <2>2, EnergyIsInt DEF ServingInv, Behind, TypeOK
    <3> QED
      BY <2>1, <3>1
  <2>3. CASE last_integrate_ts # None
    <3> DEFINE d == last_integrate_ts - last_save_ts
    <3>1. /\ d \in Int /\ d < SaveInterval /\ Behind(c) <= PowerMax * d
      BY <2>1, <2>3 DEF ServingInv, PollerIsIdle, Saving, TypeOK, OptInt
    <3> HIDE DEF d
    <3>2. d + 1 <= SaveInterval /\ PowerMax * (d + 1) = PowerMax * d + PowerMax
      BY <2>1, <3>1
    <3>3. PowerMax * (d + 1) <= PowerMax * SaveInterval
      BY <2>1, <3>1, <3>2, ScaleMonotone
    <3>4. PowerMax * d \in Int
      BY <2>1, <3>1
    <3> QED
      BY <2>1, <3>1, <3>2, <3>3, <3>4
  <2> QED
    BY <2>2, <2>3
<1> QED
  BY <1>1, <1>2, <1>3, <1>4, ClockCorrect, FilesInit, TypeCorrect, PTL DEF Spec

-------------------------------------------------------------------------------
(* The phases and the total tell the same net energy. *)

\* Every sample's total power is the sum over its phases.
SamplesBalance == \A m \in Samples : m.power["a"] + m.power["b"] + m.power["c"] = m.power["total"]

BalanceInv ==
    /\ BalancedEnergy(energy) /\ BalancedEnergy(Loaded(dst)) /\ BalancedEnergy(Loaded(tmp))
    /\ BalancedEnergy(view.energy)
    /\ \A t \in Threads : BalancedEnergy(payload[t])
    /\ meter.sample.power["a"] + meter.sample.power["b"] + meter.sample.power["c"]
         = meter.sample.power["total"]

LEMMA ChannelNames ==
  "a" \in Channels /\ "b" \in Channels /\ "c" \in Channels /\ "total" \in Channels
  BY DEF Channels, Phases

LEMMA ZeroBalanced == BalancedEnergy(ZeroEnergy)
  BY ChannelNames DEF BalancedEnergy, ZeroEnergy

\* Import less export is what flowed, whatever its sign.
LEMMA NetFlow ==
  ASSUME NEW x \in Int
  PROVE  Import(x) \in Int /\ Export(x) \in Int /\ Import(x) - Export(x) = x
  BY DEF Import, Export

LEMMA IntegratedBalanced ==
  ASSUME NEW e \in Energies, BalancedEnergy(e), NEW power \in [Channels -> Int], NEW dt \in Nat,
         power["a"] + power["b"] + power["c"] = power["total"]
  PROVE  BalancedEnergy(Integrated(e, power, dt))
<1> DEFINE in(c) == Import(power[c] * dt)
           out(c) == Export(power[c] * dt)
<1>1. \A c \in Channels : power[c] * dt \in Int /\ power[c] \in Int
  OBVIOUS
<1>2. \A c \in Channels : in(c) \in Int /\ out(c) \in Int /\ in(c) - out(c) = power[c] * dt
  BY <1>1, NetFlow
<1>3. power["a"] * dt + power["b"] * dt + power["c"] * dt = power["total"] * dt
  <2>1. (power["a"] + power["b"] + power["c"]) * dt
          = power["a"] * dt + power["b"] * dt + power["c"] * dt
    BY <1>1, ChannelNames
  <2> QED
    BY <2>1
<1> HIDE DEF in, out
<1>4. (in("a") - out("a")) + (in("b") - out("b")) + (in("c") - out("c")) = in("total") - out("total")
  BY <1>2, <1>3, ChannelNames
<1>5. \A c \in Channels : e.act[c] \in Int /\ e.ret[c] \in Int
  BY EnergyIsInt
<1>6. \A c \in Channels : /\ Integrated(e, power, dt).act[c] = e.act[c] + in(c)
                          /\ Integrated(e, power, dt).ret[c] = e.ret[c] + out(c)
  BY DEF Integrated, in, out
<1> DEFINE f == Integrated(e, power, dt)
           had(c) == e.act[c] - e.ret[c]
           has(c) == f.act[c] - f.ret[c]
           flow(c) == in(c) - out(c)
<1>7. \A c \in Channels : has(c) = had(c) + flow(c)
  BY <1>2, <1>5, <1>6
<1>8. \A c \in Channels : f.act[c] \in Int /\ f.ret[c] \in Int
  BY <1>2, <1>5, <1>6
<1>9. \A c \in Channels : had(c) \in Int /\ flow(c) \in Int
  BY <1>2, <1>5
<1>10. had("a") + had("b") + had("c") = had("total") /\ flow("a") + flow("b") + flow("c") = flow("total")
  BY <1>4, <1>5, ChannelNames DEF BalancedEnergy
<1> HIDE DEF had, has, flow
<1>11. has("a") + has("b") + has("c") = has("total")
  BY <1>7, <1>9, <1>10, ChannelNames
<1> HIDE DEF f
<1>12. BalancedEnergy(f)
  BY <1>8, <1>11, ChannelNames DEF BalancedEnergy, has
<1> QED
  BY <1>12 DEF f

LEMMA BalanceInit == Init => BalanceInv
<1> SUFFICES ASSUME Init PROVE BalanceInv
  OBVIOUS
<1>1. Loaded(dst) = ZeroEnergy /\ Loaded(tmp) = ZeroEnergy /\ energy = ZeroEnergy
  BY LoadedFiles DEF Init
<1>2. view.energy = ZeroEnergy /\ meter.sample = NoSample
  BY DEF Init, InitMeter
<1>3. \A t \in Threads : payload[t] = ZeroEnergy
  BY DEF Init
<1>4. NoSample.power["a"] + NoSample.power["b"] + NoSample.power["c"] = NoSample.power["total"]
  BY ChannelNames DEF NoSample
<1> QED
  BY <1>1, <1>2, <1>3, <1>4, ZeroBalanced DEF BalanceInv

LEMMA BalanceNext ==
  ASSUME UseAlfenEnergy = FALSE, SamplesBalance, TypeOK, BalanceInv, [Next]_vars
  PROVE  BalanceInv'
<1>1. CASE UpdateEnergy
  <2>1. UNCHANGED <<meter, view, payload, tmp, dst>>
    BY <1>1 DEF UpdateEnergy, fileVars
  <2>2. /\ meter.sample.power \in [Channels -> Int] /\ energy \in Energies /\ now \in Int
        /\ last_integrate_ts # None => last_integrate_ts \in Int
    BY DEF TypeOK, Measurements, OptInt
  <2>3. CASE energy' = energy
    BY <2>1, <2>3 DEF BalanceInv
  <2>4. CASE /\ last_integrate_ts # None
             /\ energy' = Integrated(energy, meter.sample.power, Elapsed(last_integrate_ts, now))
    <3>1. Elapsed(last_integrate_ts, now) \in Nat
      BY <2>2, <2>4, ElapsedType
    <3>2. BalancedEnergy(energy')
      BY <2>2, <2>4, <3>1, IntegratedBalanced DEF BalanceInv
    <3> QED
      BY <2>1, <3>2 DEF BalanceInv
  <2> QED
    BY <1>1, <2>3, <2>4 DEF UpdateEnergy, ShouldUseAlfenEnergy, IntegratePower
<1>2. ASSUME NEW m \in Samples, UpdateMeter(m) PROVE BalanceInv'
  <2>1. meter'.sample = m /\ UNCHANGED <<energy, view, payload, tmp, dst>>
    BY <1>2 DEF UpdateMeter, fileVars
  <2> QED
    BY <2>1 DEF BalanceInv, SamplesBalance
<1>3. ASSUME NEW t \in Threads, SaveStep(t) PROVE BalanceInv'
  <2>1. UNCHANGED <<energy, meter, view>>
    BY <1>3, SaveMoves DEF storeVars
  <2>2. \A u \in Threads : BalancedEnergy(payload'[u])
    BY <1>3, SaveMoves, ZeroBalanced DEF BalanceInv
  <2>3. BalancedEnergy(Loaded(dst)') /\ BalancedEnergy(Loaded(tmp)')
    BY <1>3, SaveMoves, ZeroBalanced DEF BalanceInv
  <2> QED
    BY <2>1, <2>2, <2>3 DEF BalanceInv
<1>4. CASE Snapshot \/ Start
  <2>1. /\ view'.energy \in {energy, Loaded(dst)} /\ energy' \in {energy, Loaded(dst)}
        /\ UNCHANGED <<meter, payload, tmp, dst>>
    BY <1>4 DEF Snapshot, Start, storeVars, fileVars
  <2> QED
    BY <2>1 DEF BalanceInv
<1>5. CASE Exit \/ Kill
  <2>1. Die
    BY <1>5 DEF Exit, Kill
  <2>2. /\ energy' = ZeroEnergy /\ view'.energy = ZeroEnergy /\ meter'.sample = NoSample
        /\ UNCHANGED <<tmp, dst>>
    BY <2>1 DEF Die, InitMeter
  <2>3. \A t \in Threads : payload'[t] = ZeroEnergy
    BY <2>1 DEF Die
  <2>4. NoSample.power["a"] + NoSample.power["b"] + NoSample.power["c"] = NoSample.power["total"]
    BY ChannelNames DEF NoSample
  <2> QED
    BY <2>2, <2>3, <2>4, ZeroBalanced DEF BalanceInv
<1>6. CASE CheckSave \/ PollFails \/ PollAgain \/ RequestStop \/ JoinReturns \/ Tick \/ StepClock
           \/ UNCHANGED vars
  <2>1. UNCHANGED <<energy, meter, view, payload, tmp, dst>>
    BY <1>6 DEF CheckSave, PollFails, PollAgain, RequestStop, JoinReturns, Tick, StepClock, vars,
                storeVars, fileVars
  <2> QED
    BY <2>1 DEF BalanceInv
<1> QED
  BY <1>1, <1>2, <1>3, <1>4, <1>5, <1>6 DEF Next, PollerStep, MainStep, Threads

\* When every sample's total is the sum of its phases, the counters of the phases and
\* of the total agree on import less export, in memory, on disk and in every snapshot,
\* even when the clock is stepped, files tear or two threads save at once.
THEOREM NetStaysBalanced ==
  ASSUME UseAlfenEnergy = FALSE, SamplesBalance
  PROVE  Spec => []NetBalance
<1>1. BalanceInv /\ TypeOK /\ [Next]_vars => BalanceInv'
  BY BalanceNext
<1>2. BalanceInv => NetBalance
  BY DEF BalanceInv, NetBalance
<1> QED
  BY <1>1, <1>2, BalanceInit, TypeCorrect, PTL DEF Spec


===============================================================================

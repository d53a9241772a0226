-------------------------- MODULE EnergyStore_proofs --------------------------
(* Theorems about EnergyStore, for every value of its constants. *)
EXTENDS EnergyStore, TLAPS

-------------------------------------------------------------------------------
(* Data. *)

LEMMA ZeroEnergyType == ZeroEnergy \in Energies
  BY DEF ZeroEnergy, Energies

LEMMA NoSampleType == NoSample \in Measurements
  BY DEF NoSample, Measurements, OptInt

LEMMA LoadedType ==
  ASSUME NEW f \in Files
  PROVE  Loaded(f) \in Energies
  BY ZeroEnergyType DEF Files, Loaded

LEMMA WholeFileType ==
  ASSUME NEW e \in Energies
  PROVE  WholeFile(e) \in Files
  BY DEF Files, WholeFile

LEMMA FileTypes == MissingFile \in Files /\ EmptyFile \in Files /\ TornFile \in Files
  BY ZeroEnergyType DEF Files, MissingFile, EmptyFile, TornFile

LEMMA ElapsedType ==
  ASSUME NEW from \in Int, NEW to \in Int
  PROVE  Elapsed(from, to) \in Nat
  BY DEF Elapsed

LEMMA AlfenCountersType ==
  ASSUME NEW reg \in [Channels -> OptInt]
  PROVE  AlfenCounters(reg) \in [Channels -> Int]
<1>1. \A c \in Channels : OrZero(reg[c]) \in Int
  BY DEF OptInt, OrZero
<1>2. "a" \in Channels /\ "b" \in Channels /\ "c" \in Channels
  BY DEF Channels, Phases
<1> QED
  BY <1>1, <1>2 DEF AlfenCounters

LEMMA IntegratedType ==
  ASSUME NEW e \in Energies, NEW power \in [Channels -> Int], NEW dt \in Nat
  PROVE  Integrated(e, power, dt) \in Energies
<1>1. \A c \in Channels : power[c] * dt \in Int
  OBVIOUS
<1>2. \A c \in Channels : Import(power[c] * dt) \in Int /\ Export(power[c] * dt) \in Int
  BY <1>1 DEF Import, Export
<1>3. e.act \in [Channels -> Int] /\ e.ret \in [Channels -> Int]
  BY DEF Energies
<1> QED
  BY <1>2, <1>3 DEF Integrated, Energies

-------------------------------------------------------------------------------
(* Type correctness. *)

LEMMA TypeInit == Init => TypeOK
<1> SUFFICES ASSUME Init PROVE TypeOK
  OBVIOUS
<1>1. pc \in [Threads -> PollerLabels \cup MainLabels]
  BY DEF Init, Threads, PollerLabels, MainLabels
<1>2. pc["poller"] \in PollerLabels /\ pc["main"] \in MainLabels
  BY DEF Init, PollerLabels, MainLabels
<1>3. meter \in [sample : Measurements, last_update_ts : Int]
  BY NoSampleType DEF Init, InitMeter
<1>4. view \in [ts : Int, energy : Energies]
  BY ZeroEnergyType DEF Init
<1>5. payload \in [Threads -> Energies] /\ energy \in Energies
  BY ZeroEnergyType DEF Init
<1>6. fd \in [Threads -> {"none", "tmp", "dst", "gone"}]
  BY DEF Init
<1>7. tmp \in Files /\ dst \in Files
  BY FileTypes DEF Init
<1>8. up \in BOOLEAN /\ locked \in BOOLEAN /\ now \in Int /\ last_save_ts \in Int
      /\ time \in Nat /\ skew \in Int /\ incidents \in Nat /\ last_integrate_ts \in OptInt
  BY ConfigAssumption DEF Init, OptInt
<1> QED
  BY <1>1, <1>2, <1>3, <1>4, <1>5, <1>6, <1>7, <1>8 DEF TypeOK

LEMMA TypeNext == TypeOK /\ [Next]_vars => TypeOK'
<1> SUFFICES ASSUME TypeOK, [Next]_vars PROVE TypeOK'
  OBVIOUS
<1> USE DEF TypeOK, Threads, Goto, Running
<1>1. ASSUME NEW m \in Samples, UpdateMeter(m) PROVE TypeOK'
  <2>1. m \in Measurements /\ wall \in Int
    BY SampleAssumption DEF wall
  <2> QED
    BY <1>1, <2>1 DEF UpdateMeter, PollerLabels, storeVars, fileVars, envVars
<1>2. CASE UpdateEnergy
  <2>1. energy' \in Energies /\ last_integrate_ts' \in OptInt
    <3>1. meter.sample.act \in [Channels -> OptInt] /\ meter.sample.ret \in [Channels -> OptInt]
          /\ meter.sample.power \in [Channels -> Int]
      BY DEF Measurements
    <3>2. CASE CopyAlfenEnergy
      BY <3>1, <3>2, AlfenCountersType DEF CopyAlfenEnergy, Energies, OptInt
    <3>3. CASE IntegratePower
      <4>1. CASE last_integrate_ts = None
        BY <3>3, <4>1 DEF IntegratePower, OptInt
      <4>2. CASE last_integrate_ts # None
        <5>1. last_integrate_ts \in Int
          BY <4>2 DEF OptInt
        <5>2. Elapsed(last_integrate_ts, now) \in Nat
          BY <5>1, ElapsedType
        <5>3. Integrated(energy, meter.sample.power, Elapsed(last_integrate_ts, now)) \in Energies
          BY <3>1, <5>2, IntegratedType
        <5> QED
          BY <3>3, <5>3 DEF IntegratePower, OptInt
      <4> QED
        BY <4>1, <4>2
    <3> QED
      BY <1>2, <3>2, <3>3 DEF UpdateEnergy
  <2> QED
    BY <1>2, <2>1 DEF UpdateEnergy, PollerLabels, fileVars, envVars
<1>3. CASE CheckSave
  BY <1>3 DEF CheckSave, PollerLabels, fileVars, envVars
<1>4. CASE PollFails \/ PollAgain
  BY <1>4 DEF PollFails, PollAgain, PollerLabels, storeVars, fileVars, envVars
<1>5. ASSUME NEW t \in Threads, SaveStep(t) PROVE TypeOK'
  <2>1. AfterSave(t) \in (IF t = "poller" THEN PollerLabels ELSE MainLabels)
    BY DEF AfterSave, PollerLabels, MainLabels
  <2>2. CASE SaveCapture(t)
    BY <2>2 DEF SaveCapture, PollerLabels, MainLabels, storeVars, envVars
  <2>3. CASE SaveOpen(t)
    BY <2>3, FileTypes DEF SaveOpen, PollerLabels, MainLabels, storeVars, envVars
  <2>4. CASE SaveWrite(t)
    <3>1. payload[t] \in Energies
      OBVIOUS
    <3>2. \A f \in Overwritten(OpenFile(t), payload[t]) : f \in Files
      BY <3>1, FileTypes, WholeFileType DEF Overwritten
    <3> QED
      BY <2>4, <3>2 DEF SaveWrite, PutFile, PollerLabels, MainLabels, storeVars, envVars
  <2>5. CASE SaveReplace(t)
    <3>1. \A h \in {"none", "tmp", "dst", "gone"} : AfterRename(h) \in {"none", "tmp", "dst", "gone"}
      BY DEF AfterRename
    <3>2. fd' \in [Threads -> {"none", "tmp", "dst", "gone"}]
      BY <2>5, <3>1 DEF SaveReplace
    <3> QED
      BY <2>1, <2>5, <3>2, FileTypes, ZeroEnergyType
      DEF SaveReplace, storeVars, envVars, PollerLabels, MainLabels
  <2>6. CASE SaveFails(t)
    <3>1. \A f \in {OpenFile(t), TornFile} : f \in Files
      BY FileTypes DEF OpenFile
    <3> QED
      BY <2>1, <2>6, <3>1, ZeroEnergyType
      DEF SaveFails, PutFile, storeVars, envVars, PollerLabels, MainLabels
  <2> QED
    BY <1>5, <2>2, <2>3, <2>4, <2>5, <2>6 DEF SaveStep
<1>6. CASE RequestStop \/ JoinReturns
  BY <1>6 DEF RequestStop, JoinReturns, MainLabels, storeVars, fileVars, envVars
<1>7. CASE Snapshot
  BY <1>7 DEF Snapshot, threadVars, storeVars, fileVars, envVars
<1>8. ASSUME Die, incidents' \in Nat PROVE TypeOK'
  <2>1. pc' \in [Threads -> PollerLabels \cup MainLabels]
    BY <1>8 DEF Die, PollerLabels, MainLabels
  <2>2. pc'["poller"] \in PollerLabels /\ pc'["main"] \in MainLabels
    BY <1>8 DEF Die, PollerLabels, MainLabels
  <2>3. meter' \in [sample : Measurements, last_update_ts : Int]
    BY <1>8, NoSampleType DEF Die, InitMeter
  <2>4. payload' \in [Threads -> Energies] /\ energy' \in Energies
    BY <1>8, ZeroEnergyType DEF Die
  <2>5. fd' \in [Threads -> {"none", "tmp", "dst", "gone"}]
    BY <1>8 DEF Die
  <2>6. view' \in [ts : Int, energy : Energies]
    BY <1>8, ZeroEnergyType DEF Die
  <2>7. up' \in BOOLEAN /\ locked' \in BOOLEAN
    BY <1>8 DEF Die
  <2>8. now' \in Int /\ last_save_ts' \in Int /\ last_integrate_ts' \in OptInt
    BY <1>8 DEF Die, OptInt
  <2>9. time' \in Nat /\ skew' \in Int /\ tmp' \in Files /\ dst' \in Files
    BY <1>8 DEF Die
  <2> QED
    BY <1>8, <2>1, <2>2, <2>3, <2>4, <2>5, <2>6, <2>7, <2>8, <2>9
<1>9. CASE Exit \/ Kill
  BY <1>8, <1>9 DEF Exit, Kill
<1>10. CASE Start
  BY <1>10, LoadedType DEF Start, threadVars, fileVars
<1>11. CASE Tick
  BY <1>11 DEF Tick, threadVars, storeVars, fileVars
<1>12. CASE StepClock
  BY <1>12, ConfigAssumption DEF StepClock, threadVars, storeVars, fileVars
<1>13. CASE UNCHANGED vars
  BY <1>13 DEF vars, threadVars, storeVars, fileVars, envVars
<1> QED
  BY <1>1, <1>2, <1>3, <1>4, <1>5, <1>6, <1>7, <1>9, <1>10, <1>11, <1>12, <1>13
  DEF Next, PollerStep, MainStep

\* Every variable has its type, whatever the samples, the intervals, the clock and
\* the failures are.
THEOREM TypeCorrect == Spec => []TypeOK
  BY TypeInit, TypeNext, PTL DEF Spec

-------------------------------------------------------------------------------
(* The state file stays intact as long as stop() waits for the poller.      *)

Saving == {"capture", "open", "write", "replace"}

\* The main thread saves only when the poller has ended.
OneSaver == pc["main"] \in Saving \cup {"done"} => pc["poller"] = "exited"

\* Only a thread about to write has a file open, and it is the fresh state.tmp;
\* a thread about to rename has written all of it.
OnlyTmpWritten ==
    \A t \in Threads :
        /\ pc[t] # "write" => fd[t] = "none"
        /\ pc[t] = "write" => fd[t] = "tmp" /\ tmp = EmptyFile
        /\ pc[t] = "replace" => tmp = WholeFile(payload[t])

FilesInv == OneSaver /\ OnlyTmpWritten /\ StateFileIntact

LEMMA FilesInit == Init => FilesInv
<1> SUFFICES ASSUME Init PROVE FilesInv
  OBVIOUS
<1>1. pc["main"] = "serve" /\ pc["poller"] = "poll"
  BY DEF Init
<1>2. \A t \in Threads : fd[t] = "none" /\ pc[t] \notin {"write", "replace"}
  BY <1>1 DEF Init, Threads
<1>3. dst.kind = "missing"
  BY DEF Init, MissingFile
<1> QED
  BY <1>1, <1>2, <1>3 DEF FilesInv, OneSaver, OnlyTmpWritten, StateFileIntact, Saving

\* One step of a save by thread t, the only thread that is saving.
LEMMA SaveKeepsFiles ==
  ASSUME TypeOK, TypeOK', FilesInv, NEW t \in Threads, SaveStep(t)
  PROVE  FilesInv'
<1> USE DEF Threads, Running, Goto
<1>1. PICK u \in Threads : u # t /\ Threads = {t, u}
  OBVIOUS
<1>2. pc[t] \in Saving /\ pc' = [pc EXCEPT ![t] = pc'[t]]
  BY DEF SaveStep, SaveCapture, SaveOpen, SaveWrite, SaveReplace, SaveFails, Saving, TypeOK
<1>3. pc[u] \notin {"open", "write", "replace"} /\ pc'[u] = pc[u]
  BY <1>1, <1>2 DEF FilesInv, OneSaver, Saving, TypeOK
<1>4. OneSaver'
  <2>1. CASE t = "main"
    BY <1>1, <1>2, <1>3, <2>1 DEF FilesInv, OneSaver, Saving
  <2>2. CASE t = "poller"
    BY <1>1, <1>2, <1>3, <2>2 DEF FilesInv, OneSaver, Saving
  <2> QED
    BY <2>1, <2>2
<1>5. fd[u] = "none"
  BY <1>3 DEF FilesInv, OnlyTmpWritten
<1>6. CASE SaveCapture(t)
  <2>1. pc'[t] = "open" /\ UNCHANGED <<fd, tmp, dst>> /\ pc[t] = "capture"
    BY <1>6 DEF SaveCapture, TypeOK
  <2> QED
    BY <1>1, <1>3, <1>4, <1>5, <2>1 DEF FilesInv, OnlyTmpWritten, StateFileIntact
<1>7. CASE SaveOpen(t)
  <2>1. pc'[t] = "write" /\ fd'[t] = "tmp" /\ fd'[u] = fd[u] /\ tmp' = EmptyFile /\ dst' = dst
    BY <1>1, <1>7 DEF SaveOpen, TypeOK
  <2> QED
    BY <1>1, <1>3, <1>4, <1>5, <2>1 DEF FilesInv, OnlyTmpWritten, StateFileIntact
<1>8. CASE SaveWrite(t)
  <2>1. pc[t] = "write" /\ fd[t] = "tmp" /\ OpenFile(t) = EmptyFile
    BY <1>8 DEF SaveWrite, FilesInv, OnlyTmpWritten, OpenFile
  <2>2. Overwritten(OpenFile(t), payload[t]) = {WholeFile(payload[t])}
    BY <2>1 DEF Overwritten, EmptyFile
  <2>3. pc'[t] = "replace" /\ payload' = payload
    BY <1>8 DEF SaveWrite, TypeOK
  <2>4. tmp' = WholeFile(payload[t]) /\ dst' = dst /\ fd'[t] = "none" /\ fd'[u] = fd[u]
    BY <1>1, <1>8, <2>1, <2>2 DEF SaveWrite, PutFile, TypeOK
  <2> QED
    BY <1>1, <1>3, <1>4, <1>5, <2>3, <2>4 DEF FilesInv, OnlyTmpWritten, StateFileIntact
<1>9. CASE SaveReplace(t)
  <2>1. pc[t] = "replace" /\ tmp.kind = "whole" /\ fd[t] = "none"
    BY <1>9 DEF SaveReplace, FilesInv, OnlyTmpWritten, WholeFile
  <2>2. pc'[t] \in {"loop", "done"}
    BY <1>9 DEF SaveReplace, AfterSave, TypeOK
  <2>3. dst' = tmp /\ fd'[t] = "none" /\ fd'[u] = "none"
    BY <1>1, <1>5, <1>9, <2>1 DEF SaveReplace, AfterRename
  <2> QED
    BY <1>1, <1>3, <1>4, <2>1, <2>2, <2>3 DEF FilesInv, OnlyTmpWritten, StateFileIntact
<1>10. CASE SaveFails(t)
  <2>1. pc'[t] \in {"loop", "done"}
    BY <1>10 DEF SaveFails, AfterSave, TypeOK
  <2>2. dst' = dst /\ fd'[t] = "none" /\ fd'[u] = fd[u]
    <3>1. CASE pc[t] = "write"
      BY <1>1, <1>10, <3>1 DEF SaveFails, PutFile, FilesInv, OnlyTmpWritten, TypeOK
    <3>2. CASE pc[t] # "write"
      BY <1>10, <3>2 DEF SaveFails, FilesInv, OnlyTmpWritten, TypeOK
    <3> QED
      BY <3>1, <3>2
  <2> QED
    BY <1>1, <1>3, <1>4, <1>5, <2>1, <2>2 DEF FilesInv, OnlyTmpWritten, StateFileIntact
<1> QED
  BY <1>6, <1>7, <1>8, <1>9, <1>10 DEF SaveStep

\* Steps that leave the files, and what the threads know of them, alone.
LEMMA OtherStepsKeepFiles ==
  ASSUME TypeOK, FilesInv, UNCHANGED fileVars, OneSaver',
         \A t \in Threads : pc'[t] \in {"write", "replace"} <=> pc[t] \in {"write", "replace"},
         \A t \in Threads : pc'[t] = "write" <=> pc[t] = "write"
  PROVE  FilesInv'
<1>1. OnlyTmpWritten'
  BY DEF FilesInv, OnlyTmpWritten, fileVars
<1> QED
  BY <1>1 DEF FilesInv, StateFileIntact, fileVars

LEMMA FilesNext ==
  ASSUME JoinMayTimeOut = FALSE, TypeOK, TypeOK', FilesInv, [Next]_vars
  PROVE  FilesInv'
<1> USE DEF Threads, Running, Goto
<1>1. CASE \E m \in Samples : UpdateMeter(m)
  <2>1. pc["poller"] = "poll" /\ pc' = [pc EXCEPT !["poller"] = "energy"] /\ UNCHANGED fileVars
    BY <1>1 DEF UpdateMeter
  <2> QED
    BY <2>1, OtherStepsKeepFiles DEF TypeOK, FilesInv, OneSaver, Saving
<1>2. CASE UpdateEnergy
  <2>1. pc["poller"] = "energy" /\ pc' = [pc EXCEPT !["poller"] = "check"] /\ UNCHANGED fileVars
    BY <1>2 DEF UpdateEnergy
  <2> QED
    BY <2>1, OtherStepsKeepFiles DEF TypeOK, FilesInv, OneSaver, Saving
<1>3. CASE CheckSave
  <2>1. /\ pc["poller"] = "check" /\ UNCHANGED fileVars
        /\ \E l \in {"capture", "loop"} : pc' = [pc EXCEPT !["poller"] = l]
    BY <1>3 DEF CheckSave
  <2> QED
    BY <2>1, OtherStepsKeepFiles DEF TypeOK, FilesInv, OneSaver, Saving
<1>4. CASE PollFails \/ PollAgain
  <2>1. /\ pc["poller"] \in {"poll", "loop"} /\ UNCHANGED fileVars
        /\ \E l \in {"poll", "loop", "exited"} : pc' = [pc EXCEPT !["poller"] = l]
    BY <1>4 DEF PollFails, PollAgain
  <2> QED
    BY <2>1, OtherStepsKeepFiles DEF TypeOK, FilesInv, OneSaver, Saving
<1>5. CASE \E t \in Threads : SaveStep(t)
  BY <1>5, SaveKeepsFiles
<1>6. CASE RequestStop
  <2>1. pc["main"] = "serve" /\ pc' = [pc EXCEPT !["main"] = "join"] /\ UNCHANGED fileVars
    BY <1>6 DEF RequestStop
  <2> QED
    BY <2>1, OtherStepsKeepFiles DEF TypeOK, FilesInv, OneSaver, Saving
<1>7. CASE JoinReturns
  <2>1. /\ pc["main"] = "join" /\ pc["poller"] = "exited" /\ UNCHANGED fileVars
        /\ pc' = [pc EXCEPT !["main"] = "capture"]
    BY <1>7 DEF JoinReturns
  <2> QED
    BY <2>1, OtherStepsKeepFiles DEF TypeOK, FilesInv, OneSaver, Saving
<1>8. CASE Exit \/ Kill
  <2>1. Die
    BY <1>8 DEF Exit, Kill
  <2>2. pc'["main"] = "serve" /\ pc'["poller"] = "poll" /\ dst' = dst
    BY <2>1 DEF Die
  <2>3. \A t \in Threads : fd'[t] = "none"
    BY <2>1 DEF Die
  <2> QED
    BY <2>2, <2>3 DEF FilesInv, OneSaver, OnlyTmpWritten, StateFileIntact, Saving
<1>9. CASE Snapshot \/ Start \/ Tick \/ StepClock \/ UNCHANGED vars
  <2>1. UNCHANGED <<pc, fileVars>>
    BY <1>9 DEF Snapshot, Start, Tick, StepClock, vars, threadVars
  <2> QED
    BY <2>1, OtherStepsKeepFiles DEF FilesInv, OneSaver
<1> QED
  BY <1>1, <1>2, <1>3, <1>4, <1>5, <1>6, <1>7, <1>8, <1>9 DEF Next, PollerStep, MainStep

\* As long as stop() does not give up waiting for the poller, state.json is either
\* missing or a whole file, whatever is killed, fails or is saved when.
THEOREM StateFileStaysIntact ==
  ASSUME JoinMayTimeOut = FALSE
  PROVE  Spec => []StateFileIntact
<1>1. Spec => []FilesInv
  <2>1. FilesInv /\ TypeOK /\ TypeOK' /\ [Next]_vars => FilesInv'
    BY FilesNext
  <2> QED
    BY <2>1, FilesInit, TypeCorrect, PTL DEF Spec
<1>2. FilesInv => StateFileIntact
  BY DEF FilesInv
<1> QED
  BY <1>1, <1>2, PTL

-------------------------------------------------------------------------------
(* Comparing counters. *)

Positive(e) == \A c \in Channels : e.act[c] >= 0 /\ e.ret[c] >= 0

Below(e, f) == \A c \in Channels : e.act[c] <= f.act[c] /\ e.ret[c] <= f.ret[c]

LEMMA EnergyIsInt ==
  ASSUME NEW e \in Energies, NEW c \in Channels
  PROVE  e.act[c] \in Int /\ e.ret[c] \in Int
  BY DEF Energies

LEMMA BelowReflexive ==
  ASSUME NEW e \in Energies
  PROVE  Below(e, e)
  BY EnergyIsInt DEF Below

LEMMA BelowTransitive ==
  ASSUME NEW e \in Energies, NEW f \in Energies, NEW g \in Energies, Below(e, f), Below(f, g)
  PROVE  Below(e, g)
<1> SUFFICES ASSUME NEW c \in Channels
             PROVE  e.act[c] <= g.act[c] /\ e.ret[c] <= g.ret[c]
  BY DEF Below
<1>1. e.act[c] <= f.act[c] /\ e.ret[c] <= f.ret[c] /\ f.act[c] <= g.act[c] /\ f.ret[c] <= g.ret[c]
  BY DEF Below
<1> QED
  BY <1>1, EnergyIsInt

LEMMA ZeroIsLeast ==
  ASSUME NEW e \in Energies, Positive(e)
  PROVE  Below(ZeroEnergy, e) /\ Positive(ZeroEnergy)
  BY DEF ZeroEnergy, Below, Positive

LEMMA PositiveBelow ==
  ASSUME NEW e \in Energies, NEW f \in Energies, Positive(e), Below(e, f)
  PROVE  Positive(f)
<1> SUFFICES ASSUME NEW c \in Channels PROVE f.act[c] >= 0 /\ f.ret[c] >= 0
  BY DEF Positive
<1>1. e.act[c] >= 0 /\ e.ret[c] >= 0 /\ e.act[c] <= f.act[c] /\ e.ret[c] <= f.ret[c]
  BY DEF Positive, Below
<1> QED
  BY <1>1, EnergyIsInt

\* Integrating over an interval takes nothing away.
LEMMA IntegratedGrows ==
  ASSUME NEW e \in Energies, NEW power \in [Channels -> Int], NEW dt \in Nat
  PROVE  Below(e, Integrated(e, power, dt))
<1> SUFFICES ASSUME NEW c \in Channels
             PROVE  /\ e.act[c] <= e.act[c] + Import(power[c] * dt)
                    /\ e.ret[c] <= e.ret[c] + Export(power[c] * dt)
  BY DEF Below, Integrated
<1>1. power[c] * dt \in Int
  OBVIOUS
<1>2. Import(power[c] * dt) \in Nat /\ Export(power[c] * dt) \in Nat
  BY <1>1 DEF Import, Export
<1> QED
  BY <1>2, EnergyIsInt

\* What a file holds when it is loaded.
LEMMA LoadedFiles ==
  /\ Loaded(MissingFile) = ZeroEnergy /\ Loaded(EmptyFile) = ZeroEnergy
  /\ Loaded(TornFile) = ZeroEnergy
  /\ \A e : Loaded(WholeFile(e)) = e
  BY DEF Loaded, MissingFile, EmptyFile, TornFile, WholeFile

-------------------------------------------------------------------------------
(* Disk and payloads never run ahead of memory. *)

\* Without a process there is no payload and nothing being saved.
NothingSavedWhenDown ==
    ~up => \A t \in Threads : payload[t] = ZeroEnergy /\ pc[t] \notin {"open", "write", "replace"}

CountersInv ==
    /\ Positive(energy) /\ Positive(Loaded(dst)) /\ Positive(Loaded(tmp))
    /\ \A t \in Threads : Positive(payload[t]) /\ Below(payload[t], energy)
    /\ up => Below(Loaded(dst), energy)
    /\ \A t \in Threads : pc[t] \in {"write", "replace"} => Below(Loaded(tmp), energy)
    /\ NothingSavedWhenDown

LEMMA CountersInit == Init => CountersInv
<1> SUFFICES ASSUME Init PROVE CountersInv
  OBVIOUS
<1>1. Positive(ZeroEnergy) /\ Below(ZeroEnergy, ZeroEnergy)
  BY DEF Positive, Below, ZeroEnergy
<1>2. Loaded(dst) = ZeroEnergy /\ Loaded(tmp) = ZeroEnergy /\ energy = ZeroEnergy /\ ~up
  BY LoadedFiles DEF Init
<1>3. \A t \in Threads : payload[t] = ZeroEnergy
  BY DEF Init
<1>4. \A t \in Threads : pc[t] \notin {"open", "write", "replace"}
  BY DEF Init, Threads
<1> QED
  BY <1>1, <1>2, <1>3, <1>4 DEF CountersInv, NothingSavedWhenDown

\* An update of the counters only adds to them.
LEMMA UpdateGrows ==
  ASSUME UseAlfenEnergy = FALSE, TypeOK, UpdateEnergy
  PROVE  Below(energy, energy')
<1>1. IntegratePower
  BY DEF UpdateEnergy, ShouldUseAlfenEnergy
<1>2. meter.sample.power \in [Channels -> Int] /\ energy \in Energies
  BY DEF TypeOK, Measurements
<1>3. CASE last_integrate_ts = None \/ Elapsed(last_integrate_ts, now) = 0
  BY <1>1, <1>2, <1>3, BelowReflexive DEF IntegratePower
<1>4. CASE ~(last_integrate_ts = None \/ Elapsed(last_integrate_ts, now) = 0)
  <2>1. last_integrate_ts \in Int /\ now \in Int
    BY <1>4 DEF TypeOK, OptInt
  <2>2. Elapsed(last_integrate_ts, now) \in Nat
    BY <2>1, ElapsedType
  <2>3. energy' = Integrated(energy, meter.sample.power, Elapsed(last_integrate_ts, now))
    BY <1>1, <1>4 DEF IntegratePower
  <2> QED
    BY <1>2, <2>2, <2>3, IntegratedGrows
<1> QED
  BY <1>3, <1>4

\* Steps that leave files and payloads alone, begin no write, and take nothing
\* from the counters.
LEMMA GrowthKeepsCounters ==
  ASSUME TypeOK, TypeOK', CountersInv, Below(energy, energy'), up, up',
         UNCHANGED <<payload, tmp, dst>>,
         \A t \in Threads : pc'[t] \in {"write", "replace"} => pc[t] \in {"write", "replace"}
  PROVE  CountersInv'
<1>1. /\ energy \in Energies /\ energy' \in Energies /\ Loaded(dst) \in Energies
      /\ Loaded(tmp) \in Energies /\ \A t \in Threads : payload[t] \in Energies
  BY LoadedType DEF TypeOK
<1>2. Positive(energy')
  BY <1>1, PositiveBelow DEF CountersInv
<1>3. \A t \in Threads : Positive(payload[t]) /\ Below(payload[t], energy')
  BY <1>1, BelowTransitive DEF CountersInv
<1>4. Below(Loaded(dst), energy')
  BY <1>1, BelowTransitive DEF CountersInv
<1>5. \A t \in Threads : pc[t] \in {"write", "replace"} => Below(Loaded(tmp), energy')
  BY <1>1, BelowTransitive DEF CountersInv
<1>6. UNCHANGED <<Loaded(dst), Loaded(tmp), payload>>
  OBVIOUS
<1> QED
  BY <1>2, <1>3, <1>4, <1>5, <1>6 DEF CountersInv, NothingSavedWhenDown

\* Steps of a save: the files take payloads, which are below the counters.
LEMMA SaveKeepsCounters ==
  ASSUME TypeOK, TypeOK', CountersInv, NEW t \in Threads, SaveStep(t)
  PROVE  CountersInv'
<1> USE DEF Running, Goto
<1>0. up /\ up' /\ energy' = energy
  BY DEF SaveStep, SaveCapture, SaveOpen, SaveWrite, SaveReplace, SaveFails, storeVars, envVars
<1>1. /\ energy \in Energies /\ Positive(energy) /\ Below(ZeroEnergy, energy)
      /\ Below(energy, energy) /\ Positive(ZeroEnergy)
  BY ZeroIsLeast, BelowReflexive DEF CountersInv, TypeOK
<1>2. SUFFICES ASSUME /\ \A u \in Threads : payload'[u] \in {payload[u], ZeroEnergy, energy}
                      /\ Loaded(dst)' \in {Loaded(dst), ZeroEnergy, payload[t]}
                           \/ (pc[t] = "replace" /\ Loaded(dst)' = Loaded(tmp))
                      /\ Loaded(tmp)' \in {ZeroEnergy, payload[t]}
                           \/ /\ Loaded(tmp)' = Loaded(tmp)
                              /\ \A u \in Threads : pc'[u] \in {"write", "replace"}
                                                       => pc[u] \in {"write", "replace"}
               PROVE  CountersInv'
  <2>1. \A u \in Threads : payload'[u] \in {payload[u], ZeroEnergy, energy}
    <3>1. CASE SaveCapture(t)
      BY <3>1 DEF SaveCapture, TypeOK
    <3>2. CASE SaveOpen(t) \/ SaveWrite(t)
      BY <3>2 DEF SaveOpen, SaveWrite, TypeOK
    <3>3. CASE SaveReplace(t) \/ SaveFails(t)
      BY <3>3 DEF SaveReplace, SaveFails, TypeOK
    <3> QED
      BY <3>1, <3>2, <3>3 DEF SaveStep
  <2>2. \A u \in Threads : u # t => pc'[u] = pc[u]
    BY DEF SaveStep, SaveCapture, SaveOpen, SaveWrite, SaveReplace, SaveFails, TypeOK
  <2>3. CASE SaveCapture(t)
    <3>1. pc'[t] = "open" /\ UNCHANGED <<tmp, dst>>
      BY <2>3 DEF SaveCapture, TypeOK
    <3> QED
      BY <1>2, <2>1, <2>2, <3>1
  <2>4. CASE SaveOpen(t)
    <3>1. Loaded(tmp)' = ZeroEnergy /\ dst' = dst
      BY <2>4, LoadedFiles DEF SaveOpen
    <3> QED
      BY <1>2, <2>1, <3>1
  <2>5. CASE SaveWrite(t)
    <3>1. PICK f \in Overwritten(OpenFile(t), payload[t]) : PutFile(t, f)
      BY <2>5 DEF SaveWrite
    <3>2. Loaded(f) \in {payload[t], ZeroEnergy}
      BY LoadedFiles DEF Overwritten
    <3>3. tmp' \in {tmp, f} /\ dst' \in {dst, f}
      BY <3>1 DEF PutFile
    <3>4. pc[t] = "write"
      BY <2>5 DEF SaveWrite
    <3> QED
      BY <1>2, <2>1, <2>2, <3>2, <3>3, <3>4
  <2>6. CASE SaveReplace(t)
    <3>1. pc[t] = "replace" /\ pc'[t] \in {"loop", "done"}
      BY <2>6 DEF SaveReplace, AfterSave, TypeOK
    <3>2. UNCHANGED <<tmp, dst>> \/ (dst' = tmp /\ Loaded(tmp)' = ZeroEnergy)
      BY <2>6, LoadedFiles DEF SaveReplace
    <3> QED
      BY <1>2, <2>1, <2>2, <3>1, <3>2
  <2>7. CASE SaveFails(t)
    <3>1. pc'[t] \in {"loop", "done"}
      BY <2>7 DEF SaveFails, AfterSave, TypeOK
    <3>2. /\ tmp' = tmp \/ Loaded(tmp)' = ZeroEnergy
          /\ dst' = dst \/ Loaded(dst)' = ZeroEnergy
      BY <2>7, LoadedFiles DEF SaveFails, PutFile, OpenFile
    <3> QED
      BY <1>2, <2>1, <2>2, <3>1, <3>2
  <2> QED
    BY <2>3, <2>4, <2>5, <2>6, <2>7 DEF SaveStep
<1>3. \A u \in Threads : Positive(payload'[u]) /\ Below(payload'[u], energy)
  BY <1>1, <1>2 DEF CountersInv
<1>4. Positive(Loaded(dst)') /\ Below(Loaded(dst)', energy)
  BY <1>0, <1>1, <1>2 DEF CountersInv
<1>5. /\ Positive(Loaded(tmp)')
      /\ \A u \in Threads : pc'[u] \in {"write", "replace"} => Below(Loaded(tmp)', energy)
  BY <1>1, <1>2 DEF CountersInv
<1> QED
  BY <1>0, <1>1, <1>3, <1>4, <1>5 DEF CountersInv, NothingSavedWhenDown

LEMMA CountersNext ==
  ASSUME UseAlfenEnergy = FALSE, TypeOK, TypeOK', CountersInv, [Next]_vars
  PROVE  CountersInv'
<1> USE DEF Threads, Running, Goto
<1>1. energy \in Energies
  BY DEF TypeOK
<1>2. CASE UpdateEnergy
  <2>1. up /\ up' /\ UNCHANGED <<payload, tmp, dst>>
    BY <1>2 DEF UpdateEnergy, fileVars, envVars
  <2>2. \A t \in Threads : pc'[t] \in {"write", "replace"} => pc[t] \in {"write", "replace"}
    BY <1>2 DEF UpdateEnergy, TypeOK
  <2> QED
    BY <1>2, <2>1, <2>2, UpdateGrows, GrowthKeepsCounters
<1>3. CASE (\E m \in Samples : UpdateMeter(m)) \/ CheckSave \/ PollFails \/ PollAgain
           \/ RequestStop \/ JoinReturns
  <2>1. up /\ up' /\ UNCHANGED <<payload, tmp, dst, energy>>
    BY <1>3 DEF UpdateMeter, CheckSave, PollFails, PollAgain, RequestStop, JoinReturns,
                storeVars, fileVars, envVars
  <2>2. \A t \in Threads : pc'[t] \in {"write", "replace"} => pc[t] \in {"write", "replace"}
    BY <1>3 DEF UpdateMeter, CheckSave, PollFails, PollAgain, RequestStop, JoinReturns, TypeOK
  <2> QED
    BY <1>1, <2>1, <2>2, BelowReflexive, GrowthKeepsCounters
<1>4. CASE \E t \in Threads : SaveStep(t)
  BY <1>4, SaveKeepsCounters
<1>5. CASE Exit \/ Kill
  <2>1. Die
    BY <1>5 DEF Exit, Kill
  <2>2. ~up' /\ energy' = ZeroEnergy /\ UNCHANGED <<Loaded(dst), Loaded(tmp)>>
    BY <2>1 DEF Die
  <2>3. \A t \in Threads : payload'[t] = ZeroEnergy
    BY <2>1 DEF Die
  <2>4. \A t \in Threads : pc'[t] \notin {"open", "write", "replace"}
    BY <2>1 DEF Die
  <2>5. Positive(ZeroEnergy) /\ Below(ZeroEnergy, ZeroEnergy)
    BY <1>1, ZeroIsLeast, ZeroEnergyType, BelowReflexive DEF CountersInv
  <2> QED
    BY <2>2, <2>3, <2>4, <2>5 DEF CountersInv, NothingSavedWhenDown
<1>6. CASE Start
  <2>1. ~up /\ up' /\ energy' = Loaded(dst) /\ UNCHANGED <<pc, payload, tmp, dst>>
    BY <1>6 DEF Start, threadVars, fileVars
  <2>2. Positive(Loaded(dst)) /\ Loaded(dst) \in Energies
    BY LoadedType DEF CountersInv, TypeOK
  <2>3. Below(ZeroEnergy, Loaded(dst)) /\ Below(Loaded(dst), Loaded(dst))
    BY <2>2, ZeroIsLeast, BelowReflexive
  <2>4. \A t \in Threads : payload[t] = ZeroEnergy /\ pc[t] \notin {"write", "replace"}
    BY <2>1 DEF CountersInv, NothingSavedWhenDown
  <2> QED
    BY <2>1, <2>2, <2>3, <2>4 DEF CountersInv, NothingSavedWhenDown
<1>7. CASE Snapshot \/ Tick \/ StepClock \/ UNCHANGED vars
  <2>1. UNCHANGED <<up, pc, energy, payload, tmp, dst>>
    BY <1>7 DEF Snapshot, Tick, StepClock, vars, threadVars, storeVars, fileVars, envVars
  <2> QED
    BY <2>1 DEF CountersInv, NothingSavedWhenDown
<1> QED
  BY <1>2, <1>3, <1>4, <1>5, <1>6, <1>7 DEF Next, PollerStep, MainStep

\* When energy is integrated, no restart can resume with more energy than was
\* counted, however saves of the two threads interleave, fail or are cut off.
THEOREM DiskIsNeverAhead ==
  ASSUME UseAlfenEnergy = FALSE
  PROVE  Spec => []DiskNeverAhead
<1>1. Spec => []CountersInv
  <2>1. CountersInv /\ TypeOK /\ TypeOK' /\ [Next]_vars => CountersInv'
    BY CountersNext
  <2> QED
    BY <2>1, CountersInit, TypeCorrect, PTL DEF Spec
<1>2. CountersInv => DiskNeverAhead
  BY DEF CountersInv, DiskNeverAhead, Below
<1> QED
  BY <1>1, <1>2, PTL

-------------------------------------------------------------------------------
(* Counters grow in the direction of the power, whatever their source. *)

\* An interval adds to a counter only in the direction the power was measured in.
LEMMA IntegratedFollowsPower ==
  ASSUME NEW e \in Energies, NEW power \in [Channels -> Int], NEW dt \in Nat, NEW c \in Channels
  PROVE  /\ Integrated(e, power, dt).act[c] > e.act[c] => power[c] > 0
         /\ Integrated(e, power, dt).ret[c] > e.ret[c] => power[c] < 0
<1>1. e.act[c] \in Int /\ e.ret[c] \in Int
  BY EnergyIsInt
<1>2. power[c] \in Int /\ power[c] * dt \in Int
  OBVIOUS
<1>3. power[c] <= 0 => power[c] * dt <= 0
  BY <1>2
<1>4. power[c] >= 0 => power[c] * dt >= 0
  BY <1>2
<1> QED
  BY <1>1, <1>2, <1>3, <1>4 DEF Integrated, Import, Export

\* A counter that is integrated grows only in the direction of the power measured,
\* also after the charger's counters were used, and under any wall clock.
THEOREM CountersFollow == Spec => CountersFollowPower
<1> DEFINE Follows ==
      up /\ up' /\ energy'.source = "integrated" =>
          \A c \in Channels :
              /\ energy'.act[c] > energy.act[c] => meter.sample.power[c] > 0
              /\ energy'.ret[c] > energy.ret[c] => meter.sample.power[c] < 0
<1>1. TypeOK /\ [Next]_vars => [Follows]_energy
  <2> SUFFICES ASSUME TypeOK, [Next]_vars, up, up', energy' # energy, energy'.source = "integrated",
                      NEW c \in Channels
               PROVE  /\ energy'.act[c] > energy.act[c] => meter.sample.power[c] > 0
                      /\ energy'.ret[c] > energy.ret[c] => meter.sample.power[c] < 0
    OBVIOUS
  <2>1. UpdateEnergy
    BY DEF Next, PollerStep, MainStep, Threads, SaveStep, vars, threadVars, storeVars, fileVars, envVars,
           UpdateMeter, CheckSave, PollFails, PollAgain, SaveCapture, SaveOpen, SaveWrite, SaveReplace,
           SaveFails, RequestStop, JoinReturns, Snapshot, Exit, Kill, Die, Start, Tick, StepClock
  <2>2. IntegratePower
    BY <2>1 DEF UpdateEnergy, CopyAlfenEnergy
  <2>3. energy' = Integrated(energy, meter.sample.power, Elapsed(last_integrate_ts, now))
        /\ last_integrate_ts # None
    BY <2>2 DEF IntegratePower
  <2>4. /\ energy \in Energies /\ meter.sample.power \in [Channels -> Int]
        /\ Elapsed(last_integrate_ts, now) \in Nat
    BY <2>3, ElapsedType DEF TypeOK, Measurements, OptInt
  <2> QED
    BY <2>3, <2>4, IntegratedFollowsPower
<1> QED
  BY <1>1, TypeCorrect, PTL DEF Spec, CountersFollowPower
-------------------------------------------------------------------------------
(* EnergyStore implements DurableCounter, when it integrates the energy and     *)
(* stop() waits for the poller: a save never takes the disk back.               *)

PayloadNotOlderThanDisk ==
    \A t \in Threads : pc[t] \in {"open", "write", "replace"} => Below(Loaded(dst), payload[t])

Inv == TypeOK /\ FilesInv /\ CountersInv /\ PayloadNotOlderThanDisk

\* The file changes when a save renames, and to that save's payload.
LEMMA DiskChanges ==
  ASSUME JoinMayTimeOut = FALSE, Inv, [Next]_vars, Loaded(dst)' # Loaded(dst)
  PROVE  \E t \in Threads : /\ SaveReplace(t) /\ pc[t] = "replace"
                            /\ Loaded(dst)' = payload[t] /\ up /\ up' /\ energy' = energy
<1> USE DEF Running, Goto
<1>1. ~(Exit \/ Kill)
  BY DEF Exit, Kill, Die
<1>2. ~(Start \/ Snapshot \/ Tick \/ StepClock \/ UNCHANGED vars)
  BY DEF Start, Snapshot, Tick, StepClock, vars, fileVars
<1>3. ~(RequestStop \/ JoinReturns \/ CheckSave \/ PollFails \/ PollAgain \/ UpdateEnergy
        \/ \E m \in Samples : UpdateMeter(m))
  BY DEF RequestStop, JoinReturns, CheckSave, PollFails, PollAgain, UpdateEnergy, UpdateMeter,
         fileVars
<1>4. PICK t \in Threads : SaveStep(t)
  BY <1>1, <1>2, <1>3 DEF Next, PollerStep, MainStep, Threads
<1>5. ~SaveCapture(t) /\ ~SaveOpen(t)
  BY DEF SaveCapture, SaveOpen
<1>6. ASSUME pc[t] = "write" PROVE fd[t] = "tmp"
  BY <1>6 DEF Inv, FilesInv, OnlyTmpWritten
<1>7. ~SaveWrite(t) /\ ~SaveFails(t)
  BY <1>6 DEF SaveWrite, SaveFails, PutFile
<1>8. SaveReplace(t) /\ pc[t] = "replace"
  BY <1>4, <1>5, <1>7 DEF SaveStep, SaveReplace
<1>9. Loaded(dst)' = payload[t]
  BY <1>8, LoadedFiles DEF SaveReplace, Inv, FilesInv, OnlyTmpWritten
<1> QED
  BY <1>8, <1>9 DEF SaveReplace, storeVars, envVars

LEMMA PayloadInit == Init => PayloadNotOlderThanDisk
  BY DEF Init, PayloadNotOlderThanDisk, Threads

LEMMA PayloadNext ==
  ASSUME JoinMayTimeOut = FALSE, Inv, TypeOK', FilesInv', [Next]_vars
  PROVE  PayloadNotOlderThanDisk'
<1> USE DEF Running, Goto
<1>1. SUFFICES ASSUME NEW t \in Threads, pc'[t] \in {"open", "write", "replace"}
               PROVE  Below(Loaded(dst)', payload'[t])
  BY DEF PayloadNotOlderThanDisk
<1>2. CASE SaveCapture(t)
  <2>1. payload'[t] = energy /\ dst' = dst /\ up
    BY <1>2 DEF SaveCapture, Inv, TypeOK
  <2> QED
    BY <2>1 DEF Inv, CountersInv
<1>3. CASE ~SaveCapture(t)
  <2>1. pc[t] \in {"open", "write", "replace"} /\ payload'[t] = payload[t]
    <3>1. CASE \E u \in Threads : SaveStep(u)
      <4>1. PICK u \in Threads : SaveStep(u)
        BY <3>1
      <4>2. CASE u = t
        BY <1>1, <1>3, <4>1, <4>2
        DEF SaveStep, SaveOpen, SaveWrite, SaveReplace, SaveFails, AfterSave, Inv, TypeOK
      <4>3. CASE u # t
        BY <1>1, <4>1, <4>3
        DEF SaveStep, SaveCapture, SaveOpen, SaveWrite, SaveReplace, SaveFails, Inv, TypeOK
      <4> QED
        BY <4>2, <4>3
    <3>2. CASE Exit \/ Kill
      BY <1>1, <3>2 DEF Exit, Kill, Die, Threads
    <3>3. CASE Start \/ Snapshot \/ Tick \/ StepClock \/ UNCHANGED vars
      BY <1>1, <3>3 DEF Start, Snapshot, Tick, StepClock, vars, fileVars, threadVars
    <3>4. CASE RequestStop \/ JoinReturns \/ CheckSave \/ PollFails \/ PollAgain \/ UpdateEnergy
               \/ \E m \in Samples : UpdateMeter(m)
      BY <1>1, <3>4
      DEF RequestStop, JoinReturns, CheckSave, PollFails, PollAgain, UpdateEnergy, UpdateMeter,
          fileVars, Inv, TypeOK
    <3> QED
      BY <3>1, <3>2, <3>3, <3>4 DEF Next, PollerStep, MainStep, Threads
  <2>2. CASE Loaded(dst)' = Loaded(dst)
    BY <2>1, <2>2 DEF Inv, PayloadNotOlderThanDisk
  <2>3. CASE Loaded(dst)' # Loaded(dst)
    <3>1. PICK u \in Threads : /\ SaveReplace(u) /\ pc[u] = "replace"
                               /\ Loaded(dst)' = payload[u] /\ energy' = energy
      BY <2>3, DiskChanges
    <3>2. u = t
      BY <2>1, <3>1 DEF Threads, Inv, FilesInv, OneSaver, Saving
    <3>3. pc'[t] \in {"loop", "done"}
      BY <3>1, <3>2 DEF SaveReplace, AfterSave, Inv, TypeOK
    <3> QED
      BY <1>1, <3>3
  <2> QED
    BY <2>2, <2>3
<1> QED
  BY <1>2, <1>3

-------------------------------------------------------------------------------
(* The refinement.  Memory is the counters of the process, or what the next  *)
(* one will load; the disk is what a load would return.                      *)

Memory == IF up THEN energy ELSE Loaded(dst)

LEMMA FlowsType ==
  ASSUME NEW e \in Energies, Positive(e)
  PROVE  Flows(e) \in DC!Vector
<1>1. e.act \in [Channels -> Int] /\ e.ret \in [Channels -> Int]
  BY DEF Energies
<1>2. e.act \in [Channels -> Nat] /\ e.ret \in [Channels -> Nat]
  BY <1>1 DEF Positive
<1> QED
  BY <1>2 DEF Flows, DC!Vector

LEMMA FlowsAtMost ==
  ASSUME NEW e, NEW f, Below(e, f)
  PROVE  DC!AtMost(Flows(e), Flows(f))
  BY DEF Below, Flows, DC!AtMost

LEMMA RefinementInit == Init => DC!DCInit
<1> SUFFICES ASSUME Init PROVE DC!DCInit
  OBVIOUS
<1>1. ~up /\ Loaded(dst) = ZeroEnergy
  BY LoadedFiles DEF Init
<1>2. Flows(ZeroEnergy) = DC!Zero
  BY DEF Flows, ZeroEnergy, DC!Zero
<1> QED
  BY <1>1, <1>2 DEF DC!DCInit

LEMMA RefinementNext ==
  ASSUME JoinMayTimeOut = FALSE, UseAlfenEnergy = FALSE, Inv, Inv', [Next]_vars
  PROVE  [DC!DCNext]_(DC!dcVars)
<1> USE DEF Running, Goto
<1>1. /\ energy \in Energies /\ energy' \in Energies /\ Loaded(dst) \in Energies
      /\ Loaded(dst)' \in Energies
  BY LoadedType DEF Inv, TypeOK
<1>2. CASE Loaded(dst)' # Loaded(dst)
  <2>1. PICK t \in Threads : /\ SaveReplace(t) /\ pc[t] = "replace"
                             /\ Loaded(dst)' = payload[t] /\ up /\ up' /\ energy' = energy
    BY <1>2, DiskChanges
  <2>2. Below(Loaded(dst), payload[t]) /\ Below(payload[t], energy)
    BY <2>1 DEF Inv, PayloadNotOlderThanDisk, CountersInv
  <2>3. /\ Flows(Loaded(dst)') \in DC!Vector
        /\ DC!AtMost(Flows(Loaded(dst)), Flows(Loaded(dst)'))
        /\ DC!AtMost(Flows(Loaded(dst)'), Flows(energy))
    <3>1. Positive(Loaded(dst)')
      BY DEF Inv, CountersInv
    <3> QED
      BY <1>1, <2>1, <2>2, <3>1, FlowsType, FlowsAtMost
  <2> QED
    BY <2>1, <2>3 DEF DC!DCNext, DC!Checkpoint
<1>3. CASE Loaded(dst)' = Loaded(dst) /\ UpdateEnergy
  <2>1. up /\ up'
    BY <1>3 DEF UpdateEnergy, envVars
  <2>2. Below(energy, energy')
    BY <1>3, UpdateGrows DEF Inv
  <2>3. Positive(energy')
    BY DEF Inv, CountersInv
  <2>4. Flows(energy') \in DC!Vector /\ DC!AtMost(Flows(energy), Flows(energy'))
    BY <1>1, <2>2, <2>3, FlowsType, FlowsAtMost
  <2> QED
    BY <1>3, <2>1, <2>4 DEF DC!DCNext, DC!Accrue
<1>4. CASE Loaded(dst)' = Loaded(dst) /\ ~UpdateEnergy
  <2>1. CASE Exit \/ Kill
    <3>1. up /\ ~up'
      BY <2>1 DEF Exit, Kill, Die
    <3> QED
      BY <1>4, <3>1 DEF DC!DCNext, DC!Restart
  <2>2. CASE Start
    <3>1. ~up /\ up' /\ energy' = Loaded(dst)
      BY <2>2 DEF Start
    <3> QED
      BY <1>4, <3>1 DEF DC!dcVars
  <2>3. CASE \E t \in Threads : SaveStep(t)
    <3>1. UNCHANGED <<up, energy>>
      BY <2>3 DEF SaveStep, SaveCapture, SaveOpen, SaveWrite, SaveReplace, SaveFails,
                  storeVars, envVars
    <3> QED
      BY <1>4, <3>1 DEF DC!dcVars
  <2>4. CASE Snapshot \/ Tick \/ StepClock \/ UNCHANGED vars
    <3>1. UNCHANGED <<up, energy>>
      BY <2>4 DEF Snapshot, Tick, StepClock, vars, storeVars, envVars
    <3> QED
      BY <1>4, <3>1 DEF DC!dcVars
  <2>5. CASE RequestStop \/ JoinReturns \/ CheckSave \/ PollFails \/ PollAgain
             \/ \E m \in Samples : UpdateMeter(m)
    <3>1. UNCHANGED <<up, energy>>
      BY <2>5 DEF RequestStop, JoinReturns, CheckSave, PollFails, PollAgain, UpdateMeter,
                  storeVars, envVars
    <3> QED
      BY <1>4, <3>1 DEF DC!dcVars
  <2> QED
    BY <1>4, <2>1, <2>2, <2>3, <2>4, <2>5 DEF Next, PollerStep, MainStep, Threads
<1> QED
  BY <1>2, <1>3, <1>4

LEMMA Invariance ==
  ASSUME JoinMayTimeOut = FALSE, UseAlfenEnergy = FALSE
  PROVE  Spec => []Inv
<1>1. Init => Inv
  BY TypeInit, FilesInit, CountersInit, PayloadInit DEF Inv
<1>2. Inv /\ [Next]_vars => Inv'
  BY TypeNext, FilesNext, CountersNext, PayloadNext DEF Inv
<1> QED
  BY <1>1, <1>2, PTL DEF Spec

\* The counters are durable: memory and disk only grow, the disk is never ahead,
\* and a kill or an exit at any point resumes at exactly what the disk holds.
THEOREM StoreImplementsDurableCounter ==
  ASSUME JoinMayTimeOut = FALSE, UseAlfenEnergy = FALSE
  PROVE  Spec => ImplementsDurableCounter
<1>1. Inv /\ Inv' /\ [Next]_vars => [DC!DCNext]_(DC!dcVars)
  BY RefinementNext
<1> QED
  BY <1>1, Invariance, RefinementInit, PTL DEF Spec, ImplementsDurableCounter, DC!DCSpec


===============================================================================

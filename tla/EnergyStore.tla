----------------------------- MODULE EnergyStore -----------------------------
(***************************************************************************)
(* The meter state and the energy counters (app/state/energy.py), with the *)
(* two threads that write and save them: the Alfen poller, which calls     *)
(* update_from_alfen, and the main thread, which saves once more when the  *)
(* program stops.  The other threads only take snapshots.  A save writes a *)
(* temporary file and renames it; the process can be killed at any point   *)
(* and loads the file when it starts again.                                *)
(*                                                                         *)
(* Power is in units whose product with a tick is one unit of energy.      *)
(***************************************************************************)
EXTENDS Integers

CONSTANTS
    Samples,         \* the measurements the poller may deliver
    UseAlfenEnergy,  \* settings.alfen_use_energy
    SaveInterval,    \* save_interval_s, in ticks
    PowerMax,        \* bound on |power| of a sample
    JoinMayTimeOut,  \* may alfen.stop() give up waiting for the poller?
    FsMayFail,       \* may a file operation raise?
    Skews,           \* what the wall clock may be off by (0: never stepped)
    Epoch,           \* the time at which the first process starts
    MaxTime,         \* bound: the clock stops here
    MaxIncidents,    \* bound: how many kills and clock steps there are
    None             \* Python's None

Phases == {"a", "b", "c"}
Channels == Phases \cup {"total"}
Threads == {"poller", "main"}

OptInt == Int \cup {None}

\* AlfenMeasurements, as far as the counters depend on it.
Measurements == [raw_ok : BOOLEAN, power : [Channels -> Int],
                 act : [Channels -> OptInt], ret : [Channels -> OptInt]]

ASSUME NoneAssumption == None \notin Int

ASSUME ConfigAssumption ==
    /\ UseAlfenEnergy \in BOOLEAN /\ JoinMayTimeOut \in BOOLEAN /\ FsMayFail \in BOOLEAN
    /\ SaveInterval \in Nat /\ PowerMax \in Nat
    /\ Epoch \in Nat /\ MaxTime \in Nat /\ MaxIncidents \in Nat
    /\ Skews \subseteq Int /\ 0 \in Skews

\* time.time() is far beyond every interval, and stays so when it is stepped.
ASSUME ClockAssumption == \A s \in Skews : Epoch + s > SaveInterval

ASSUME SampleAssumption ==
    /\ Samples \subseteq Measurements
    /\ \A m \in Samples, c \in Channels : -PowerMax <= m.power[c] /\ m.power[c] <= PowerMax

VARIABLES
    up,                 \* is there a process?
    pc,                 \* where each thread is
    locked,             \* is EnergyStore._lock held across steps (by the poller)?
    now,                \* the poller's local: time.time() at the start of an update
    meter,              \* store.state without its energy
    energy,             \* store.state.energy
    last_integrate_ts,  \* None before the first update
    last_save_ts,
    payload,            \* what each thread read out of the store to save it
    fd,                 \* the file each thread has open for writing
    tmp, dst,           \* the contents of state.tmp and state.json
    view,               \* the latest snapshot handed to an RPC or Modbus client
    time, skew,         \* real time; the wall clock shows time + skew
    incidents

threadVars == <<pc, locked, now>>
storeVars  == <<meter, energy, last_integrate_ts, last_save_ts>>
fileVars   == <<payload, fd, tmp, dst>>
envVars    == <<up, time, skew, incidents>>
vars == <<threadVars, storeVars, fileVars, view, envVars>>

-------------------------------------------------------------------------------
(* Data. *)

Energies == [act : [Channels -> Int], ret : [Channels -> Int],
             source : {"alfen", "integrated"}]

ZeroEnergy == [act |-> [c \in Channels |-> 0], ret |-> [c \in Channels |-> 0],
               source |-> "integrated"]

NoSample == [raw_ok |-> FALSE, power |-> [c \in Channels |-> 0],
             act |-> [c \in Channels |-> None], ret |-> [c \in Channels |-> None]]

InitMeter == [sample |-> NoSample, last_update_ts |-> 0]

\* A file is missing, empty, whole (it parses), or torn (it does not).
Files == [kind : {"missing", "empty", "torn", "whole"}, energy : Energies]
MissingFile == [kind |-> "missing", energy |-> ZeroEnergy]
EmptyFile   == [kind |-> "empty", energy |-> ZeroEnergy]
TornFile    == [kind |-> "torn", energy |-> ZeroEnergy]
WholeFile(e) == [kind |-> "whole", energy |-> e]

\* What _load makes of a file: all of it, or the zero counters it started with.
Loaded(f) == IF f.kind = "whole" THEN f.energy ELSE ZeroEnergy

wall == time + skew

-------------------------------------------------------------------------------
(* Counting energy. *)

OrZero(v) == IF v = None THEN 0 ELSE v

\* The counters of a channel, the total falling back to the sum of the phases.
AlfenCounters(reg) ==
    [c \in Channels |->
        IF c = "total" /\ reg[c] = None
        THEN OrZero(reg["a"]) + OrZero(reg["b"]) + OrZero(reg["c"])
        ELSE OrZero(reg[c])]

ShouldUseAlfenEnergy(m) ==
    UseAlfenEnergy /\ \E c \in Channels : m.act[c] # None /\ m.act[c] >= 0

\* Mutated forms, each the way a plausible mistake would change the definition
\* that follows it.  Nothing uses them but the mutation runs.
Import_Signed(wh) == wh
Export_NoAbs(wh) == IF wh >= 0 THEN 0 ELSE wh
Elapsed_Unclamped(from, to) == to - from

Import(wh) == IF wh >= 0 THEN wh ELSE 0
Export(wh) == IF wh >= 0 THEN 0 ELSE -wh

\* Hours since the previous update, never negative.
Elapsed(from, to) == IF to > from THEN to - from ELSE 0

Integrated(e, power, dt) ==
    [act |-> [c \in Channels |-> e.act[c] + Import(power[c] * dt)],
     ret |-> [c \in Channels |-> e.ret[c] + Export(power[c] * dt)],
     source |-> "integrated"]

-------------------------------------------------------------------------------
(* The poller: it delivers a measurement or fails, then looks at _stop. *)

Running(t, l) == up /\ pc[t] = l
Goto(t, l) == pc' = [pc EXCEPT ![t] = l]
stopping == pc["main"] # "serve"

\* update_from_alfen, up to the counters: the lock is taken and kept.
UpdateMeter(m) ==
    /\ Running("poller", "poll") /\ ~locked
    /\ locked' = TRUE
    /\ now' = wall
    /\ meter' = [sample |-> m, last_update_ts |-> wall]
    /\ Goto("poller", "energy")
    /\ UNCHANGED <<energy, last_integrate_ts, last_save_ts, fileVars, view, envVars>>

CopyAlfenEnergy_KeepsStart ==
    /\ energy' = [act |-> AlfenCounters(meter.sample.act),
                  ret |-> AlfenCounters(meter.sample.ret), source |-> "alfen"]
    /\ UNCHANGED last_integrate_ts

CopyAlfenEnergy ==
    /\ energy' = [act |-> AlfenCounters(meter.sample.act),
                  ret |-> AlfenCounters(meter.sample.ret), source |-> "alfen"]
    /\ last_integrate_ts' = now

IntegratePower_KeepsStart ==
    /\ last_integrate_ts' = IF last_integrate_ts = None THEN now ELSE last_integrate_ts
    /\ energy' = IF last_integrate_ts = None \/ Elapsed(last_integrate_ts, now) = 0
                 THEN energy
                 ELSE Integrated(energy, meter.sample.power, Elapsed(last_integrate_ts, now))

IntegratePower ==
    /\ last_integrate_ts' = now
    /\ energy' = IF last_integrate_ts = None \/ Elapsed(last_integrate_ts, now) = 0
                 THEN energy
                 ELSE Integrated(energy, meter.sample.power, Elapsed(last_integrate_ts, now))

\* The counters follow, and the lock is released.
UpdateEnergy ==
    /\ Running("poller", "energy")
    /\ IF ShouldUseAlfenEnergy(meter.sample) THEN CopyAlfenEnergy ELSE IntegratePower
    /\ locked' = FALSE
    /\ Goto("poller", "check")
    /\ UNCHANGED <<now, meter, last_save_ts, fileVars, view, envVars>>

SaveIsDue_Late == now - last_save_ts > SaveInterval
SaveIsDue == now - last_save_ts >= SaveInterval

\* Outside the lock: is it time to save?
CheckSave ==
    /\ Running("poller", "check")
    /\ IF SaveIsDue
       THEN last_save_ts' = now /\ Goto("poller", "capture")
       ELSE UNCHANGED last_save_ts /\ Goto("poller", "loop")
    /\ UNCHANGED <<locked, now, meter, energy, last_integrate_ts, fileVars, view, envVars>>

\* A poll that reaches no parsed reply does not call the store.
PollFails ==
    /\ Running("poller", "poll")
    /\ Goto("poller", "loop")
    /\ UNCHANGED <<locked, now, storeVars, fileVars, view, envVars>>

PollAgain_Forever ==
    /\ Running("poller", "loop")
    /\ Goto("poller", "poll")
    /\ UNCHANGED <<locked, now, storeVars, fileVars, view, envVars>>

PollAgain ==
    /\ Running("poller", "loop")
    /\ Goto("poller", IF stopping THEN "exited" ELSE "poll")
    /\ UNCHANGED <<locked, now, storeVars, fileVars, view, envVars>>

-------------------------------------------------------------------------------
(* save(), by either thread. *)

AfterSave(t) == IF t = "poller" THEN "loop" ELSE "done"

SaveCapture(t) ==
    /\ Running(t, "capture") /\ ~locked
    /\ payload' = [payload EXCEPT ![t] = energy]
    /\ Goto(t, "open")
    /\ UNCHANGED <<locked, now, storeVars, fd, tmp, dst, view, envVars>>

SaveOpen_InPlace(t) ==
    /\ Running(t, "open")
    /\ dst' = EmptyFile
    /\ fd' = [fd EXCEPT ![t] = "dst"]
    /\ Goto(t, "write")
    /\ UNCHANGED <<locked, now, storeVars, payload, tmp, view, envVars>>

\* write_text opens state.tmp, which creates or truncates it.
SaveOpen(t) ==
    /\ Running(t, "open")
    /\ tmp' = EmptyFile
    /\ fd' = [fd EXCEPT ![t] = "tmp"]
    /\ Goto(t, "write")
    /\ UNCHANGED <<locked, now, storeVars, payload, dst, view, envVars>>

\* f becomes the contents of the file t has open, wherever it is linked now.
PutFile(t, f) ==
    /\ tmp' = IF fd[t] = "tmp" THEN f ELSE tmp
    /\ dst' = IF fd[t] = "dst" THEN f ELSE dst
    /\ fd' = [fd EXCEPT ![t] = "none"]

OpenFile(t) == IF fd[t] = "dst" THEN dst ELSE tmp

\* Written over another thread's bytes, a shorter payload leaves a tail behind.
Overwritten(f, e) == {WholeFile(e)} \cup IF f.kind = "empty" THEN {} ELSE {TornFile}

SaveWrite(t) ==
    /\ Running(t, "write")
    /\ \E f \in Overwritten(OpenFile(t), payload[t]) : PutFile(t, f)
    /\ Goto(t, "replace")
    /\ UNCHANGED <<locked, now, storeVars, payload, view, envVars>>

\* Where a rename leaves the file a thread still has open.
AfterRename(h) == CASE h = "tmp" -> "dst" [] h = "dst" -> "gone" [] OTHER -> h

\* os.replace; with no state.tmp left it raises, and save() swallows that.
SaveReplace(t) ==
    /\ Running(t, "replace")
    /\ IF tmp.kind = "missing"
       THEN UNCHANGED <<tmp, dst, fd>>
       ELSE /\ dst' = tmp
            /\ tmp' = MissingFile
            /\ fd' = [u \in Threads |-> AfterRename(fd[u])]
    /\ Goto(t, AfterSave(t))
    /\ payload' = [payload EXCEPT ![t] = ZeroEnergy]
    /\ UNCHANGED <<locked, now, storeVars, view, envVars>>

\* A file operation raises: save() logs it and returns, whatever is on disk.
SaveFails(t) ==
    /\ FsMayFail /\ up
    /\ \/ pc[t] \in {"open", "replace"} /\ UNCHANGED <<tmp, dst, fd>>
       \/ pc[t] = "write" /\ \E f \in {OpenFile(t), TornFile} : PutFile(t, f)
    /\ Goto(t, AfterSave(t))
    /\ payload' = [payload EXCEPT ![t] = ZeroEnergy]
    /\ UNCHANGED <<locked, now, storeVars, view, envVars>>

-------------------------------------------------------------------------------
(* The main thread, the clients, and the world outside. *)

RequestStop ==
    /\ Running("main", "serve")
    /\ Goto("main", "join")
    /\ UNCHANGED <<locked, now, storeVars, fileVars, view, envVars>>

JoinReturns_NoWait ==
    /\ Running("main", "join")
    /\ Goto("main", "capture")
    /\ UNCHANGED <<locked, now, storeVars, fileVars, view, envVars>>

\* alfen.stop() joins the poller for five seconds and then goes on anyway.
JoinReturns ==
    /\ Running("main", "join")
    /\ pc["poller"] = "exited" \/ JoinMayTimeOut
    /\ Goto("main", "capture")
    /\ UNCHANGED <<locked, now, storeVars, fileVars, view, envVars>>

Snapshot_Unlocked ==
    /\ up
    /\ view' = [ts |-> meter.last_update_ts, energy |-> energy]
    /\ UNCHANGED <<threadVars, storeVars, fileVars, envVars>>

Snapshot ==
    /\ up /\ ~locked
    /\ view' = [ts |-> meter.last_update_ts, energy |-> energy]
    /\ UNCHANGED <<threadVars, storeVars, fileVars, envVars>>

\* The process is gone, and with it everything but the files.
Die ==
    /\ up' = FALSE
    /\ pc' = [poller |-> "poll", main |-> "serve"]
    /\ locked' = FALSE /\ now' = 0
    /\ meter' = InitMeter /\ energy' = ZeroEnergy
    /\ last_integrate_ts' = None /\ last_save_ts' = 0
    /\ payload' = [t \in Threads |-> ZeroEnergy]
    /\ fd' = [t \in Threads |-> "none"]
    /\ view' = [ts |-> 0, energy |-> ZeroEnergy]
    /\ UNCHANGED <<tmp, dst, time, skew>>

\* The main thread returns; a poller that is still running is a daemon.
Exit == Running("main", "done") /\ Die /\ UNCHANGED incidents

Kill == up /\ incidents < MaxIncidents /\ incidents' = incidents + 1 /\ Die

\* EnergyStore() loads the file before any other thread exists.
Start ==
    /\ ~up
    /\ up' = TRUE
    /\ energy' = Loaded(dst)
    /\ view' = [ts |-> 0, energy |-> Loaded(dst)]
    /\ UNCHANGED <<threadVars, meter, last_integrate_ts, last_save_ts, fileVars,
                   time, skew, incidents>>

Tick ==
    /\ time < MaxTime
    /\ time' = time + 1
    /\ UNCHANGED <<threadVars, storeVars, fileVars, view, up, skew, incidents>>

StepClock ==
    /\ incidents < MaxIncidents /\ incidents' = incidents + 1
    /\ skew' \in Skews \ {skew}
    /\ UNCHANGED <<threadVars, storeVars, fileVars, view, up, time>>

-------------------------------------------------------------------------------

Init ==
    /\ up = FALSE
    /\ pc = [poller |-> "poll", main |-> "serve"]
    /\ locked = FALSE /\ now = 0
    /\ meter = InitMeter /\ energy = ZeroEnergy
    /\ last_integrate_ts = None /\ last_save_ts = 0
    /\ payload = [t \in Threads |-> ZeroEnergy]
    /\ fd = [t \in Threads |-> "none"]
    /\ tmp = MissingFile /\ dst = MissingFile
    /\ view = [ts |-> 0, energy |-> ZeroEnergy]
    /\ time = Epoch /\ skew = 0 /\ incidents = 0

SaveStep(t) == SaveCapture(t) \/ SaveOpen(t) \/ SaveWrite(t) \/ SaveReplace(t) \/ SaveFails(t)

PollerStep ==
    \/ \E m \in Samples : UpdateMeter(m)
    \/ UpdateEnergy \/ CheckSave \/ PollFails \/ PollAgain
    \/ SaveStep("poller")

MainStep == RequestStop \/ JoinReturns \/ SaveStep("main") \/ Exit

Next ==
    \/ PollerStep \/ MainStep
    \/ Snapshot \/ Kill \/ Start \/ Tick \/ StepClock

Spec == Init /\ [][Next]_vars
\* Threads run, file operations and polls end.  Nobody has to stop the program,
\* kill it, read it, or step its clock.
FairSpec == Spec /\ WF_vars(PollerStep) /\ WF_vars(JoinReturns \/ SaveStep("main"))

-------------------------------------------------------------------------------
(* Properties. *)

PollerLabels == {"poll", "energy", "check", "capture", "open", "write", "replace",
                 "loop", "exited"}
MainLabels == {"serve", "join", "capture", "open", "write", "replace", "done"}

\* Every variable has its type.
TypeOK ==
    /\ up \in BOOLEAN /\ locked \in BOOLEAN
    /\ pc \in [Threads -> PollerLabels \cup MainLabels]
    /\ pc["poller"] \in PollerLabels /\ pc["main"] \in MainLabels
    /\ now \in Int /\ last_save_ts \in Int /\ time \in Nat /\ skew \in Int /\ incidents \in Nat
    /\ meter \in [sample : Measurements, last_update_ts : Int]
    /\ energy \in Energies /\ last_integrate_ts \in OptInt
    /\ payload \in [Threads -> Energies]
    /\ fd \in [Threads -> {"none", "tmp", "dst", "gone"}]
    /\ tmp \in Files /\ dst \in Files
    /\ view \in [ts : Int, energy : Energies]

\* state.json, once it exists, always parses: no kill, no failed file operation
\* and no second saver leaves a truncated or mixed file under that name
\* (save, energy.py:104-116).
StateFileIntact == dst.kind \in {"missing", "whole"}

BalancedEnergy(e) ==
    (e.act["a"] + e.act["b"] + e.act["c"]) - (e.ret["a"] + e.ret["b"] + e.ret["c"])
        = e.act["total"] - e.ret["total"]

\* The phases and the total are integrated over the same intervals and travel
\* together: in memory, on disk and in every snapshot, import less export summed
\* over the phases is import less export of the total (energy.py:199-223).
NetBalance ==
    BalancedEnergy(energy) /\ BalancedEnergy(Loaded(dst)) /\ BalancedEnergy(view.energy)

\* No restart can resume with more energy than the running process has counted,
\* even while two threads save at once.
DiskNeverAhead ==
    up => \A c \in Channels : /\ Loaded(dst).act[c] <= energy.act[c]
                              /\ Loaded(dst).ret[c] <= energy.ret[c]

\* No interval is counted twice, across updates, gaps, stops, kills and reloads:
\* a channel holds at most the largest power times the time since the first
\* process began.
EnergyBoundedByTime ==
    \A e \in {energy, Loaded(dst)}, c \in Channels :
        e.act[c] + e.ret[c] <= PowerMax * (time - Epoch)

\* A client that sees the same timestamp twice has seen the same counters: no
\* snapshot pairs the time of one update with the energy of another
\* (snapshot, energy.py:225-256; the registers 1000 and 1160 carry that time).
StampIdentifiesEnergy ==
    [][up /\ up' /\ view'.ts = view.ts => view'.energy = view.energy]_view

\* An integrated counter grows only in the direction its power was measured in,
\* whichever source it was taken from before: a clock that was stepped back turns
\* no import into export (energy.py:199-223).
CountersFollowPower ==
    [][up /\ up' /\ energy'.source = "integrated" =>
          \A c \in Channels :
              /\ energy'.act[c] > energy.act[c] => meter.sample.power[c] > 0
              /\ energy'.ret[c] > energy.ret[c] => meter.sample.power[c] < 0]_energy

\* The next interval to be integrated starts at the last update, whichever source
\* that took its counters from and whatever the clock did before it: no two
\* intervals overlap, and none is skipped (energy.py:168-170, 194-223).  So what the
\* charger has counted already is not added once more when its registers fail.
IntervalsAdjoin ==
    up /\ ~locked =>
        last_integrate_ts = IF meter.last_update_ts = 0 THEN None ELSE meter.last_update_ts

PollerIsIdle == pc["poller"] \in {"poll", "loop", "exited"}

\* Between two polls a kill costs less than one save interval of energy, as long
\* as the disk works and the program serves, and in every process again
\* (energy.py:174-177).
LossBounded ==
    Running("main", "serve") /\ PollerIsIdle =>
        \A c \in Channels : (energy.act[c] + energy.ret[c])
                              - (Loaded(dst).act[c] + Loaded(dst).ret[c])
                                < PowerMax * SaveInterval

\* When stop() has returned, the file holds everything that was counted.
GracefulStopSavesAll == pc["main"] = "done" => dst = WholeFile(energy)

\* stop() does return, unless the process is killed: the poller sees _stop after
\* at most one more update, and a save ends whichever file operation fails and
\* wherever (energy.py:104-116, wire_server.py:151-156).
StopTerminates == pc["main"] = "join" ~> (pc["main"] = "done" \/ ~up)

\* The counters of this module, as the counters DurableCounter promises.
Flows(e) == [act |-> e.act, ret |-> e.ret]

DC == INSTANCE DurableCounter WITH
        mem  <- Flows(IF up THEN energy ELSE Loaded(dst)),
        disk <- Flows(Loaded(dst))

\* Memory and disk only grow, the disk is never ahead, and a restart, from any
\* point of an update or a save, resumes at what the disk holds.
ImplementsDurableCounter == DC!DCSpec
===============================================================================

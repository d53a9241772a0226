-------------------------------- MODULE Meter --------------------------------
(***************************************************************************)
(* The meter's reading (MeterState and EnergyCounters, app/state/energy.py)*)
(* as the parts of the program hand it on.  Numbers are whole volts,       *)
(* amperes, watts and watt-hours; power factors are in hundredths.         *)
(***************************************************************************)
EXTENDS Integers

CONSTANT None   \* Python's None, and what a charger does not measure

ASSUME NoneAssumption == None \notin Int

Phases == {"a", "b", "c"}
Channels == Phases \cup {"total"}
OptInt == Int \cup {None}

Abs(v) == IF v < 0 THEN -v ELSE v

Zero == [p \in Phases |-> 0]
WithTotal(f, total) == [c \in Channels |-> IF c = "total" THEN total ELSE f[c]]
ZeroEnergy == [act |-> WithTotal(Zero, 0), ret |-> WithTotal(Zero, 0)]

\* A fresh MeterState.
InitMeter ==
    [voltage |-> Zero, current |-> Zero, n_current |-> None, pf |-> Zero, freq |-> 50,
     act_power |-> WithTotal(Zero, 0), aprt_power |-> WithTotal(Zero, 0),
     energy |-> ZeroEnergy, alfen_ok |-> FALSE, alfen_errors |-> {}, last_update_ts |-> 0]

\* What update_from_alfen makes of measurements m at time now, with the counters
\* that come of it.
Updated(m, energy, now) ==
    [voltage |-> m.voltage, current |-> m.current, n_current |-> m.n_current, pf |-> m.pf,
     freq |-> m.freq, act_power |-> m.act_power, aprt_power |-> m.aprt_power,
     energy |-> energy, alfen_ok |-> m.raw_ok, alfen_errors |-> m.errors,
     last_update_ts |-> now]
===============================================================================

--------------------------- MODULE AlfenRegisters ---------------------------
(***************************************************************************)
(* What the poller makes of the charger's registers                        *)
(* (app/alfen/registers.py).  The charger leaves out what it does not      *)
(* measure, most often the power of each phase; parse_registers fills the  *)
(* gaps from the sums, the currents and the voltages.  A register pair is  *)
(* a number, or None when it holds 0xFFFF or a NaN; divisions other than a *)
(* power factor are exact in the instances that are checked.               *)
(***************************************************************************)
EXTENDS Meter

\* _f: an unavailable register reads as its default.
OrDefault(v, default) == IF v = None THEN default ELSE v
Read(f) == [x \in DOMAIN f |-> OrDefault(f[x], 0)]

SumOf(f) == f["a"] + f["b"] + f["c"]
AnyPhase(f) == \E p \in Phases : f[p] # 0

Weight(i) == Abs(i)

\* Each phase's share of a total, by its current; all of it is on phase a if
\* there is no current.
SplitByCurrent(total, current) ==
    LET weights == Weight(current["a"]) + Weight(current["b"]) + Weight(current["c"])
    IN  IF weights <= 0
        THEN [p \in Phases |-> IF p = "a" THEN total ELSE 0]
        ELSE [p \in Phases |-> (total * Weight(current[p])) \div weights]

\* Mutated forms, here and below, change the definition after them the way a
\* plausible mistake would.  Nothing uses them but the mutation runs.
SynthesizeTotal_Never(f) == f

\* A total that is missing or zero is the sum of its phases.
SynthesizeTotal(f) ==
    IF f["total"] = 0 /\ AnyPhase(f) THEN WithTotal(f, SumOf(f)) ELSE f

DistributeMissing_Always(f, current) ==
    IF f["total"] = 0 THEN f
    ELSE WithTotal(SplitByCurrent(f["total"], current), f["total"])

\* Phases that are all missing or zero are shares of the total.
DistributeMissing(f, current) ==
    IF f["total"] = 0 \/ AnyPhase(f) THEN f
    ELSE WithTotal(SplitByCurrent(f["total"], current), f["total"])

Apparent(voltage, current) == [p \in Phases |-> Abs(voltage[p] * current[p])]

DistributeMissingAprt(f, voltage, current) ==
    IF f["total"] = 0
    THEN WithTotal(Apparent(voltage, current), SumOf(Apparent(voltage, current)))
    ELSE DistributeMissing(f, current)

Clamp(v) == IF v < -100 THEN -100 ELSE IF v > 100 THEN 100 ELSE v

PowerFactor_Signed(power, voltage, current, existing) ==
    CASE existing # 0 -> existing
      [] existing = 0 /\ voltage * current = 0 -> 0
      [] OTHER -> Clamp(IF voltage * current < 0 THEN -((100 * power) \div Abs(voltage * current))
                        ELSE (100 * power) \div Abs(voltage * current))

\* P / |V I| where the charger gives no power factor.
PowerFactor(power, voltage, current, existing) ==
    CASE existing # 0 -> existing
      [] existing = 0 /\ voltage * current = 0 -> 0
      [] OTHER -> Clamp((100 * power) \div Abs(voltage * current))

Measured(r) ==
    LET voltage == Read(r.voltage)
        current == Read(r.current)
        act_power == DistributeMissing(SynthesizeTotal(Read(r.act_power)), current)
        aprt_power == DistributeMissingAprt(SynthesizeTotal(Read(r.aprt_power)), voltage, current)
    IN  [raw_ok |-> TRUE, errors |-> {}, voltage |-> voltage, current |-> current,
         n_current |-> r.n_current, freq |-> OrDefault(r.freq, 50),
         act_power |-> act_power, aprt_power |-> aprt_power,
         pf |-> [p \in Phases |-> PowerFactor(act_power[p], voltage[p], current[p],
                                              OrDefault(r.pf[p], 0))],
         act |-> r.act, ret |-> r.ret]

\* A fresh AlfenMeasurements, as a short reply leaves it.
ZeroMeasurements ==
    [raw_ok |-> FALSE, errors |-> {"short_read"}, voltage |-> Zero, current |-> Zero,
     n_current |-> None, freq |-> 50, act_power |-> WithTotal(Zero, 0),
     aprt_power |-> WithTotal(Zero, 0), pf |-> Zero, act |-> [c \in Channels |-> None],
     ret |-> [c \in Channels |-> None]]

ParseRegisters(r) == IF r.short THEN ZeroMeasurements ELSE Measured(r)
===============================================================================

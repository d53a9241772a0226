---------------------------- MODULE MeterPath_proofs ----------------------------
(* Theorems about MeterPath: what is parsed, for any registers the charger may *)
(* hold, and what a client reads of any meter within the range of the floats.  *)
EXTENDS MeterPath, TLAPS

-------------------------------------------------------------------------------
(* Filling the gaps of a measurement. *)

LEMMA ReadType ==
  ASSUME NEW f \in [Channels -> OptInt]
  PROVE  /\ Read(f) \in [Channels -> Int]
         /\ \A c \in Channels : ~Missing(f, c) => Read(f)[c] = f[c] /\ Read(f)[c] # 0
         /\ \A c \in Channels : Missing(f, c) => Read(f)[c] = 0
  BY DEF Read, OrDefault, OptInt, Missing

LEMMA ReadPhases ==
  ASSUME NEW f \in [Phases -> OptInt]
  PROVE  Read(f) \in [Phases -> Int]
  BY DEF Read, OrDefault, OptInt

LEMMA ChannelNames ==
  /\ "a" \in Phases /\ "b" \in Phases /\ "c" \in Phases /\ "total" \notin Phases
  /\ Channels = Phases \cup {"total"}
  BY DEF Channels, Phases

LEMMA WithTotalType ==
  ASSUME NEW f, \A p \in Phases : f[p] \in Int, NEW t \in Int
  PROVE  /\ WithTotal(f, t) \in [Channels -> Int] /\ WithTotal(f, t)["total"] = t
         /\ \A p \in Phases : WithTotal(f, t)[p] = f[p]
  BY ChannelNames DEF WithTotal

\* The sum of the phases takes the place of a total that is missing or zero.
LEMMA SynthesizedKept ==
  ASSUME NEW g \in [Channels -> Int]
  PROVE  /\ SynthesizeTotal(g) \in [Channels -> Int]
         /\ \A c \in Channels : g[c] # 0 => SynthesizeTotal(g)[c] = g[c]
         /\ (g["total"] = 0 /\ AnyPhase(g)) => SynthesizeTotal(g)["total"] = g["a"] + g["b"] + g["c"]
<1>1. CASE g["total"] = 0 /\ AnyPhase(g)
  <2>1. SynthesizeTotal(g) = WithTotal(g, SumOf(g)) /\ SumOf(g) = g["a"] + g["b"] + g["c"]
    BY <1>1 DEF SynthesizeTotal, SumOf
  <2>2. SumOf(g) \in Int /\ \A p \in Phases : g[p] \in Int
    BY ChannelNames DEF SumOf
  <2> QED
    BY <1>1, <2>1, <2>2, WithTotalType, ChannelNames
<1>2. CASE ~(g["total"] = 0 /\ AnyPhase(g))
  BY <1>2 DEF SynthesizeTotal
<1> QED
  BY <1>1, <1>2

LEMMA WeightsType ==
  ASSUME NEW i \in Int
  PROVE  Weight(i) \in Nat
  BY DEF Weight, Abs

LEMMA SharesType ==
  ASSUME NEW total \in Int, NEW current \in [Phases -> Int]
  PROVE  \A p \in Phases : SplitByCurrent(total, current)[p] \in Int
<1> DEFINE w == Weight(current["a"]) + Weight(current["b"]) + Weight(current["c"])
<1>1. w \in Int /\ \A p \in Phases : Weight(current[p]) \in Int
  BY WeightsType, ChannelNames
<1>2. \A p \in Phases : total * Weight(current[p]) \in Int
  BY <1>1
<1> HIDE DEF w
<1>3. CASE w <= 0
  BY <1>3 DEF SplitByCurrent, w
<1>4. CASE w > 0
  <2>1. \A p \in Phases : (total * Weight(current[p])) \div w \in Int
    BY <1>1, <1>2, <1>4
  <2> QED
    BY <1>1, <1>4, <2>1 DEF SplitByCurrent, w
<1> QED
  BY <1>1, <1>3, <1>4

\* Shares of the total take the place of phases when they are all missing or zero.
LEMMA DistributedKept ==
  ASSUME NEW h \in [Channels -> Int], NEW current \in [Phases -> Int]
  PROVE  /\ DistributeMissing(h, current) \in [Channels -> Int]
         /\ \A c \in Channels : h[c] # 0 => DistributeMissing(h, current)[c] = h[c]
<1>1. CASE h["total"] = 0 \/ AnyPhase(h)
  BY <1>1 DEF DistributeMissing
<1>2. CASE ~(h["total"] = 0 \/ AnyPhase(h))
  <2>1. /\ DistributeMissing(h, current)
             = WithTotal(SplitByCurrent(h["total"], current), h["total"])
        /\ \A p \in Phases : h[p] = 0
    BY <1>2 DEF DistributeMissing, AnyPhase
  <2> DEFINE shares == SplitByCurrent(h["total"], current)
  <2>2. h["total"] \in Int /\ \A p \in Phases : shares[p] \in Int
    BY SharesType, ChannelNames
  <2> HIDE DEF shares
  <2>3. /\ WithTotal(shares, h["total"]) \in [Channels -> Int]
        /\ WithTotal(shares, h["total"])["total"] = h["total"]
    BY <2>2, WithTotalType
  <2> QED
    BY <2>1, <2>3, ChannelNames DEF shares
<1> QED
  BY <1>1, <1>2

-------------------------------------------------------------------------------
(* What the store is given is what the registers say. *)

ParsedInv == regs \in Windows /\ (m # None => m = ParseRegisters(regs))

LEMMA ParsedNext == ParsedInv /\ [Next]_vars => ParsedInv'
  BY ShownAssumption
  DEF ParsedInv, Next, Parse, Update, ReadModbus, AskRpc, Look, vars

LEMMA ParsedCorrect == Spec => []ParsedInv
<1>1. Init => ParsedInv
  BY DEF Init, ParsedInv
<1> QED
  BY <1>1, ParsedNext, PTL DEF Spec

\* What is measured where the reply was long enough.
LEMMA MeasuredIs ==
  ASSUME NEW r \in Windows
  PROVE  /\ Read(r.voltage) \in [Phases -> Int] /\ Read(r.current) \in [Phases -> Int]
         /\ Read(r.act_power) \in [Channels -> Int] /\ Read(r.aprt_power) \in [Channels -> Int]
         /\ Measured(r).act_power
              = DistributeMissing(SynthesizeTotal(Read(r.act_power)), Read(r.current))
         /\ Measured(r).aprt_power
              = DistributeMissingAprt(SynthesizeTotal(Read(r.aprt_power)),
                                      Read(r.voltage), Read(r.current))
         /\ \A p \in Phases :
              Measured(r).pf[p] = PowerFactor(Measured(r).act_power[p], Read(r.voltage)[p],
                                              Read(r.current)[p], OrDefault(r.pf[p], 0))
<1>1. /\ r.voltage \in [Phases -> OptInt] /\ r.current \in [Phases -> OptInt]
      /\ r.act_power \in [Channels -> OptInt] /\ r.aprt_power \in [Channels -> OptInt]
  BY WindowAssumption
<1>2. /\ Read(r.voltage) \in [Phases -> Int] /\ Read(r.current) \in [Phases -> Int]
      /\ Read(r.act_power) \in [Channels -> Int] /\ Read(r.aprt_power) \in [Channels -> Int]
  BY <1>1, ReadType, ReadPhases
<1> QED
  BY <1>2 DEF Measured

LEMMA PowerType ==
  ASSUME NEW r \in Windows
  PROVE  Measured(r).act_power \in [Channels -> Int]
  BY MeasuredIs, SynthesizedKept, DistributedKept

LEMMA ActPowerKept ==
  ASSUME NEW r \in Windows, NEW c \in Channels, ~Missing(r.act_power, c)
  PROVE  Measured(r).act_power[c] = r.act_power[c]
<1>1. Read(r.act_power)[c] = r.act_power[c] /\ Read(r.act_power)[c] # 0
  BY WindowAssumption, ReadType
<1> QED
  BY <1>1, MeasuredIs, SynthesizedKept, DistributedKept

\* Apparent powers are no less than 0.
ApparentAssumption ==
    \A r \in Windows, c \in Channels : r.aprt_power[c] = None \/ r.aprt_power[c] \in Nat

LEMMA AprtPowerKept ==
  ASSUME ApparentAssumption, NEW r \in Windows, NEW c \in Channels, ~Missing(r.aprt_power, c)
  PROVE  Measured(r).aprt_power[c] = r.aprt_power[c]
<1> DEFINE g == Read(r.aprt_power)
           h == SynthesizeTotal(g)
<1>1. /\ g \in [Channels -> Int] /\ g[c] = r.aprt_power[c] /\ g[c] # 0
      /\ \A d \in Channels : g[d] >= 0
  <2>1. r.aprt_power \in [Channels -> OptInt]
    BY WindowAssumption
  <2>2. \A d \in Channels : r.aprt_power[d] = None \/ r.aprt_power[d] \in Nat
    BY DEF ApparentAssumption
  <2>3. \A d \in Channels : g[d] >= 0
    BY <2>1, <2>2 DEF Read, OrDefault
  <2> QED
    BY <2>1, <2>3, ReadType
<1>2. h \in [Channels -> Int] /\ h[c] = g[c]
  BY <1>1, SynthesizedKept
<1>3. h["total"] # 0
  <2>1. CASE g["total"] # 0
    BY <1>1, <2>1, SynthesizedKept, ChannelNames
  <2>2. CASE g["total"] = 0
    <3>1. c \in Phases /\ AnyPhase(g)
      BY <1>1, <2>2, ChannelNames DEF AnyPhase
    <3>2. h["total"] = g["a"] + g["b"] + g["c"]
      BY <1>1, <2>2, <3>1, SynthesizedKept
    <3>3. g["a"] \in Nat /\ g["b"] \in Nat /\ g["c"] \in Nat
      BY <1>1, ChannelNames
    <3>4. g["a"] > 0 \/ g["b"] > 0 \/ g["c"] > 0
      BY <1>1, <3>1, <3>3 DEF Phases
    <3> QED
      BY <3>2, <3>3, <3>4
  <2> QED
    BY <2>1, <2>2
<1>4. Measured(r).aprt_power = DistributeMissing(h, Read(r.current))
  BY <1>3, MeasuredIs DEF DistributeMissingAprt
<1>5. Read(r.current) \in [Phases -> Int]
  BY MeasuredIs
<1> HIDE DEF g, h
<1> QED
  BY <1>1, <1>2, <1>4, <1>5, DistributedKept

\* No power the charger published is replaced by one derived from another, whatever else
\* it leaves out.
THEOREM PublishedStays ==
  ASSUME ApparentAssumption
  PROVE  Spec => []PublishedKept
<1>1. ParsedInv => PublishedKept
  <2> SUFFICES ASSUME ParsedInv, m # None, m.raw_ok, NEW c \in Channels
               PROVE  /\ ~Missing(regs.act_power, c) => m.act_power[c] = regs.act_power[c]
                      /\ ~Missing(regs.aprt_power, c) => m.aprt_power[c] = regs.aprt_power[c]
    BY DEF PublishedKept
  <2>1. regs \in Windows /\ m = ParseRegisters(regs)
    BY DEF ParsedInv
  <2>2. m = Measured(regs)
    BY <2>1 DEF ParseRegisters, ZeroMeasurements
  <2> QED
    BY <2>1, <2>2, ActPowerKept, AprtPowerKept
<1> QED
  BY <1>1, ParsedCorrect, PTL

-------------------------------------------------------------------------------
(* Power factors that were left out. *)

LEMMA QuotientSign ==
  ASSUME NEW x \in Int, NEW d \in Int, d > 0
  PROVE  /\ x \div d \in Int
         /\ x \div d > 0 => x > 0
         /\ x \div d < 0 => x < 0
<1>1. x \div d \in Int
  OBVIOUS
<1>2. x \div d > 0 => x > 0
  OBVIOUS
<1>3. x \div d < 0 => x < 0
  OBVIOUS
<1> QED
  BY <1>1, <1>2, <1>3

LEMMA PowerFactorSign ==
  ASSUME NEW power \in Int, NEW v \in Int, NEW i \in Int
  PROVE  /\ PowerFactor(power, v, i, 0) \in -100..100
         /\ PowerFactor(power, v, i, 0) > 0 => power > 0
         /\ PowerFactor(power, v, i, 0) < 0 => power < 0
<1> DEFINE va == v * i
<1>1. va \in Int /\ 100 * power \in Int
  OBVIOUS
<1> HIDE DEF va
<1>2. CASE va = 0
  BY <1>2 DEF PowerFactor, va
<1>3. CASE va # 0
  <2>1. Abs(va) \in Int /\ Abs(va) > 0
    BY <1>1, <1>3 DEF Abs
  <2> DEFINE q == (100 * power) \div Abs(va)
  <2>2. q \in Int /\ (q > 0 => 100 * power > 0) /\ (q < 0 => 100 * power < 0)
    BY <1>1, <2>1, QuotientSign
  <2>3. PowerFactor(power, v, i, 0) = Clamp(q)
    BY <1>3 DEF PowerFactor, va
  <2> HIDE DEF q
  <2>4. /\ Clamp(q) \in -100..100 /\ (Clamp(q) > 0 => q > 0) /\ (Clamp(q) < 0 => q < 0)
    BY <2>2 DEF Clamp
  <2> QED
    BY <2>2, <2>3, <2>4
<1> QED
  BY <1>2, <1>3

\* A power factor the charger left out points the way the power shown beside it does,
\* and is never beyond 1.
THEOREM PowerFactorsFollow == Spec => []PowerFactorFollowsPower
<1>1. ParsedInv => PowerFactorFollowsPower
  <2> SUFFICES ASSUME ParsedInv, m # None, m.raw_ok, NEW p \in Phases, Missing(regs.pf, p)
               PROVE  /\ m.pf[p] \in -100..100
                      /\ m.pf[p] > 0 => m.act_power[p] > 0
                      /\ m.pf[p] < 0 => m.act_power[p] < 0
    BY DEF PowerFactorFollowsPower
  <2>1. regs \in Windows /\ m = ParseRegisters(regs)
    BY DEF ParsedInv
  <2>2. m = Measured(regs)
    BY <2>1 DEF ParseRegisters, ZeroMeasurements
  <2>3. OrDefault(regs.pf[p], 0) = 0
    BY DEF Missing, OrDefault
  <2>4. /\ m.act_power[p] \in Int /\ Read(regs.voltage)[p] \in Int /\ Read(regs.current)[p] \in Int
        /\ m.pf[p] = PowerFactor(m.act_power[p], Read(regs.voltage)[p], Read(regs.current)[p], 0)
    BY <2>1, <2>2, <2>3, MeasuredIs, PowerType, ChannelNames
  <2> DEFINE power == m.act_power[p]
             v == Read(regs.voltage)[p]
             i == Read(regs.current)[p]
  <2>5. power \in Int /\ v \in Int /\ i \in Int /\ m.pf[p] = PowerFactor(power, v, i, 0)
    BY <2>4
  <2> HIDE DEF power, v, i
  <2>6. /\ PowerFactor(power, v, i, 0) \in -100..100
        /\ PowerFactor(power, v, i, 0) > 0 => power > 0
        /\ PowerFactor(power, v, i, 0) < 0 => power < 0
    BY <2>5, PowerFactorSign
  <2> QED
    BY <2>5, <2>6 DEF power
<1> QED
  BY <1>1, ParsedCorrect, PTL

-------------------------------------------------------------------------------
(* Phases and totals. *)

LEMMA SharesAddUp ==
  ASSUME NEW T \in Int, NEW w \in Nat \ {0}, NEW x \in Int, NEW y \in Int, NEW z \in Int,
         x + y + z = w * T, x % w = 0, y % w = 0, z % w = 0
  PROVE  x \div w + y \div w + z \div w = T
<1>1. \A n \in Int : n % w = 0 => n \div w \in Int /\ n = w * (n \div w)
  OBVIOUS
<1>2. PICK a \in Int, b \in Int, c \in Int :
         a = x \div w /\ b = y \div w /\ c = z \div w /\ x = w * a /\ y = w * b /\ z = w * c
  BY <1>1
<1>3. PICK k \in Int : k = a + b + c - T
  OBVIOUS
<1>4. w * k = w * a + w * b + w * c - w * T
  BY <1>3
<1>5. w * k = 0
  <2>1. w * k = x + y + z - w * T
    BY <1>2, <1>4
  <2>2. w * T \in Int
    OBVIOUS
  <2> QED
    BY <2>1, <2>2
<1>6. k = 0
  BY <1>5
<1> QED
  BY <1>2, <1>3, <1>6

\* The phases that take the place of missing ones add up to their total.
LEMMA SplitAddsUp ==
  ASSUME NEW T \in Int, NEW current \in [Phases -> Int],
         LET weights == Weight(current["a"]) + Weight(current["b"]) + Weight(current["c"])
         IN  weights > 0 => \A p \in Phases : (T * Weight(current[p])) % weights = 0
  PROVE  SumOf(SplitByCurrent(T, current)) = T
<1>1. PICK x \in Nat, y \in Nat, z \in Nat :
        x = Weight(current["a"]) /\ y = Weight(current["b"]) /\ z = Weight(current["c"])
  BY WeightsType, ChannelNames
<1>2. CASE x + y + z <= 0
  <2>1. SplitByCurrent(T, current) = [p \in Phases |-> IF p = "a" THEN T ELSE 0]
    BY <1>1, <1>2 DEF SplitByCurrent
  <2> QED
    BY <2>1 DEF SumOf, Phases
<1>3. CASE x + y + z > 0
  <2>1. PICK w \in Nat \ {0} : w = x + y + z
    BY <1>3
  <2>2. SplitByCurrent(T, current) = [p \in Phases |-> (T * Weight(current[p])) \div w]
    BY <1>1, <1>3, <2>1 DEF SplitByCurrent
  <2>3. SumOf(SplitByCurrent(T, current)) = (T * x) \div w + (T * y) \div w + (T * z) \div w
    BY <1>1, <2>2, ChannelNames DEF SumOf
  <2>4. (T * x) % w = 0 /\ (T * y) % w = 0 /\ (T * z) % w = 0
    <3>1. Weight(current["a"]) + Weight(current["b"]) + Weight(current["c"]) = w /\ w > 0
      BY <1>1, <2>1
    <3>2. \A p \in Phases : (T * Weight(current[p])) % w = 0
      BY <3>1
    <3> QED
      BY <1>1, <3>2, ChannelNames
  <2>5. PICK tx \in Int, ty \in Int, tz \in Int : tx = T * x /\ ty = T * y /\ tz = T * z
    OBVIOUS
  <2>6. tx + ty + tz = w * T
    BY <2>1, <2>5
  <2>7. tx % w = 0 /\ ty % w = 0 /\ tz % w = 0
    BY <2>4, <2>5
  <2>8. tx \div w + ty \div w + tz \div w = T
    BY <2>6, <2>7, SharesAddUp
  <2> QED
    BY <2>3, <2>5, <2>8
<1> QED
  BY <1>2, <1>3

LEMMA WithTotalSums ==
  ASSUME NEW f, \A p \in Phases : f[p] \in Int, NEW t \in Int
  PROVE  SumOf(WithTotal(f, t)) = SumOf(f)
  BY WithTotalType, ChannelNames DEF SumOf

\* Where a total or every phase is missing, the gaps are filled so that they agree.
LEMMA FilledAddsUp ==
  ASSUME NEW r \in Windows, NEW f \in {r.act_power, r.aprt_power}, Incomplete(f)
  PROVE  LET out == DistributeMissing(SynthesizeTotal(Read(f)), Read(r.current))
         IN  SumOf(out) = out["total"]
<1> DEFINE g == Read(f)
           current == Read(r.current)
<1>1. /\ f \in [Channels -> OptInt] /\ g \in [Channels -> Int] /\ current \in [Phases -> Int]
      /\ \A c \in Channels : Missing(f, c) <=> g[c] = 0
  <2>1. f \in [Channels -> OptInt]
    BY WindowAssumption
  <2> QED
    BY <2>1, ReadType, MeasuredIs
<1>2. /\ \A p \in Phases : (AnyPhase(g) \/ ~(Weight(current["a"]) + Weight(current["b"]) + Weight(current["c"]) > 0))
                           \/ (g["total"] * Weight(current[p]))
                                % (Weight(current["a"]) + Weight(current["b"]) + Weight(current["c"])) = 0
  BY ShareAssumption
<1> HIDE DEF g, current
<1>3. CASE AnyPhase(g)
  <2>1. g["total"] = 0
    BY <1>1, <1>3, ChannelNames DEF Incomplete, AnyPhase
  <2> DEFINE h == WithTotal(g, SumOf(g))
  <2>2. SumOf(g) \in Int /\ \A p \in Phases : g[p] \in Int
    BY <1>1, ChannelNames DEF SumOf
  <2>3. /\ SynthesizeTotal(g) = h /\ h["total"] = SumOf(g) /\ \A p \in Phases : h[p] = g[p]
    BY <1>3, <2>1, <2>2, WithTotalType DEF SynthesizeTotal
  <2>4. SumOf(h) = SumOf(g)
    BY <2>2, WithTotalSums
  <2> HIDE DEF h
  <2>5. AnyPhase(h)
    BY <1>3, <2>3 DEF AnyPhase
  <2>6. DistributeMissing(h, current) = h
    BY <2>5 DEF DistributeMissing
  <2> QED
    BY <2>3, <2>4, <2>6 DEF g, current
<1>4. CASE ~AnyPhase(g)
  <2>1. SynthesizeTotal(g) = g /\ \A p \in Phases : g[p] = 0
    BY <1>4 DEF SynthesizeTotal, AnyPhase
  <2>2. CASE g["total"] = 0
    <3>1. DistributeMissing(g, current) = g
      BY <2>2 DEF DistributeMissing
    <3>2. SumOf(g) = 0
      BY <2>1, ChannelNames DEF SumOf
    <3> QED
      BY <2>1, <2>2, <3>1, <3>2 DEF g, current
  <2>3. CASE g["total"] # 0
    <3>1. PICK T \in Int : T = g["total"]
      BY <1>1, ChannelNames
    <3>2. DistributeMissing(g, current) = WithTotal(SplitByCurrent(T, current), T)
      BY <1>4, <2>3, <3>1 DEF DistributeMissing
    <3>3. \A p \in Phases : SplitByCurrent(T, current)[p] \in Int
      BY <1>1, SharesType
    <3>4. SumOf(SplitByCurrent(T, current)) = T
      BY <1>1, <1>2, <1>4, <3>1, SplitAddsUp
    <3>5. WithTotal(SplitByCurrent(T, current), T)["total"] = T
      BY <3>3, WithTotalType
    <3>6. SumOf(WithTotal(SplitByCurrent(T, current), T)) = T
      BY <3>3, <3>4, WithTotalSums
    <3> QED
      BY <2>1, <3>2, <3>5, <3>6 DEF g, current
  <2> QED
    BY <2>2, <2>3
<1> QED
  BY <1>3, <1>4

\* Where the charger leaves out the total or every phase of a power, phases and total
\* agree, whatever it publishes of the rest (registers.py:116-139, 187-191).
THEOREM PhasesAddUp == Spec => []PhasesSumToTotal
<1>1. ParsedInv => PhasesSumToTotal
  <2> SUFFICES ASSUME ParsedInv, m # None, m.raw_ok
               PROVE  /\ Incomplete(regs.act_power) => SumOf(m.act_power) = m.act_power["total"]
                      /\ Incomplete(regs.aprt_power) => SumOf(m.aprt_power) = m.aprt_power["total"]
    BY DEF PhasesSumToTotal
  <2>1. regs \in Windows /\ m = ParseRegisters(regs)
    BY DEF ParsedInv
  <2>2. m = Measured(regs)
    BY <2>1 DEF ParseRegisters, ZeroMeasurements
  <2>3. Incomplete(regs.act_power) => SumOf(m.act_power) = m.act_power["total"]
    BY <2>1, <2>2, MeasuredIs, FilledAddsUp
  <2>4. ASSUME Incomplete(regs.aprt_power)
        PROVE  SumOf(m.aprt_power) = m.aprt_power["total"]
    <3> DEFINE h == SynthesizeTotal(Read(regs.aprt_power))
               apparent == Apparent(Read(regs.voltage), Read(regs.current))
    <3>1. m.aprt_power = DistributeMissingAprt(h, Read(regs.voltage), Read(regs.current))
      BY <2>1, <2>2, MeasuredIs
    <3>2. CASE h["total"] = 0
      <4>1. m.aprt_power = WithTotal(apparent, SumOf(apparent))
        BY <3>1, <3>2 DEF DistributeMissingAprt
      <4>2. (\A p \in Phases : apparent[p] \in Int) /\ SumOf(apparent) \in Int
        <5>1. \A p \in Phases : Read(regs.voltage)[p] \in Int /\ Read(regs.current)[p] \in Int
          BY <2>1, MeasuredIs
        <5>2. \A p \in Phases : Read(regs.voltage)[p] * Read(regs.current)[p] \in Int
          BY <5>1
        <5>3. \A p \in Phases : apparent[p] \in Int
          BY <5>2 DEF Apparent, Abs
        <5> QED
          BY <5>3, ChannelNames DEF SumOf
      <4> HIDE DEF apparent
      <4>3. SumOf(m.aprt_power) = SumOf(apparent) /\ m.aprt_power["total"] = SumOf(apparent)
        BY <4>1, <4>2, WithTotalType, WithTotalSums
      <4> QED
        BY <4>3
    <3>3. CASE h["total"] # 0
      <4>1. m.aprt_power = DistributeMissing(h, Read(regs.current))
        BY <3>1, <3>3 DEF DistributeMissingAprt
      <4> QED
        BY <2>1, <2>4, <4>1, FilledAddsUp
    <3> QED
      BY <3>2, <3>3
  <2> QED
    BY <2>3, <2>4
<1> QED
  BY <1>1, ParsedCorrect, PTL

-------------------------------------------------------------------------------
(* Powers of two, as far as a float's exponent reaches. *)

Power == [e \in 0..30 |-> 2^e]

LEMMA LowPowers ==
  /\ Power[0] = 1 /\ Power[1] = 2 /\ Power[2] = 4 /\ Power[3] = 8 /\ Power[4] = 16
  /\ Power[5] = 32 /\ Power[6] = 64 /\ Power[7] = 128 /\ Power[8] = 256 /\ Power[9] = 512
  BY SMT DEF Power

LEMMA MiddlePowers ==
  /\ Power[10] = 1024 /\ Power[11] = 2048 /\ Power[12] = 4096 /\ Power[13] = 8192
  /\ Power[14] = 16384 /\ Power[15] = 32768 /\ Power[16] = 65536 /\ Power[17] = 131072
  /\ Power[18] = 262144 /\ Power[19] = 524288 /\ Power[20] = 1048576 /\ Power[21] = 2097152
  BY SMT DEF Power

LEMMA HighPowers ==
  /\ Power[22] = 4194304 /\ Power[23] = 8388608 /\ Power[24] = 16777216
  /\ Power[25] = 33554432 /\ Power[26] = 67108864 /\ Power[27] = 134217728
  /\ Power[28] = 268435456 /\ Power[29] = 536870912 /\ Power[30] = 1073741824
  BY SMT DEF Power

LEMMA PowerNat ==
  ASSUME NEW e \in 0..30
  PROVE  Power[e] \in Nat \ {0} /\ 2^e = Power[e]
<1>1. Power[e] \in Nat \ {0}
  BY SMT, LowPowers, MiddlePowers, HighPowers
<1>2. 2^e = Power[e]
  BY SMT DEF Power
<1> QED
  BY <1>1, <1>2

LEMMA PowerDoubles ==
  ASSUME NEW e \in 0..29
  PROVE  Power[e + 1] = 2 * Power[e]
  BY SMT, LowPowers, MiddlePowers, HighPowers

\* Within a float's significand of 24 bits.
LEMMA PowersOfSignificand ==
  ASSUME NEW e \in 0..23
  PROVE  Power[e] * Power[23 - e] = 8388608
  BY SMTT(60), LowPowers, MiddlePowers, HighPowers

\* A number has a leading bit.
LEMMA LeadingBit ==
  ASSUME NEW n \in Nat \ {0}, n < Power[30]
  PROVE  \E e \in 0..29 : Power[e] <= n /\ n < Power[e + 1]
<1> SUFFICES ASSUME \A e \in 0..29 : Power[e] <= n => Power[e + 1] <= n
             PROVE  FALSE
  BY SMT, PowerNat
<1>1. Power[0] <= n
  BY SMT, LowPowers
<1>2. Power[6] <= n
  BY SMT, <1>1
<1>3. Power[12] <= n
  BY SMT, <1>2
<1>4. Power[18] <= n
  BY SMT, <1>3
<1>5. Power[24] <= n
  BY SMT, <1>4
<1>6. Power[30] <= n
  BY SMT, <1>5
<1>7. Power[30] \in Nat
  BY SMT, PowerNat
<1> QED
  BY SMT, <1>6, <1>7

-------------------------------------------------------------------------------
(* A float read back from its words. *)

\* The size of a number of biased exponent x and significand s.
SizeOf(x, s, d) ==
    CASE x \in 120..150 -> Scaled(s * d, 1, x - 150)
      [] x \in 151..156 -> s * 2^(x - 150)
      [] OTHER -> Huge

\* t is what is left of the significand without its leading bit.
LEMMA WordsDecode ==
  ASSUME NEW x \in 120..157, NEW t \in Nat, t < 8388608, NEW sign \in {0, 32768}
  PROVE  \E hi \in Nat, lo \in Nat :
           /\ hi = sign + 128 * x + t \div 65536 /\ lo = t % 65536
           /\ (hi % 32768) \div 128 = x
           /\ (hi % 128) * 65536 + lo = t
           /\ hi >= 32768 <=> sign = 32768
<1>1. PICK hi \in Nat, lo \in Nat, a \in Nat :
        /\ a = t \div 65536 /\ lo = t % 65536 /\ t = 65536 * a + lo
        /\ a < 128 /\ hi = sign + 128 * x + a
  BY SMT
<1>2. hi % 32768 = 128 * x + a
  BY SMT, <1>1
<1>3. (128 * x + a) \div 128 = x
  BY SMT, <1>1
<1>4. hi % 128 = a
  BY SMT, <1>1, <1>2
<1>5. hi >= 32768 <=> sign = 32768
  BY SMT, <1>1
<1>6. (hi % 128) * 65536 + lo = t
  BY SMT, <1>1, <1>4
<1>7. hi = sign + 128 * x + t \div 65536 /\ lo = t % 65536
  BY SMT, <1>1
<1>8. (hi % 32768) \div 128 = x
  BY SMT, <1>2, <1>3
<1> WITNESS hi \in Nat, lo \in Nat
<1> QED
  BY SMT, <1>5, <1>6, <1>7, <1>8

LEMMA FloatSize ==
  ASSUME NEW x \in 120..157, NEW t, NEW hi \in Nat, NEW lo \in Nat, NEW d,
         (hi % 32768) \div 128 = x, 2^23 + (hi % 128) * 65536 + lo = t
  PROVE  FloatOf(hi, lo, d) = IF hi >= 32768 THEN -SizeOf(x, t, d) ELSE SizeOf(x, t, d)
  BY SMT DEF FloatOf, SizeOf

LEMMA FloatDecodes ==
  ASSUME NEW x \in 120..157, NEW t \in Nat, t < 8388608, NEW sign \in {0, 32768},
         NEW d \in Nat
  PROVE  FloatOf(sign + 128 * x + t \div 65536, t % 65536, d)
           = IF sign = 32768 THEN -SizeOf(x, 8388608 + t, d) ELSE SizeOf(x, 8388608 + t, d)
<1>1. PICK hi \in Nat, lo \in Nat :
           /\ hi = sign + 128 * x + t \div 65536 /\ lo = t % 65536
           /\ (hi % 32768) \div 128 = x
           /\ (hi % 128) * 65536 + lo = t
           /\ hi >= 32768 <=> sign = 32768
  BY SMT, WordsDecode
<1>2. 2^23 + (hi % 128) * 65536 + lo = 8388608 + t
  BY SMT, <1>1
<1> DEFINE s == 8388608 + t
<1> HIDE DEF s
<1>3. FloatOf(hi, lo, d) = IF hi >= 32768 THEN -SizeOf(x, s, d) ELSE SizeOf(x, s, d)
  BY FloatSize, <1>1, <1>2 DEF s
<1>4. FloatOf(hi, lo, d) = IF sign = 32768 THEN -SizeOf(x, s, d) ELSE SizeOf(x, s, d)
  BY <1>1, <1>3
<1> QED
  BY <1>1, <1>4 DEF s

-------------------------------------------------------------------------------
(* Rounding. *)

Nearest(num, den) ==
    LET q == num \div den
        r == num % den
    IN  IF 2 * r > den \/ (2 * r = den /\ q % 2 = 1) THEN q + 1 ELSE q

LEMMA NearestIs ==
  ASSUME NEW num \in Nat, NEW den \in Nat \ {0}
  PROVE  \E s \in Nat :
           /\ s = Nearest(num, den)
           /\ 2 * num - den <= 2 * (s * den) /\ 2 * (s * den) <= 2 * num + den
<1>1. PICK q \in Nat, r \in Nat : q = num \div den /\ r = num % den /\ num = q * den + r /\ r < den
  OBVIOUS
<1>2. PICK s \in Nat : s = IF 2 * r > den \/ (2 * r = den /\ q % 2 = 1) THEN q + 1 ELSE q
  BY <1>1
<1>3. s = Nearest(num, den)
  BY <1>1, <1>2 DEF Nearest
<1>4. CASE s = q + 1
  <2>1. s * den = q * den + den
    BY <1>4
  <2>2. 2 * r >= den
    BY <1>2, <1>4
  <2>3. q * den \in Int
    BY <1>1
  <2> QED
    BY <1>1, <1>3, <2>1, <2>2, <2>3
<1>5. CASE s = q
  <2>1. s * den = q * den /\ q * den \in Int
    BY <1>5
  <2>2. 2 * r <= den
    BY <1>1, <1>2, <1>5
  <2> QED
    BY <1>1, <1>3, <2>1, <2>2
<1> QED
  BY <1>2, <1>4, <1>5

\* What lies nearest, wherever it lies less than half way to the next.
LEMMA NearestTo ==
  ASSUME NEW num \in Nat, NEW den \in Nat \ {0}, NEW s \in Nat,
         2 * num - den < 2 * (s * den), 2 * (s * den) < 2 * num + den
  PROVE  Nearest(num, den) = s
<1>1. PICK n \in Nat : /\ n = Nearest(num, den)
                       /\ 2 * num - den <= 2 * (n * den) /\ 2 * (n * den) <= 2 * num + den
  BY NearestIs
<1>2. PICK sd \in Int, nd \in Int : sd = s * den /\ nd = n * den
  OBVIOUS
<1>3. nd - sd < den /\ sd - nd < den
  BY <1>1, <1>2
<1>4. PICK k \in Int : k = n - s
  OBVIOUS
<1>5. k * den = nd - sd
  BY <1>2, <1>4
<1>6. k * den < den /\ k * den > -den
  BY <1>2, <1>3, <1>5
<1>7. ~(k >= 1)
  <2>1. k >= 1 => k * den >= den
    BY SMT
  <2> QED
    BY <1>6, <2>1
<1>8. ~(k <= -1)
  <2>1. k <= -1 => k * den <= -den
    BY SMT
  <2> QED
    BY <1>6, <2>1
<1> QED
  BY <1>1, <1>4, <1>7, <1>8

LEMMA ScaledIs ==
  ASSUME NEW n \in Nat, NEW d \in Nat, NEW k \in 0..30
  PROVE  /\ Scaled(n, d, k) = Nearest(n * Power[k], d)
         /\ k > 0 => Scaled(n, d, -k) = Nearest(n, d * Power[k])
<1>1. 2^k = Power[k] /\ ~(k < 0) /\ -(-k) = k /\ (k > 0 => -k < 0)
  <2>1. 2^k = Power[k]
    BY PowerNat
  <2>2. ~(k < 0) /\ -(-k) = k /\ (k > 0 => -k < 0)
    OBVIOUS
  <2> QED
    BY <2>1, <2>2
<1>2. Scaled(n, d, k) = Nearest(n * Power[k], d)
  BY <1>1 DEF Scaled, Nearest
<1>3. ASSUME k > 0 PROVE Scaled(n, d, -k) = Nearest(n, d * Power[k])
  BY <1>1, <1>3 DEF Scaled, Nearest
<1> QED
  BY <1>2, <1>3

-------------------------------------------------------------------------------
(* A whole number read back. *)

Leads(n, e) == Power[e] <= n /\ n < Power[e + 1]

LEMMA WholeLog ==
  ASSUME NEW n \in Nat \ {0}, n < Power[30]
  PROVE  \E e \in 0..29 : Log2(n, 1) = e /\ Leads(n, e)
<1>1. PICK e \in 0..29 : Power[e] <= n /\ n < Power[e + 1]
  BY LeadingBit
<1>2. 2^e = Power[e] /\ Power[e + 1] = 2 * Power[e]
  <2>1. e \in 0..30
    OBVIOUS
  <2>2. 2^e = Power[e]
    BY <2>1, PowerNat
  <2>3. Power[e + 1] = 2 * Power[e]
    BY PowerDoubles
  <2> QED
    BY <2>2, <2>3
<1>3. n \div 1 = n /\ n >= 1
  OBVIOUS
<1> DEFINE Fits(f) == 2^f <= n /\ n < 2 * 2^f
<1>4. Log2(n, 1) = CHOOSE f \in 0..30 : Fits(f)
  BY <1>3 DEF Log2
<1>5. \E f \in 0..30 : Fits(f)
  <2>1. e \in 0..30 /\ Fits(e)
    BY <1>1, <1>2
  <2> QED
    BY Zenon, <2>1
<1> HIDE DEF Fits
<1>6. PICK f \in 0..30 : f = Log2(n, 1) /\ 2^f <= n /\ n < 2 * 2^f
  <2>1. Log2(n, 1) \in 0..30 /\ Fits(Log2(n, 1))
    BY Zenon, <1>4, <1>5
  <2> QED
    BY <2>1 DEF Fits
<1>7. 2^f = Power[f] /\ Power[f] \in Nat
  BY PowerNat
<1>8. f # 30
  BY <1>6, <1>7
<1>9. f \in 0..29
  BY <1>8
<1>10. Power[f + 1] = 2 * Power[f]
  BY <1>9, PowerDoubles
<1> QED
  BY <1>6, <1>7, <1>9, <1>10 DEF Leads

\* The whole number that a float of whole n is, where e is the place of its leading bit.
RoundedTo(n, e) ==
    IF e <= 23 THEN n ELSE Nearest(n, Power[e - 23]) * Power[e - 23]

LEMMA HighPower ==
  ASSUME NEW e \in 24..30
  PROVE  Power[e] = 8388608 * Power[e - 23]
  BY SMT, LowPowers, HighPowers

\* The significand, a power of two at its upper limit where it carries over.
LEMMA WholeSignificand ==
  ASSUME NEW n \in Nat \ {0}, NEW e \in 0..29, Leads(n, e)
  PROVE  \E s \in Nat :
           /\ s = Scaled(n, 1, 23 - e) /\ 8388608 <= s /\ s <= 16777216
           /\ e <= 23 => s = n * Power[23 - e] /\ s < 16777216
           /\ e > 23 => s = Nearest(n, Power[e - 23])
<1>1. CASE e <= 23
  <2>1. PICK k \in 0..23 : k = 23 - e
    BY <1>1
  <2>2. PICK p \in Nat \ {0}, a \in Nat \ {0} :
          /\ p = Power[k] /\ a = Power[e] /\ Power[e + 1] = 2 * a /\ a * p = 8388608
    <3>1. Power[k] \in Nat \ {0} /\ Power[e] \in Nat \ {0}
      BY PowerNat
    <3>2. Power[e + 1] = 2 * Power[e]
      BY PowerDoubles
    <3>3. Power[e] * Power[k] = 8388608
      BY SMT, <1>1, <2>1, PowersOfSignificand
    <3> QED
      BY SMT, <3>1, <3>2, <3>3
  <2>3. PICK s \in Nat : s = n * p
    OBVIOUS
  <2>4. Scaled(n, 1, k) = Nearest(s, 1)
    <3>1. k \in 0..30 /\ n \in Nat /\ 1 \in Nat
      OBVIOUS
    <3>2. Scaled(n, 1, k) = Nearest(n * Power[k], 1)
      BY Zenon, <3>1, ScaledIs
    <3> QED
      BY SMT, <2>2, <2>3, <3>2
  <2>5. Nearest(s, 1) = s
    <3>1. 2 * s - 1 < 2 * (s * 1) /\ 2 * (s * 1) < 2 * s + 1
      OBVIOUS
    <3> QED
      BY <3>1, NearestTo
  <2>6. a <= n /\ n < 2 * a
    BY SMT, <2>2 DEF Leads
  <2>7. a * p <= n * p /\ n * p < (2 * a) * p
    BY SMT, <2>6
  <2>8. (2 * a) * p = 2 * (a * p)
    BY SMT
  <2>9. 8388608 <= s /\ s < 16777216
    BY SMT, <2>2, <2>3, <2>7, <2>8
  <2>10. s = Scaled(n, 1, 23 - e) /\ s = n * Power[23 - e]
    BY SMT, <2>1, <2>2, <2>3, <2>4, <2>5
  <2> QED
    BY SMT, <1>1, <2>9, <2>10
<1>2. CASE e > 23
  <2>1. PICK k \in 1..6 : k = e - 23
    BY <1>2
  <2>2. PICK u \in Nat \ {0} : u = Power[k] /\ Power[e] = 8388608 * u /\ Power[e + 1] = 16777216 * u
    <3>1. Power[k] \in Nat \ {0}
      BY PowerNat
    <3>2. Power[e] = 8388608 * Power[k] /\ Power[e + 1] = 2 * Power[e]
      BY SMT, <1>2, <2>1, HighPower, PowerDoubles
    <3> QED
      BY SMT, <3>1, <3>2
  <2>3. Scaled(n, 1, -k) = Nearest(n, u)
    <3>1. 1 * Power[k] = u
      BY <2>2
    <3>2. k \in 0..30 /\ k > 0 /\ n \in Nat /\ 1 \in Nat
      OBVIOUS
    <3>3. Scaled(n, 1, -k) = Nearest(n, 1 * Power[k])
      BY Zenon, <3>2, ScaledIs
    <3> QED
      BY Zenon, <3>1, <3>3
  <2>4. PICK s \in Nat : /\ s = Nearest(n, u)
                         /\ 2 * n - u <= 2 * (s * u) /\ 2 * (s * u) <= 2 * n + u
    BY NearestIs
  <2>5. 8388608 * u <= n /\ n < 16777216 * u
    BY SMT, <2>2 DEF Leads
  <2>6. PICK su \in Int : su = s * u
    OBVIOUS
  <2>7. su > (8388608 - 1) * u /\ su < (16777216 + 1) * u
    BY SMT, <2>4, <2>5, <2>6
  <2>8. s > 8388608 - 1 /\ s < 16777216 + 1
    BY SMT, <2>6, <2>7
  <2>9. s = Scaled(n, 1, 23 - e) /\ s = Nearest(n, Power[e - 23])
    <3>1. 23 - e = -k
      BY <2>1
    <3> QED
      BY <2>1, <2>2, <2>3, <2>4, <3>1
  <2> QED
    BY SMT, <1>2, <2>8, <2>9
<1> QED
  BY <1>1, <1>2

\* The size of the number, without its sign.
LEMMA WholeSize ==
  ASSUME NEW n \in Nat \ {0}, NEW e \in 0..29, Leads(n, e), NEW s \in Nat,
         s = Scaled(n, 1, 23 - e), 8388608 <= s, s <= 16777216,
         e <= 23 => s = n * Power[23 - e] /\ s < 16777216,
         e > 23 => s = Nearest(n, Power[e - 23])
  PROVE  /\ s < 16777216 => SizeOf(127 + e, s, 1) = RoundedTo(n, e)
         /\ s = 16777216 => SizeOf(128 + e, 8388608, 1) = RoundedTo(n, e)
<1>1. CASE e <= 23
  <2>1. PICK k \in 0..23 : k = 23 - e
    BY <1>1
  <2>2. PICK p \in Nat \ {0} : p = Power[k]
    <3>1. k \in 0..30
      OBVIOUS
    <3> QED
      BY <3>1, PowerNat
  <2>3. s = n * p /\ s < 16777216
    BY SMT, <1>1, <2>1, <2>2
  <2>4. SizeOf(127 + e, s, 1) = Scaled(s * 1, 1, -k)
    <3>1. 127 + e \in 120..150 /\ 127 + e - 150 = -k
      BY SMT, <1>1, <2>1
    <3> QED
      BY SMT, <3>1 DEF SizeOf
  <2>5. s * 1 = s /\ 1 * p = p /\ s \in Nat
    BY SMT
  <2>6. Scaled(s, 1, -k) = n
    <3>1. CASE k = 0
      <4>1. Scaled(s, 1, 0) = Nearest(s * Power[0], 1)
        <5>1. 0 \in 0..30 /\ s \in Nat /\ 1 \in Nat
          BY SMT
        <5> QED
          BY SMTT(30), <5>1, ScaledIs
      <4>2. Power[0] = 1 /\ p = 1
        BY SMT, <2>2, <3>1, LowPowers
      <4>3. s * Power[0] = n /\ s = n
        BY SMT, <2>3, <4>2
      <4>4. Nearest(n, 1) = n
        <5>1. 2 * n - 1 < 2 * (n * 1) /\ 2 * (n * 1) < 2 * n + 1
          OBVIOUS
        <5> QED
          BY SMT, <5>1, NearestTo
      <4> QED
        BY SMT, <3>1, <4>1, <4>3, <4>4
    <3>2. CASE k > 0
      <4>1. Scaled(s, 1, -k) = Nearest(s, 1 * Power[k])
        <5>1. k \in 0..30 /\ s \in Nat /\ 1 \in Nat
          BY SMT
        <5> QED
          BY SMTT(30), <3>2, <5>1, ScaledIs
      <4>2. Nearest(s, p) = n
        <5>1. 2 * s - p < 2 * (n * p) /\ 2 * (n * p) < 2 * s + p
          BY SMT, <2>3
        <5> QED
          BY SMT, <5>1, NearestTo
      <4> QED
        BY SMT, <2>2, <2>5, <4>1, <4>2
    <3> QED
      BY SMT, <3>1, <3>2
  <2> QED
    BY SMT, <1>1, <2>3, <2>4, <2>5, <2>6 DEF RoundedTo
<1>2. CASE e > 23
  <2>1. PICK k \in 1..6 : k = e - 23
    BY <1>2
  <2>2. PICK u \in Nat \ {0} : u = Power[k] /\ 2^k = u
    <3>1. k \in 0..30
      OBVIOUS
    <3>2. Power[k] \in Nat \ {0}
      BY SMT, <3>1, PowerNat
    <3>3. 2^k = Power[k]
      BY SMT DEF Power
    <3> QED
      BY SMT, <3>2, <3>3
  <2>3. RoundedTo(n, e) = s * u
    BY SMT, <1>2, <2>1, <2>2 DEF RoundedTo
  <2>4. ASSUME s < 16777216 PROVE SizeOf(127 + e, s, 1) = RoundedTo(n, e)
    <3>1. 127 + e \in 151..156 /\ 127 + e \notin 120..150 /\ 127 + e - 150 = k
      BY SMT, <2>1
    <3>2. SizeOf(127 + e, s, 1) = s * 2^k
      BY SMT, <3>1 DEF SizeOf
    <3> QED
      BY SMT, <2>2, <2>3, <3>2
  <2>5. ASSUME s = 16777216 PROVE SizeOf(128 + e, 8388608, 1) = RoundedTo(n, e)
    <3>1. CASE e < 29
      <4>1. 128 + e \in 151..156 /\ 128 + e \notin 120..150 /\ 128 + e - 150 = k + 1
        BY SMT, <2>1, <3>1
      <4>2. SizeOf(128 + e, 8388608, 1) = 8388608 * 2^(k + 1)
        BY SMT, <4>1 DEF SizeOf
      <4>3. 2^(k + 1) = 2 * u
        <5>1. k + 1 \in 0..30 /\ k \in 0..29
          BY <2>1
        <5>2. 2^(k + 1) = Power[k + 1]
          BY SMT DEF Power
        <5>3. Power[k + 1] = 2 * Power[k]
          BY SMT, <5>1, PowerDoubles
        <5> QED
          BY SMT, <2>2, <5>2, <5>3
      <4> QED
        BY SMT, <2>3, <2>5, <4>2, <4>3
    <3>2. CASE e = 29
      <4>1. 128 + e \notin 151..156 /\ 128 + e \notin 120..150
        BY SMT, <3>2
      <4>2. SizeOf(128 + e, 8388608, 1) = Huge
        BY SMT, <4>1 DEF SizeOf
      <4>3. Huge = 16777216 * 64 /\ u = 64
        BY SMT, <2>1, <2>2, <3>2, LowPowers DEF Huge
      <4> QED
        BY SMT, <2>3, <2>5, <4>2, <4>3
    <3> QED
      BY SMT, <3>1, <3>2
  <2> QED
    BY SMT, <2>4, <2>5
<1> QED
  BY SMT, <1>1, <1>2

\* What is read back of the two words of a number.
ReadBack(v, d) == FloatOf(FloatWords(v, d)[1], FloatWords(v, d)[2], d)

LEMMA WholeReadBack ==
  ASSUME NEW v \in Int, v # 0, Abs(v) < Power[30]
  PROVE  \E e \in 0..29 :
           /\ Leads(Abs(v), e)
           /\ ReadBack(v, 1) = IF v < 0 THEN -RoundedTo(Abs(v), e) ELSE RoundedTo(Abs(v), e)
<1>1. PICK n \in Nat \ {0} : n = Abs(v) /\ n < Power[30]
  BY DEF Abs
<1>2. PICK e \in 0..29 : Log2(n, 1) = e /\ Leads(n, e)
  BY <1>1, WholeLog
<1>3. PICK s \in Nat :
        /\ s = Scaled(n, 1, 23 - e) /\ 8388608 <= s /\ s <= 16777216
        /\ e <= 23 => s = n * Power[23 - e] /\ s < 16777216
        /\ e > 23 => s = Nearest(n, Power[e - 23])
  BY SMT, <1>2, WholeSignificand
<1>4. /\ s < 16777216 => SizeOf(127 + e, s, 1) = RoundedTo(n, e)
      /\ s = 16777216 => SizeOf(128 + e, 8388608, 1) = RoundedTo(n, e)
  BY SMTT(30), <1>2, <1>3, WholeSize
<1>5. PICK sign \in {0, 32768} : sign = IF v < 0 THEN 32768 ELSE 0
  BY SMT
<1>6. FloatWords(v, 1) = <<sign + 128 * (127 + e) + (s - 8388608) \div 65536, s % 65536>>
  <2>1. 2^23 = 8388608
    BY SMT
  <2> QED
    BY SMT, <1>1, <1>2, <1>3, <1>5, <2>1 DEF FloatWords
<1>7. CASE s < 16777216
  <2>1. PICK t \in Nat, x \in 120..157 : t = s - 8388608 /\ t < 8388608 /\ x = 127 + e
    BY SMT, <1>3, <1>7
  <2>2. s % 65536 = t % 65536 /\ 8388608 + t = s
    BY SMT, <2>1
  <2>3. FloatWords(v, 1) = <<sign + 128 * x + t \div 65536, t % 65536>>
    BY SMT, <1>6, <2>1, <2>2
  <2>4. FloatOf(sign + 128 * x + t \div 65536, t % 65536, 1)
          = IF sign = 32768 THEN -SizeOf(x, 8388608 + t, 1) ELSE SizeOf(x, 8388608 + t, 1)
    BY SMTT(30), <2>1, FloatDecodes
  <2>5. ReadBack(v, 1) = IF v < 0 THEN -RoundedTo(n, e) ELSE RoundedTo(n, e)
    BY SMT, <1>4, <1>5, <1>7, <2>1, <2>2, <2>3, <2>4 DEF ReadBack
  <2> QED
    BY SMT, <1>1, <1>2, <2>5
<1>8. CASE s = 16777216
  <2>1. PICK t \in Nat, x \in 120..157 : t = 0 /\ x = 128 + e
    BY SMT
  <2>2. (s - 8388608) \div 65536 = 128 /\ s % 65536 = 0
    BY SMT, <1>8
  <2>3. t < 8388608 /\ 8388608 + t = 8388608 /\ t \div 65536 = 0 /\ t % 65536 = 0
    BY SMT, <2>1
  <2>4. FloatWords(v, 1) = <<sign + 128 * x + t \div 65536, t % 65536>>
    BY SMT, <1>6, <2>1, <2>2, <2>3
  <2>5. FloatOf(sign + 128 * x + t \div 65536, t % 65536, 1)
          = IF sign = 32768 THEN -SizeOf(x, 8388608 + t, 1) ELSE SizeOf(x, 8388608 + t, 1)
    BY SMT, <2>3, FloatDecodes
  <2>6. ReadBack(v, 1) = IF v < 0 THEN -RoundedTo(n, e) ELSE RoundedTo(n, e)
    BY SMT, <1>4, <1>5, <1>8, <2>1, <2>3, <2>4, <2>5 DEF ReadBack
  <2> QED
    BY SMT, <1>1, <1>2, <2>6
<1> QED
  BY SMT, <1>3, <1>7, <1>8

LEMMA RoundedBounds ==
  ASSUME NEW n \in Nat \ {0}, NEW e \in 0..29, Leads(n, e)
  PROVE  /\ RoundedTo(n, e) \in Nat /\ Power[e] <= RoundedTo(n, e) /\ RoundedTo(n, e) <= Power[e + 1]
         /\ e > 23 => /\ 2 * RoundedTo(n, e) <= 2 * n + Power[e - 23]
                      /\ 2 * n <= 2 * RoundedTo(n, e) + Power[e - 23]
<1>1. CASE e <= 23
  <2>1. RoundedTo(n, e) = n
    BY SMT, <1>1 DEF RoundedTo
  <2>2. Power[e] <= n /\ n < Power[e + 1] /\ Power[e + 1] \in Nat
    <3>1. e + 1 \in 0..30
      BY SMT
    <3> QED
      BY SMT, <3>1, PowerNat DEF Leads
  <2> QED
    BY SMT, <1>1, <2>1, <2>2
<1>2. CASE e > 23
  <2>1. PICK k \in 1..6 : k = e - 23
    BY SMT, <1>2
  <2>2. PICK u \in Nat \ {0} : u = Power[k] /\ Power[e] = 8388608 * u /\ Power[e + 1] = 16777216 * u
    <3>1. Power[k] \in Nat \ {0}
      BY SMT, PowerNat
    <3>2. Power[e] = 8388608 * Power[k] /\ Power[e + 1] = 2 * Power[e]
      BY SMT, <1>2, <2>1, HighPower, PowerDoubles
    <3> QED
      BY SMT, <3>1, <3>2
  <2>3. PICK s \in Nat :
          /\ s = Nearest(n, u) /\ 8388608 <= s /\ s <= 16777216
    <3>1. \E s \in Nat :
             /\ s = Scaled(n, 1, 23 - e) /\ 8388608 <= s /\ s <= 16777216
             /\ e <= 23 => s = n * Power[23 - e] /\ s < 16777216
             /\ e > 23 => s = Nearest(n, Power[e - 23])
      BY SMT, WholeSignificand
    <3> QED
      BY SMT, <1>2, <2>1, <2>2, <3>1
  <2>4. 2 * n - u <= 2 * (s * u) /\ 2 * (s * u) <= 2 * n + u
    <3>0. n \in Nat
      OBVIOUS
    <3>1. PICK q \in Nat : /\ q = Nearest(n, u)
                           /\ 2 * n - u <= 2 * (q * u) /\ 2 * (q * u) <= 2 * n + u
      BY <3>0, NearestIs
    <3>2. q = s
      BY SMT, <2>3, <3>1
    <3> QED
      BY SMT, <3>1, <3>2
  <2>5. RoundedTo(n, e) = s * u /\ Power[e - 23] = u
    BY SMT, <1>2, <2>1, <2>2, <2>3 DEF RoundedTo
  <2>6. 8388608 * u <= s * u /\ s * u <= 16777216 * u
    BY SMT, <2>3
  <2>7. s * u \in Nat
    BY SMT
  <2> QED
    BY SMT, <2>2, <2>4, <2>5, <2>6, <2>7
<1> QED
  BY SMT, <1>1, <1>2

LEMMA NearestMonotone ==
  ASSUME NEW a \in Nat, NEW b \in Nat, a <= b, NEW den \in Nat \ {0}
  PROVE  Nearest(a, den) * den <= Nearest(b, den) * den
<1>1. PICK s \in Nat : s = Nearest(a, den) /\ 2 * a - den <= 2 * (s * den) /\ 2 * (s * den) <= 2 * a + den
  BY NearestIs
<1>2. PICK t \in Nat : t = Nearest(b, den) /\ 2 * b - den <= 2 * (t * den) /\ 2 * (t * den) <= 2 * b + den
  BY NearestIs
<1>3. CASE a = b
  BY <1>1, <1>2, <1>3
<1>4. CASE a < b
  <2>1. PICK k \in Int : k = s - t
    OBVIOUS
  <2>2. k * den = s * den - t * den /\ s * den \in Int /\ t * den \in Int
    BY <2>1
  <2>3. k * den < den
    BY <1>1, <1>2, <1>4, <2>2
  <2>4. k >= 1 => k * den >= den
    BY SMT
  <2>5. k <= 0
    BY <2>3, <2>4
  <2>6. k * den <= 0
    BY <2>5
  <2> QED
    BY <1>1, <1>2, <2>2, <2>6
<1> QED
  BY <1>3, <1>4

LEMMA PowerMonotone ==
  ASSUME NEW e \in 0..30, NEW f \in 0..30, e <= f
  PROVE  Power[e] <= Power[f]
<1>1. CASE f <= 12
  BY SMT, <1>1, LowPowers, MiddlePowers
<1>2. CASE e > 12 /\ f <= 21
  BY SMT, <1>2, MiddlePowers
<1>3. CASE e > 12 /\ f > 21
  BY SMT, <1>3, MiddlePowers, HighPowers
<1>4. CASE e <= 12 /\ f > 12
  BY SMT, <1>4, LowPowers, MiddlePowers, HighPowers
<1> QED
  BY SMT, <1>1, <1>2, <1>3, <1>4

LEMMA RoundedMonotone ==
  ASSUME NEW a \in Nat \ {0}, NEW b \in Nat \ {0}, a <= b,
         NEW e \in 0..29, NEW f \in 0..29, Leads(a, e), Leads(b, f)
  PROVE  RoundedTo(a, e) <= RoundedTo(b, f)
<1>1. \A i \in 0..30 : Power[i] \in Nat
  BY PowerNat
<1>2. CASE e = f
  <2>1. CASE e <= 23
    BY SMT, <1>2, <2>1 DEF RoundedTo
  <2>2. CASE e > 23
    <3>1. PICK u \in Nat \ {0} : u = Power[e - 23]
      <4>1. e - 23 \in 0..30
        BY SMT, <2>2
      <4>2. Power[e - 23] \in Nat \ {0}
        BY SMT, <4>1, PowerNat
      <4> QED
        BY SMT, <4>2
    <3>2. RoundedTo(a, e) = Nearest(a, u) * u /\ RoundedTo(b, f) = Nearest(b, u) * u
      BY SMT, <1>2, <2>2, <3>1 DEF RoundedTo
    <3>3. a \in Nat /\ b \in Nat
      OBVIOUS
    <3>4. Nearest(a, u) * u <= Nearest(b, u) * u
      BY <3>3, NearestMonotone
    <3> QED
      BY SMT, <3>2, <3>4
  <2> QED
    BY SMT, <2>1, <2>2
<1>3. CASE e < f
  <2>1. RoundedTo(a, e) \in Nat /\ RoundedTo(a, e) <= Power[e + 1]
    BY RoundedBounds
  <2>2. RoundedTo(b, f) \in Nat /\ Power[f] <= RoundedTo(b, f)
    BY RoundedBounds
  <2>3. Power[e + 1] <= Power[f]
    <3>1. e + 1 \in 0..30 /\ f \in 0..30 /\ e + 1 <= f
      BY SMT, <1>3
    <3> QED
      BY <3>1, PowerMonotone
  <2>4. Power[e + 1] \in Nat /\ Power[f] \in Nat
    <3>1. e + 1 \in 0..30 /\ f \in 0..30
      BY SMT
    <3> QED
      BY SMT, <1>1, <3>1
  <2> QED
    BY SMT, <2>1, <2>2, <2>3, <2>4
<1>4. CASE e > f
  <2>1. Power[f + 1] <= Power[e]
    <3>1. f + 1 \in 0..30 /\ e \in 0..30 /\ f + 1 <= e
      BY SMT, <1>4
    <3> QED
      BY <3>1, PowerMonotone
  <2>2. b < Power[f + 1] /\ Power[e] <= a
    BY SMT DEF Leads
  <2>3. Power[f + 1] \in Nat /\ Power[e] \in Nat
    <3>1. f + 1 \in 0..30 /\ e \in 0..30
      BY SMT
    <3> QED
      BY SMT, <1>1, <3>1
  <2> QED
    BY SMT, <2>1, <2>2, <2>3
<1> QED
  BY SMT, <1>2, <1>3, <1>4

LEMMA ZeroReadBack == ASSUME NEW d \in Nat \ {0} PROVE ReadBack(0, d) = 0
<1>1. FloatWords(0, d) = <<0, 0>>
  BY SMT DEF FloatWords
<1>2. (0 % 32768) \div 128 = 0 /\ 0 % 128 = 0 /\ ~(0 >= 32768) /\ 0 < 120
  BY SMT
<1>3. FloatOf(0, 0, d) = 0
  BY SMT, <1>2 DEF FloatOf
<1> QED
  BY SMT, <1>1, <1>3 DEF ReadBack

\* A larger number is never read as a smaller one.
LEMMA ReadBackMonotone ==
  ASSUME NEW v \in Int, NEW w \in Int, v <= w, Abs(v) < Power[30], Abs(w) < Power[30]
  PROVE  ReadBack(v, 1) <= ReadBack(w, 1)
<1>1. ASSUME NEW x \in Int, x # 0, Abs(x) < Power[30]
      PROVE  \E e \in 0..29 :
                /\ Abs(x) \in Nat \ {0} /\ Leads(Abs(x), e) /\ RoundedTo(Abs(x), e) \in Nat
                /\ ReadBack(x, 1) = IF x < 0 THEN -RoundedTo(Abs(x), e) ELSE RoundedTo(Abs(x), e)
  <2>1. PICK e \in 0..29 :
           /\ Leads(Abs(x), e)
           /\ ReadBack(x, 1) = IF x < 0 THEN -RoundedTo(Abs(x), e) ELSE RoundedTo(Abs(x), e)
    BY <1>1, WholeReadBack
  <2>2. Abs(x) \in Nat \ {0}
    BY <1>1 DEF Abs
  <2>3. RoundedTo(Abs(x), e) \in Nat
    BY <2>1, <2>2, RoundedBounds
  <2> QED
    BY <2>1, <2>2, <2>3
<1>2. ReadBack(0, 1) = 0
  BY ZeroReadBack
<1>3. CASE v = 0 \/ w = 0
  <2>1. CASE v = 0 /\ w # 0
    <3>1. PICK f \in 0..29 :
                /\ Abs(w) \in Nat \ {0} /\ Leads(Abs(w), f) /\ RoundedTo(Abs(w), f) \in Nat
                /\ ReadBack(w, 1) = IF w < 0 THEN -RoundedTo(Abs(w), f) ELSE RoundedTo(Abs(w), f)
      BY <1>1, <2>1
    <3> QED
      BY <1>2, <2>1, <3>1
  <2>2. CASE w = 0 /\ v # 0
    <3>1. PICK e \in 0..29 :
                /\ Abs(v) \in Nat \ {0} /\ Leads(Abs(v), e) /\ RoundedTo(Abs(v), e) \in Nat
                /\ ReadBack(v, 1) = IF v < 0 THEN -RoundedTo(Abs(v), e) ELSE RoundedTo(Abs(v), e)
      BY <1>1, <2>2
    <3> QED
      BY <1>2, <2>2, <3>1
  <2> QED
    BY <1>2, <1>3, <2>1, <2>2
<1>4. CASE v # 0 /\ w # 0
  <2>1. PICK e \in 0..29 :
                /\ Abs(v) \in Nat \ {0} /\ Leads(Abs(v), e) /\ RoundedTo(Abs(v), e) \in Nat
                /\ ReadBack(v, 1) = IF v < 0 THEN -RoundedTo(Abs(v), e) ELSE RoundedTo(Abs(v), e)
    BY <1>1, <1>4
  <2>2. PICK f \in 0..29 :
                /\ Abs(w) \in Nat \ {0} /\ Leads(Abs(w), f) /\ RoundedTo(Abs(w), f) \in Nat
                /\ ReadBack(w, 1) = IF w < 0 THEN -RoundedTo(Abs(w), f) ELSE RoundedTo(Abs(w), f)
    BY <1>1, <1>4
  <2>3. CASE v > 0 /\ w > 0
    <3>1. Abs(v) <= Abs(w)
      BY <2>3 DEF Abs
    <3>2. RoundedTo(Abs(v), e) <= RoundedTo(Abs(w), f)
      BY <2>1, <2>2, <3>1, RoundedMonotone
    <3> QED
      BY <2>1, <2>2, <2>3, <3>2
  <2>4. CASE v < 0 /\ w < 0
    <3>1. Abs(w) <= Abs(v)
      BY <2>4 DEF Abs
    <3>2. RoundedTo(Abs(w), f) <= RoundedTo(Abs(v), e)
      BY <2>1, <2>2, <3>1, RoundedMonotone
    <3> QED
      BY <2>1, <2>2, <2>4, <3>2
  <2>5. CASE v < 0 /\ w > 0
    BY <2>1, <2>2, <2>5
  <2> QED
    BY <1>4, <2>3, <2>4, <2>5
<1> QED
  BY <1>3, <1>4

\* What is read back of a whole number is close to it, and exact up to Exact.
LEMMA WholeReadsAs ==
  ASSUME NEW v \in Int, Abs(v) < Power[30]
  PROVE  ReadsAs(ReadBack(v, 1), v)
<1>1. CASE v = 0
  <2>1. ReadBack(v, 1) = 0
    BY <1>1, ZeroReadBack
  <2>2. Abs(v) <= Exact
    BY SMT, <1>1 DEF Abs, Exact
  <2> QED
    BY <1>1, <2>1, <2>2 DEF ReadsAs
<1>2. CASE v # 0
  <2>1. PICK n \in Nat \ {0} : n = Abs(v) /\ v = IF v < 0 THEN -n ELSE n
    BY <1>2 DEF Abs
  <2>2. PICK e \in 0..29 :
          /\ Leads(n, e)
          /\ ReadBack(v, 1) = IF v < 0 THEN -RoundedTo(n, e) ELSE RoundedTo(n, e)
    BY <1>2, <2>1, WholeReadBack
  <2>3. PICK r \in Nat : /\ r = RoundedTo(n, e)
                         /\ e > 23 => /\ 2 * r <= 2 * n + Power[e - 23]
                                      /\ 2 * n <= 2 * r + Power[e - 23]
    BY <2>2, RoundedBounds
  <2>4. Exact = 16777216
    BY SMT DEF Exact
  <2>5. n <= 16777216 => r = n
    <3>1. CASE e <= 23
      BY SMT, <2>3, <3>1 DEF RoundedTo
    <3>2. CASE e = 24
      <4>1. Power[e - 23] = 2 /\ 16777216 <= n
        BY SMT, <2>2, <3>2, LowPowers, HighPowers DEF Leads
      <4>2. r = Nearest(n, 2) * 2
        BY SMT, <2>3, <3>2, <4>1 DEF RoundedTo
      <4>3. Nearest(n, 2) \in Nat
        <5>1. n \in Nat /\ 2 \in Nat \ {0}
          BY SMT
        <5>2. PICK q \in Nat : q = Nearest(n, 2) /\ 2 * n - 2 <= 2 * (q * 2) /\ 2 * (q * 2) <= 2 * n + 2
          BY <5>1, NearestIs
        <5> QED
          BY SMT, <5>2
      <4> QED
        BY SMT, <2>3, <3>2, <4>1, <4>2, <4>3
    <3>3. CASE e > 24
      <4>1. e \in 0..30 /\ 25 \in 0..30 /\ 25 <= e
        BY SMT, <3>3
      <4>2. Power[25] <= Power[e]
        BY <4>1, PowerMonotone
      <4>3. Power[e] <= n
        BY SMT, <2>2 DEF Leads
      <4>4. Power[e] \in Nat
        BY SMT, PowerNat
      <4> QED
        BY SMT, <4>2, <4>3, <4>4, HighPowers
    <3> QED
      BY SMT, <3>1, <3>2, <3>3
  <2>6. n > 16777216 => r - n <= n \div 16777216 /\ n - r <= n \div 16777216
    <3>1. CASE e <= 23
      <4>1. n < Power[e + 1] /\ Power[e + 1] \in Nat
        BY SMT, PowerNat, <2>2 DEF Leads
      <4>2. Power[e + 1] <= Power[24]
        <5>1. e + 1 \in 0..30 /\ 24 \in 0..30 /\ e + 1 <= 24
          BY SMT, <3>1
        <5> QED
          BY <5>1, PowerMonotone
      <4> QED
        BY SMT, <4>1, <4>2, HighPowers
    <3>2. CASE e > 23
      <4>1. PICK k \in 0..5 : k = e - 24
        BY SMT, <3>2
      <4>2. PICK h \in Nat \ {0} : Power[e - 23] = 2 * h /\ Power[e] = 16777216 * h
        <5>1. Power[k] \in Nat \ {0}
          BY SMT, PowerNat
        <5>2. Power[k + 1] = 2 * Power[k]
          BY SMT, PowerDoubles
        <5>3. Power[e] = 8388608 * Power[e - 23]
          BY SMT, <3>2, HighPower
        <5>4. k + 1 = e - 23
          BY SMT, <4>1
        <5> QED
          BY SMT, <5>1, <5>2, <5>3, <5>4
      <4>3. 16777216 * h <= n
        BY SMT, <2>2, <4>2 DEF Leads
      <4>4. h <= n \div 16777216
        BY SMT, <4>3
      <4>5. r - n <= h /\ n - r <= h
        BY SMT, <2>3, <3>2, <4>2
      <4> QED
        BY SMT, <4>4, <4>5
    <3> QED
      BY SMT, <3>1, <3>2
  <2>7. CASE v >= 0
    <3>1. ReadBack(v, 1) = r /\ v = n
      BY <2>1, <2>2, <2>3, <2>7
    <3> QED
      BY SMT, <2>1, <2>4, <2>5, <2>6, <3>1 DEF ReadsAs, Abs
  <2>8. CASE v < 0
    <3>1. ReadBack(v, 1) = -r /\ v = -n
      BY <2>1, <2>2, <2>3, <2>8
    <3> QED
      BY SMT, <2>1, <2>4, <2>5, <2>6, <3>1 DEF ReadsAs, Abs
  <2> QED
    BY <2>7, <2>8
<1> QED
  BY <1>1, <1>2

-------------------------------------------------------------------------------
(* A power factor read back. *)

LEMMA HundredthLog ==
  ASSUME NEW n \in 1..100
  PROVE  \E j \in 0..7 : Log2(n, 100) = -j /\ 100 <= n * Power[j] /\ n * Power[j] < 200
<1>1. /\ Power[0] = 1 /\ Power[1] = 2 /\ Power[2] = 4 /\ Power[3] = 8 /\ Power[4] = 16
      /\ Power[5] = 32 /\ Power[6] = 64 /\ Power[7] = 128
  BY LowPowers
<1>2. CASE n = 100
  <2>1. n >= 100 /\ n \div 100 = 1
    BY <1>2
  <2> DEFINE Fits(f) == 2^f <= 1 /\ 1 < 2 * 2^f
  <2>2. Log2(n, 100) = CHOOSE f \in 0..30 : Fits(f)
    BY <2>1 DEF Log2
  <2>3. \A f \in 0..30 : Fits(f) <=> f = 0
    <3>1. Fits(0)
      BY SMT
    <3>2. ASSUME NEW f \in 1..30 PROVE ~Fits(f)
      <4>1. 2^f = Power[f]
        BY SMT DEF Power
      <4>2. Power[1] <= Power[f] /\ Power[f] \in Nat
        <5>1. 1 \in 0..30 /\ f \in 0..30 /\ 1 <= f
          BY SMT
        <5>2. Power[1] <= Power[f]
          BY <5>1, PowerMonotone
        <5>3. Power[f] \in Nat
          BY SMT, <5>1, PowerNat
        <5> QED
          BY <5>2, <5>3
      <4> QED
        BY <1>1, <4>1, <4>2
    <3> HIDE DEF Fits
    <3>3. \A f \in 0..30 : f = 0 \/ f \in 1..30
      OBVIOUS
    <3> QED
      BY <3>1, <3>2, <3>3
  <2> HIDE DEF Fits
  <2>4. Log2(n, 100) = 0
    BY <2>2, <2>3
  <2> QED
    BY <1>1, <1>2, <2>4
<1>3. CASE n < 100
  <2> DEFINE Fits(f) == 100 <= n * 2^(-f) /\ n * 2^(-f) < 2 * 100
  <2>1. Log2(n, 100) = CHOOSE f \in -7..-1 : Fits(f)
    BY <1>3 DEF Log2
  <2>2. ASSUME NEW j \in 1..7 PROVE Fits(-j) <=> 100 <= n * Power[j] /\ n * Power[j] < 200
    <3>1. 2^j = Power[j] /\ -(-j) = j
      BY SMT DEF Power
    <3> QED
      BY <3>1
  <2>3. \E j \in 1..7 : 100 <= n * Power[j] /\ n * Power[j] < 200
    BY <1>1, <1>3
  <2> HIDE DEF Fits
  <2>4. \E f \in -7..-1 : Fits(f)
    <3>1. PICK j \in 1..7 : 100 <= n * Power[j] /\ n * Power[j] < 200
      BY <2>3
    <3>2. -j \in -7..-1 /\ Fits(-j)
      BY <2>2, <3>1
    <3> QED
      BY <3>2
  <2>5. Log2(n, 100) \in -7..-1 /\ Fits(Log2(n, 100))
    BY <2>1, <2>4
  <2>6. PICK j \in 1..7 : Log2(n, 100) = -j
    BY <2>5
  <2>7. 100 <= n * Power[j] /\ n * Power[j] < 200
    BY <2>2, <2>5, <2>6
  <2> QED
    BY <2>6, <2>7
<1> QED
  BY <1>2, <1>3

LEMMA WidePowers ==
  ASSUME NEW j \in 0..7
  PROVE  Power[23 + j] = 8388608 * Power[j]
  BY SMT, LowPowers, HighPowers

\* What is read back of a power factor is exact.
LEMMA HundredthReadBack ==
  ASSUME NEW v \in -100..100
  PROVE  ReadBack(v, 100) = v
<1>1. CASE v = 0
  <2>1. 100 \in Nat \ {0}
    OBVIOUS
  <2> QED
    BY <1>1, <2>1, ZeroReadBack
<1>2. CASE v # 0
  <2>1. PICK n \in 1..100 : n = Abs(v) /\ v = IF v < 0 THEN -n ELSE n
    BY <1>2 DEF Abs
  <2>2. PICK j \in 0..7 : Log2(n, 100) = -j /\ 100 <= n * Power[j] /\ n * Power[j] < 200
    BY HundredthLog
  <2>3. PICK y \in Nat, p \in Nat \ {0} :
          /\ p = Power[23 + j] /\ n * p = 8388608 * y /\ p >= 8388608 /\ 100 <= y /\ y < 200
    <3>1. PICK w \in Nat \ {0} : w = Power[j]
      <4>1. j \in 0..30
        OBVIOUS
      <4>2. Power[j] \in Nat \ {0}
        BY <4>1, PowerNat
      <4> QED
        BY <4>2
    <3>2. Power[23 + j] = 8388608 * w
      BY SMT, <3>1, WidePowers
    <3>3. n * (8388608 * w) = 8388608 * (n * w) /\ n * w \in Nat
      BY SMT
    <3>4. 8388608 * w >= 8388608 /\ 8388608 * w \in Nat \ {0}
      BY SMT
    <3> QED
      BY SMT, <2>2, <3>1, <3>2, <3>3, <3>4
  <2>4. PICK s \in Nat : /\ s = Nearest(n * p, 100)
                         /\ 2 * (n * p) - 100 <= 2 * (s * 100) /\ 2 * (s * 100) <= 2 * (n * p) + 100
    <3>1. n * p \in Nat /\ 100 \in Nat \ {0}
      OBVIOUS
    <3> QED
      BY <3>1, NearestIs
  <2>5. 8388608 <= s /\ s < 16777216
    BY SMT, <2>3, <2>4
  <2>6. PICK k \in 23..30 : k = 23 + j /\ 23 - (-j) = k /\ 127 + (-j) = 150 - k
    OBVIOUS
  <2>7. Scaled(n, 100, k) = s
    <3>1. n \in Nat /\ 100 \in Nat /\ k \in 0..30
      OBVIOUS
    <3>2. Scaled(n, 100, k) = Nearest(n * Power[k], 100)
      BY SMTT(30), <3>1, ScaledIs
    <3> QED
      BY SMT, <2>3, <2>4, <2>6, <3>2
  <2>8. PICK sign \in {0, 32768} : sign = IF v < 0 THEN 32768 ELSE 0
    BY SMT
  <2>9. FloatWords(v, 100) = <<sign + 128 * (150 - k) + (s - 8388608) \div 65536, s % 65536>>
    <3>1. 2^23 = 8388608
      BY SMT
    <3>2. Scaled(Abs(v), 100, 23 - Log2(Abs(v), 100)) = s /\ 127 + Log2(Abs(v), 100) = 150 - k
      BY SMT, <2>1, <2>2, <2>6, <2>7
    <3> QED
      BY SMT, <1>2, <2>8, <3>1, <3>2 DEF FloatWords
  <2>10. PICK t \in Nat, x \in 120..157 :
           t = s - 8388608 /\ t < 8388608 /\ x = 150 - k /\ x \in 120..150
    BY SMT, <2>5
  <2>11. s % 65536 = t % 65536 /\ 8388608 + t = s
    BY SMT, <2>10
  <2>12. FloatWords(v, 100) = <<sign + 128 * x + t \div 65536, t % 65536>>
    BY SMT, <2>9, <2>10, <2>11
  <2>13. FloatOf(sign + 128 * x + t \div 65536, t % 65536, 100)
           = IF sign = 32768 THEN -SizeOf(x, s, 100) ELSE SizeOf(x, s, 100)
    <3>1. 100 \in Nat
      OBVIOUS
    <3>2. FloatOf(sign + 128 * x + t \div 65536, t % 65536, 100)
           = IF sign = 32768 THEN -SizeOf(x, 8388608 + t, 100) ELSE SizeOf(x, 8388608 + t, 100)
      BY SMT, <2>10, <3>1, FloatDecodes
    <3> QED
      BY SMT, <2>11, <3>2
  <2>14. SizeOf(x, s, 100) = n
    <3>1. SizeOf(x, s, 100) = Scaled(s * 100, 1, -k)
      <4>1. x - 150 = -k
        BY SMT, <2>10
      <4> QED
        BY SMT, <2>10, <4>1 DEF SizeOf
    <3>2. PICK z \in Nat : z = s * 100
      OBVIOUS
    <3>3. Scaled(z, 1, -k) = Nearest(z, 1 * Power[k])
      <4>1. z \in Nat /\ 1 \in Nat /\ k \in 0..30 /\ k > 0
        BY <3>2
      <4> QED
        BY SMTT(30), <4>1, ScaledIs
    <3>4. 1 * Power[k] = p
      BY <2>3, <2>6
    <3>5. 2 * z - p < 2 * (n * p) /\ 2 * (n * p) < 2 * z + p
      <4>1. PICK np \in Nat : np = n * p
        OBVIOUS
      <4> QED
        BY SMT, <2>3, <2>4, <3>2, <4>1
    <3>6. Nearest(z, p) = n
      <4>1. n \in Nat
        OBVIOUS
      <4> QED
        BY <3>5, <4>1, NearestTo
    <3> QED
      BY <3>1, <3>2, <3>3, <3>4, <3>6
  <2>15. CASE v < 0
    BY SMT, <2>1, <2>8, <2>12, <2>13, <2>14, <2>15 DEF ReadBack
  <2>16. CASE v >= 0
    BY SMT, <2>1, <2>8, <2>12, <2>13, <2>14, <2>16 DEF ReadBack
  <2> QED
    BY <2>15, <2>16
<1> QED
  BY <1>1, <1>2

LEMMA JoinedIs ==
  ASSUME NEW f, NEW g, \A x \in DOMAIN g : x \notin DOMAIN f
  PROVE  /\ DOMAIN Joined(f, g) = DOMAIN f \cup DOMAIN g
         /\ \A x \in DOMAIN f : Joined(f, g)[x] = f[x]
         /\ \A x \in DOMAIN g : Joined(f, g)[x] = g[x]
  BY DEF Joined

LEMMA CountersLaid ==
  ASSUME NEW e
  PROVE  LET f == Counters(e)
         IN  /\ DOMAIN f = {1162, 1164, 1170, 1174, 1182, 1184, 1190, 1194, 1202, 1204,
                            1210, 1214, 1222, 1224}
             /\ f[1162] = e.act["total"] /\ f[1164] = e.ret["total"]
             /\ f[1170] = e.act["a"] /\ f[1174] = e.ret["a"]
             /\ f[1182] = e.act["a"] /\ f[1184] = e.ret["a"]
             /\ f[1190] = e.act["b"] /\ f[1194] = e.ret["b"]
             /\ f[1202] = e.act["b"] /\ f[1204] = e.ret["b"]
             /\ f[1210] = e.act["c"] /\ f[1214] = e.ret["c"]
             /\ f[1222] = e.act["c"] /\ f[1224] = e.ret["c"]
<1> DEFINE a == PhaseCounters(e, "a", 1170)
           b == PhaseCounters(e, "b", 1190)
           c == PhaseCounters(e, "c", 1210)
           t == TotalCounters(e)
<1>1. /\ DOMAIN t = {1162, 1164} /\ t[1162] = e.act["total"] /\ t[1164] = e.ret["total"]
  BY SMT DEF TotalCounters
<1>2. /\ DOMAIN a = {1170, 1174, 1182, 1184}
      /\ a[1170] = e.act["a"] /\ a[1174] = e.ret["a"] /\ a[1182] = e.act["a"] /\ a[1184] = e.ret["a"]
  BY SMT DEF PhaseCounters
<1>3. /\ DOMAIN b = {1190, 1194, 1202, 1204}
      /\ b[1190] = e.act["b"] /\ b[1194] = e.ret["b"] /\ b[1202] = e.act["b"] /\ b[1204] = e.ret["b"]
  BY SMT DEF PhaseCounters
<1>4. /\ DOMAIN c = {1210, 1214, 1222, 1224}
      /\ c[1210] = e.act["c"] /\ c[1214] = e.ret["c"] /\ c[1222] = e.act["c"] /\ c[1224] = e.ret["c"]
  BY SMT DEF PhaseCounters
<1> HIDE DEF a, b, c, t
<1> DEFINE bc == Joined(b, c)
           abc == Joined(a, bc)
<1>5. /\ DOMAIN bc = DOMAIN b \cup DOMAIN c
      /\ \A x \in DOMAIN b : bc[x] = b[x]
      /\ \A x \in DOMAIN c : bc[x] = c[x]
  <2>1. \A x \in DOMAIN c : x \notin DOMAIN b
    BY SMT, <1>3, <1>4
  <2> QED
    BY <2>1, JoinedIs
<1> HIDE DEF bc
<1>6. /\ DOMAIN abc = DOMAIN a \cup DOMAIN b \cup DOMAIN c
      /\ \A x \in DOMAIN a : abc[x] = a[x]
      /\ \A x \in DOMAIN b : abc[x] = b[x]
      /\ \A x \in DOMAIN c : abc[x] = c[x]
  <2>1. \A x \in DOMAIN bc : x \notin DOMAIN a
    BY SMT, <1>2, <1>3, <1>4, <1>5
  <2>2. /\ DOMAIN abc = DOMAIN a \cup DOMAIN bc
        /\ \A x \in DOMAIN a : abc[x] = a[x]
        /\ \A x \in DOMAIN bc : abc[x] = bc[x]
    BY <2>1, JoinedIs
  <2> HIDE DEF abc
  <2> QED
    BY <1>5, <2>2
<1> HIDE DEF abc
<1>7. Counters(e) = Joined(t, abc)
  BY DEF Counters, a, b, c, t, bc, abc
<1> DEFINE f == Joined(t, abc)
<1>8. /\ DOMAIN f = DOMAIN t \cup DOMAIN a \cup DOMAIN b \cup DOMAIN c
      /\ \A x \in DOMAIN t : f[x] = t[x]
      /\ \A x \in DOMAIN a : f[x] = a[x]
      /\ \A x \in DOMAIN b : f[x] = b[x]
      /\ \A x \in DOMAIN c : f[x] = c[x]
  <2>1. \A x \in DOMAIN abc : x \notin DOMAIN t
    BY SMT, <1>1, <1>2, <1>3, <1>4, <1>6
  <2>2. /\ DOMAIN f = DOMAIN t \cup DOMAIN abc
        /\ \A x \in DOMAIN t : f[x] = t[x]
        /\ \A x \in DOMAIN abc : f[x] = abc[x]
    BY <2>1, JoinedIs
  <2> HIDE DEF f
  <2> QED
    BY <1>6, <2>2
<1> HIDE DEF f
<1>9. DOMAIN f = {1162, 1164, 1170, 1174, 1182, 1184, 1190, 1194, 1202, 1204,
                            1210, 1214, 1222, 1224}
  BY SMT, <1>1, <1>2, <1>3, <1>4, <1>8
<1>10. /\ f[1162] = e.act["total"] /\ f[1164] = e.ret["total"]
       /\ f[1170] = e.act["a"] /\ f[1174] = e.ret["a"]
       /\ f[1182] = e.act["a"] /\ f[1184] = e.ret["a"]
  BY SMT, <1>1, <1>2, <1>8
<1>11. /\ f[1190] = e.act["b"] /\ f[1194] = e.ret["b"]
       /\ f[1202] = e.act["b"] /\ f[1204] = e.ret["b"]
       /\ f[1210] = e.act["c"] /\ f[1214] = e.ret["c"]
       /\ f[1222] = e.act["c"] /\ f[1224] = e.ret["c"]
  BY SMT, <1>3, <1>4, <1>8
<1> QED
  BY <1>7, <1>9, <1>10, <1>11 DEF f

\* The values put at each of these addresses.
FloatsAre(mt) ==
    LET f == Floats(mt)
        e == Counters(mt.energy)
    IN  /\ DOMAIN f = {1007, 1011, 1013, 1015, 1020, 1022, 1024, 1026, 1033,
                       1040, 1042, 1044, 1046, 1053, 1060, 1062, 1064, 1066, 1073} \cup DOMAIN e
        /\ f[1007] = OrZero(mt.n_current)
        /\ f[1011] = mt.current["a"] + mt.current["b"] + mt.current["c"]
        /\ f[1013] = mt.act_power["total"] /\ f[1015] = mt.aprt_power["total"]
        /\ f[1020] = mt.voltage["a"] /\ f[1022] = mt.current["a"]
        /\ f[1024] = mt.act_power["a"] /\ f[1026] = mt.aprt_power["a"] /\ f[1033] = mt.freq
        /\ f[1040] = mt.voltage["b"] /\ f[1042] = mt.current["b"]
        /\ f[1044] = mt.act_power["b"] /\ f[1046] = mt.aprt_power["b"] /\ f[1053] = mt.freq
        /\ f[1060] = mt.voltage["c"] /\ f[1062] = mt.current["c"]
        /\ f[1064] = mt.act_power["c"] /\ f[1066] = mt.aprt_power["c"] /\ f[1073] = mt.freq
        /\ \A x \in DOMAIN e : f[x] = e[x]

LEMMA FloatsLaid ==
  ASSUME NEW mt
  PROVE  FloatsAre(mt)
<1> DEFINE t == Totals(mt)
           a == PhaseA(mt)
           b == PhaseB(mt)
           c == PhaseC(mt)
           e == Counters(mt.energy)
<1>1. /\ DOMAIN t = {1007, 1011, 1013, 1015}
      /\ t[1007] = OrZero(mt.n_current)
      /\ t[1011] = mt.current["a"] + mt.current["b"] + mt.current["c"]
      /\ t[1013] = mt.act_power["total"] /\ t[1015] = mt.aprt_power["total"]
  BY SMT DEF Totals
<1>2. /\ DOMAIN a = {1020, 1022, 1024, 1026, 1033}
      /\ a[1020] = mt.voltage["a"] /\ a[1022] = mt.current["a"] /\ a[1024] = mt.act_power["a"]
      /\ a[1026] = mt.aprt_power["a"] /\ a[1033] = mt.freq
  BY SMT DEF PhaseA
<1>3. /\ DOMAIN b = {1040, 1042, 1044, 1046, 1053}
      /\ b[1040] = mt.voltage["b"] /\ b[1042] = mt.current["b"] /\ b[1044] = mt.act_power["b"]
      /\ b[1046] = mt.aprt_power["b"] /\ b[1053] = mt.freq
  BY SMT DEF PhaseB
<1>4. /\ DOMAIN c = {1060, 1062, 1064, 1066, 1073}
      /\ c[1060] = mt.voltage["c"] /\ c[1062] = mt.current["c"] /\ c[1064] = mt.act_power["c"]
      /\ c[1066] = mt.aprt_power["c"] /\ c[1073] = mt.freq
  BY SMT DEF PhaseC
<1>5. \A x \in DOMAIN e : x \in Int /\ x > 1100
  <2>1. DOMAIN e = {1162, 1164, 1170, 1174, 1182, 1184, 1190, 1194, 1202, 1204,
                    1210, 1214, 1222, 1224}
    BY CountersLaid
  <2> HIDE DEF e
  <2> QED
    BY SMT, <2>1
<1>6. Floats(mt) = Joined(t, Joined(a, Joined(b, Joined(c, e))))
  BY DEF Floats
<1> HIDE DEF t, a, b, c, e
<1> DEFINE ce == Joined(c, e)
<1>7. /\ DOMAIN ce = DOMAIN c \cup DOMAIN e
      /\ \A x \in DOMAIN c : ce[x] = c[x]
      /\ \A x \in DOMAIN e : ce[x] = e[x]
  <2>1. \A x \in DOMAIN e : x \notin DOMAIN c
    BY SMT, <1>4, <1>5
  <2> QED
    BY <2>1, JoinedIs
<1> HIDE DEF ce
<1> DEFINE bce == Joined(b, ce)
<1>8. /\ DOMAIN bce = DOMAIN b \cup DOMAIN ce
      /\ \A x \in DOMAIN b : bce[x] = b[x]
      /\ \A x \in DOMAIN ce : bce[x] = ce[x]
  <2>1. \A x \in DOMAIN ce : x \notin DOMAIN b
    BY SMT, <1>3, <1>4, <1>5, <1>7
  <2> QED
    BY <2>1, JoinedIs
<1> HIDE DEF bce
<1> DEFINE abce == Joined(a, bce)
<1>9. /\ DOMAIN abce = DOMAIN a \cup DOMAIN bce
      /\ \A x \in DOMAIN a : abce[x] = a[x]
      /\ \A x \in DOMAIN bce : abce[x] = bce[x]
  <2>1. \A x \in DOMAIN bce : x \notin DOMAIN a
    BY SMT, <1>2, <1>3, <1>4, <1>5, <1>7, <1>8
  <2> QED
    BY <2>1, JoinedIs
<1> HIDE DEF abce
<1> DEFINE f == Joined(t, abce)
<1>10. /\ DOMAIN f = DOMAIN t \cup DOMAIN abce
       /\ \A x \in DOMAIN t : f[x] = t[x]
       /\ \A x \in DOMAIN abce : f[x] = abce[x]
  <2>1. \A x \in DOMAIN abce : x \notin DOMAIN t
    BY SMT, <1>1, <1>2, <1>3, <1>4, <1>5, <1>7, <1>8, <1>9
  <2> QED
    BY <2>1, JoinedIs
<1> HIDE DEF f
<1>11. Floats(mt) = f
  BY <1>6 DEF f, abce, bce, ce
<1>12. DOMAIN f = {1007, 1011, 1013, 1015, 1020, 1022, 1024, 1026, 1033,
                   1040, 1042, 1044, 1046, 1053, 1060, 1062, 1064, 1066, 1073} \cup DOMAIN e
  BY SMT, <1>1, <1>2, <1>3, <1>4, <1>7, <1>8, <1>9, <1>10
<1>13. \A x \in DOMAIN e : f[x] = e[x]
  BY <1>7, <1>8, <1>9, <1>10
<1>14. /\ f[1007] = OrZero(mt.n_current)
       /\ f[1011] = mt.current["a"] + mt.current["b"] + mt.current["c"]
       /\ f[1013] = mt.act_power["total"] /\ f[1015] = mt.aprt_power["total"]
  BY SMT, <1>1, <1>10
<1>15. /\ f[1020] = mt.voltage["a"] /\ f[1022] = mt.current["a"]
       /\ f[1024] = mt.act_power["a"] /\ f[1026] = mt.aprt_power["a"] /\ f[1033] = mt.freq
  BY SMT, <1>2, <1>9, <1>10
<1>16. /\ f[1040] = mt.voltage["b"] /\ f[1042] = mt.current["b"]
       /\ f[1044] = mt.act_power["b"] /\ f[1046] = mt.aprt_power["b"] /\ f[1053] = mt.freq
  BY SMT, <1>3, <1>8, <1>9, <1>10
<1>17. /\ f[1060] = mt.voltage["c"] /\ f[1062] = mt.current["c"]
       /\ f[1064] = mt.act_power["c"] /\ f[1066] = mt.aprt_power["c"] /\ f[1073] = mt.freq
  BY SMT, <1>4, <1>7, <1>8, <1>9, <1>10
<1> QED
  BY SMT, <1>11, <1>12, <1>13, <1>14, <1>15, <1>16, <1>17 DEF FloatsAre, e

\* Where a pair of registers is.
PairsAt ==
    {1000, 1007, 1011, 1013, 1015, 1020, 1022, 1024, 1026, 1028, 1033, 1040, 1042, 1044, 1046,
     1048, 1053, 1060, 1062, 1064, 1066, 1068, 1073, 1160, 1162, 1164, 1170, 1174, 1182, 1184,
     1190, 1194, 1202, 1204, 1210, 1214, 1222, 1224}

PairsAre(mt) ==
    LET pairs == Pairs(mt)
        floats == Floats(mt)
    IN  /\ DOMAIN pairs = PairsAt
        /\ \A x \in DOMAIN floats : x \in DOMAIN pairs /\ pairs[x] = FloatToRegs(floats[x], 1)
        /\ \A x \in {1028, 1048, 1068} : pairs[x] = FloatToRegs(PowerFactors(mt)[x], 100)
        /\ \A x \in {1000, 1160} : pairs[x] = Uint32ToRegs(Stamp(mt))

LEMMA PairsLaid ==
  ASSUME NEW mt
  PROVE  PairsAre(mt)
<1> DEFINE floats == Floats(mt)
           pf == PowerFactors(mt)
           stamps == Uint32s(mt)
           f == [a \in DOMAIN floats |-> FloatToRegs(floats[a], 1)]
           p == [a \in DOMAIN pf |-> FloatToRegs(pf[a], 100)]
           s == [a \in DOMAIN stamps |-> Uint32ToRegs(stamps[a])]
<1>1. Pairs(mt) = Joined(f, Joined(p, s))
  BY DEF Pairs
<1>2. DOMAIN pf = {1028, 1048, 1068}
  BY SMT DEF PowerFactors
<1>3. DOMAIN stamps = {1000, 1160} /\ \A x \in {1000, 1160} : stamps[x] = Stamp(mt)
  BY SMT DEF Uint32s
<1>4. DOMAIN floats = {1007, 1011, 1013, 1015, 1020, 1022, 1024, 1026, 1033,
                       1040, 1042, 1044, 1046, 1053, 1060, 1062, 1064, 1066, 1073}
                      \cup {1162, 1164, 1170, 1174, 1182, 1184, 1190, 1194, 1202, 1204,
                            1210, 1214, 1222, 1224}
  <2>1. DOMAIN Counters(mt.energy) = {1162, 1164, 1170, 1174, 1182, 1184, 1190, 1194, 1202, 1204,
                            1210, 1214, 1222, 1224}
    BY CountersLaid
  <2>2. DOMAIN floats = {1007, 1011, 1013, 1015, 1020, 1022, 1024, 1026, 1033,
                       1040, 1042, 1044, 1046, 1053, 1060, 1062, 1064, 1066, 1073}
                      \cup DOMAIN Counters(mt.energy)
    <3>1. FloatsAre(mt)
      BY FloatsLaid
    <3> QED
      BY <3>1 DEF FloatsAre
  <2> QED
    BY <2>1, <2>2
<1> HIDE DEF floats, pf, stamps
<1>5. DOMAIN f = DOMAIN floats /\ \A x \in DOMAIN floats : f[x] = FloatToRegs(floats[x], 1)
  OBVIOUS
<1>6. DOMAIN p = {1028, 1048, 1068} /\ \A x \in {1028, 1048, 1068} : p[x] = FloatToRegs(pf[x], 100)
  BY <1>2
<1>7. DOMAIN s = {1000, 1160} /\ \A x \in {1000, 1160} : s[x] = Uint32ToRegs(Stamp(mt))
  BY <1>3
<1> HIDE DEF f, p, s
<1> DEFINE ps == Joined(p, s)
<1>8. /\ DOMAIN ps = DOMAIN p \cup DOMAIN s
      /\ \A x \in DOMAIN p : ps[x] = p[x]
      /\ \A x \in DOMAIN s : ps[x] = s[x]
  <2>1. \A x \in DOMAIN s : x \notin DOMAIN p
    BY SMT, <1>6, <1>7
  <2> QED
    BY <2>1, JoinedIs
<1> HIDE DEF ps
<1> DEFINE all == Joined(f, ps)
<1>9. /\ DOMAIN all = DOMAIN f \cup DOMAIN ps
      /\ \A x \in DOMAIN f : all[x] = f[x]
      /\ \A x \in DOMAIN ps : all[x] = ps[x]
  <2>1. \A x \in DOMAIN ps : x \notin DOMAIN f
    BY SMT, <1>4, <1>5, <1>6, <1>7, <1>8
  <2> QED
    BY <2>1, JoinedIs
<1> HIDE DEF all
<1>10. DOMAIN all = PairsAt
  BY SMT, <1>4, <1>5, <1>6, <1>7, <1>8, <1>9 DEF PairsAt
<1>11. \A x \in DOMAIN floats : x \in DOMAIN all /\ all[x] = FloatToRegs(floats[x], 1)
  BY <1>5, <1>9
<1>12. \A x \in {1028, 1048, 1068} : all[x] = FloatToRegs(pf[x], 100)
  BY <1>6, <1>8, <1>9
<1>13. \A x \in {1000, 1160} : all[x] = Uint32ToRegs(Stamp(mt))
  BY <1>7, <1>8, <1>9
<1> QED
  BY <1>1, <1>10, <1>11, <1>12, <1>13 DEF PairsAre, floats, pf, all, ps

\* A value in two registers of its own.
Laid(mt, shown) ==
    /\ shown.at \in PairsAt /\ shown.at \notin {1000, 1160}
    /\ Pairs(mt)[shown.at] = FloatToRegs(shown.value, Unit(shown.at))

LEMMA PowerFactorsLaid ==
  ASSUME NEW mt
  PROVE  /\ PowerFactors(mt)[1028] = mt.pf["a"] /\ PowerFactors(mt)[1048] = mt.pf["b"]
         /\ PowerFactors(mt)[1068] = mt.pf["c"]
  BY SMT DEF PowerFactors

LEMMA TotalsShown ==
  ASSUME NEW mt, NEW now
  PROVE  LET s == FullStatus(mt, now)
         IN  /\ Laid(mt, At(1007, OrZero(s.em.n_current))) /\ Laid(mt, At(1011, s.em.total_current))
             /\ Laid(mt, At(1013, s.em.act_power["total"]))
             /\ Laid(mt, At(1015, s.em.aprt_power["total"]))
             /\ Laid(mt, At(1162, s.emdata.act["total"]))
             /\ Laid(mt, At(1164, s.emdata.ret["total"]))
<1> DEFINE s == FullStatus(mt, now)
           f == Floats(mt)
<1>1. /\ s.em.n_current = mt.n_current
      /\ s.em.total_current = mt.current["a"] + mt.current["b"] + mt.current["c"]
      /\ s.em.act_power = mt.act_power /\ s.em.aprt_power = mt.aprt_power
      /\ s.emdata.act = mt.energy.act /\ s.emdata.ret = mt.energy.ret
  BY DEF FullStatus, EmStatus, EmDataStatus
<1> HIDE DEF s
<1>2. /\ {1007, 1011, 1013, 1015, 1162, 1164} \subseteq DOMAIN f
      /\ f[1007] = OrZero(mt.n_current)
      /\ f[1011] = mt.current["a"] + mt.current["b"] + mt.current["c"]
      /\ f[1013] = mt.act_power["total"] /\ f[1015] = mt.aprt_power["total"]
      /\ f[1162] = mt.energy.act["total"] /\ f[1164] = mt.energy.ret["total"]
  <2> DEFINE e == Counters(mt.energy)
  <2>1. /\ 1162 \in DOMAIN e /\ 1164 \in DOMAIN e
        /\ e[1162] = mt.energy.act["total"] /\ e[1164] = mt.energy.ret["total"]
    BY CountersLaid
  <2> HIDE DEF e
  <2>2. FloatsAre(mt)
    BY FloatsLaid
  <2>3. {1007, 1011, 1013, 1015, 1162, 1164} \subseteq DOMAIN f
    BY <2>1, <2>2 DEF FloatsAre, e
  <2>4. f[1162] = e[1162] /\ f[1164] = e[1164]
    BY <2>1, <2>2 DEF FloatsAre, e
  <2> QED
    BY <2>1, <2>2, <2>3, <2>4 DEF FloatsAre
<1>3. \A x \in {1007, 1011, 1013, 1015, 1162, 1164} : Pairs(mt)[x] = FloatToRegs(f[x], 1)
  <2>1. PairsAre(mt)
    BY PairsLaid
  <2> QED
    BY <1>2, <2>1 DEF PairsAre
<1> HIDE DEF f
<1>4. \A x \in {1007, 1011, 1013, 1015, 1162, 1164} :
         x \in PairsAt /\ x \notin {1000, 1160} /\ Unit(x) = 1
  BY SMT DEF PairsAt, Unit
<1> QED
  BY <1>1, <1>2, <1>3, <1>4 DEF Laid, At, s

PhaseFloatsAre(mt, p) ==
    LET f == Floats(mt)
        d == Distance[p]
    IN  /\ {1020 + d, 1022 + d, 1024 + d, 1026 + d, 1033 + d, 1170 + d, 1174 + d, 1182 + d, 1184 + d}
             \subseteq DOMAIN f
        /\ f[1020 + d] = mt.voltage[p] /\ f[1022 + d] = mt.current[p]
        /\ f[1024 + d] = mt.act_power[p] /\ f[1026 + d] = mt.aprt_power[p] /\ f[1033 + d] = mt.freq
        /\ f[1170 + d] = mt.energy.act[p] /\ f[1174 + d] = mt.energy.ret[p]
        /\ f[1182 + d] = mt.energy.act[p] /\ f[1184 + d] = mt.energy.ret[p]

LEMMA PhaseFloatsLaid ==
  ASSUME NEW mt, NEW p \in Phases
  PROVE  PhaseFloatsAre(mt, p)
<1> DEFINE f == Floats(mt)
           g == mt.energy
           e == Counters(g)
<1>1. /\ DOMAIN e = {1162, 1164, 1170, 1174, 1182, 1184, 1190, 1194, 1202, 1204,
                     1210, 1214, 1222, 1224}
      /\ e[1170] = g.act["a"] /\ e[1174] = g.ret["a"]
      /\ e[1182] = g.act["a"] /\ e[1184] = g.ret["a"]
      /\ e[1190] = g.act["b"] /\ e[1194] = g.ret["b"]
      /\ e[1202] = g.act["b"] /\ e[1204] = g.ret["b"]
      /\ e[1210] = g.act["c"] /\ e[1214] = g.ret["c"]
      /\ e[1222] = g.act["c"] /\ e[1224] = g.ret["c"]
  <2> HIDE DEF g
  <2> QED
    BY CountersLaid
<1>2. FloatsAre(mt)
  BY FloatsLaid
<1>3. \A x \in DOMAIN e : x \in DOMAIN f /\ f[x] = e[x]
  BY <1>2 DEF FloatsAre
<1> HIDE DEF e
<1>4. CASE p = "a"
  <2>1. Distance[p] = 0
    BY <1>4 DEF Distance
  <2>2. {1020, 1022, 1024, 1026, 1033} \subseteq DOMAIN f
    BY <1>2 DEF FloatsAre
  <2> QED
    BY SMT, <1>1, <1>2, <1>3, <1>4, <2>1, <2>2 DEF FloatsAre, PhaseFloatsAre
<1>5. CASE p = "b"
  <2>1. Distance[p] = 20
    BY <1>5 DEF Distance
  <2>2. {1040, 1042, 1044, 1046, 1053} \subseteq DOMAIN f
    BY <1>2 DEF FloatsAre
  <2> QED
    BY SMT, <1>1, <1>2, <1>3, <1>5, <2>1, <2>2 DEF FloatsAre, PhaseFloatsAre
<1>6. CASE p = "c"
  <2>1. Distance[p] = 40
    BY <1>6 DEF Distance
  <2>2. {1060, 1062, 1064, 1066, 1073} \subseteq DOMAIN f
    BY <1>2 DEF FloatsAre
  <2> QED
    BY SMT, <1>1, <1>2, <1>3, <1>6, <2>1, <2>2 DEF FloatsAre, PhaseFloatsAre
<1> QED
  BY <1>4, <1>5, <1>6 DEF Phases

LEMMA PhaseShown ==
  ASSUME NEW mt, NEW now, NEW p \in Phases, NEW shown \in PhaseShows(FullStatus(mt, now), p)
  PROVE  Laid(mt, shown)
<1> DEFINE s == FullStatus(mt, now)
           f == Floats(mt)
<1>1. /\ s.em.voltage = mt.voltage /\ s.em.current = mt.current /\ s.em.pf = mt.pf
      /\ s.em.freq = mt.freq /\ s.em.act_power = mt.act_power /\ s.em.aprt_power = mt.aprt_power
      /\ s.emdata.act = mt.energy.act /\ s.emdata.ret = mt.energy.ret
  BY DEF FullStatus, EmStatus, EmDataStatus
<1>2. PhaseFloatsAre(mt, p) /\ PairsAre(mt)
  BY PhaseFloatsLaid, PairsLaid
<1> HIDE DEF s
<1>3. PICK d \in {0, 20, 40} : d = Distance[p]
  BY DEF Phases, Distance
<1>4. CASE shown = At(1028 + d, s.em.pf[p])
  <2>1. PowerFactors(mt)[1028 + d] = mt.pf[p]
    BY PowerFactorsLaid, <1>3 DEF Phases, Distance
  <2>2. 1028 + d \in {1028, 1048, 1068}
    BY <1>3
  <2>3. Pairs(mt)[1028 + d] = FloatToRegs(mt.pf[p], 100)
    BY <1>2, <2>1, <2>2 DEF PairsAre
  <2>4. 1028 + d \in PairsAt /\ 1028 + d \notin {1000, 1160} /\ Unit(1028 + d) = 100
    BY SMT, <2>2 DEF PairsAt, Unit
  <2> QED
    BY <1>1, <1>4, <2>3, <2>4 DEF Laid, At
<1> DEFINE Addresses == {1020 + d, 1022 + d, 1024 + d, 1026 + d, 1033 + d,
                         1170 + d, 1174 + d, 1182 + d, 1184 + d}
<1>5. ASSUME NEW x \in Addresses, shown = At(x, f[x]) PROVE Laid(mt, shown)
  <2>1. Addresses \subseteq DOMAIN f
    BY <1>2, <1>3 DEF PhaseFloatsAre
  <2>2. Pairs(mt)[x] = FloatToRegs(f[x], 1)
    BY <1>2, <2>1 DEF PairsAre
  <2>3. x \in PairsAt /\ x \notin {1000, 1160} /\ Unit(x) = 1
    BY SMT DEF PairsAt, Unit
  <2> QED
    BY <1>5, <2>2, <2>3 DEF Laid, At
<1>6. /\ f[1020 + d] = s.em.voltage[p] /\ f[1022 + d] = s.em.current[p]
      /\ f[1024 + d] = s.em.act_power[p] /\ f[1026 + d] = s.em.aprt_power[p]
      /\ f[1033 + d] = s.em.freq
      /\ f[1170 + d] = s.emdata.act[p] /\ f[1174 + d] = s.emdata.ret[p]
      /\ f[1182 + d] = s.emdata.act[p] /\ f[1184 + d] = s.emdata.ret[p]
  BY <1>1, <1>2, <1>3 DEF PhaseFloatsAre
<1> HIDE DEF f
<1>7. shown \in {At(1020 + d, s.em.voltage[p]), At(1022 + d, s.em.current[p]),
                 At(1024 + d, s.em.act_power[p]), At(1026 + d, s.em.aprt_power[p]),
                 At(1028 + d, s.em.pf[p]), At(1033 + d, s.em.freq),
                 At(1170 + d, s.emdata.act[p]), At(1174 + d, s.emdata.ret[p]),
                 At(1182 + d, s.emdata.act[p]), At(1184 + d, s.emdata.ret[p])}
  BY <1>3 DEF PhaseShows, s
<1>8. shown = At(1028 + d, s.em.pf[p]) \/ \E x \in Addresses : shown = At(x, f[x])
  BY <1>6, <1>7
<1> QED
  BY <1>4, <1>5, <1>8

LEMMA AllShown ==
  ASSUME NEW mt, NEW now, NEW shown \in Shows(FullStatus(mt, now))
  PROVE  Laid(mt, shown)
<1> DEFINE s == FullStatus(mt, now)
<1>1. CASE shown \in UNION {PhaseShows(s, p) : p \in Phases}
  BY <1>1, PhaseShown
<1>2. CASE shown \in {At(1007, OrZero(s.em.n_current)), At(1011, s.em.total_current),
                      At(1013, s.em.act_power["total"]), At(1015, s.em.aprt_power["total"]),
                      At(1162, s.emdata.act["total"]), At(1164, s.emdata.ret["total"])}
  <2>1. /\ Laid(mt, At(1007, OrZero(s.em.n_current))) /\ Laid(mt, At(1011, s.em.total_current))
        /\ Laid(mt, At(1013, s.em.act_power["total"]))
        /\ Laid(mt, At(1015, s.em.aprt_power["total"]))
        /\ Laid(mt, At(1162, s.emdata.act["total"]))
        /\ Laid(mt, At(1164, s.emdata.ret["total"]))
    BY TotalsShown
  <2> HIDE DEF s
  <2> QED
    BY <1>2, <2>1
<1> QED
  BY <1>1, <1>2 DEF Shows

-------------------------------------------------------------------------------
(* What a client makes of the registers. *)

LEMMA RegisterIs ==
  ASSUME NEW pairs, DOMAIN pairs = PairsAt, NEW a \in PairsAt
  PROVE  Register(pairs, a) = pairs[a][1] /\ Register(pairs, a + 1) = pairs[a][2]
<1>1. DOMAIN Identity = 0..13
  BY IdentityAssumption
<1>2. /\ a \notin 0..13 /\ a + 1 \notin 0..13 /\ a + 1 \notin PairsAt /\ a + 1 - 1 = a
  BY SMT DEF PairsAt
<1>3. Register(pairs, a) = pairs[a][1]
  <2>1. a \notin DOMAIN Identity /\ a \in DOMAIN pairs
    BY <1>1, <1>2
  <2> QED
    BY <2>1 DEF Register
<1> DEFINE b == a + 1
<1>4. b \notin 0..13 /\ b \notin PairsAt /\ b - 1 = a
  BY SMT DEF PairsAt
<1> HIDE DEF b
<1>5. Register(pairs, b) = pairs[a][2]
  <2>1. b \notin DOMAIN Identity /\ b \notin DOMAIN pairs /\ b - 1 \in DOMAIN pairs
    BY <1>1, <1>4
  <2>2. Register(pairs, b) = pairs[b - 1][2]
    BY <2>1 DEF Register
  <2> QED
    BY <1>4, <2>2
<1> QED
  BY <1>3, <1>5 DEF b

LEMMA ShownRegisters ==
  ASSUME NEW mt, NEW shown, Laid(mt, shown)
  PROVE  FloatOf(Register(Pairs(mt), shown.at + 1), Register(Pairs(mt), shown.at), Unit(shown.at))
           = ReadBack(shown.value, Unit(shown.at))
<1> DEFINE pairs == Pairs(mt)
           u == Unit(shown.at)
<1>1. DOMAIN pairs = PairsAt
  <2>1. PairsAre(mt)
    BY PairsLaid
  <2> QED
    BY <2>1 DEF PairsAre
<1>2. shown.at \in PairsAt /\ pairs[shown.at] = FloatToRegs(shown.value, u)
  BY DEF Laid
<1> HIDE DEF pairs, u
<1>3. /\ Register(pairs, shown.at) = FloatWords(shown.value, u)[2]
      /\ Register(pairs, shown.at + 1) = FloatWords(shown.value, u)[1]
  <2>1. /\ Register(pairs, shown.at) = pairs[shown.at][1]
        /\ Register(pairs, shown.at + 1) = pairs[shown.at][2]
    BY <1>1, <1>2, RegisterIs
  <2>2. /\ pairs[shown.at][1] = FloatWords(shown.value, u)[2]
        /\ pairs[shown.at][2] = FloatWords(shown.value, u)[1]
    BY <1>2 DEF FloatToRegs
  <2> QED
    BY <2>1, <2>2
<1> QED
  BY <1>3 DEF ReadBack, pairs, u

LEMMA HalvesAddUp ==
  ASSUME NEW v \in Nat, v < 4294967296
  PROVE  (v % 65536) + 65536 * ((v \div 65536) % 65536) = v
<1>1. PICK q \in Int : q = v \div 65536
  BY SMT
<1>2. PICK r \in Int : r = v % 65536
  BY SMT
<1>3. v = 65536 * q + r /\ 0 <= r /\ r < 65536
  BY SMT, <1>1, <1>2
<1>4. 0 <= q /\ q < 65536
  BY SMT, <1>3
<1>5. q % 65536 = q
  BY SMT, <1>4
<1> QED
  BY SMT, <1>1, <1>2, <1>3, <1>5

LEMMA StampRegisters ==
  ASSUME NEW mt, Stamp(mt) \in Nat, Stamp(mt) < 4294967296, NEW a \in {1000, 1160}
  PROVE  Register(Pairs(mt), a) + 65536 * Register(Pairs(mt), a + 1) = Stamp(mt)
<1> DEFINE pairs == Pairs(mt)
           v == Stamp(mt)
<1>1. DOMAIN pairs = PairsAt /\ pairs[a] = Uint32ToRegs(v)
  <2>1. PairsAre(mt)
    BY SMT, PairsLaid
  <2> QED
    BY SMT, <2>1 DEF PairsAre
<1>2. a \in PairsAt
  BY SMT DEF PairsAt
<1> HIDE DEF pairs
<1>3. Register(pairs, a) = pairs[a][1] /\ Register(pairs, a + 1) = pairs[a][2]
  BY SMT, <1>1, <1>2, RegisterIs
<1>4. (v % 65536) + 65536 * ((v \div 65536) % 65536) = v
  BY SMT, HalvesAddUp
<1>5. pairs[a][1] = v % 65536 /\ pairs[a][2] = (v \div 65536) % 65536
  BY SMT, <1>1 DEF Uint32ToRegs
<1> QED
  BY SMT, <1>3, <1>4, <1>5 DEF pairs

-------------------------------------------------------------------------------
(* How large what is shown can be. *)

\* v is a whole number of at most b.
Bounded(v, b) == v \in Int /\ Abs(v) <= b

LEMMA BoundedMore ==
  ASSUME NEW a \in Nat, NEW b \in Nat, a <= b, NEW v, Bounded(v, a)
  PROVE  Bounded(v, b)
  BY DEF Bounded, Abs

LEMMA SumBounded ==
  ASSUME NEW b \in Nat, NEW x, NEW y, NEW z, Bounded(x, b), Bounded(y, b), Bounded(z, b)
  PROVE  Bounded(x + y + z, 3 * b)
  BY DEF Bounded, Abs

LEMMA ReadBounded ==
  ASSUME NEW f, NEW x \in DOMAIN f, NEW b \in Nat, f[x] \in OptInt, Within(f[x], b)
  PROVE  Bounded(Read(f)[x], b)
  BY DEF Read, OrDefault, Bounded, Within, Abs, OptInt

\* A share of a total is no larger than the total.
LEMMA ShareBounded ==
  ASSUME NEW b \in Nat, NEW T, Bounded(T, b), NEW w \in Nat, NEW W \in Nat \ {0}, w <= W
  PROVE  Bounded((T * w) \div W, b)
<1>1. T \in Int /\ T <= b /\ -b <= T
  BY DEF Bounded, Abs
<1>2. PICK x \in Int : x = T * w
  BY <1>1
<1>3. x <= b * W /\ -(b * W) <= x
  <2>1. T * w <= b * w /\ (-b) * w <= T * w
    BY <1>1
  <2>2. b * w <= b * W
    OBVIOUS
  <2>3. (-b) * w = -(b * w) /\ b * w \in Int /\ b * W \in Int
    OBVIOUS
  <2> QED
    BY <1>2, <2>1, <2>2, <2>3
<1>4. PICK q \in Int, r \in Int : q = x \div W /\ r = x % W /\ x = W * q + r /\ 0 <= r /\ r < W
  OBVIOUS
<1>5. q <= b
  <2>1. W * q <= W * b
    BY <1>3, <1>4
  <2> QED
    BY <2>1
<1>6. -b <= q
  <2>1. W * q > W * (-b - 1)
    BY <1>3, <1>4
  <2>2. q > -b - 1
    BY <2>1
  <2> QED
    BY <2>2
<1> QED
  BY <1>1, <1>2, <1>4, <1>5, <1>6 DEF Bounded, Abs

LEMMA SplitBounded ==
  ASSUME NEW b \in Nat, NEW T, Bounded(T, b), NEW current \in [Phases -> Int], NEW p \in Phases
  PROVE  Bounded(SplitByCurrent(T, current)[p], b)
<1>1. PICK x \in Nat, y \in Nat, z \in Nat :
        x = Weight(current["a"]) /\ y = Weight(current["b"]) /\ z = Weight(current["c"])
  BY WeightsType, ChannelNames
<1>2. CASE x + y + z <= 0
  <2>1. SplitByCurrent(T, current)[p] = IF p = "a" THEN T ELSE 0
    BY <1>1, <1>2 DEF SplitByCurrent
  <2> QED
    BY <2>1 DEF Bounded, Abs
<1>3. CASE x + y + z > 0
  <2>1. PICK W \in Nat \ {0} : W = x + y + z
    BY <1>3
  <2>2. SplitByCurrent(T, current)[p] = (T * Weight(current[p])) \div W
    BY <1>1, <1>3, <2>1 DEF SplitByCurrent
  <2>3. Weight(current[p]) \in Nat /\ Weight(current[p]) <= W
    BY <1>1, <2>1 DEF Phases
  <2> QED
    BY <2>2, <2>3, ShareBounded
<1> QED
  BY <1>2, <1>3

\* A filled measurement is within three times its registers.
LEMMA FilledBounded ==
  ASSUME NEW b \in Nat, NEW g \in [Channels -> Int], \A c \in Channels : Bounded(g[c], b),
         NEW current \in [Phases -> Int], NEW c \in Channels
  PROVE  Bounded(DistributeMissing(SynthesizeTotal(g), current)[c], 3 * b)
<1>1. \A v : Bounded(v, b) => Bounded(v, 3 * b)
  BY DEF Bounded, Abs
<1>2. CASE AnyPhase(g)
  <2> DEFINE h == SynthesizeTotal(g)
  <2>1. \A p \in Phases : h[p] = g[p]
    <3>1. g["total"] \in Int /\ \A p \in Phases : g[p] \in Int
      BY ChannelNames
    <3>2. SumOf(g) \in Int
      BY <3>1, ChannelNames DEF SumOf
    <3>3. h = g \/ h = WithTotal(g, SumOf(g))
      BY DEF SynthesizeTotal
    <3>4. \A p \in Phases : WithTotal(g, SumOf(g))[p] = g[p]
      <4> HIDE DEF h
      <4> QED
        BY <3>1, <3>2, WithTotalType
    <3> HIDE DEF h
    <3> QED
      BY Zenon, <3>3, <3>4
  <2>2. h["total"] = g["total"] \/ h["total"] = g["a"] + g["b"] + g["c"]
    BY <1>2, SynthesizedKept, ChannelNames DEF SynthesizeTotal
  <2>3. Bounded(g["a"] + g["b"] + g["c"], 3 * b) /\ Bounded(g["total"], b)
    BY SumBounded, ChannelNames
  <2> HIDE DEF h
  <2>4. AnyPhase(h)
    BY <1>2, <2>1 DEF AnyPhase
  <2>5. DistributeMissing(h, current) = h
    BY <2>4 DEF DistributeMissing
  <2>6. Bounded(h[c], 3 * b)
    BY <1>1, <2>1, <2>2, <2>3, ChannelNames
  <2> QED
    BY <2>5, <2>6 DEF h
<1>3. CASE ~AnyPhase(g)
  <2>1. SynthesizeTotal(g) = g
    BY <1>3 DEF SynthesizeTotal
  <2>2. CASE g["total"] = 0
    <3>1. DistributeMissing(g, current) = g
      BY <2>2 DEF DistributeMissing
    <3> QED
      BY <1>1, <2>1, <3>1
  <2>3. CASE g["total"] # 0
    <3>1. DistributeMissing(g, current)
            = WithTotal(SplitByCurrent(g["total"], current), g["total"])
      BY <1>3, <2>3 DEF DistributeMissing
    <3>2. g["total"] \in Int /\ Bounded(g["total"], b)
      BY ChannelNames
    <3>3. \A p \in Phases : /\ SplitByCurrent(g["total"], current)[p] \in Int
                            /\ Bounded(SplitByCurrent(g["total"], current)[p], b)
      BY <3>2, SplitBounded, SharesType
    <3>4. /\ WithTotal(SplitByCurrent(g["total"], current), g["total"])["total"] = g["total"]
          /\ \A p \in Phases : WithTotal(SplitByCurrent(g["total"], current), g["total"])[p]
                                 = SplitByCurrent(g["total"], current)[p]
      BY <3>2, <3>3, WithTotalType
    <3> QED
      BY <1>1, <2>1, <3>1, <3>2, <3>3, <3>4, ChannelNames
  <2> QED
    BY <2>2, <2>3
<1> QED
  BY <1>2, <1>3

LEMMA ProductBounded ==
  ASSUME NEW x, NEW y, NEW b \in Nat, Bounded(x, b), Bounded(y, b)
  PROVE  Bounded(Abs(x * y), b * b)
<1>1. PICK i \in Nat : i <= b /\ (x = i \/ x = -i)
  BY DEF Bounded, Abs
<1>2. PICK j \in Nat : j <= b /\ (y = j \/ y = -j)
  BY DEF Bounded, Abs
<1>3. i * j <= b * b /\ i * j \in Nat
  <2>1. i * j <= b * j /\ b * j <= b * b
    BY <1>1, <1>2
  <2>2. i * j \in Int /\ i * j >= 0 /\ b * j \in Int /\ b * b \in Int
    OBVIOUS
  <2> QED
    BY <2>1, <2>2
<1>4. x * y = i * j \/ x * y = -(i * j)
  BY <1>1, <1>2
<1>5. Abs(x * y) = i * j
  BY <1>3, <1>4 DEF Abs
<1> QED
  BY <1>3, <1>5 DEF Bounded, Abs

\* What a measurement made of the registers shown may be.
MeasuredInRange(mm) ==
    /\ mm.n_current \in OptInt /\ Within(mm.n_current, 16384) /\ Bounded(mm.freq, 16384)
    /\ \A p \in Phases : /\ Bounded(mm.voltage[p], 16384) /\ Bounded(mm.current[p], 16384)
                         /\ mm.pf[p] \in -100..100
    /\ \A c \in Channels : /\ Bounded(mm.act_power[c], 3 * 268435456)
                           /\ Bounded(mm.aprt_power[c], 3 * 268435456)

LEMMA ZeroInRange == MeasuredInRange(ZeroMeasurements)
<1>1. \A b \in Nat : Bounded(0, b)
  BY DEF Bounded, Abs
<1>2. Bounded(50, 16384)
  BY SMT DEF Bounded, Abs
<1>3. 16384 \in Nat /\ 3 * 268435456 \in Nat
  BY SMT
<1>4. /\ \A c \in Channels : WithTotal(Zero, 0)[c] = 0
      /\ \A p \in Phases : Zero[p] = 0
  BY DEF WithTotal, Zero, Channels
<1>5. 0 \in -100..100
  OBVIOUS
<1> QED
  BY SMT, <1>1, <1>2, <1>3, <1>4, <1>5
  DEF MeasuredInRange, ZeroMeasurements, OptInt, Within

\* The registers shown, as they are read.
LEMMA ShownRead ==
  ASSUME NEW r \in Shown
  PROVE  /\ r \in Windows
         /\ r.n_current \in OptInt /\ Within(r.n_current, 16384)
         /\ Bounded(OrDefault(r.freq, 50), 16384)
         /\ \A p \in Phases : /\ Bounded(Read(r.voltage)[p], 16384)
                              /\ Bounded(Read(r.current)[p], 16384)
                              /\ OrDefault(r.pf[p], 0) \in -100..100
         /\ \A c \in Channels : /\ Bounded(Read(r.act_power)[c], 268435456)
                                /\ Bounded(Read(r.aprt_power)[c], 268435456)
<1>1. /\ r \in Windows /\ r.n_current \in OptInt /\ r.freq \in OptInt
      /\ r.voltage \in [Phases -> OptInt] /\ r.current \in [Phases -> OptInt]
      /\ r.pf \in [Phases -> OptInt]
      /\ r.act_power \in [Channels -> OptInt] /\ r.aprt_power \in [Channels -> OptInt]
  BY WindowAssumption, ShownAssumption
<1>2. 2^14 = 16384 /\ 2^28 = 268435456
  BY SMT
<1>3. /\ Within(r.n_current, 2^14) /\ Within(r.freq, 2^14)
      /\ \A p \in Phases :
            Within(r.voltage[p], 2^14) /\ Within(r.current[p], 2^14) /\ Within(r.pf[p], 100)
      /\ \A c \in Channels : Within(r.act_power[c], 2^28) /\ Within(r.aprt_power[c], 2^28)
  BY SMT, RangeAssumption
<1> DEFINE small == 16384
           large == 268435456
<1>4. small \in Nat /\ large \in Nat /\ 2^14 = small /\ 2^28 = large /\ small >= 50
  BY SMT, <1>2
<1> HIDE DEF small, large
<1>5. \A p \in Phases : Bounded(Read(r.voltage)[p], small) /\ Bounded(Read(r.current)[p], small)
  BY <1>1, <1>3, <1>4, ReadBounded
<1>6. \A c \in Channels : Bounded(Read(r.act_power)[c], large) /\ Bounded(Read(r.aprt_power)[c], large)
  BY <1>1, <1>3, <1>4, ReadBounded
<1>7. Bounded(OrDefault(r.freq, 50), small)
  <2>1. r.freq = None \/ (r.freq \in Int /\ Abs(r.freq) <= small)
    BY <1>1, <1>3, <1>4 DEF Within, OptInt
  <2>2. CASE r.freq = None
    BY <1>4, <2>2 DEF OrDefault, Bounded, Abs
  <2>3. CASE r.freq \in Int /\ Abs(r.freq) <= small
    <3>1. r.freq # None
      BY <2>3, NoneAssumption
    <3> QED
      BY <2>3, <3>1 DEF OrDefault, Bounded
  <2> QED
    BY <2>1, <2>2, <2>3
<1>8. \A p \in Phases : OrDefault(r.pf[p], 0) \in -100..100
  <2> SUFFICES ASSUME NEW p \in Phases PROVE OrDefault(r.pf[p], 0) \in -100..100
    OBVIOUS
  <2>1. CASE r.pf[p] = None
    BY <2>1 DEF OrDefault
  <2>2. CASE r.pf[p] # None
    <3>1. r.pf[p] \in Int /\ Abs(r.pf[p]) <= 100
      BY <1>1, <1>3, <2>2 DEF OptInt, Within
    <3> QED
      BY <2>2, <3>1 DEF OrDefault, Abs
  <2> QED
    BY <2>1, <2>2
<1> QED
  BY <1>1, <1>3, <1>4, <1>5, <1>6, <1>7, <1>8 DEF small, large

LEMMA ApparentBounded ==
  ASSUME NEW voltage, NEW current, NEW c \in Channels,
         \A p \in Phases : Bounded(voltage[p], 16384) /\ Bounded(current[p], 16384)
  PROVE  LET apparent == Apparent(voltage, current)
         IN  Bounded(WithTotal(apparent, SumOf(apparent))[c], 3 * 268435456)
<1> DEFINE apparent == Apparent(voltage, current)
           small == 16384
           large == 268435456
<1>1. small \in Nat /\ large \in Nat /\ small * small = large
  BY SMT
<1> HIDE DEF small, large
<1>2. \A p \in Phases : Bounded(voltage[p], small) /\ Bounded(current[p], small)
  BY SMT DEF small
<1>3. \A p \in Phases : Bounded(Abs(voltage[p] * current[p]), large)
  BY <1>1, <1>2, ProductBounded
<1>4. \A p \in Phases : apparent[p] = Abs(voltage[p] * current[p])
  BY DEF Apparent
<1> HIDE DEF apparent
<1>5. \A p \in Phases : Bounded(apparent[p], large) /\ apparent[p] \in Int
  BY <1>3, <1>4 DEF Bounded
<1>6. Bounded(SumOf(apparent), 3 * large) /\ SumOf(apparent) \in Int
  BY <1>1, <1>5, SumBounded, ChannelNames DEF SumOf, Bounded
<1>7. \A v : Bounded(v, large) => Bounded(v, 3 * large)
  BY <1>1 DEF Bounded, Abs
<1>8. /\ WithTotal(apparent, SumOf(apparent))["total"] = SumOf(apparent)
      /\ \A p \in Phases : WithTotal(apparent, SumOf(apparent))[p] = apparent[p]
  BY <1>5, <1>6, WithTotalType
<1> QED
  BY <1>5, <1>6, <1>7, <1>8, ChannelNames DEF large, apparent

LEMMA ParsedInRange ==
  ASSUME NEW r \in Shown
  PROVE  MeasuredInRange(ParseRegisters(r))
<1>1. CASE r.short
  BY SMT, <1>1, ZeroInRange DEF ParseRegisters
<1>2. CASE ~r.short
  <2> DEFINE mm == Measured(r)
             current == Read(r.current)
             voltage == Read(r.voltage)
  <2>1. ParseRegisters(r) = mm
    BY <1>2, ShownRead, WindowAssumption DEF ParseRegisters
  <2>2. /\ mm.n_current = r.n_current /\ mm.freq = OrDefault(r.freq, 50)
        /\ mm.voltage = voltage /\ mm.current = current
    BY DEF Measured
  <2>3. /\ r \in Windows
        /\ r.n_current \in OptInt /\ Within(r.n_current, 16384)
        /\ Bounded(OrDefault(r.freq, 50), 16384)
        /\ \A p \in Phases : /\ Bounded(voltage[p], 16384) /\ Bounded(current[p], 16384)
                             /\ OrDefault(r.pf[p], 0) \in -100..100
        /\ \A c \in Channels : /\ Bounded(Read(r.act_power)[c], 268435456)
                               /\ Bounded(Read(r.aprt_power)[c], 268435456)
    BY SMT, ShownRead
  <2>4. /\ voltage \in [Phases -> Int] /\ current \in [Phases -> Int]
        /\ Read(r.act_power) \in [Channels -> Int] /\ Read(r.aprt_power) \in [Channels -> Int]
        /\ mm.act_power = DistributeMissing(SynthesizeTotal(Read(r.act_power)), current)
        /\ mm.aprt_power
             = DistributeMissingAprt(SynthesizeTotal(Read(r.aprt_power)), voltage, current)
        /\ \A p \in Phases :
              mm.pf[p] = PowerFactor(mm.act_power[p], voltage[p], current[p], OrDefault(r.pf[p], 0))
    BY <2>3, MeasuredIs
  <2> HIDE DEF mm, current, voltage
  <2> DEFINE large == 268435456
  <2>5. large \in Nat /\ \A c \in Channels : /\ Bounded(Read(r.act_power)[c], large)
                                             /\ Bounded(Read(r.aprt_power)[c], large)
    BY SMT, <2>3
  <2> HIDE DEF large
  <2>6. \A c \in Channels : Bounded(mm.act_power[c], 3 * large)
    BY <2>4, <2>5, FilledBounded
  <2>7. \A c \in Channels : Bounded(mm.aprt_power[c], 3 * large)
    <3> DEFINE h == SynthesizeTotal(Read(r.aprt_power))
    <3>1. CASE h["total"] = 0
      <4>1. mm.aprt_power = WithTotal(Apparent(voltage, current), SumOf(Apparent(voltage, current)))
        BY <2>4, <3>1 DEF DistributeMissingAprt
      <4>2. \A c \in Channels :
              Bounded(WithTotal(Apparent(voltage, current), SumOf(Apparent(voltage, current)))[c],
                      3 * 268435456)
        BY SMT, <2>3, ApparentBounded
      <4> QED
        BY SMT, <4>1, <4>2 DEF large
    <3>2. CASE h["total"] # 0
      <4>1. mm.aprt_power = DistributeMissing(h, current)
        BY <2>4, <3>2 DEF DistributeMissingAprt
      <4> QED
        BY <2>4, <2>5, <4>1, FilledBounded
    <3> QED
      BY <3>1, <3>2
  <2>8. \A p \in Phases : mm.pf[p] \in -100..100
    <3> SUFFICES ASSUME NEW p \in Phases PROVE mm.pf[p] \in -100..100
      OBVIOUS
    <3>1. mm.act_power[p] \in Int /\ voltage[p] \in Int /\ current[p] \in Int
      BY <2>4, <2>6, ChannelNames DEF Bounded
    <3>2. CASE OrDefault(r.pf[p], 0) = 0
      <4>1. PICK power \in Int, v \in Int, i \in Int :
              power = mm.act_power[p] /\ v = voltage[p] /\ i = current[p]
        BY <3>1
      <4>2. mm.pf[p] = PowerFactor(power, v, i, 0)
        BY <2>4, <3>2, <4>1
      <4>3. PowerFactor(power, v, i, 0) \in -100..100
        BY PowerFactorSign
      <4> QED
        BY <4>2, <4>3
    <3>3. CASE OrDefault(r.pf[p], 0) # 0
      <4>1. mm.pf[p] = OrDefault(r.pf[p], 0)
        BY <2>4, <3>3 DEF PowerFactor
      <4>2. OrDefault(r.pf[p], 0) \in -100..100
        BY SMT, <2>3
      <4> QED
        BY <4>1, <4>2
    <3> QED
      BY <3>2, <3>3
  <2>9. MeasuredInRange(mm)
    BY SMT, <2>2, <2>3, <2>6, <2>7, <2>8 DEF MeasuredInRange, large
  <2> QED
    BY <2>1, <2>9
<1>3. r.short \in BOOLEAN
  BY SMT, WindowAssumption, ShownAssumption
<1> QED
  BY <1>1, <1>2, <1>3

\* What the meter may be, whatever was read of it.
MeterInRange(mt) ==
    /\ MeasuredInRange(mt)
    /\ \A c \in Channels : Bounded(mt.energy.act[c], Widest) /\ Bounded(mt.energy.ret[c], Widest)
    /\ mt.last_update_ts \in 0..Latest

LEMMA LimitsAre ==
  /\ Widest = 1073741823 /\ Latest = 2147483647 /\ Exact = 16777216 /\ Power[30] = 1073741824
<1>1. 2^30 = 1073741824 /\ 2^24 = 16777216
  BY SMT
<1> QED
  BY SMT, <1>1, HighPowers DEF Widest, Latest, Exact

LEMMA LimitsType == Widest \in Nat /\ Latest \in Nat
<1>1. 2^30 = 1073741824
  BY SMT
<1> QED
  BY SMT, <1>1 DEF Widest, Latest

LEMMA InitInRange == MeterInRange(InitMeter)
<1>1. MeasuredInRange(InitMeter)
  <2>1. /\ InitMeter.n_current = ZeroMeasurements.n_current
        /\ InitMeter.freq = ZeroMeasurements.freq /\ InitMeter.voltage = ZeroMeasurements.voltage
        /\ InitMeter.current = ZeroMeasurements.current /\ InitMeter.pf = ZeroMeasurements.pf
        /\ InitMeter.act_power = ZeroMeasurements.act_power
        /\ InitMeter.aprt_power = ZeroMeasurements.aprt_power
    BY DEF InitMeter, ZeroMeasurements
  <2> QED
    BY SMT, <2>1, ZeroInRange DEF MeasuredInRange
<1>2. \A c \in Channels : InitMeter.energy.act[c] = 0 /\ InitMeter.energy.ret[c] = 0
  BY DEF InitMeter, ZeroEnergy, WithTotal, Zero, Channels
<1>3. Bounded(0, Widest) /\ 0 \in 0..Latest
  BY LimitsType DEF Bounded, Abs
<1>4. InitMeter.last_update_ts = 0
  BY DEF InitMeter
<1> QED
  BY SMT, <1>1, <1>2, <1>3, <1>4 DEF MeterInRange

LEMMA UpdatedInRange ==
  ASSUME NEW mm, MeasuredInRange(mm), NEW e \in Energies, NEW now \in Stamps
  PROVE  MeterInRange(Updated(mm, e, now))
<1> DEFINE mt == Updated(mm, e, now)
<1>1. /\ mt.n_current = mm.n_current /\ mt.freq = mm.freq /\ mt.voltage = mm.voltage
      /\ mt.current = mm.current /\ mt.pf = mm.pf /\ mt.act_power = mm.act_power
      /\ mt.aprt_power = mm.aprt_power /\ mt.energy = e /\ mt.last_update_ts = now
  BY DEF Updated
<1> HIDE DEF mt
<1>2. MeasuredInRange(mt)
  BY SMT, <1>1 DEF MeasuredInRange
<1>3. \A c \in Channels : Bounded(e.act[c], Widest) /\ Bounded(e.ret[c], Widest)
  <2>1. \A f \in {e.act, e.ret} :
           f \in [Channels -> Int] /\ \A c \in Channels : Within(f[c], Widest)
    BY EnergyAssumption
  <2>2. \A f \in {e.act, e.ret} : \A c \in Channels : f[c] \in Int /\ f[c] # None /\ Within(f[c], Widest)
    BY <2>1, NoneAssumption
  <2> QED
    BY <2>2 DEF Within, Bounded
<1>4. now \in 0..Latest
  BY StampAssumption, LimitsType
<1> QED
  BY SMT, <1>1, <1>2, <1>3, <1>4 DEF MeterInRange, mt

\* Values are within what their registers hold.
Holds(shown) == IF Unit(shown.at) = 100 THEN shown.value \in -100..100
                ELSE Unit(shown.at) = 1 /\ Bounded(shown.value, Widest)

LEMMA ShownHolds ==
  ASSUME NEW mt, MeterInRange(mt), NEW now, NEW shown \in Shows(FullStatus(mt, now))
  PROVE  Holds(shown)
<1> DEFINE s == FullStatus(mt, now)
<1>1. /\ s.em.voltage = mt.voltage /\ s.em.current = mt.current /\ s.em.pf = mt.pf
      /\ s.em.freq = mt.freq /\ s.em.act_power = mt.act_power /\ s.em.aprt_power = mt.aprt_power
      /\ s.em.n_current = mt.n_current
      /\ s.em.total_current = mt.current["a"] + mt.current["b"] + mt.current["c"]
      /\ s.emdata.act = mt.energy.act /\ s.emdata.ret = mt.energy.ret
  BY DEF FullStatus, EmStatus, EmDataStatus
<1>2. /\ Bounded(mt.freq, Widest) /\ Bounded(OrZero(mt.n_current), Widest)
      /\ Bounded(mt.current["a"] + mt.current["b"] + mt.current["c"], Widest)
      /\ \A p \in Phases : /\ Bounded(mt.voltage[p], Widest) /\ Bounded(mt.current[p], Widest)
                           /\ mt.pf[p] \in -100..100
      /\ \A c \in Channels : /\ Bounded(mt.act_power[c], Widest) /\ Bounded(mt.aprt_power[c], Widest)
                             /\ Bounded(mt.energy.act[c], Widest) /\ Bounded(mt.energy.ret[c], Widest)
  <2>1. \A v : Bounded(v, 16384) \/ Bounded(v, 3 * 268435456) \/ Bounded(v, 3 * 16384)
                 => Bounded(v, Widest)
    <3>1. /\ 16384 \in Nat /\ 3 * 268435456 \in Nat /\ 3 * 16384 \in Nat /\ Widest \in Nat
          /\ 16384 <= Widest /\ 3 * 268435456 <= Widest /\ 3 * 16384 <= Widest
      BY SMT, LimitsAre
    <3> QED
      BY SMT, <3>1, BoundedMore
  <2>2. /\ mt.n_current \in OptInt /\ Within(mt.n_current, 16384) /\ Bounded(mt.freq, 16384)
        /\ \A p \in Phases : /\ Bounded(mt.voltage[p], 16384) /\ Bounded(mt.current[p], 16384)
                             /\ mt.pf[p] \in -100..100
        /\ \A c \in Channels : /\ Bounded(mt.act_power[c], 3 * 268435456)
                               /\ Bounded(mt.aprt_power[c], 3 * 268435456)
    BY SMT DEF MeterInRange, MeasuredInRange
  <2>3. \A c \in Channels : Bounded(mt.energy.act[c], Widest) /\ Bounded(mt.energy.ret[c], Widest)
    BY SMT DEF MeterInRange
  <2>4. Bounded(mt.current["a"] + mt.current["b"] + mt.current["c"], 3 * 16384)
    <3>1. 16384 \in Nat
      BY SMT
    <3>2. Bounded(mt.current["a"], 16384) /\ Bounded(mt.current["b"], 16384) /\ Bounded(mt.current["c"], 16384)
      BY SMT, <2>2, ChannelNames
    <3> QED
      BY SMT, <3>1, <3>2, SumBounded
  <2>5. Bounded(OrZero(mt.n_current), 16384)
    BY SMT, <2>2, NoneAssumption DEF OrZero, Within, Bounded, OptInt, Abs
  <2> QED
    BY SMT, <2>1, <2>2, <2>3, <2>4, <2>5
<1> HIDE DEF s
<1>3. \A a \in {1007, 1011, 1013, 1015, 1162, 1164} : Unit(a) = 1
  BY SMT DEF Unit
<1>4. CASE shown \in {At(1007, OrZero(s.em.n_current)), At(1011, s.em.total_current),
                      At(1013, s.em.act_power["total"]), At(1015, s.em.aprt_power["total"]),
                      At(1162, s.emdata.act["total"]), At(1164, s.emdata.ret["total"])}
  <2>1. /\ shown.at \in {1007, 1011, 1013, 1015, 1162, 1164}
        /\ shown.value \in {OrZero(s.em.n_current), s.em.total_current, s.em.act_power["total"],
                            s.em.aprt_power["total"], s.emdata.act["total"], s.emdata.ret["total"]}
    BY <1>4 DEF At
  <2>2. Bounded(shown.value, Widest)
    BY <1>1, <1>2, <2>1, ChannelNames
  <2> QED
    BY <1>3, <2>1, <2>2 DEF Holds
<1>5. ASSUME NEW p \in Phases, shown \in PhaseShows(s, p) PROVE Holds(shown)
  <2>1. PICK d \in {0, 20, 40} : d = Distance[p]
    BY DEF Phases, Distance
  <2>2. CASE shown = At(1028 + d, s.em.pf[p])
    <3>1. Unit(1028 + d) = 100
      BY DEF Unit
    <3> QED
      BY <1>1, <1>2, <2>2, <3>1 DEF Holds, At
  <2>3. CASE shown \in {At(1020 + d, s.em.voltage[p]), At(1022 + d, s.em.current[p]),
                        At(1024 + d, s.em.act_power[p]), At(1026 + d, s.em.aprt_power[p]),
                        At(1033 + d, s.em.freq),
                        At(1170 + d, s.emdata.act[p]), At(1174 + d, s.emdata.ret[p]),
                        At(1182 + d, s.emdata.act[p]), At(1184 + d, s.emdata.ret[p])}
    <3>1. /\ shown.at \in {1020 + d, 1022 + d, 1024 + d, 1026 + d, 1033 + d,
                           1170 + d, 1174 + d, 1182 + d, 1184 + d}
          /\ shown.value \in {s.em.voltage[p], s.em.current[p], s.em.act_power[p],
                              s.em.aprt_power[p], s.em.freq, s.emdata.act[p], s.emdata.ret[p]}
      BY <2>3 DEF At
    <3>2. Bounded(shown.value, Widest)
      BY <1>1, <1>2, <3>1, ChannelNames
    <3>3. Unit(shown.at) = 1
      BY <3>1 DEF Unit
    <3> QED
      BY <3>2, <3>3 DEF Holds
  <2> QED
    BY <1>5, <2>1, <2>2, <2>3 DEF PhaseShows
<1> QED
  BY <1>4, <1>5 DEF Shows, s

\* The two registers of a value show it.
LEMMA ShownReadsAs ==
  ASSUME NEW mt, MeterInRange(mt), NEW now, NEW shown \in Shows(FullStatus(mt, now))
  PROVE  ReadsAs(FloatOf(Register(Pairs(mt), shown.at + 1), Register(Pairs(mt), shown.at),
                         Unit(shown.at)),
                 shown.value)
<1>1. FloatOf(Register(Pairs(mt), shown.at + 1), Register(Pairs(mt), shown.at), Unit(shown.at))
        = ReadBack(shown.value, Unit(shown.at))
  BY AllShown, ShownRegisters
<1>2. Holds(shown)
  BY ShownHolds
<1>3. CASE Unit(shown.at) = 100
  <2>1. PICK v \in -100..100 : v = shown.value
    BY <1>2, <1>3 DEF Holds
  <2>2. ReadBack(v, 100) = v
    BY HundredthReadBack
  <2>3. ReadsAs(v, v)
    BY SMT, LimitsAre DEF ReadsAs, Abs
  <2> QED
    BY <1>1, <1>3, <2>1, <2>2, <2>3
<1>4. CASE Unit(shown.at) # 100
  <2>1. PICK v \in Int : v = shown.value /\ Abs(v) <= Widest /\ Unit(shown.at) = 1
    BY <1>2, <1>4 DEF Holds, Bounded
  <2>2. Abs(v) < Power[30]
    BY SMT, <2>1, LimitsAre DEF Abs
  <2>3. ReadsAs(ReadBack(v, 1), v)
    BY <2>2, WholeReadsAs
  <2> QED
    BY <1>1, <2>1, <2>3
<1> QED
  BY <1>3, <1>4

-------------------------------------------------------------------------------
(* What a client reads. *)

\* What the store and the client hold: a meter within range, and a reply that is of the
\* meter as it still is.
ShownInv ==
    /\ MeterInRange(meter)
    /\ reply # None /\ reply.how = "modbus" =>
          reply.pdu \in Pdus /\ reply.data = HandlePdu(reply.pdu, meter)

LEMMA ShownNext == ParsedInv /\ ShownInv /\ [Next]_vars => ShownInv'
<1> SUFFICES ASSUME ParsedInv, ShownInv, [Next]_vars PROVE ShownInv'
  OBVIOUS
<1>1. CASE Parse
  BY <1>1 DEF Parse, ShownInv
<1>2. CASE Update
  <2>1. regs \in Shown /\ m = ParseRegisters(regs) /\ reply' = None
    BY <1>2 DEF Update, ParsedInv
  <2>2. PICK e \in Energies, now \in Stamps : meter' = Updated(m, e, now)
    BY <1>2 DEF Update
  <2>3. MeasuredInRange(m)
    BY <2>1, ParsedInRange
  <2>4. MeterInRange(Updated(m, e, now))
    BY <2>3, UpdatedInRange
  <2> QED
    BY <2>1, <2>2, <2>4 DEF ShownInv
<1>3. CASE ReadModbus
  <2>1. PICK p \in Pdus : Look("modbus", p, HandlePdu(p, meter))
    BY <1>3 DEF ReadModbus
  <2>2. meter' = meter /\ reply' = [how |-> "modbus", pdu |-> p, data |-> HandlePdu(p, meter)]
    BY <2>1 DEF Look
  <2> QED
    BY <2>2 DEF ShownInv
<1>4. CASE AskRpc
  <2>1. meter' = meter /\ reply'.how = "rpc"
    BY <1>4 DEF AskRpc, Look
  <2> QED
    BY <2>1 DEF ShownInv
<1>5. CASE UNCHANGED vars
  BY <1>5 DEF vars, ShownInv
<1> QED
  BY <1>1, <1>2, <1>3, <1>4, <1>5 DEF Next

LEMMA ShownCorrect == Spec => []ShownInv
<1>1. Init => ShownInv
  BY InitInRange DEF Init, ShownInv
<1> QED
  BY <1>1, ShownNext, ParsedCorrect, PTL DEF Spec

LEMMA StampsAgree ==
  ASSUME NEW mt, MeterInRange(mt), NEW a \in {1000, 1160}
  PROVE  Register(Pairs(mt), a) + 65536 * Register(Pairs(mt), a + 1)
           = FullStatus(mt, Time).sys.last_sync_ts
<1>1. FullStatus(mt, Time).sys.last_sync_ts = Stamp(mt)
  BY DEF FullStatus, SysStatus, Stamp
<1>2. Stamp(mt) \in Nat /\ Stamp(mt) <= Latest
  <2>1. mt.last_update_ts \in 0..Latest
    BY DEF MeterInRange
  <2> QED
    BY <2>1, StampAssumption, TimeAssumption, LimitsType DEF Stamp
<1>3. Stamp(mt) < 4294967296
  BY SMT, <1>2, LimitsAre
<1> QED
  BY SMT, <1>1, <1>2, <1>3, StampRegisters

\* Wherever a Modbus request begins and ends, a value that lies in it whole is what the
\* RPC shows of the same meter: no two values share a register, none is shifted, each
\* is within the float's half unit, and the stamp is exact.  What may not be read is
\* refused (modbus_server.py:49-124, 151-178, responses.py:98-143).
THEOREM ReadingsAgree == Spec => []InterfacesAgree
<1>1. ShownInv => InterfacesAgree
  <2> DEFINE status == FullStatus(meter, Time)
             index(a) == a - reply.pdu.address + 1
             whole(a) == index(a) \in 1..(reply.pdu.count - 1)
             low(a) == reply.data.words[index(a)]
             high(a) == reply.data.words[index(a) + 1]
  <2>0. ASSUME ShownInv, reply # None, reply.how = "modbus", ~MayBeRead(reply.pdu)
        PROVE  reply.data.words = <<>> /\ reply.data.fc \in 128..255
    <3>1. reply.pdu \in Pdus /\ reply.data = HandlePdu(reply.pdu, meter)
      BY <2>0 DEF ShownInv
    <3>2. reply.pdu.fc \in Bytes /\ reply.pdu.count \in 0..WordMax
      BY Zenon, <3>1, PduAssumption
    <3>3. \A n \in 0..WordMax : 1 <= n /\ n <= 125 => n \in 1..125
      BY SMT DEF WordMax
    <3>4. ~Served(reply.pdu)
      <4>1. PICK n \in 0..WordMax : n = reply.pdu.count
        BY <3>2
      <4>2. reply.pdu.fc = 4 /\ reply.pdu.size >= 5 => n \notin 1..125
        BY Zenon, <2>0, <4>1 DEF MayBeRead
      <4> QED
        BY <3>3, <4>1, <4>2 DEF Served, ReadInput
    <3>5. reply.data.words = <<>> /\ reply.data.fc = Flagged(reply.pdu.fc)
      <4>1. reply.data = [fc |-> Flagged(reply.pdu.fc), second |-> IllegalAddress, words |-> <<>>]
        BY <3>1, <3>4 DEF HandlePdu
      <4> QED
        BY <4>1
    <3>6. \A n \in Bytes : Flagged(n) \in 128..255
      BY SMT DEF Flagged, Bytes
    <3>7. Flagged(reply.pdu.fc) \in 128..255
      BY Zenon, <3>2, <3>6
    <3> QED
      BY <3>5, <3>7
  <2> SUFFICES ASSUME ShownInv, reply # None, reply.how = "modbus", MayBeRead(reply.pdu)
               PROVE  /\ reply.data.fc = 4 /\ DOMAIN reply.data.words = 1..reply.pdu.count
                      /\ \A shown \in Shows(status) :
                            whole(shown.at) =>
                              ReadsAs(FloatOf(high(shown.at), low(shown.at), Unit(shown.at)),
                                      shown.value)
                      /\ \A a \in {1000, 1160} :
                            whole(a) => low(a) + 65536 * high(a) = status.sys.last_sync_ts
    BY <2>0 DEF InterfacesAgree
  <2>1. /\ MeterInRange(meter) /\ reply.pdu \in Pdus
        /\ reply.data = HandlePdu(reply.pdu, meter)
    BY DEF ShownInv
  <2>2. PICK address \in Nat, count \in Nat : address = reply.pdu.address /\ count = reply.pdu.count
    <3>1. reply.pdu.address \in 0..WordMax /\ reply.pdu.count \in 0..WordMax
      BY Zenon, <2>1, PduAssumption
    <3>2. \A n \in 0..WordMax : n \in Nat
      OBVIOUS
    <3> QED
      BY <3>1, <3>2
  <2>3. /\ reply.data.words = [i \in 1..count |-> Register(Pairs(meter), address + i - 1)]
        /\ reply.data.fc = 4
    <3>1. Served(reply.pdu)
      BY <2>2 DEF MayBeRead, Served, ReadInput
    <3> QED
      BY <2>1, <2>2, <3>1 DEF HandlePdu, Served, ReadInput
  <2>4. ASSUME NEW a \in PairsAt, whole(a)
        PROVE  low(a) = Register(Pairs(meter), a) /\ high(a) = Register(Pairs(meter), a + 1)
    <3>1. a \in Int
      BY DEF PairsAt
    <3>2. PICK i \in 1..(count - 1) : i = index(a) /\ a = address + i - 1
      BY <2>2, <2>4, <3>1
    <3>3. i \in 1..count /\ i + 1 \in 1..count /\ address + (i + 1) - 1 = a + 1
      BY <2>2, <3>2
    <3>4. reply.data.words[i] = Register(Pairs(meter), a)
      BY <2>3, <3>2, <3>3
    <3>5. reply.data.words[i + 1] = Register(Pairs(meter), address + (i + 1) - 1)
      BY <2>3, <3>3
    <3> QED
      BY <3>2, <3>3, <3>4, <3>5
  <2>5. ASSUME NEW shown \in Shows(status), whole(shown.at)
        PROVE  ReadsAs(FloatOf(high(shown.at), low(shown.at), Unit(shown.at)), shown.value)
    <3>1. shown.at \in PairsAt
      BY AllShown DEF Laid
    <3>2. /\ low(shown.at) = Register(Pairs(meter), shown.at)
          /\ high(shown.at) = Register(Pairs(meter), shown.at + 1)
      BY <2>4, <2>5, <3>1
    <3>3. ReadsAs(FloatOf(Register(Pairs(meter), shown.at + 1), Register(Pairs(meter), shown.at),
                          Unit(shown.at)),
                  shown.value)
      BY <2>1, ShownReadsAs
    <3> QED
      BY <3>2, <3>3
  <2>6. ASSUME NEW a \in {1000, 1160}, whole(a)
        PROVE  low(a) + 65536 * high(a) = status.sys.last_sync_ts
    <3>1. a \in PairsAt
      BY DEF PairsAt
    <3>2. /\ low(a) = Register(Pairs(meter), a) /\ high(a) = Register(Pairs(meter), a + 1)
      BY <2>4, <2>6, <3>1
    <3>3. Register(Pairs(meter), a) + 65536 * Register(Pairs(meter), a + 1)
            = status.sys.last_sync_ts
      BY <2>1, StampsAgree
    <3> QED
      BY <3>2, <3>3
  <2> QED
    BY <2>2, <2>3, <2>5, <2>6
<1> QED
  BY <1>1, ShownCorrect, PTL

LEMMA TotalReadIs ==
  ASSUME NEW mt, MeterInRange(mt)
  PROVE  /\ TotalRead(mt) = ReadBack(mt.energy.act["total"], 1)
         /\ mt.energy.act["total"] \in Int /\ Abs(mt.energy.act["total"]) < Power[30]
<1>1. Laid(mt, At(1162, mt.energy.act["total"]))
  <2>1. Laid(mt, At(1162, FullStatus(mt, 0).emdata.act["total"]))
    BY TotalsShown
  <2>2. FullStatus(mt, 0).emdata.act = mt.energy.act
    BY DEF FullStatus, EmDataStatus
  <2> QED
    BY <2>1, <2>2
<1>2. Unit(1162) = 1
  BY SMT DEF Unit
<1>3. Pairs(mt)[1162] = FloatToRegs(mt.energy.act["total"], 1)
  BY <1>1, <1>2 DEF Laid, At
<1>4. TotalRead(mt) = ReadBack(mt.energy.act["total"], 1)
  BY <1>3 DEF TotalRead, FloatToRegs, ReadBack
<1>5. Bounded(mt.energy.act["total"], Widest)
  BY ChannelNames DEF MeterInRange
<1> QED
  BY SMT, <1>4, <1>5, LimitsAre DEF Bounded, Abs

\* A counter that does not go back never reads less than before, also beyond the point
\* where a float no longer holds every watt-hour (modbus_server.py:107-123).
THEOREM ReadingsMonotone == Spec => CountersReadMonotone
<1> DEFINE Kept == meter'.energy.act["total"] >= meter.energy.act["total"]
                     => TotalRead(meter') >= TotalRead(meter)
<1>1. MeterInRange(meter) /\ MeterInRange(meter') => Kept
  <2> SUFFICES ASSUME MeterInRange(meter), MeterInRange(meter'),
                      meter'.energy.act["total"] >= meter.energy.act["total"]
               PROVE  TotalRead(meter') >= TotalRead(meter)
    OBVIOUS
  <2>1. PICK v \in Int : /\ v = meter.energy.act["total"] /\ Abs(v) < Power[30]
                         /\ TotalRead(meter) = ReadBack(v, 1)
    BY TotalReadIs
  <2>2. PICK w \in Int : /\ w = meter'.energy.act["total"] /\ Abs(w) < Power[30]
                         /\ TotalRead(meter') = ReadBack(w, 1)
    BY TotalReadIs
  <2>3. v <= w
    BY <2>1, <2>2
  <2>4. ReadBack(v, 1) <= ReadBack(w, 1)
    BY <2>1, <2>2, <2>3, ReadBackMonotone
  <2> QED
    BY <2>1, <2>2, <2>4
<1>2. ShownInv => MeterInRange(meter)
  BY DEF ShownInv
<1>3. ShownInv' => MeterInRange(meter')
  BY DEF ShownInv
<1>4. ShownInv /\ ShownInv' => [Kept]_meter
  BY <1>1, <1>2, <1>3
<1> QED
  BY <1>4, ShownCorrect, PTL DEF CountersReadMonotone
====

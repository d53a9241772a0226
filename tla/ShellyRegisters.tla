--------------------------- MODULE ShellyRegisters ---------------------------
(***************************************************************************)
(* The registers the Modbus server shows (app/shelly/modbus_server.py): a  *)
(* reading of the meter laid out as 16-bit words, and the reply to one     *)
(* protocol data unit.  What struct does to a number, the rounding of a    *)
(* binary32 included, is modelled on words.                                *)
(***************************************************************************)
EXTENDS Meter, Sequences

CONSTANTS
    Identity,     \* the MAC address and the model, as words 0 to 13
    Time          \* time.time()

WordMax == 65535
Bytes == 0..255

ASSUME IdentityAssumption == Identity \in [0..13 -> 0..WordMax]
ASSUME TimeAssumption == Time \in Nat

-------------------------------------------------------------------------------
(* binary32 of a fraction n / d, as struct.pack(">f") rounds it: to the   *)
(* nearest, ties to the even significand.                                  *)

\* n * 2^k / d rounded, where k may be negative.
Scaled(n, d, k) ==
    LET num == IF k < 0 THEN n ELSE n * 2^k
        den == IF k < 0 THEN d * 2^(-k) ELSE d
        q == num \div den
        r == num % den
    IN  IF 2 * r > den \/ (2 * r = den /\ q % 2 = 1) THEN q + 1 ELSE q

\* The exponent of the leading bit of n / d > 0.
Log2(n, d) ==
    IF n >= d THEN CHOOSE e \in 0..30 : 2^e <= n \div d /\ n \div d < 2 * 2^e
    ELSE CHOOSE e \in -7..-1 : d <= n * 2^(-e) /\ n * 2^(-e) < 2 * d

\* The high and the low word.  A significand that rounded up to 2^24 carries over
\* into the exponent.
FloatWords(n, d) ==
    LET exponent == Log2(Abs(n), d)
        s == Scaled(Abs(n), d, 23 - exponent)
    IN  IF n = 0 THEN <<0, 0>>
        ELSE <<(IF n < 0 THEN 32768 ELSE 0) + 128 * (127 + exponent) + (s - 2^23) \div 65536,
               s % 65536>>

\* Mutated forms, here and below, change the definition after them the way a
\* plausible mistake would.  Nothing uses them but the mutation runs.
FloatToRegs_Straight(n, d) == FloatWords(n, d)

\* Word-swapped, the low word first.
FloatToRegs(n, d) == <<FloatWords(n, d)[2], FloatWords(n, d)[1]>>
Uint32ToRegs(v) == <<v % 65536, (v \div 65536) % 65536>>

-------------------------------------------------------------------------------
(* build_register_map: what is put where. *)

OrZero(v) == IF v = None THEN 0 ELSE v
Stamp(m) == IF m.last_update_ts = 0 THEN Time ELSE m.last_update_ts

Uint32s(m) == [a \in {1000, 1160} |-> Stamp(m)]

Totals(m) ==
    [a \in {1007, 1011, 1013, 1015} |->
        CASE a = 1007 -> OrZero(m.n_current)
          [] a = 1011 -> m.current["a"] + m.current["b"] + m.current["c"]
          [] a = 1013 -> m.act_power["total"]
          [] a = 1015 -> m.aprt_power["total"]]

PhaseA(m) ==
    [a \in {1020, 1022, 1024, 1026, 1033} |->
        CASE a = 1020 -> m.voltage["a"] [] a = 1022 -> m.current["a"]
          [] a = 1024 -> m.act_power["a"] [] a = 1026 -> m.aprt_power["a"] [] a = 1033 -> m.freq]
PhaseB(m) ==
    [a \in {1040, 1042, 1044, 1046, 1053} |->
        CASE a = 1040 -> m.voltage["b"] [] a = 1042 -> m.current["b"]
          [] a = 1044 -> m.act_power["b"] [] a = 1046 -> m.aprt_power["b"] [] a = 1053 -> m.freq]
PhaseC(m) ==
    [a \in {1060, 1062, 1064, 1066, 1073} |->
        CASE a = 1060 -> m.voltage["c"] [] a = 1062 -> m.current["c"]
          [] a = 1064 -> m.act_power["c"] [] a = 1066 -> m.aprt_power["c"] [] a = 1073 -> m.freq]

PowerFactors(m) ==
    [a \in {1028, 1048, 1068} |->
        CASE a = 1028 -> m.pf["a"] [] a = 1048 -> m.pf["b"] [] a = 1068 -> m.pf["c"]]

\* The counters of a phase, put twice from its base address.
PhaseCounters(e, p, base) ==
    [a \in {base, base + 4, base + 12, base + 14} |->
        IF a \in {base, base + 12} THEN e.act[p] ELSE e.ret[p]]

TotalCounters_Overlapping(e) ==
    [a \in {1162, 1163} |-> IF a = 1162 THEN e.act["total"] ELSE e.ret["total"]]
TotalCounters(e) ==
    [a \in {1162, 1164} |-> IF a = 1162 THEN e.act["total"] ELSE e.ret["total"]]

\* f, and g where f is not defined.  It is @@ of the standard module TLC, which no
\* prover knows.
Joined(f, g) ==
    [a \in DOMAIN f \cup DOMAIN g |-> IF a \in DOMAIN f THEN f[a] ELSE g[a]]

Counters(e) ==
    Joined(TotalCounters(e),
        Joined(PhaseCounters(e, "a", 1170),
            Joined(PhaseCounters(e, "b", 1190), PhaseCounters(e, "c", 1210))))

Floats(m) ==
    Joined(Totals(m),
        Joined(PhaseA(m), Joined(PhaseB(m), Joined(PhaseC(m), Counters(m.energy)))))

\* The two words put at each of these addresses.
Pairs(m) ==
    LET floats == Floats(m)
        pf == PowerFactors(m)
        stamps == Uint32s(m)
    IN  Joined([a \in DOMAIN floats |-> FloatToRegs(floats[a], 1)],
            Joined([a \in DOMAIN pf |-> FloatToRegs(pf[a], 100)],
                   [a \in DOMAIN stamps |-> Uint32ToRegs(stamps[a])]))

\* The map is filled upwards, so where two pairs met the upper one would prevail.
\* An address nothing was put at reads as 0.
Register(pairs, a) ==
    IF a \in DOMAIN Identity THEN Identity[a]
    ELSE IF a \in DOMAIN pairs THEN pairs[a][1]
    ELSE IF a - 1 \in DOMAIN pairs THEN pairs[a - 1][2]
    ELSE 0

-------------------------------------------------------------------------------
(* _handle_pdu. *)

ReadInput == 4
IllegalAddress == 2

\* fc | 0x80
Flagged(fc) == IF fc < 128 THEN fc + 128 ELSE fc

Served(p) == p.fc = ReadInput /\ p.size >= 5 /\ p.count >= 1 /\ p.count <= 125

HandlePdu(p, m) ==
    IF Served(p)
    THEN LET pairs == Pairs(m)
         IN  [fc |-> p.fc, second |-> 2 * p.count,
              words |-> [i \in 1..p.count |-> Register(pairs, p.address + i - 1)]]
    ELSE [fc |-> Flagged(p.fc), second |-> IllegalAddress, words |-> <<>>]
===============================================================================

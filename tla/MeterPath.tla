------------------------------ MODULE MeterPath ------------------------------
(***************************************************************************)
(* The path of a measurement through the program: the charger's registers  *)
(* are parsed (AlfenRegisters), the store keeps what they say (Meter), and *)
(* clients read it over Modbus (ShellyRegisters) or RPC (ShellyResponses). *)
(* The counters are whatever the store has made of the samples; that they  *)
(* are right is the matter of EnergyStore.                                 *)
(***************************************************************************)
EXTENDS AlfenRegisters, ShellyRegisters, ShellyResponses

CONSTANTS
    Windows,      \* what the charger's registers may hold
    Shown,        \* a bound: the other windows are parsed and go no further
    Energies,     \* what the counters may be
    Stamps,       \* when the store may be updated
    Pdus          \* Modbus requests: [fc, size, address, count]

ASSUME WindowAssumption ==
    \A r \in Windows :
        /\ r.short \in BOOLEAN /\ r.n_current \in OptInt /\ r.freq \in OptInt
        /\ r.voltage \in [Phases -> OptInt] /\ r.current \in [Phases -> OptInt]
        /\ r.pf \in [Phases -> OptInt]
        /\ r.act_power \in [Channels -> OptInt] /\ r.aprt_power \in [Channels -> OptInt]
        /\ r.act \in [Channels -> OptInt] /\ r.ret \in [Channels -> OptInt]
\* Numbers are whole: a phase's share of a total that is split must be one, too.
ASSUME ShareAssumption ==
    \A r \in Windows :
        LET current == Read(r.current)
            weights == Weight(current["a"]) + Weight(current["b"]) + Weight(current["c"])
        IN  \A f \in {r.act_power, r.aprt_power} :
                weights > 0 /\ ~AnyPhase(Read(f)) =>
                    \A p \in Phases : (Read(f)["total"] * Weight(current[p])) % weights = 0
ASSUME ShownAssumption == Shown \subseteq Windows

\* Bounds: what clients read is within what the registers' floats are modelled for,
\* and a time stamp within TLC's integers.
Within(v, limit) == v = None \/ Abs(v) <= limit
Widest == 2^30 - 1
Latest == Widest + 2^30
ASSUME RangeAssumption ==
    \A r \in Shown :
        /\ Within(r.n_current, 2^14) /\ Within(r.freq, 2^14)
        /\ \A p \in Phases :
            Within(r.voltage[p], 2^14) /\ Within(r.current[p], 2^14) /\ Within(r.pf[p], 100)
        /\ \A c \in Channels : Within(r.act_power[c], 2^28) /\ Within(r.aprt_power[c], 2^28)
ASSUME EnergyAssumption ==
    \A e \in Energies : \A f \in {e.act, e.ret} :
        f \in [Channels -> Int] /\ \A c \in Channels : Within(f[c], Widest)
ASSUME StampAssumption == Stamps \subseteq 1..Latest /\ Time <= Latest
ASSUME PduAssumption ==
    \A p \in Pdus : /\ p.fc \in Bytes /\ p.size \in Nat \ {0}
                    /\ p.address \in 0..WordMax /\ p.count \in 0..WordMax

VARIABLES
    regs,      \* the registers read last
    m,         \* the measurements made of them, None until they are parsed
    meter,     \* the store's MeterState
    reply      \* a look a client took, None if the meter may have moved on

vars == <<regs, m, meter, reply>>

-------------------------------------------------------------------------------

Init == regs \in Windows /\ m = None /\ meter = InitMeter /\ reply = None

Parse == m = None /\ m' = ParseRegisters(regs) /\ reply' = None /\ UNCHANGED <<regs, meter>>

\* The poller hands over what it parsed, and the charger is read anew.
Update ==
    /\ m # None /\ regs \in Shown
    /\ \E energy \in Energies, now \in Stamps : meter' = Updated(m, energy, now)
    /\ regs' \in Shown
    /\ m' = None
    /\ reply' = None

\* A look changes nothing, so that one between two updates is enough.
Look(how, pdu, data) ==
    /\ m = None /\ reply = None /\ regs \in Shown
    /\ reply' = [how |-> how, pdu |-> pdu, data |-> data]
    /\ UNCHANGED <<regs, m, meter>>

ReadModbus == \E p \in Pdus : Look("modbus", p, HandlePdu(p, meter))
AskRpc == Look("rpc", None, FullStatus(meter, Time))

Next == Parse \/ Update \/ ReadModbus \/ AskRpc

Spec == Init /\ [][Next]_vars

-------------------------------------------------------------------------------
(* Properties: of what is parsed. *)

Missing(f, c) == f[c] \in {None, 0}
Incomplete(f) == Missing(f, "total") \/ \A p \in Phases : Missing(f, p)

\* Where the charger leaves out the total or every phase, phases and total agree,
\* so that import less export, integrated over either, is the same (registers.py:116-139,
\* 187-191).  Where it publishes both they are shown as published.
PhasesSumToTotal ==
    m # None /\ m.raw_ok =>
        /\ Incomplete(regs.act_power) => SumOf(m.act_power) = m.act_power["total"]
        /\ Incomplete(regs.aprt_power) => SumOf(m.aprt_power) = m.aprt_power["total"]

\* No power the charger published is replaced by one derived from another.
PublishedKept ==
    m # None /\ m.raw_ok =>
        \A c \in Channels :
            /\ ~Missing(regs.act_power, c) => m.act_power[c] = regs.act_power[c]
            /\ ~Missing(regs.aprt_power, c) => m.aprt_power[c] = regs.aprt_power[c]

\* A power factor the charger left out points the way the power shown beside it
\* does, whatever the sign of the current, and is never beyond 1 (registers.py:142-155).
PowerFactorFollowsPower ==
    m # None /\ m.raw_ok =>
        \A p \in Phases :
            Missing(regs.pf, p) => /\ m.pf[p] \in -100..100
                                   /\ m.pf[p] > 0 => m.act_power[p] > 0
                                   /\ m.pf[p] < 0 => m.act_power[p] < 0

-------------------------------------------------------------------------------
(* Properties: of what a client reads. *)

\* A client reads a fraction back from its high and low word, in units of 1/d.
\* What is beyond every counter reads as Huge.
Huge == 2^30

FloatOf(hi, lo, d) ==
    LET exponent == (hi % 32768) \div 128
        s == 2^23 + (hi % 128) * 65536 + lo
        size == CASE exponent < 120 -> 0
                  [] exponent \in 120..150 -> Scaled(s * d, 1, exponent - 150)
                  [] exponent \in 151..156 -> s * 2^(exponent - 150)
                  [] OTHER -> Huge
    IN  IF hi >= 32768 THEN -size ELSE size

\* The Shelly's map is the same for each phase, at a distance of 20 registers.
Distance == [a |-> 0, b |-> 20, c |-> 40]

\* What the RPC shows of a meter, each value with the address of its two registers.
At(address, value) == [at |-> address, value |-> value]

PhaseShows(s, p) ==
    LET d == Distance[p]
    IN  {At(1020 + d, s.em.voltage[p]), At(1022 + d, s.em.current[p]),
         At(1024 + d, s.em.act_power[p]), At(1026 + d, s.em.aprt_power[p]),
         At(1028 + d, s.em.pf[p]), At(1033 + d, s.em.freq),
         At(1170 + d, s.emdata.act[p]), At(1174 + d, s.emdata.ret[p]),
         At(1182 + d, s.emdata.act[p]), At(1184 + d, s.emdata.ret[p])}

Shows(s) ==
    {At(1007, OrZero(s.em.n_current)), At(1011, s.em.total_current),
     At(1013, s.em.act_power["total"]), At(1015, s.em.aprt_power["total"]),
     At(1162, s.emdata.act["total"]), At(1164, s.emdata.ret["total"])}
    \cup UNION {PhaseShows(s, p) : p \in Phases}

Unit(a) == IF a \in {1028, 1048, 1068} THEN 100 ELSE 1

\* The largest whole number below which a float is exact.
Exact == 2^24

\* v read as r: exact as long as it is small, and never off by more than half a
\* unit in the last place.
ReadsAs(r, v) == IF Abs(v) <= Exact THEN r = v ELSE Abs(r - v) <= Abs(v) \div Exact

\* What may be read: 1 to 125 input registers.
MayBeRead(p) == p.fc = 4 /\ p.size >= 5 /\ p.count \in 1..125

\* Wherever a Modbus request begins and ends, a value that lies in it whole is what
\* the RPC shows of the same meter: no two values share a register, none is
\* shifted, and every phase has its own.  A request that is cut short, for no or too many
\* registers or for something else gets no registers and has the error bit set
\* (modbus_server.py:49-124, 151-178, responses.py:98-143).
InterfacesAgree ==
    reply # None /\ reply.how = "modbus" =>
        LET status == FullStatus(meter, Time)
            words == reply.data.words
            index(a) == a - reply.pdu.address + 1
            whole(a) == index(a) \in 1..(reply.pdu.count - 1)
            low(a) == words[index(a)]
            high(a) == words[index(a) + 1]
        IN  IF MayBeRead(reply.pdu)
            THEN /\ reply.data.fc = 4 /\ DOMAIN words = 1..reply.pdu.count
                 /\ \A shown \in Shows(status) :
                      whole(shown.at) =>
                        ReadsAs(FloatOf(high(shown.at), low(shown.at), Unit(shown.at)),
                                shown.value)
                 /\ \A a \in {1000, 1160} :
                      whole(a) => low(a) + 65536 * high(a) = status.sys.last_sync_ts
            ELSE words = <<>> /\ reply.data.fc \in 128..255

\* The total as the registers 1162 and 1163 hold it.
TotalRead(s) == LET words == Pairs(s)[1162] IN FloatOf(words[2], words[1], 1)

\* A counter that does not go back never reads less than before, also beyond the
\* point where a float no longer holds every watt-hour (modbus_server.py:107-123).
CountersReadMonotone ==
    [][meter'.energy.act["total"] >= meter.energy.act["total"]
        => TotalRead(meter') >= TotalRead(meter)]_meter
===============================================================================

----------------------------- MODULE MCMeterPath -----------------------------
(* Small instances of MeterPath: every combination of what the charger may     *)
(* publish, readings in which no two values agree, and Modbus requests that    *)
(* begin and end everywhere near them.  60 is divisible by every sum of three  *)
(* currents up to 3.                                                           *)
EXTENDS MeterPath

Every(x) == [p \in Phases |-> x]
Three(x) == [a |-> x, b |-> x + 1, c |-> x + 2]
Of(f, total) == WithTotal(f, total)
Unavailable == Of(Every(None), None)

Window(voltage, current, act_power, aprt_power, pf) ==
    [short |-> FALSE, n_current |-> None, freq |-> None, voltage |-> voltage,
     current |-> current, pf |-> pf, act_power |-> act_power, aprt_power |-> aprt_power,
     act |-> Unavailable, ret |-> Unavailable]

McActPowers == {Of(f, total) : f \in [Phases -> {None, 0, 60}], total \in {None, 0, 60, -120}}
McAprtPowers == {Of(f, total) : f \in {Every(None), Every(0), Every(20)}, total \in {None, 60}}

\* A phase without power beside two with it, without a power factor; and a short reply.
McShown ==
    {[Window(Three(230), Three(6), Of(Three(-1380), -4137), Of(Three(1400), 4203), f)
        EXCEPT !.n_current = 3] : f \in {Every(None), [a |-> -97, b |-> -1, c |-> -50]}}
    \cup {[Window(Every(50), Every(1), Unavailable, Unavailable, Every(90)) EXCEPT !.short = TRUE]}

McWindows ==
    McShown \cup
    {Window(Every(v), i, s, q, Every(f)) :
        v \in {None, 50}, i \in [Phases -> {None, 1, -1}], s \in McActPowers,
        q \in McAprtPowers, f \in {None, 90}}

\* Counters around the 2^24 Wh where floats begin to skip, and where they skip more.
McEnergies ==
    {[act |-> Of(Three(wh), wh + 3), ret |-> Of(Three(1000), 1003)] :
        wh \in {0, 16777210} \cup 16777213..16777217 \cup 33554426..33554431}

McIdentity == [i \in 0..13 |-> 16705 + i]

Pdu(fc, size, address, count) ==
    [fc |-> fc, size |-> size, address |-> address, count |-> count]

McPdus ==
    {Pdu(4, 5, a, n) : a \in {0, 1000, 1006, 1011, 1012, 1019, 1020, 1033, 1100, 1160, 1161,
                              1170, 1212, 65535}, n \in {0, 1, 2, 3, 125, 126}}
    \cup {Pdu(3, 5, 1020, 2), Pdu(1, 5, 0, 1), Pdu(4, 4, 1020, 2), Pdu(132, 5, 1020, 2)}
===============================================================================

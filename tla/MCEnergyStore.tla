---------------------------- MODULE MCEnergyStore ----------------------------
(* Small instances of EnergyStore: what the poller may deliver. *)
EXTENDS EnergyStore

PowerOf(a, b) == [c \in Channels |-> CASE c = "a" -> a [] c = "b" -> b
                                       [] c = "total" -> a + b [] OTHER -> 0]
Registers(a, total) == [c \in Channels |-> CASE c = "a" -> a [] c = "total" -> total
                                             [] OTHER -> None]
Unavailable == Registers(None, None)

Measured(power, act, ret) == [raw_ok |-> TRUE, power |-> power, act |-> act, ret |-> ret]

\* Charging on one phase while another exports, exporting, and a short read.
McSamples == {Measured(PowerOf(2, -1), Unavailable, Unavailable),
              Measured(PowerOf(-1, 0), Unavailable, Unavailable),
              NoSample}

\* Energy registers with and without their sum, and none at all.
McAlfenSamples == {Measured(PowerOf(1, 0), Registers(8, None), Registers(0, 0)),
                   Measured(PowerOf(1, -1), Unavailable, Unavailable)}

\* Wall clocks: never stepped, or stepped back two ticks and forward again.
SteadyClock == {0}
SteppedBack == {-2, 0}
===============================================================================

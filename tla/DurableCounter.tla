---------------------------- MODULE DurableCounter ----------------------------
(***************************************************************************)
(* What the energy counters of the emulator promise, whatever thread       *)
(* updates or saves them.  A vector of counters lives in memory, a copy of *)
(* it on disk.  Memory only grows, the disk copy only grows and is never   *)
(* ahead of memory, and the one way back is a restart, which falls back to *)
(* exactly what the disk holds.  EnergyStore implements this.              *)
(***************************************************************************)
EXTENDS Integers

CONSTANT Channels      \* the measured channels, each with two counters

VARIABLES mem,         \* the counters the process serves
          disk         \* the counters a restart would load

dcVars == <<mem, disk>>

\* Imported and exported energy of every channel.
Vector == [act : [Channels -> Nat], ret : [Channels -> Nat]]

\* No counter of u exceeds the same counter of v.
AtMost(u, v) == \A c \in Channels : u.act[c] <= v.act[c] /\ u.ret[c] <= v.ret[c]

Zero == [act |-> [c \in Channels |-> 0], ret |-> [c \in Channels |-> 0]]

DCInit == mem = Zero /\ disk = Zero

Accrue == /\ mem' \in Vector
          /\ AtMost(mem, mem')
          /\ UNCHANGED disk

\* A checkpoint writes a vector memory went through, not always the latest.
Checkpoint == /\ disk' \in Vector
              /\ AtMost(disk, disk')
              /\ AtMost(disk', mem)
              /\ UNCHANGED mem

Restart == /\ mem' = disk
           /\ UNCHANGED disk

DCNext == Accrue \/ Checkpoint \/ Restart

DCSpec == DCInit /\ [][DCNext]_dcVars
===============================================================================

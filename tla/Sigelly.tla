------------------------------- MODULE Sigelly -------------------------------
(***************************************************************************)
(* The life of the process (app/wire_server.py, _amain): the main thread   *)
(* starts the poller, the Modbus server and mDNS, binds its port, serves   *)
(* until it is interrupted, waits for its connections and stops the parts  *)
(* one after another.  Each part is as coarse as its life: what the poller *)
(* and the last save do to the counters is EnergyStore's, mDNS is          *)
(* ShellyMdns.  SIGTERM has no handler and is as good as a kill.           *)
(***************************************************************************)
EXTENDS ShellyMdns, Naturals

CONSTANTS
    JoinMayTimeOut,   \* whether alfen.stop() may give up waiting for the poller
    MaxConns          \* bound on open connections

ASSUME ConfigAssumption == JoinMayTimeOut \in BOOLEAN /\ MaxConns \in Nat

VARIABLES
    settings,    \* which parts are enabled
    main,        \* the main thread
    listening,   \* whether the HTTP port is open
    conns,       \* open connections
    sigints,     \* interrupts received
    poller,      \* "off", "polling", "stopping" (_stop is set) or "exited"
    modbus       \* "off", "running" or "stopped"

process == <<settings, main, listening, conns, sigints>>
parts == <<poller, modbus>>
vars == <<process, parts, mdnsVars>>

\* How the process may have ended: by itself after stop(); without it, by an
\* exception; or killed.
Ends == {"exited", "failed", "killed"}

\* Mutated forms, here and below, change the definition after them the way a
\* plausible mistake would.  Nothing uses them but the mutation runs.
Gone_ThreadsGoOn == main \in Ends /\ poller \notin {"polling", "stopping"}
\* The other threads are daemons: they end with the main thread.
Gone == main \in Ends

\* Between interrupt and exit.
Stopping == {"mdns", "mdns_wait", "modbus", "alfen", "join", "save"}

Goto(from, to) == main = from /\ main' = to

-------------------------------------------------------------------------------
(* start_background and the port. *)

StartAlfen ==
    /\ Goto("start", "start_modbus")
    /\ poller' = "polling"
    /\ UNCHANGED <<settings, listening, conns, sigints, modbus, mdnsVars>>

StartModbus ==
    /\ Goto("start_modbus", "start_mdns")
    /\ modbus' = IF settings.modbus THEN "running" ELSE modbus
    /\ UNCHANGED <<settings, listening, conns, sigints, poller, mdnsVars>>

StartMdns ==
    /\ Goto("start_mdns", "bind")
    /\ StartThread
    /\ UNCHANGED <<settings, listening, conns, sigints, parts>>

\* The port may be taken; an interrupt that has come before is raised here.  Neither
\* reaches stop(): the try begins after it.
Bind ==
    /\ \/ sigints = 0 /\ Goto("bind", "serve") /\ listening' = TRUE
       \/ Goto("bind", "failed") /\ UNCHANGED listening
    /\ UNCHANGED <<settings, conns, sigints, parts, mdnsVars>>

-------------------------------------------------------------------------------
(* Serving, and the end of it. *)

Connect ==
    /\ listening /\ conns < MaxConns
    /\ conns' = conns + 1
    /\ UNCHANGED <<settings, main, listening, sigints, parts, mdnsVars>>

Disconnect ==
    /\ conns > 0
    /\ conns' = conns - 1
    /\ UNCHANGED <<settings, main, listening, sigints, parts, mdnsVars>>

\* The first SIGINT cancels the main task, which closes the listener at its next
\* await.  Another one raises wherever the main thread is: it ends the wait for the
\* connections, and cuts stop() short.
Interrupt ==
    /\ ~Gone /\ sigints < 2
    /\ sigints' = sigints + 1
    /\ CASE main = "serve" -> main' = "closing" /\ listening' = FALSE /\ UNCHANGED conns
         [] main = "closing" -> main' = "mdns" /\ UNCHANGED <<listening, conns>>
         [] main \notin {"serve", "closing"} /\ sigints = 1 ->
                main' = "failed" /\ conns' = 0 /\ UNCHANGED listening
         [] OTHER -> UNCHANGED <<main, listening, conns>>
    /\ UNCHANGED <<settings, parts, mdnsVars>>

\* The server is closed when its connections are.
Closed ==
    /\ conns = 0
    /\ Goto("closing", "mdns")
    /\ UNCHANGED <<settings, listening, conns, sigints, parts, mdnsVars>>

Kill ==
    /\ ~Gone
    /\ main' = "killed" /\ listening' = FALSE /\ conns' = 0
    /\ UNCHANGED <<settings, sigints, parts, mdnsVars>>

-------------------------------------------------------------------------------
(* stop(). *)

CallMdnsStop ==
    /\ Goto("mdns", "mdns_wait")
    /\ CallStop
    /\ UNCHANGED <<settings, listening, conns, sigints, parts>>

InMdnsStop ==
    /\ main = "mdns_wait" /\ StopStep
    /\ UNCHANGED <<process, parts>>

MdnsStopped ==
    /\ stopPc \in {"none", "done"}
    /\ Goto("mdns_wait", "modbus")
    /\ UNCHANGED <<settings, listening, conns, sigints, parts, mdnsVars>>

StopModbus ==
    /\ Goto("modbus", "alfen")
    /\ modbus' = IF settings.modbus THEN "stopped" ELSE modbus
    /\ UNCHANGED <<settings, listening, conns, sigints, poller, mdnsVars>>

Told_Not == poller
Told == "stopping"

StopAlfen ==
    /\ Goto("alfen", "join")
    /\ poller' = Told
    /\ UNCHANGED <<settings, listening, conns, sigints, modbus, mdnsVars>>

\* thread.join(timeout=5).
Join ==
    /\ poller = "exited" \/ JoinMayTimeOut
    /\ Goto("join", "save")
    /\ UNCHANGED <<settings, listening, conns, sigints, parts, mdnsVars>>

\* The last save.  What is left of the connections ends with the process.
Save ==
    /\ Goto("save", "exited")
    /\ conns' = 0
    /\ UNCHANGED <<settings, listening, sigints, parts, mdnsVars>>

-------------------------------------------------------------------------------
(* The other threads. *)

PollerExits ==
    /\ ~Gone /\ poller = "stopping"
    /\ poller' = "exited"
    /\ UNCHANGED <<process, modbus, mdnsVars>>

InMdnsStart ==
    /\ ~Gone /\ StartStep(settings.mdns)
    /\ UNCHANGED <<process, parts>>

Forgotten == Gone /\ Expire /\ UNCHANGED <<process, parts>>

-------------------------------------------------------------------------------

Init ==
    /\ settings \in [mdns : BOOLEAN, modbus : BOOLEAN]
    /\ main = "start" /\ listening = FALSE /\ conns = 0 /\ sigints = 0
    /\ poller = "off" /\ modbus = "off"
    /\ MdnsInit

MainStep ==
    \/ StartAlfen \/ StartModbus \/ StartMdns \/ Bind
    \/ Closed \/ CallMdnsStop \/ InMdnsStop \/ MdnsStopped
    \/ StopModbus \/ StopAlfen \/ Join \/ Save

Next ==
    \/ MainStep \/ Connect \/ Disconnect \/ Interrupt \/ Kill
    \/ PollerExits \/ InMdnsStart \/ Forgotten

\* The main thread and the poller's way out are scheduled, and records expire.
\* Clients and signals come when they will.
Spec ==
    Init /\ [][Next]_vars /\ WF_vars(MainStep) /\ WF_vars(PollerExits) /\ WF_vars(Forgotten)

-------------------------------------------------------------------------------
(* Properties. *)

TypeOK ==
    /\ MdnsTypeOK
    /\ settings \in [mdns : BOOLEAN, modbus : BOOLEAN]
    /\ main \in {"start", "start_modbus", "start_mdns", "bind", "serve", "closing"}
                \cup Stopping \cup Ends
    /\ listening \in BOOLEAN /\ listening = (main = "serve")
    /\ conns \in 0..MaxConns /\ sigints \in 0..2
    /\ poller \in {"off", "polling", "stopping", "exited"}
    /\ modbus \in {"off", "running", "stopped"}

\* Once stop() has closed a responder nothing is advertised, though the start thread
\* may be in the middle of a registration and go on with the next (mdns.py:76, 95-108).  A stop() that comes before the
\* responder is made leaves it to the end of the process.
QuietAfterStop == stopPc = "done" => advertised = {}

\* One interrupt ends the process, and by way of stop(), unless a client keeps its
\* connection or somebody loses patience (wire_server.py:419-423).
InterruptEnds ==
    main = "closing" ~> (main = "exited" \/ conns > 0 \/ sigints = 2 \/ main = "killed")

\* What is advertised can be reached, or is withdrawn before long, or expires: a port
\* that cannot be bound must not leave an advertisement up (wire_server.py:142, 416).
AdvertisedIsReachable ==
    advertised # {} /\ ~listening ~> (listening \/ advertised = {} \/ conns > 0)
===============================================================================

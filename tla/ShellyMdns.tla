----------------------------- MODULE ShellyMdns -----------------------------
(***************************************************************************)
(* The mDNS advertisement (app/shelly/mdns.py): start() runs in a thread of*)
(* its own, which probes the network for seconds, and stop() in the main   *)
(* thread, with no lock between them.  Sigelly composes it with the rest.  *)
(***************************************************************************)
EXTENDS FiniteSets

CONSTANT Services      \* the services to register

VARIABLES
    zc,            \* whether _zc is set
    infos,         \* _infos
    responder,     \* the Zeroconf object: "none", "open" or "closed"
    advertised,    \* the services the network has been told of and not been told to forget
    startPc,       \* the start thread, and its locals: the services
    left,          \*   it has not tried yet,
    probing,       \*   the one it is registering, if any,
    registered,    \*   and those it has registered
    stopPc         \* stop(), and whether it found a responder to close
mdnsVars == <<zc, infos, responder, advertised, startPc, left, probing, registered,
             stopPc>>

start == <<startPc, left, probing, registered>>

MdnsInit ==
    /\ zc = FALSE /\ infos = {} /\ responder = "none" /\ advertised = {}
    /\ startPc = "off" /\ left = Services /\ probing = {} /\ registered = {}
    /\ stopPc = "off"

MdnsTypeOK ==
    /\ zc \in BOOLEAN /\ infos \subseteq registered /\ registered \subseteq Services
    /\ responder \in {"none", "open", "closed"} /\ advertised \subseteq Services
    /\ startPc \in {"off", "look", "make", "register", "done"} /\ left \subseteq Services
    /\ probing \subseteq Services /\ (registered \cup probing) \cap left = {}
    /\ stopPc \in {"off", "look", "withdraw", "close", "forget", "none", "done"}

-------------------------------------------------------------------------------
(* start(). *)

StartThread ==
    /\ startPc' = "look"
    /\ UNCHANGED <<zc, infos, responder, advertised, left, probing, registered, stopPc>>

StartLook(enabled) ==
    /\ startPc = "look"
    /\ startPc' = IF enabled /\ ~zc THEN "make" ELSE "done"
    /\ UNCHANGED <<zc, infos, responder, advertised, left, probing, registered, stopPc>>

MakeResponder ==
    /\ startPc = "make"
    /\ \/ zc' = TRUE /\ responder' = "open" /\ startPc' = "register"
       \/ startPc' = "done" /\ UNCHANGED <<zc, responder>>
    /\ UNCHANGED <<infos, advertised, left, probing, registered, stopPc>>

\* register_service() begins by probing the network, which takes seconds.  For a
\* responder that is gone the call raises.
Probe(s) ==
    /\ startPc = "register" /\ probing = {} /\ s \in left
    /\ left' = left \ {s}
    /\ probing' = IF zc THEN {s} ELSE {}
    /\ UNCHANGED <<zc, infos, responder, advertised, startPc, registered, stopPc>>

\* It returns or raises.  The responder may have been closed since it began: it then
\* tells the network nothing, whatever becomes of the call.
RegisterEnds ==
    /\ startPc = "register" /\ probing # {}
    /\ probing' = {}
    /\ \/ /\ registered' = registered \cup probing
          /\ advertised' = advertised \cup {s \in probing : responder = "open"}
       \/ UNCHANGED <<registered, advertised>>
    /\ UNCHANGED <<zc, infos, responder, startPc, left, stopPc>>

Publish ==
    /\ startPc = "register" /\ left = {} /\ probing = {}
    /\ infos' = registered
    /\ startPc' = "done"
    /\ UNCHANGED <<zc, responder, advertised, left, probing, registered, stopPc>>

StartStep(enabled) ==
    \/ StartLook(enabled) \/ MakeResponder
    \/ (\E s \in Services : Probe(s)) \/ RegisterEnds \/ Publish

-------------------------------------------------------------------------------
(* stop(). *)

CallStop ==
    /\ stopPc' = "look"
    /\ UNCHANGED <<zc, infos, responder, advertised, start>>

StopLook ==
    /\ stopPc = "look"
    /\ stopPc' = IF zc THEN "withdraw" ELSE "none"
    /\ UNCHANGED <<zc, infos, responder, advertised, start>>

\* What cannot be withdrawn is logged and left to close().
Withdraw ==
    /\ stopPc = "withdraw"
    /\ \E some \in SUBSET infos : advertised' = advertised \ some
    /\ stopPc' = "close"
    /\ UNCHANGED <<zc, infos, responder, start>>

\* A mutated form changes the definition after it the way a plausible mistake would.
\* Nothing uses it but the mutation runs.
CloseResponder_Skipped == stopPc = "close" /\ stopPc' = "forget"
                          /\ UNCHANGED <<zc, infos, responder, advertised, start>>

\* Closing says goodbye for all that is registered.
CloseResponder ==
    /\ stopPc = "close"
    /\ responder' = "closed"
    /\ advertised' = {}
    /\ stopPc' = "forget"
    /\ UNCHANGED <<zc, infos, start>>

Forget ==
    /\ stopPc = "forget"
    /\ zc' = FALSE
    /\ infos' = {}
    /\ stopPc' = "done"
    /\ UNCHANGED <<responder, advertised, start>>

StopStep == StopLook \/ Withdraw \/ CloseResponder \/ Forget

\* Where the process has ended without a goodbye, its records expire.
Expire ==
    /\ advertised # {}
    /\ advertised' = {}
    /\ UNCHANGED <<zc, infos, responder, start, stopPc>>
===============================================================================

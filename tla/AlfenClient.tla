----------------------------- MODULE AlfenClient -----------------------------
(***************************************************************************)
(* The Modbus poller of the charger (app/alfen/client.py): one thread that *)
(* connects, reads, remembers the last good values and hands each parsed   *)
(* reply to the energy store; the main thread, which stops it; and the     *)
(* HTTP handlers, which ask for its status.  The charger can answer, fail, *)
(* fall silent and come back, and a call to it can take forever.           *)
(***************************************************************************)
EXTENDS Integers

CONSTANTS
    Values,          \* the measurements a charger may report
    Blank,           \* the values of a fresh AlfenMeasurements
    Conns,           \* identities of ModbusTcpClient objects
    PollInterval,    \* poll_interval
    MaxBackoff,      \* the 30 s the waits are capped at, in the same unit
    ShortReads,      \* may a reply hold fewer registers than were asked for?
    FsMayHang,       \* may the save inside on_update be slow?
    JoinMayTimeOut,  \* may stop() give up waiting for the poller?
    MaxCount,        \* bound: the two poll counters stop here
    None             \* Python's None

Errors == {"connect_failed", "modbus_error", "short_read"}   \* kinds of _last_error

ASSUME ValueAssumption == Blank \notin Values /\ None \notin Conns /\ None \notin Errors
ASSUME SettingsAssumption ==
    /\ PollInterval \in Nat \ {0} /\ MaxBackoff \in Nat /\ MaxCount \in Nat \ {0}
    /\ ShortReads \in BOOLEAN /\ FsMayHang \in BOOLEAN /\ JoinMayTimeOut \in BOOLEAN

VARIABLES
    pc,           \* where the poller is
    main,         \* where the main thread is
    locked,       \* does the poller hold AlfenClient._lock across steps?
    client,       \* _client
    mine,         \* the connection in the poller's local variable
    connected, last, last_error, poll_count, error_count,
    backoff,
    store,        \* what on_update last told the energy store
    link,         \* the socket of each connection
    device,       \* how the charger behaves
    reader        \* where an HTTP handler is

connVars   == <<client, mine, link>>
statusVars == <<connected, last, last_error, poll_count, error_count>>
vars == <<pc, main, locked, connVars, statusVars, backoff, store, device, reader>>

-------------------------------------------------------------------------------

stopping == main # "run"                      \* _stop.is_set()

At(l) == pc = l
Goto(l) == pc' = l
Socket(k, s) == [link EXCEPT ![k] = s]

Bump(n) == IF n < MaxCount THEN n + 1 ELSE n

Slower(b) == IF (b * 3) \div 2 < MaxBackoff THEN (b * 3) \div 2 ELSE MaxBackoff

\* The poll is over: how long the poller waits depends on its result.
Finish(ok) == /\ backoff' = IF ok THEN PollInterval ELSE Slower(backoff)
              /\ Goto("wait")

\* Mutated forms, here and below, change the definition after them the way a
\* plausible mistake would.  Nothing uses them but the mutation runs.
FailedMeasurements_Fresh == [kind |-> "failed", value |-> Blank]

\* A failed measurement keeps the numbers of the one before it, if there was one.
FailedMeasurements ==
    [kind  |-> "failed",
     value |-> IF last.kind = "ok" \/ poll_count > 0 THEN last.value ELSE Blank]

-------------------------------------------------------------------------------
(* The poller. *)

LoopTop ==
    /\ At("loop")
    /\ Goto(IF stopping THEN "exited" ELSE "ensure")
    /\ UNCHANGED <<main, locked, connVars, statusVars, backoff, store, device, reader>>

\* _ensure_connected, up to the network: keep a live client or let go of it.
EnsureConnected ==
    /\ At("ensure") /\ ~locked
    /\ IF client # None /\ link[client] # "closed"
       THEN connected' = TRUE /\ Goto("read") /\ UNCHANGED <<client, mine>>
       ELSE connected' = FALSE /\ Goto("connect") /\ client' = None /\ mine' = client
    /\ UNCHANGED <<main, locked, link, last, last_error, poll_count, error_count,
                   backoff, store, device, reader>>

Released == IF mine = None THEN link ELSE Socket(mine, "closed")

\* The old client is closed; a new one connects, or does not, or raises.
Connect ==
    /\ At("connect")
    /\ \/ \E k \in Conns :
            /\ Released[k] = "closed"
            /\ mine' = k
            /\ link' = [Released EXCEPT ![k] = IF device = "silent" THEN "closed" ELSE "open"]
            /\ Goto("register")
       \/ device = "silent" /\ mine' = None /\ link' = Released /\ Goto("raised")
    /\ UNCHANGED <<main, locked, client, statusVars, backoff, store, device, reader>>

Register_Unchecked ==
    /\ At("register") /\ ~locked
    /\ client' = mine /\ mine' = None
    /\ connected' = (link[mine] # "closed")
    /\ last_error' = IF link[mine] = "closed" THEN "connect_failed" ELSE last_error
    /\ Goto(IF link[mine] = "closed" THEN "failed" ELSE "read")
    /\ UNCHANGED <<main, locked, link, last, poll_count, error_count, backoff, store,
                   device, reader>>

\* Under the lock again: has stop() been called meanwhile?
Register ==
    /\ At("register") /\ ~locked
    /\ IF stopping
       THEN /\ locked' = TRUE /\ Goto("discard")
            /\ UNCHANGED <<client, mine, connected, last_error>>
       ELSE /\ client' = mine /\ mine' = None
            /\ connected' = (link[mine] # "closed")
            /\ last_error' = IF link[mine] = "closed" THEN "connect_failed" ELSE last_error
            /\ Goto(IF link[mine] = "closed" THEN "failed" ELSE "read")
            /\ UNCHANGED locked
    /\ UNCHANGED <<main, link, last, poll_count, error_count, backoff, store, device, reader>>

\* It has: the new client is closed, with the lock still held.
Discard ==
    /\ At("discard")
    /\ link' = Socket(mine, "closed") /\ mine' = None
    /\ connected' = FALSE /\ locked' = FALSE
    /\ Goto("failed")
    /\ UNCHANGED <<main, client, last, last_error, poll_count, error_count, backoff,
                   store, device, reader>>

PollNotConnected ==
    /\ At("failed") /\ ~locked
    /\ error_count' = Bump(error_count)
    /\ last' = FailedMeasurements
    /\ Finish(FALSE)
    /\ UNCHANGED <<main, locked, connVars, connected, last_error, poll_count, store,
                   device, reader>>

BeginRead_Locked ==
    /\ At("read") /\ ~locked
    /\ mine' = client
    /\ locked' = (client # None)
    /\ Goto(IF client = None THEN "read_failed" ELSE "reading")
    /\ UNCHANGED <<main, client, link, statusVars, backoff, store, device, reader>>

\* The lock protects the choice of the client, not the round-trip.
BeginRead ==
    /\ At("read") /\ ~locked
    /\ mine' = client
    /\ Goto(IF client = None THEN "read_failed" ELSE "reading")
    /\ UNCHANGED <<main, locked, client, link, statusVars, backoff, store, device, reader>>

Parsed_NoError(m, err) ==
    /\ last' = m
    /\ poll_count' = Bump(poll_count)
    /\ UNCHANGED <<last_error, error_count, connected>>

\* A reply was parsed: m is what it held, err what was wrong with it.
Parsed(m, err) ==
    /\ last' = m
    /\ poll_count' = Bump(poll_count)
    /\ last_error' = err
    /\ UNCHANGED <<error_count, connected>>

ReadReturns ==
    /\ At("reading") /\ ~locked /\ link[mine] = "open"
    /\ \/ device = "good" /\ \E v \in Values : Parsed([kind |-> "ok", value |-> v], None)
       \/ device = "faulty" /\ ShortReads
              /\ Parsed([kind |-> "failed", value |-> Blank], "short_read")
    /\ mine' = None
    /\ Goto("deliver")
    /\ UNCHANGED <<main, locked, client, link, backoff, store, device, reader>>

\* No registers.  The library may or may not have closed its socket.
ReadFails ==
    /\ At("reading") /\ ~locked
    /\ device # "good" \/ link[mine] # "open"
    /\ last_error' = "modbus_error"
    /\ link' \in {link, Socket(mine, "closed")}
    /\ mine' = None
    /\ Goto("read_failed")
    /\ UNCHANGED <<main, locked, client, connected, last, poll_count, error_count,
                   backoff, store, device, reader>>

CountReadFailure_KeepsClient ==
    /\ At("read_failed") /\ ~locked
    /\ error_count' = Bump(error_count)
    /\ connected' = FALSE
    /\ Goto("merge")
    /\ UNCHANGED <<main, locked, connVars, last, last_error, poll_count, backoff, store,
                   device, reader>>

CountReadFailure ==
    /\ At("read_failed") /\ ~locked
    /\ error_count' = Bump(error_count)
    /\ connected' = FALSE
    /\ Goto("close")
    /\ UNCHANGED <<main, locked, connVars, last, last_error, poll_count, backoff, store,
                   device, reader>>

CloseClient_Forgets ==
    /\ ~locked
    /\ client' = None /\ connected' = FALSE
    /\ UNCHANGED <<locked, mine, link, last, last_error, poll_count, error_count, backoff,
                   store, device, reader>>

\* _close, by whichever thread.
CloseClient ==
    /\ ~locked
    /\ client' = None /\ connected' = FALSE
    /\ link' = IF client = None THEN link ELSE Socket(client, "closed")
    /\ UNCHANGED <<locked, mine, last, last_error, poll_count, error_count, backoff,
                   store, device, reader>>

CloseAfterFailure == At("close") /\ CloseClient /\ Goto("merge") /\ UNCHANGED main

MergeFailure ==
    /\ At("merge") /\ ~locked
    /\ last' = FailedMeasurements
    /\ Finish(FALSE)
    /\ UNCHANGED <<main, locked, connVars, connected, last_error, poll_count, error_count,
                   store, device, reader>>

\* on_update is EnergyStore.update_from_alfen, which may go on to save.
Deliver ==
    /\ At("deliver")
    /\ store' = [ok |-> last.kind = "ok", value |-> last.value]
    /\ \/ Finish(last.kind = "ok")
       \/ FsMayHang /\ Goto("saving") /\ UNCHANGED backoff
    /\ UNCHANGED <<main, locked, connVars, statusVars, device, reader>>

SaveReturns ==
    /\ At("saving")
    /\ Finish(last.kind = "ok")
    /\ UNCHANGED <<main, locked, connVars, statusVars, store, device, reader>>

\* An exception reached the loop.
PollRaised ==
    /\ At("raised") /\ ~locked
    /\ error_count' = Bump(error_count)
    /\ Finish(FALSE)
    /\ UNCHANGED <<main, locked, connVars, connected, last, last_error, poll_count, store,
                   device, reader>>

WaitEnds ==
    /\ At("wait")
    /\ Goto("loop")
    /\ UNCHANGED <<main, locked, connVars, statusVars, backoff, store, device, reader>>

-------------------------------------------------------------------------------
(* The main thread, an HTTP handler, and the charger. *)

RequestStop ==
    /\ main = "run" /\ main' = "join"
    /\ UNCHANGED <<pc, locked, connVars, statusVars, backoff, store, device, reader>>

JoinReturns_Untimed ==
    /\ main = "join" /\ At("exited")
    /\ main' = "closing"
    /\ UNCHANGED <<pc, locked, connVars, statusVars, backoff, store, device, reader>>

\* join(timeout=5.0)
JoinReturns ==
    /\ main = "join" /\ (At("exited") \/ JoinMayTimeOut)
    /\ main' = "closing"
    /\ UNCHANGED <<pc, locked, connVars, statusVars, backoff, store, device, reader>>

CloseOnStop == main = "closing" /\ CloseClient /\ main' = "stopped" /\ UNCHANGED pc

AskStatus ==
    /\ reader = "idle" /\ reader' = "asking"
    /\ UNCHANGED <<pc, main, locked, connVars, statusVars, backoff, store, device>>

GetStatus ==
    /\ reader = "asking" /\ ~locked
    /\ reader' = "idle"
    /\ UNCHANGED <<pc, main, locked, connVars, statusVars, backoff, store, device>>

Cut == [k \in Conns |-> IF link[k] = "open" THEN "dead" ELSE link[k]]

\* The charger changes, and may cut the connection; a silent one has cut it.
DeviceChanges ==
    /\ device' \in {"good", "faulty", "silent"} \ {device}
    /\ link' = Cut \/ (link' = link /\ device' # "silent")
    /\ UNCHANGED <<pc, main, locked, client, mine, statusVars, backoff, store, reader>>

-------------------------------------------------------------------------------

Init ==
    /\ pc = "loop" /\ main = "run" /\ locked = FALSE
    /\ client = None /\ mine = None
    /\ link = [k \in Conns |-> "closed"]
    /\ connected = FALSE /\ last_error = None
    /\ last = [kind |-> "none", value |-> Blank]
    /\ poll_count = 0 /\ error_count = 0
    /\ backoff = PollInterval
    /\ store = [ok |-> FALSE, value |-> Blank]
    /\ device = "silent" /\ reader = "idle"

PollerComputes ==
    \/ LoopTop \/ EnsureConnected \/ Register \/ Discard \/ PollNotConnected \/ BeginRead
    \/ CountReadFailure \/ CloseAfterFailure \/ MergeFailure \/ Deliver \/ PollRaised
    \/ WaitEnds

NetworkCall == Connect \/ ReadReturns \/ ReadFails

Next ==
    \/ PollerComputes \/ NetworkCall \/ SaveReturns
    \/ RequestStop \/ JoinReturns \/ CloseOnStop
    \/ AskStatus \/ GetStatus
    \/ DeviceChanges

Spec == Init /\ [][Next]_vars

\* Every thread runs, but a call on the network or the disk may never return.
FairSpec == Spec /\ WF_vars(PollerComputes) /\ WF_vars(JoinReturns \/ CloseOnStop)
                 /\ WF_vars(GetStatus)

\* Connecting and reading end, as their timeouts make them; and saving ends.
NetworkCallsEnd == WF_vars(NetworkCall)
SavesEnd == WF_vars(SaveReturns)

-------------------------------------------------------------------------------
(* Properties. *)

PcLabels == {"loop", "ensure", "connect", "register", "discard", "failed", "read",
             "reading", "read_failed", "close", "merge", "deliver", "saving", "raised",
             "wait", "exited"}

\* Every variable has its type.
TypeOK ==
    /\ pc \in PcLabels
    /\ main \in {"run", "join", "closing", "stopped"}
    /\ locked \in BOOLEAN /\ connected \in BOOLEAN
    /\ client \in Conns \cup {None} /\ mine \in Conns \cup {None}
    /\ link \in [Conns -> {"closed", "open", "dead"}]
    /\ last \in [kind : {"none", "ok", "failed"}, value : Values \cup {Blank}]
    /\ last_error \in Errors \cup {None}
    /\ poll_count \in 0..MaxCount /\ error_count \in 0..MaxCount
    /\ backoff \in Nat
    /\ store \in [ok : BOOLEAN, value : Values \cup {Blank}]
    /\ device \in {"good", "faulty", "silent"} /\ reader \in {"idle", "asking"}

\* No connection is forgotten while its socket is open: it is _client, or the
\* poller still has it in hand.
NoConnectionLeak == \A k \in Conns : link[k] # "closed" => k \in {client, mine}

\* Once stop() has returned the client stays disconnected, even if the join timed
\* out while the poller was still connecting (client.py:155-161).
StopDisconnects ==
    main = "stopped" => /\ client = None /\ ~connected
                        /\ At("exited") => \A k \in Conns : link[k] = "closed"

BetweenPolls == pc \in {"wait", "loop"}

\* Between polls the status tells the truth: an error is shown exactly when the
\* last poll to change _last failed (client.py:164-248).  A poll that stop()
\* interrupts may fail with no error to show.
StatusAgrees ==
    BetweenPolls /\ ~stopping => ((last_error # None) <=> (last.kind = "failed"))

\* Between polls the store serves the very numbers _last holds, whatever mixture
\* of good, failed and short replies came before (client.py:220-251).
StoreFollowsPolls == BetweenPolls => store.value = last.value

\* Waiting is never shorter than the poll interval nor longer than the cap.
BackoffBounded ==
    PollInterval <= MaxBackoff => PollInterval <= backoff /\ backoff <= MaxBackoff

\* The numbers of _last change only with a reply, good or short: no failure to
\* connect or to read, no exception and no stop() touches them (client.py:212-239).
NumbersNeedReply == [][last'.value # last.value => At("reading") /\ Goto("deliver")]_last

\* "Retain last-good values on failure" (client.py:212): they change only to those
\* of a good reply.
LastGoodKept == [][last'.value # last.value => last'.kind = "ok"]_last

\* A status request is answered even while a call to the charger hangs
\* (client.py:172-175).
StatusAnswered == (reader = "asking") ~> (reader = "idle")

\* stop() returns even while a call to the charger hangs (client.py:115-120).
StopReturns == (main = "join") ~> (main = "stopped")

\* Once the charger works and goes on working, the poller reconnects by itself,
\* delivers good values and is back at its normal pace.
Recovers ==
    NetworkCallsEnd /\ SavesEnd /\ <>[](device = "good" /\ main = "run")
        => <>[](last.kind = "ok" /\ store.ok /\ backoff = PollInterval)

\* "So a slow/hung filesystem cannot stall Modbus polling" (energy.py:174).
PollingContinues == NetworkCallsEnd /\ [](main = "run") => []<>At("loop")
===============================================================================

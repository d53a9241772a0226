---------------------------- MODULE ModbusServer ----------------------------
(***************************************************************************)
(* The Modbus TCP server the Sigenstor polls (app/shelly/modbus_server.py):*)
(* a thread with an event loop of its own, one task per connection, and    *)
(* the main thread, which stops it without waiting for it.  A request is   *)
(* two pieces, the six bytes that say how long it is and the rest, each    *)
(* read in full before the server goes on.  What a reply holds is          *)
(* abstracted to the update of the energy store it shows;  ShellyRegisters *)
(* says which words that are.                                              *)
(***************************************************************************)
EXTENDS Integers, Sequences

CONSTANTS
    Clients,
    Kinds,         \* what each client may ask, a subset of RequestKinds
    MaxRequests,   \* bound: requests each client sends
    Lazy,          \* the clients that may leave answers unread
    MaxUpdates     \* bound: updates of the energy store

\* "read": FC04 within limits; "refused": anything answered by an exception;
\* "bad_length": a header that announces less than 2 or more than 260 bytes.
RequestKinds == {"read", "refused", "bad_length"}

\* Left unread: "some", which keeps a connection from being closed for good; "much",
\* more than the transport is meant to hold, so that drain() waits too.
Amounts == {"none", "some", "much"}

ASSUME KindAssumption == Kinds \in [Clients -> SUBSET RequestKinds]
ASSUME LazyAssumption == Lazy \subseteq Clients
ASSUME BoundAssumption == MaxRequests \in [Clients -> Nat] /\ MaxUpdates \in Nat

VARIABLES
    main,       \* where the main thread is
    thread,     \* where the server's thread is
    closing,    \* did stop() hand _close to the event loop?
    conn,       \* where the task of each connection is
    asked,      \* the requests of each client, each with the update its last byte followed
    sent,       \* pieces each client has sent
    taken,      \* pieces its task has read
    eof,        \* has the client hung up, or was the connection lost?
    replies,    \* what each client was answered
    unread,     \* what it has left unread of that
    answered,   \* how many of those it had when stop() was called
    version     \* updates of the energy store

lifeVars == <<main, thread, closing>>
clientVars == <<asked, sent, eof, unread>>
vars == <<lifeVars, conn, clientVars, taken, replies, answered, version>>

-------------------------------------------------------------------------------

stopping == main # "serve"                       \* _stop.is_set()
LoopRuns == thread \in {"listening", "closing"}
Open(c) == conn[c] \notin {"none", "closed"}

At(c, l) == LoopRuns /\ conn[c] = l
Goto(c, l) == conn' = [conn EXCEPT ![c] = l]

\* Mutated forms, here and below, change the definition after them the way a
\* plausible mistake would.  Nothing uses them but the mutation runs.
HasPiece_Greedy(c) == taken[c] + 1 < sent[c]

\* readexactly can return.
HasPiece(c) == taken[c] < sent[c]
Take(c) == taken' = [taken EXCEPT ![c] = @ + 1]

\* The request the task of c is reading.
Number(c) == (taken[c] + 2) \div 2
Current(c) == asked[c][Number(c)]

-------------------------------------------------------------------------------
(* The server's thread and the main thread. *)

\* start_server binds the port, or raises.
Bind ==
    /\ thread = "starting" /\ thread' \in {"listening", "ended"}
    /\ UNCHANGED <<main, closing, conn, clientVars, taken, replies, answered, version>>

\* stop() sets _stop ...
RequestStop ==
    /\ main = "serve" /\ main' = "stopping"
    /\ answered' = [c \in Clients |-> Len(replies[c])]
    /\ UNCHANGED <<thread, closing, conn, clientVars, taken, replies, version>>

StopReturns_NoClose ==
    /\ main = "stopping" /\ main' = "stopped"
    /\ UNCHANGED <<thread, closing, conn, clientVars, taken, replies, answered, version>>

\* ... and, if there is a server by now, asks the loop to close it.
StopReturns ==
    /\ main = "stopping" /\ main' = "stopped"
    /\ closing' = (thread = "listening")
    /\ UNCHANGED <<thread, conn, clientVars, taken, replies, answered, version>>

\* Listening ends; serve_forever now waits for the connections to end, which they
\* do when what was written to them has gone out.
CloseListener ==
    /\ closing /\ thread = "listening" /\ thread' = "closing"
    /\ UNCHANGED <<main, closing, conn, clientVars, taken, replies, answered, version>>

LoopEnds ==
    /\ thread = "closing" /\ \A c \in Clients : ~Open(c) /\ unread[c] = "none"
    /\ thread' = "ended"
    /\ UNCHANGED <<main, closing, conn, clientVars, taken, replies, answered, version>>

-------------------------------------------------------------------------------
(* _client. *)

Accept(c) ==
    /\ thread = "listening" /\ conn[c] = "none"
    /\ Goto(c, "loop")
    /\ UNCHANGED <<lifeVars, clientVars, taken, replies, answered, version>>

LoopTop_Forever(c) ==
    /\ At(c, "loop") /\ unread[c] # "much"
    /\ Goto(c, "header")
    /\ UNCHANGED <<lifeVars, clientVars, taken, replies, answered, version>>

\* The drain of the last reply has returned: there is no limit to that wait.
LoopTop(c) ==
    /\ At(c, "loop") /\ unread[c] # "much"
    /\ Goto(c, IF stopping THEN "closed" ELSE "header")
    /\ UNCHANGED <<lifeVars, clientVars, taken, replies, answered, version>>

ReadHeader(c) ==
    /\ At(c, "header") /\ HasPiece(c)
    /\ Take(c)
    /\ Goto(c, IF Current(c).kind = "bad_length" THEN "closed" ELSE "body")
    /\ UNCHANGED <<lifeVars, clientVars, replies, answered, version>>

HeaderMissing_Leaks(c) ==
    /\ At(c, "header") /\ ~HasPiece(c)
    /\ Goto(c, "leaked")
    /\ UNCHANGED <<lifeVars, clientVars, taken, replies, answered, version>>

\* No header for two minutes, or the client hung up before or within it.
HeaderMissing(c) ==
    /\ At(c, "header") /\ ~HasPiece(c)
    /\ Goto(c, "closed")
    /\ UNCHANGED <<lifeVars, clientVars, taken, replies, answered, version>>

\* Nothing limits the wait for the rest but the client hanging up.
BodyMissing(c) ==
    /\ At(c, "body") /\ ~HasPiece(c) /\ eof[c]
    /\ Goto(c, "closed")
    /\ UNCHANGED <<lifeVars, clientVars, taken, replies, answered, version>>

AmountsLeft(c) == IF c \in Lazy THEN Amounts ELSE {"none"}

Shown_Cached(c) == IF replies[c] = <<>> THEN version ELSE replies[c][Len(replies[c])].shows

\* The update a reply shows: build_register_map takes a snapshot for each.
Shown(c) == version

Answer_ReadsOnly(c) ==
    /\ At(c, "body") /\ HasPiece(c)
    /\ Take(c)
    /\ replies' = [replies EXCEPT ![c] =
                     IF Current(c).kind = "read"
                     THEN Append(@, [tid |-> Number(c), kind |-> "read", shows |-> Shown(c)])
                     ELSE @]
    /\ unread' \in {[unread EXCEPT ![c] = u] : u \in AmountsLeft(c)}
    /\ Goto(c, "loop")
    /\ UNCHANGED <<lifeVars, asked, sent, eof, answered, version>>

\* The request is complete: _handle_pdu, and the reply under its transaction id, of
\* which, and of those before it, the client may by now have read as much as it likes.
Answer(c) ==
    /\ At(c, "body") /\ HasPiece(c)
    /\ Take(c)
    /\ replies' = [replies EXCEPT ![c] =
                     Append(@, [tid |-> Number(c), kind |-> Current(c).kind, shows |-> Shown(c)])]
    /\ unread' \in {[unread EXCEPT ![c] = u] : u \in AmountsLeft(c)}
    /\ Goto(c, "loop")
    /\ UNCHANGED <<lifeVars, asked, sent, eof, answered, version>>

-------------------------------------------------------------------------------
(* The clients, which need not wait for a reply, and the energy store. *)

CanSend(c) == Open(c) /\ ~eof[c]

SendHeader(c) ==
    /\ CanSend(c) /\ sent[c] = 2 * Len(asked[c]) /\ Len(asked[c]) < MaxRequests[c]
    /\ \E k \in Kinds[c] : asked' = [asked EXCEPT ![c] = Append(@, [kind |-> k, since |-> 0])]
    /\ sent' = [sent EXCEPT ![c] = @ + 1]
    /\ UNCHANGED <<lifeVars, conn, eof, unread, taken, replies, answered, version>>

SendBody(c) ==
    /\ CanSend(c) /\ sent[c] = 2 * Len(asked[c]) - 1
    /\ asked' = [asked EXCEPT ![c][Len(asked[c])].since = version]
    /\ sent' = [sent EXCEPT ![c] = @ + 1]
    /\ UNCHANGED <<lifeVars, conn, eof, unread, taken, replies, answered, version>>

HangUp(c) ==
    /\ CanSend(c)
    /\ eof' = [eof EXCEPT ![c] = TRUE]
    /\ UNCHANGED <<lifeVars, conn, asked, sent, unread, taken, replies, answered, version>>

\* It reads some more of what it was sent, if it likes.
ReadOn(c) ==
    /\ unread[c] # "none"
    /\ \E u \in {"none", "some"} : unread' = [unread EXCEPT ![c] = u]
    /\ UNCHANGED <<lifeVars, conn, asked, sent, eof, taken, replies, answered, version>>

\* The connection is lost: what its task waits for raises, and nothing is left to send.
ConnectionLost(c) ==
    /\ LoopRuns /\ (Open(c) \/ unread[c] # "none")
    /\ Goto(c, "closed")
    /\ eof' = [eof EXCEPT ![c] = TRUE]
    /\ unread' = [unread EXCEPT ![c] = "none"]
    /\ UNCHANGED <<lifeVars, asked, sent, taken, replies, answered, version>>

Update ==
    /\ version < MaxUpdates /\ version' = version + 1
    /\ UNCHANGED <<lifeVars, conn, clientVars, taken, replies, answered>>

-------------------------------------------------------------------------------

Init ==
    /\ main = "serve" /\ thread = "starting" /\ closing = FALSE
    /\ conn = [c \in Clients |-> "none"]
    /\ asked = [c \in Clients |-> <<>>]
    /\ sent = [c \in Clients |-> 0] /\ taken = [c \in Clients |-> 0]
    /\ eof = [c \in Clients |-> FALSE]
    /\ replies = [c \in Clients |-> <<>>] /\ unread = [c \in Clients |-> "none"]
    /\ answered = [c \in Clients |-> 0]
    /\ version = 0

TaskStep(c) ==
    LoopTop(c) \/ ReadHeader(c) \/ HeaderMissing(c) \/ BodyMissing(c) \/ Answer(c)

ClientStep(c) ==
    \/ Accept(c) \/ SendHeader(c) \/ SendBody(c) \/ HangUp(c)
    \/ ReadOn(c) \/ ConnectionLost(c)

ThreadStep == Bind \/ CloseListener \/ LoopEnds
MainStep == RequestStop \/ StopReturns

Next ==
    \/ ThreadStep \/ MainStep \/ Update
    \/ \E c \in Clients : TaskStep(c) \/ ClientStep(c)

Spec == Init /\ [][Next]_vars

\* The loop runs what is ready and its two-minute timer fires; stop() runs to its
\* end once called.  Clients may fall silent, or stop reading, at any point.
FairSpec == /\ Spec /\ WF_vars(ThreadStep) /\ WF_vars(StopReturns)
            /\ \A c \in Clients : WF_vars(TaskStep(c))

-------------------------------------------------------------------------------
(* Properties. *)

\* Every variable has its type.
TypeOK ==
    /\ main \in {"serve", "stopping", "stopped"}
    /\ thread \in {"starting", "listening", "closing", "ended"}
    /\ closing \in BOOLEAN
    /\ conn \in [Clients -> {"none", "loop", "header", "body", "closed"}]
    /\ asked \in [Clients -> Seq([kind : RequestKinds, since : Nat])]
    /\ sent \in [Clients -> Nat] /\ taken \in [Clients -> Nat]
    /\ eof \in [Clients -> BOOLEAN] /\ unread \in [Clients -> Amounts]
    /\ replies \in [Clients -> Seq([tid : Nat, kind : RequestKinds, shows : Nat])]
    /\ answered \in [Clients -> Nat] /\ version \in Nat

\* However many requests a client sends ahead of the replies, the n-th reply is
\* to the n-th request, and none was passed over (modbus_server.py:185-196).
RepliesInOrder ==
    \A c \in Clients : \A n \in 1..Len(replies[c]) :
        /\ replies[c][n].tid = n
        /\ replies[c][n].kind = asked[c][n].kind

\* A reply never shows a meter older than the one there was when its request was
\* complete; so no client sees the counters go back, on any number of
\* connections (modbus_server.py:148-149, 168).
FreshReads ==
    \A c \in Clients : \A n \in 1..Len(replies[c]) :
        replies[c][n].shows >= asked[c][n].since

\* After stop() a connection gets the reply it is waiting for and no other, also
\* one that is accepted by a listener that stop() came too early to close.
OneReplyAfterStop ==
    stopping => \A c \in Clients : Len(replies[c]) <= answered[c] + 1

\* A complete request is answered, unless its client goes away, does not read the
\* answers before it, sent a header that cannot be followed, or the server is stopped.
RequestAnswered ==
    \A c \in Clients : \A n \in 1..MaxRequests[c] :
        (/\ Open(c) /\ sent[c] >= 2 * n
         /\ \A i \in 1..n : asked[c][i].kind # "bad_length")
            ~> (Len(replies[c]) >= n \/ eof[c] \/ unread[c] = "much" \/ stopping)

\* Does a client keep its connection from ending?
HeldUp == \E c \in Clients : conn[c] = "body" \/ unread[c] # "none"

\* A server that was listening when stop() looked ends, unless again and again there
\* is a client in the middle of a request, or one that has not read all its answers
\* (modbus_server.py:187-206, 240-246).
StopEnds ==
    [](main = "stopping" /\ thread = "listening" => <>(thread = "ended") \/ []<>HeldUp)
===============================================================================

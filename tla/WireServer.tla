----------------------------- MODULE WireServer -----------------------------
(***************************************************************************)
(* The HTTP and WebSocket front end (app/wire_server.py).  One event loop  *)
(* runs a task per connection; a task gives way to the others only where   *)
(* an await has to wait.  Streams are counted in bytes: what matters is    *)
(* where a message is cut when it arrives and where a client hangs up, not *)
(* what the bytes say.                                                     *)
(***************************************************************************)
EXTENDS Integers, Sequences

CONSTANTS
    Clients,
    Requests,    \* what each client may ask for: [kind, body], the body in bytes
    Frames,      \* WebSocket frames: [op, ext, rest], the sizes in bytes
    MaxFrames,   \* bound: frames each client sends
    None

HeadLen == 2    \* the request line and the headers, which may arrive in two pieces

\* "unreadable": a head that raises when it is decoded, like a Content-Length that is no number.
Kinds == {"plain", "malformed", "unreadable", "upgrade", "upgrade_without_key"}
Ops == {"text", "ignored", "ping", "close"}     \* "ignored": not text, or not a JSON object

ASSUME RequestAssumption ==
    \A c \in Clients : \A r \in Requests[c] : r.kind \in Kinds /\ r.body \in Nat
ASSUME FrameAssumption ==
    \A f \in Frames : f.op \in Ops /\ f.ext \in {0, 2, 8} /\ f.rest \in Nat
ASSUME BoundAssumption ==
    /\ MaxFrames \in [Clients -> Nat]
    /\ None \notin Clients /\ \A c \in Clients : None \notin Requests[c]

VARIABLES
    pc,          \* where the task of each connection is
    request,     \* what the client asked for
    unsent,      \* bytes of its current message still to come
    avail,       \* bytes in the StreamReader
    eof,         \* has the client hung up?
    body,        \* bytes of the request body read
    upgraded,    \* is the connection a WebSocket?
    buf,         \* bytes in the WebSocket buffer
    frames,      \* the frames the client has begun to send, and where in its stream they end
    handled,     \* how many of them were handled
    replies,     \* what the client was sent
    spinning     \* the task that loops without ever waiting, if any

wsVars == <<upgraded, buf, frames, handled>>
streamVars == <<unsent, avail, eof>>
vars == <<pc, request, streamVars, body, wsVars, replies, spinning>>

-------------------------------------------------------------------------------

At(c, l) == pc[c] = l
Goto(c, l) == pc' = [pc EXCEPT ![c] = l]

Size(f) == 2 + f.ext + f.rest

\* The frame whose bytes are next in the buffer.
Current(c) == frames[c][handled[c] + 1].frame

\* Where in the client's stream its n-th frame ends.
EndOf(c, n) == IF n = 0 THEN 0 ELSE frames[c][n].end

Reply(c, what) == replies' = [replies EXCEPT ![c] = Append(@, what)]

-------------------------------------------------------------------------------
(* The clients. *)

Connect(c) ==
    /\ At(c, "away") /\ Goto(c, "request")
    /\ \E r \in Requests[c] :
          /\ request' = [request EXCEPT ![c] = r]
          /\ unsent' = [unsent EXCEPT ![c] = HeadLen + r.body]
    /\ UNCHANGED <<avail, eof, body, wsVars, replies, spinning>>

Connected(c) == pc[c] \notin {"away", "closed"} /\ ~eof[c]

\* Some more of the message arrives.
Arrive(c) ==
    /\ Connected(c)
    /\ \E n \in 1..unsent[c] :
          /\ unsent' = [unsent EXCEPT ![c] = @ - n]
          /\ avail' = [avail EXCEPT ![c] = @ + n]
    /\ UNCHANGED <<pc, request, eof, body, wsVars, replies, spinning>>

BeginFrame(c) ==
    /\ Connected(c) /\ upgraded[c] /\ unsent[c] = 0 /\ Len(frames[c]) < MaxFrames[c]
    /\ \E f \in Frames :
          /\ frames' = [frames EXCEPT
                ![c] = Append(@, [frame |-> f, end |-> EndOf(c, Len(@)) + Size(f)])]
          /\ unsent' = [unsent EXCEPT ![c] = Size(f)]
    /\ UNCHANGED <<pc, request, avail, eof, body, upgraded, buf, handled, replies, spinning>>

\* It may hang up anywhere, in the middle of a message too.
HangUp(c) ==
    /\ Connected(c)
    /\ eof' = [eof EXCEPT ![c] = TRUE]
    /\ UNCHANGED <<pc, request, unsent, avail, body, wsVars, replies, spinning>>

-------------------------------------------------------------------------------
(* handle_client: one request. *)

Runs(c, l) == At(c, l) /\ spinning = None

WholeHead(c) == request[c].kind # "malformed" /\ avail[c] >= HeadLen

\* The first read must bring the whole head, or the answer is 400.  A head that
\* raises gets no answer.
FirstRead(c) ==
    /\ Runs(c, "request") /\ avail[c] > 0
    /\ avail' = [avail EXCEPT ![c] = 0]
    /\ \/ /\ ~WholeHead(c)
          /\ Reply(c, "400") /\ Goto(c, "drain") /\ UNCHANGED body
       \/ /\ WholeHead(c) /\ request[c].kind = "unreadable"
          /\ Goto(c, "closed") /\ UNCHANGED <<replies, body>>
       \/ /\ WholeHead(c) /\ request[c].kind # "unreadable"
          /\ body' = [body EXCEPT ![c] = avail[c] - HeadLen]
          /\ Goto(c, "body") /\ UNCHANGED replies
    /\ UNCHANGED <<request, unsent, eof, wsVars, spinning>>

\* Nothing came: the client hung up, or ten seconds went by.
NoRequest(c) ==
    /\ Runs(c, "request") /\ avail[c] = 0
    /\ Goto(c, "closed")
    /\ UNCHANGED <<request, streamVars, body, wsVars, replies, spinning>>

Missing(c) == request[c].body - body[c]
AtMost(n, m) == IF n < m THEN n ELSE m

\* Mutated forms, here and below, change the definition after them the way a
\* plausible mistake would.  Nothing uses them but the mutation runs.
ReadBody_Overread(c) ==
    /\ Runs(c, "body") /\ Missing(c) > 0
    /\ \/ /\ avail[c] > 0
          /\ body' = [body EXCEPT ![c] = request[c].body]
          /\ avail' = [avail EXCEPT ![c] = 0]
          /\ UNCHANGED spinning
       \/ /\ avail[c] = 0 /\ eof[c]
          /\ spinning' = c
          /\ UNCHANGED <<body, avail>>
    /\ UNCHANGED <<pc, request, unsent, eof, wsVars, replies>>

\* At the end of the stream a read returns nothing and does not wait.
ReadBody(c) ==
    /\ Runs(c, "body") /\ Missing(c) > 0
    /\ \/ /\ avail[c] > 0
          /\ body' = [body EXCEPT ![c] = @ + AtMost(avail[c], Missing(c))]
          /\ avail' = [avail EXCEPT ![c] = @ - AtMost(avail[c], Missing(c))]
          /\ UNCHANGED spinning
       \/ /\ avail[c] = 0 /\ eof[c]
          /\ spinning' = c
          /\ UNCHANGED <<body, avail>>
    /\ UNCHANGED <<pc, request, unsent, eof, wsVars, replies>>

Answer_Blocking(c) ==
    /\ Runs(c, "body") /\ Missing(c) = 0 /\ \A d \in Clients \ {c} : ~At(d, "body")
    /\ upgraded' = [upgraded EXCEPT ![c] = request[c].kind = "upgrade"]
    /\ Reply(c, CASE request[c].kind = "upgrade" -> "101"
                  [] request[c].kind = "upgrade_without_key" -> "400"
                  [] OTHER -> "200")
    /\ Goto(c, "drain")
    /\ UNCHANGED <<request, streamVars, body, buf, frames, handled, spinning>>

\* The request is complete: _handle_http, or the handshake of a WebSocket.
Answer(c) ==
    /\ Runs(c, "body") /\ Missing(c) = 0
    /\ upgraded' = [upgraded EXCEPT ![c] = request[c].kind = "upgrade"]
    /\ Reply(c, CASE request[c].kind = "upgrade" -> "101"
                  [] request[c].kind = "upgrade_without_key" -> "400"
                  [] OTHER -> "200")
    /\ Goto(c, "drain")
    /\ UNCHANGED <<request, streamVars, body, buf, frames, handled, spinning>>

\* Where drain() goes on: HTTP connections close.
AfterDrain(c) == IF upgraded[c] THEN "ws" ELSE "closed"

\* drain() returns: the transport holds no more than it is meant to.
Drained(c) ==
    /\ Runs(c, "drain") /\ Goto(c, AfterDrain(c))
    /\ UNCHANGED <<request, streamVars, body, wsVars, replies, spinning>>

\* The client leaves so much unread, an echo of its own frame for one, that drain()
\* waits for it, without a timeout.
LeaveUnread(c) ==
    /\ Runs(c, "drain") /\ Goto(c, "full")
    /\ UNCHANGED <<request, streamVars, body, wsVars, replies, spinning>>

\* It may read on, if it likes.
ReadOn(c) ==
    /\ Runs(c, "full") /\ Goto(c, AfterDrain(c))
    /\ UNCHANGED <<request, streamVars, body, wsVars, replies, spinning>>

-------------------------------------------------------------------------------
(* _accept_websocket: frames. *)

HasFrame_HeadOnly(c) == handled[c] < Len(frames[c]) /\ buf[c] >= 2
HasFrame(c) == handled[c] < Len(frames[c]) /\ buf[c] >= Size(Current(c))

\* Are the two bytes there that say how long the length field is, but not the field?
InLengthField(c) ==
    handled[c] < Len(frames[c]) /\ buf[c] >= 2 /\ buf[c] < 2 + Current(c).ext

WsRead_Replaces(c) ==
    /\ Runs(c, "ws") /\ ~HasFrame(c)
    /\ \/ /\ avail[c] > 0
          /\ buf' = [buf EXCEPT ![c] = avail[c]]
          /\ avail' = [avail EXCEPT ![c] = 0]
          /\ UNCHANGED <<pc, spinning>>
       \/ /\ avail[c] = 0 /\ eof[c]
          /\ IF InLengthField(c)
             THEN spinning' = c /\ UNCHANGED pc
             ELSE Goto(c, "closed") /\ UNCHANGED spinning
          /\ UNCHANGED <<avail, buf>>
    /\ UNCHANGED <<request, unsent, eof, body, upgraded, frames, handled, replies>>

\* At the end of the stream the task returns, but not while it reads a length:
\* there it looks whether the buffer is empty, which it is not.
WsRead(c) ==
    /\ Runs(c, "ws") /\ ~HasFrame(c)
    /\ \/ /\ avail[c] > 0
          /\ buf' = [buf EXCEPT ![c] = @ + avail[c]]
          /\ avail' = [avail EXCEPT ![c] = 0]
          /\ UNCHANGED <<pc, spinning>>
       \/ /\ avail[c] = 0 /\ eof[c]
          /\ IF InLengthField(c)
             THEN spinning' = c /\ UNCHANGED pc
             ELSE Goto(c, "closed") /\ UNCHANGED spinning
          /\ UNCHANGED <<avail, buf>>
    /\ UNCHANGED <<request, unsent, eof, body, upgraded, frames, handled, replies>>

Answers(op) == op \in {"text", "ping"}

WsFrame_AnswersAll(c) ==
    /\ Runs(c, "ws") /\ HasFrame(c)
    /\ handled' = [handled EXCEPT ![c] = @ + 1]
    /\ buf' = [buf EXCEPT ![c] = @ - Size(Current(c))]
    /\ IF Current(c).op # "close"
       THEN Reply(c, Current(c).op) /\ Goto(c, "drain")
       ELSE Goto(c, "closed") /\ UNCHANGED replies
    /\ UNCHANGED <<request, streamVars, body, upgraded, frames, spinning>>

\* A frame is whole: it is taken out of the buffer, and answered if it has to be.
WsFrame(c) ==
    /\ Runs(c, "ws") /\ HasFrame(c)
    /\ handled' = [handled EXCEPT ![c] = @ + 1]
    /\ buf' = [buf EXCEPT ![c] = @ - Size(Current(c))]
    /\ IF Answers(Current(c).op)
       THEN Reply(c, Current(c).op) /\ Goto(c, "drain")
       ELSE Goto(c, IF Current(c).op = "close" THEN "closed" ELSE "ws") /\ UNCHANGED replies
    /\ UNCHANGED <<request, streamVars, body, upgraded, frames, spinning>>

Reads(c) ==
    \/ At(c, "request")
    \/ At(c, "body") /\ Missing(c) > 0
    \/ At(c, "ws") /\ ~HasFrame(c)

\* The connection is lost: the read or the drain of its task raises, whatever is in
\* the reader still.  After an orderly end of the stream only a drain can find it out.
ConnectionLost(c) ==
    /\ spinning = None
    /\ (Reads(c) /\ ~eof[c]) \/ pc[c] \in {"drain", "full"}
    /\ eof' = [eof EXCEPT ![c] = TRUE]
    /\ Goto(c, "closed")
    /\ UNCHANGED <<request, unsent, avail, body, wsVars, replies, spinning>>

-------------------------------------------------------------------------------

Init ==
    /\ pc = [c \in Clients |-> "away"]
    /\ request = [c \in Clients |-> None]
    /\ unsent = [c \in Clients |-> 0] /\ avail = [c \in Clients |-> 0]
    /\ eof = [c \in Clients |-> FALSE]
    /\ body = [c \in Clients |-> 0]
    /\ upgraded = [c \in Clients |-> FALSE]
    /\ buf = [c \in Clients |-> 0]
    /\ frames = [c \in Clients |-> <<>>] /\ handled = [c \in Clients |-> 0]
    /\ replies = [c \in Clients |-> <<>>]
    /\ spinning = None

ClientStep(c) ==
    \/ Connect(c) \/ Arrive(c) \/ BeginFrame(c) \/ HangUp(c) \/ ConnectionLost(c)
    \/ LeaveUnread(c) \/ ReadOn(c)

TaskStep(c) ==
    \/ FirstRead(c) \/ NoRequest(c) \/ ReadBody(c) \/ Answer(c) \/ Drained(c)
    \/ WsRead(c) \/ WsFrame(c)

Next == \E c \in Clients : ClientStep(c) \/ TaskStep(c)

Spec == Init /\ [][Next]_vars

\* The event loop runs every task that can run.  No client has to go on: neither
\* to send nor to read.
FairSpec == Spec /\ \A c \in Clients : WF_vars(TaskStep(c))

-------------------------------------------------------------------------------
(* Properties. *)

\* Every variable has its type.
TypeOK ==
    /\ pc \in [Clients -> {"away", "request", "body", "drain", "full", "ws", "closed"}]
    /\ \A c \in Clients : request[c] \in Requests[c] \cup {None}
    /\ unsent \in [Clients -> Nat] /\ avail \in [Clients -> Nat] /\ eof \in [Clients -> BOOLEAN]
    /\ body \in [Clients -> Nat] /\ buf \in [Clients -> Nat]
    /\ upgraded \in [Clients -> BOOLEAN]
    /\ frames \in [Clients -> Seq([frame : Frames, end : Nat])] /\ handled \in [Clients -> Nat]
    /\ replies \in [Clients -> Seq({"101", "200", "400"} \cup Ops)]
    /\ spinning \in Clients \cup {None}

\* No byte of a stream is lost or read twice, however it is cut up on its way:
\* what is left of a body, or of the frames not handled yet, is in a buffer or
\* still to come (wire_server.py:281-284, 341-374).
NoByteLost ==
    \A c \in Clients :
        /\ At(c, "body") /\ ~upgraded[c] => body[c] + avail[c] + unsent[c] = request[c].body
        /\ upgraded[c] =>
            buf[c] + avail[c] + unsent[c] = EndOf(c, Len(frames[c])) - EndOf(c, handled[c])

\* The frames of c that were handled and ask for an answer, by number.
Asking(c) == {n \in 1..handled[c] : Answers(frames[c][n].frame.op)}

\* A WebSocket client gets one answer to each text or ping frame handled, in the
\* order of its frames, and nothing else (wire_server.py:377-391): `to` is the frame
\* each reply after the handshake is an answer to.
AnswersInOrder ==
    \A c \in Clients :
        upgraded[c] =>
            /\ Len(replies[c]) >= 1 /\ replies[c][1] = "101"
            /\ \E to \in [2..Len(replies[c]) -> Asking(c)] :
                /\ \A n \in Asking(c) : \E i \in DOMAIN to : to[i] = n
                /\ \A i, k \in DOMAIN to : i < k => to[i] < to[k]
                /\ \A i \in DOMAIN to : replies[c][i] = frames[c][to[i]].frame.op

\* Has c sent a part of a message and hung up, with its task still there?
CutOff(c) ==
    /\ eof[c] /\ pc[c] \notin {"away", "closed"}
    /\ LET whole == IF frames[c] = <<>> THEN HeadLen + request[c].body
                                       ELSE Size(frames[c][Len(frames[c])].frame)
       IN  unsent[c] \in 1..(whole - 1)

SomeoneCutOff == \E c \in Clients : CutOff(c)

Complete(c) == At(c, "body") /\ unsent[c] = 0

\* A request that has arrived is answered unless its client goes away, whatever
\* the other clients do or fail to do: the health check in particular
\* (Dockerfile:28-29, README.md:121).
RequestAnswered == \A c \in Clients : Complete(c) ~> (replies[c] # <<>> \/ eof[c])

\* So it is as long as no client hangs up in the middle of a message; stalling
\* there, leaving answers unread, resetting the connection or hanging up elsewhere
\* does no harm
\* (wire_server.py:255-305).
AnsweredUnlessCutOff ==
    \A c \in Clients : Complete(c) ~> (replies[c] # <<>> \/ eof[c] \/ SomeoneCutOff)

Arrived(c, n) == Len(frames[c]) > n \/ (Len(frames[c]) = n /\ unsent[c] = 0)
GotClose(c) == handled[c] > 0 /\ frames[c][handled[c]].frame.op = "close"

\* A frame that has arrived whole is handled, unless its client goes away or does
\* not read its answers, an earlier frame closes the connection, or a client hangs
\* up in the middle of a message (wire_server.py:342-391).  What another client
\* leaves unread does no harm.
FramesHandled ==
    \A c \in Clients : \A n \in 1..MaxFrames[c] :
        Arrived(c, n) ~> (handled[c] >= n \/ eof[c] \/ At(c, "full") \/ GotClose(c) \/ SomeoneCutOff)

===============================================================================

--------------------------- MODULE WireServer_proofs ---------------------------
(* Theorems about WireServer, for any number of clients, requests and frames of *)
(* any size, and however the streams are cut up.                                *)
EXTENDS WireServer, SequenceTheorems, TLAPS

-------------------------------------------------------------------------------
(* Type correctness. *)

Sent == [frame : Frames, end : Nat]
Answered == {"101", "200", "400"} \cup Ops

\* Whoever is connected has asked for something.
RequestInv ==
    /\ request = [c \in Clients |-> request[c]]
    /\ \A c \in Clients : pc[c] # "away" => request[c] \in Requests[c]

LEMMA TypeInit == Init => TypeOK /\ RequestInv
  BY DEF Init, TypeOK, RequestInv

LEMMA FrameSizes ==
  ASSUME NEW f \in Frames
  PROVE  f.op \in Ops /\ f.ext \in Nat /\ f.rest \in Nat /\ Size(f) \in Nat /\ Size(f) >= 2 + f.ext
  BY FrameAssumption DEF Size

LEMMA SentType ==
  ASSUME TypeOK, NEW c \in Clients
  PROVE  /\ frames[c] \in Seq(Sent) /\ Len(frames[c]) \in Nat
         /\ \A n \in 1..Len(frames[c]) :
               /\ frames[c][n] \in Sent
               /\ frames[c][n].frame \in Frames /\ frames[c][n].end \in Nat
         /\ \A n \in 0..Len(frames[c]) : EndOf(c, n) \in Nat
<1>1. frames[c] \in Seq(Sent) /\ Len(frames[c]) \in Nat
  <2>1. frames \in [Clients -> Seq(Sent)]
    BY Zenon DEF TypeOK, Sent
  <2> QED
    BY <2>1
<1>2. \A n \in 1..Len(frames[c]) : frames[c][n] \in Sent
  BY <1>1, ElementOfSeq
<1>3. \A n \in 1..Len(frames[c]) : frames[c][n].frame \in Frames /\ frames[c][n].end \in Nat
  BY <1>2 DEF Sent
<1>4. ASSUME NEW n \in 0..Len(frames[c])
      PROVE  EndOf(c, n) \in Nat
  <2>1. n # 0 => n \in 1..Len(frames[c])
    BY <1>1
  <2> QED
    BY <2>1, <1>3 DEF EndOf
<1> QED
  BY <1>1, <1>2, <1>3, <1>4

LEMMA CurrentFrame ==
  ASSUME TypeOK, NEW c \in Clients, HasFrame(c)
  PROVE  /\ handled[c] + 1 \in 1..Len(frames[c])
         /\ Current(c) \in Frames
         /\ buf[c] >= Size(Current(c))
<1>1. handled[c] \in Nat /\ Len(frames[c]) \in Nat /\ handled[c] < Len(frames[c])
  BY SentType DEF TypeOK, HasFrame
<1>2. handled[c] + 1 \in 1..Len(frames[c])
  BY <1>1
<1> QED
  BY <1>2, SentType DEF Current, HasFrame

\* An answer is added to what its client was sent, and to nothing else.
LEMMA ReplyType ==
  ASSUME TypeOK, NEW c \in Clients, NEW what \in Answered, Reply(c, what)
  PROVE  /\ replies' \in [Clients -> Seq(Answered)]
         /\ replies'[c] = Append(replies[c], what)
         /\ \A d \in Clients \ {c} : replies'[d] = replies[d]
<1>1. replies \in [Clients -> Seq(Answered)]
  BY DEF TypeOK, Answered
<1>2. Append(replies[c], what) \in Seq(Answered)
  BY <1>1
<1> QED
  BY <1>1, <1>2 DEF Reply

LEMMA RequestSizes ==
  ASSUME NEW c \in Clients, NEW r \in Requests[c]
  PROVE  r.body \in Nat /\ HeadLen + r.body \in Nat
<1>1. r.body \in Nat
  BY Zenon, RequestAssumption
<1> QED
  BY <1>1 DEF HeadLen

LEMMA CountsType ==
  ASSUME TypeOK, NEW c \in Clients
  PROVE  /\ unsent[c] \in Nat /\ avail[c] \in Nat /\ body[c] \in Nat
         /\ buf[c] \in Nat /\ handled[c] \in Nat
  BY Zenon DEF TypeOK

\* A step that changes one count of one client leaves a function to numbers.
LEMMA CountChanged ==
  ASSUME NEW f \in [Clients -> Nat], NEW c \in Clients, NEW n \in Nat
  PROVE  [f EXCEPT ![c] = n] \in [Clients -> Nat]
  OBVIOUS

LEMMA Moved ==
  ASSUME NEW i \in Nat, NEW j \in Nat, NEW n \in 1..i
  PROVE  i - n \in Nat /\ j + n \in Nat /\ (i - n) + (j + n) = i + j
  OBVIOUS

LEMMA ClientStepType ==
  ASSUME TypeOK, RequestInv, NEW c \in Clients, ClientStep(c)
  PROVE  TypeOK' /\ RequestInv'
<1> USE DEF Goto, At
<1>1. CASE Connect(c)
  <2>1. PICK r \in Requests[c] : /\ request' = [request EXCEPT ![c] = r]
                                 /\ unsent' = [unsent EXCEPT ![c] = HeadLen + r.body]
    BY <1>1 DEF Connect
  <2>2. unsent' \in [Clients -> Nat]
    BY Zenon, <2>1, RequestSizes, CountChanged DEF TypeOK
  <2>3. request' = [d \in Clients |-> IF d = c THEN r ELSE request[d]]
    BY <2>1 DEF RequestInv
  <2> QED
    BY <1>1, <2>2, <2>3 DEF Connect, wsVars, TypeOK, RequestInv
<1>2. CASE Arrive(c)
  <2>1. PICK n \in 1..unsent[c] : /\ unsent' = [unsent EXCEPT ![c] = @ - n]
                                  /\ avail' = [avail EXCEPT ![c] = @ + n]
    BY <1>2 DEF Arrive
  <2>2. unsent[c] - n \in Nat /\ avail[c] + n \in Nat
    BY CountsType, Moved
  <2>3. unsent' \in [Clients -> Nat] /\ avail' \in [Clients -> Nat]
    BY Zenon, <2>1, <2>2, CountChanged DEF TypeOK
  <2> QED
    BY <1>2, <2>3 DEF Arrive, wsVars, TypeOK, RequestInv
<1>3. CASE BeginFrame(c)
  <2>1. PICK f \in Frames :
           /\ frames' = [frames EXCEPT ![c] =
                  Append(frames[c], [frame |-> f, end |-> EndOf(c, Len(frames[c])) + Size(f)])]
           /\ unsent' = [unsent EXCEPT ![c] = Size(f)]
    BY <1>3 DEF BeginFrame
  <2>2. [frame |-> f, end |-> EndOf(c, Len(frames[c])) + Size(f)] \in Sent
    <3>1. EndOf(c, Len(frames[c])) \in Nat
      <4>1. Len(frames[c]) \in Nat
        BY SentType
      <4>2. Len(frames[c]) \in 0..Len(frames[c])
        BY <4>1
      <4> QED
        BY <4>2, SentType
    <3>2. Size(f) \in Nat
      BY FrameSizes
    <3> QED
      BY <3>1, <3>2 DEF Sent
  <2>3. Append(frames[c], [frame |-> f, end |-> EndOf(c, Len(frames[c])) + Size(f)]) \in Seq(Sent)
    <3>1. frames[c] \in Seq(Sent)
      BY SentType
    <3> QED
      BY <2>2, <3>1, AppendProperties
  <2> QED
    BY <1>3, <2>1, <2>3, FrameSizes DEF BeginFrame, Sent, TypeOK, RequestInv
<1>4. CASE HangUp(c) \/ ConnectionLost(c)
  BY <1>4 DEF HangUp, ConnectionLost, Reads, wsVars, Connected, TypeOK, RequestInv
<1>5. CASE LeaveUnread(c) \/ ReadOn(c)
  BY <1>5 DEF LeaveUnread, ReadOn, AfterDrain, Runs, wsVars, streamVars, TypeOK, RequestInv
<1> QED
  BY <1>1, <1>2, <1>3, <1>4, <1>5 DEF ClientStep

LEMMA TaskStepType ==
  ASSUME TypeOK, RequestInv, NEW c \in Clients, TaskStep(c)
  PROVE  TypeOK' /\ RequestInv'
<1> USE DEF Goto, At, Runs
<1>1. CASE FirstRead(c)
  <2>1. avail' \in [Clients -> Nat]
    BY <1>1 DEF FirstRead, TypeOK
  <2>2. body' \in [Clients -> Nat]
    <3>1. WholeHead(c) => avail[c] - HeadLen \in Nat
      BY CountsType DEF WholeHead, HeadLen
    <3> QED
      BY <1>1, <3>1 DEF FirstRead, TypeOK
  <2>3. replies' \in [Clients -> Seq(Answered)]
    BY <1>1, ReplyType DEF FirstRead, Answered, TypeOK
  <2> QED
    BY <1>1, <2>1, <2>2, <2>3 DEF FirstRead, wsVars, Answered, TypeOK, RequestInv
<1>2. CASE NoRequest(c) \/ Drained(c)
  BY <1>2 DEF NoRequest, Drained, AfterDrain, wsVars, streamVars, TypeOK, RequestInv
<1>3. CASE ReadBody(c)
  <2>1. Missing(c) \in Nat
    <3>1. request[c] \in Requests[c] /\ Missing(c) > 0
      BY <1>3 DEF ReadBody, RequestInv
    <3>2. request[c].body \in Nat /\ body[c] \in Nat
      BY <3>1, RequestSizes, CountsType
    <3> QED
      BY <3>1, <3>2 DEF Missing
  <2>2. AtMost(avail[c], Missing(c)) \in Nat /\ avail[c] - AtMost(avail[c], Missing(c)) \in Nat
    BY <2>1, CountsType DEF AtMost
  <2>3. avail' \in [Clients -> Nat] /\ body' \in [Clients -> Nat]
    <3>1. body[c] + AtMost(avail[c], Missing(c)) \in Nat
      BY <2>2, CountsType
    <3>2. CASE UNCHANGED <<body, avail>>
      BY <3>2 DEF TypeOK
    <3>3. CASE /\ body' = [body EXCEPT ![c] = @ + AtMost(avail[c], Missing(c))]
               /\ avail' = [avail EXCEPT ![c] = @ - AtMost(avail[c], Missing(c))]
      BY Zenon, <3>1, <3>3, <2>2, CountChanged DEF TypeOK
    <3> QED
      BY <1>3, <3>2, <3>3 DEF ReadBody
  <2>4. spinning' \in Clients \cup {None}
    BY <1>3 DEF ReadBody, TypeOK
  <2> QED
    BY <1>3, <2>3, <2>4 DEF ReadBody, wsVars, TypeOK, RequestInv
<1>4. CASE Answer(c)
  <2>1. replies' \in [Clients -> Seq(Answered)]
    BY <1>4, ReplyType DEF Answer, Answered
  <2> QED
    BY <1>4, <2>1 DEF Answer, streamVars, Answered, TypeOK, RequestInv
<1>5. CASE WsRead(c)
  <2>1. avail' \in [Clients -> Nat] /\ buf' \in [Clients -> Nat]
    <3>1. CASE UNCHANGED <<avail, buf>>
      BY <3>1 DEF TypeOK
    <3>2. CASE /\ buf' = [buf EXCEPT ![c] = @ + avail[c]]
               /\ avail' = [avail EXCEPT ![c] = 0]
      <4>1. buf[c] + avail[c] \in Nat /\ 0 \in Nat
        BY CountsType
      <4> QED
        BY Zenon, <3>2, <4>1, CountChanged DEF TypeOK
    <3> QED
      BY <1>5, <3>1, <3>2 DEF WsRead
  <2>2. spinning' \in Clients \cup {None}
    BY <1>5 DEF WsRead, TypeOK
  <2>3. /\ pc' \in [Clients -> {"away", "request", "body", "drain", "full", "ws", "closed"}]
        /\ \A d \in Clients : pc'[d] # "away" => pc[d] # "away"
    BY <1>5 DEF WsRead, TypeOK
  <2> QED
    BY <1>5, <2>1, <2>2, <2>3 DEF WsRead, TypeOK, RequestInv
<1>6. CASE WsFrame(c)
  <2>1. HasFrame(c)
    BY <1>6 DEF WsFrame
  <2>2. Current(c) \in Frames /\ buf[c] >= Size(Current(c))
    BY <2>1, CurrentFrame
  <2>3. Current(c).op \in Ops /\ buf[c] - Size(Current(c)) \in Nat /\ handled[c] + 1 \in Nat
    BY <2>2, FrameSizes, CountsType
  <2>4. buf' \in [Clients -> Nat] /\ handled' \in [Clients -> Nat]
    BY Zenon, <1>6, <2>3, CountChanged DEF WsFrame, TypeOK
  <2>5. replies' \in [Clients -> Seq(Answered)]
    BY <1>6, <2>3, ReplyType DEF WsFrame, Answered, TypeOK
  <2>6. /\ pc' \in [Clients -> {"away", "request", "body", "drain", "full", "ws", "closed"}]
        /\ \A d \in Clients : pc'[d] # "away" => pc[d] # "away"
    BY <1>6 DEF WsFrame, TypeOK
  <2> QED
    BY <1>6, <2>4, <2>5, <2>6 DEF WsFrame, streamVars, Answered, TypeOK, RequestInv
<1> QED
  BY <1>1, <1>2, <1>3, <1>4, <1>5, <1>6 DEF TaskStep

LEMMA TypeNext == TypeOK /\ RequestInv /\ [Next]_vars => TypeOK' /\ RequestInv'
<1> SUFFICES ASSUME TypeOK, RequestInv, [Next]_vars
             PROVE  TypeOK' /\ RequestInv'
  OBVIOUS
<1>1. CASE UNCHANGED vars
  BY <1>1 DEF vars, streamVars, wsVars, TypeOK, RequestInv
<1> QED
  BY <1>1, ClientStepType, TaskStepType DEF Next

\* Every variable has its type, whatever is sent, cut up or hung up on: in particular
\* no buffer is read beyond its end.
THEOREM TypeCorrect == Spec => []TypeOK
  BY TypeInit, TypeNext, PTL DEF Spec

-------------------------------------------------------------------------------
(* A step of one client's is no other's business. *)

Unchanged(c) ==
    /\ pc'[c] = pc[c] /\ request'[c] = request[c] /\ unsent'[c] = unsent[c]
    /\ avail'[c] = avail[c] /\ body'[c] = body[c] /\ upgraded'[c] = upgraded[c]
    /\ buf'[c] = buf[c] /\ frames'[c] = frames[c] /\ handled'[c] = handled[c]
    /\ replies'[c] = replies[c]

\* Steps in the wait for a transport that is written to.
AnyDrain(c) == Drained(c) \/ LeaveUnread(c) \/ ReadOn(c)

LEMMA OthersUnchanged ==
  ASSUME TypeOK, RequestInv, NEW c \in Clients, ClientStep(c) \/ TaskStep(c),
         NEW d \in Clients, d # c
  PROVE  Unchanged(d)
<1> USE DEF Unchanged, Goto, wsVars, streamVars
<1>1. CASE Connect(c) \/ Arrive(c) \/ BeginFrame(c)
  BY <1>1 DEF Connect, Arrive, BeginFrame, TypeOK, RequestInv
<1>2. CASE HangUp(c) \/ ConnectionLost(c) \/ NoRequest(c) \/ AnyDrain(c)
  BY <1>2 DEF HangUp, ConnectionLost, NoRequest, AnyDrain, Drained, LeaveUnread, ReadOn, TypeOK
<1>3. CASE FirstRead(c)
  BY <1>3 DEF FirstRead, Reply, TypeOK
<1>4. CASE ReadBody(c)
  BY <1>4 DEF ReadBody, TypeOK
<1>5. CASE Answer(c)
  BY <1>5 DEF Answer, Reply, TypeOK
<1>6. CASE WsRead(c)
  BY <1>6 DEF WsRead, TypeOK
<1>7. CASE WsFrame(c)
  BY <1>7 DEF WsFrame, Reply, TypeOK
<1> QED
  BY <1>1, <1>2, <1>3, <1>4, <1>5, <1>6, <1>7 DEF ClientStep, TaskStep,
                                      AnyDrain

-------------------------------------------------------------------------------
(* How far a connection has come. *)

Phase(c) ==
    /\ pc[c] \in {"away", "request", "body"} => ~upgraded[c] /\ replies[c] = <<>>
    /\ pc[c] = "away" => unsent[c] = 0 /\ avail[c] = 0
    /\ pc[c] = "ws" => upgraded[c]
    /\ ~upgraded[c] => frames[c] = <<>> /\ handled[c] = 0 /\ buf[c] = 0
    /\ handled[c] <= Len(frames[c])

PhaseInv == \A c \in Clients : Phase(c)

LEMMA PhaseInit == Init => PhaseInv
<1> SUFFICES ASSUME Init, NEW c \in Clients
             PROVE  Phase(c)
  BY DEF PhaseInv
<1>1. /\ pc[c] = "away" /\ unsent[c] = 0 /\ avail[c] = 0 /\ upgraded[c] = FALSE
      /\ frames[c] = <<>> /\ handled[c] = 0 /\ buf[c] = 0 /\ replies[c] = <<>>
  BY DEF Init
<1>2. handled[c] <= Len(frames[c])
  BY <1>1
<1> QED
  BY <1>1, <1>2 DEF Phase

LEMMA PhaseNext ==
  ASSUME TypeOK, RequestInv, PhaseInv, [Next]_vars
  PROVE  PhaseInv'
<1> USE DEF Goto, At, Runs
<1>1. CASE UNCHANGED vars
  BY <1>1 DEF vars, streamVars, wsVars, PhaseInv, Phase
<1>2. ASSUME NEW c \in Clients, ClientStep(c) \/ TaskStep(c), NEW d \in Clients, d # c
      PROVE  Phase(d)'
  BY <1>2, OthersUnchanged DEF Unchanged, PhaseInv, Phase
<1>3. ASSUME NEW c \in Clients, ClientStep(c) \/ TaskStep(c)
      PROVE  Phase(c)'
  <2>1. Phase(c) /\ Len(frames[c]) \in Nat /\ handled[c] \in Nat
    BY SentType DEF PhaseInv, TypeOK
  <2>2. CASE Connect(c)
    BY <2>1, <2>2 DEF Connect, Phase, TypeOK, wsVars
  <2>3. CASE Arrive(c)
    BY <2>1, <2>3 DEF Arrive, Connected, Phase, TypeOK, wsVars
  <2>4. CASE BeginFrame(c)
    <3>1. PICK f : frames'[c] = Append(frames[c], f)
      BY <2>4 DEF BeginFrame, TypeOK
    <3>2. Len(frames'[c]) = Len(frames[c]) + 1
      BY <3>1, SentType, AppendProperties DEF TypeOK
    <3> QED
      BY <2>1, <2>4, <3>2 DEF BeginFrame, Connected, Phase, TypeOK
  <2>5. CASE HangUp(c) \/ ConnectionLost(c) \/ NoRequest(c) \/ AnyDrain(c)
    <3>1. /\ UNCHANGED <<unsent, avail, wsVars, replies>>
          /\ pc'[c] = pc[c] \/ pc'[c] \in {"drain", "full", "closed", AfterDrain(c)}
      BY <2>5 DEF HangUp, ConnectionLost, NoRequest, AnyDrain, Drained, LeaveUnread, ReadOn,
                  TypeOK, streamVars
    <3> QED
      BY <2>1, <3>1 DEF AfterDrain, Phase, wsVars
  <2>6. CASE FirstRead(c)
    BY <2>1, <2>6 DEF FirstRead, Phase, TypeOK, wsVars
  <2>7. CASE ReadBody(c)
    BY <2>1, <2>7 DEF ReadBody, Phase, TypeOK, wsVars
  <2>8. CASE Answer(c)
    BY <2>1, <2>8 DEF Answer, Phase, TypeOK, streamVars
  <2>9. CASE WsRead(c)
    BY <2>1, <2>9 DEF WsRead, Phase, TypeOK
  <2>10. CASE WsFrame(c)
    <3>1. handled[c] + 1 <= Len(frames[c])
      BY <2>1, <2>10, CurrentFrame DEF WsFrame
    <3> QED
      BY <2>1, <2>10, <3>1 DEF WsFrame, Phase, TypeOK, streamVars
  <2> QED
    BY <1>3, <2>2, <2>3, <2>4, <2>5, <2>6, <2>7, <2>8, <2>9, <2>10 DEF ClientStep, TaskStep,
                                      AnyDrain
<1> QED
  BY <1>1, <1>2, <1>3 DEF Next, PhaseInv

LEMMA Invariance == Spec => [](TypeOK /\ RequestInv /\ PhaseInv)
<1>1. TypeOK /\ RequestInv /\ PhaseInv /\ [Next]_vars => PhaseInv'
  BY PhaseNext
<1> QED
  BY <1>1, TypeInit, TypeNext, PhaseInit, PTL DEF Spec

-------------------------------------------------------------------------------
(* Where the bytes are. *)

\* A request is the bytes of its head and its body; those of the frames that are not
\* handled are between the end of the last one handled and the end of the last one.
Bytes(c) ==
    /\ pc[c] = "request" => avail[c] + unsent[c] = HeadLen + request[c].body
    /\ pc[c] = "body" => body[c] + avail[c] + unsent[c] = request[c].body
    /\ upgraded[c] =>
          buf[c] + avail[c] + unsent[c] = EndOf(c, Len(frames[c])) - EndOf(c, handled[c])
    /\ \A n \in 1..Len(frames[c]) :
          frames[c][n].end = EndOf(c, n - 1) + Size(frames[c][n].frame)

BytesInv == \A c \in Clients : Bytes(c)

LEMMA BytesInit == Init => BytesInv
<1> SUFFICES ASSUME Init, NEW c \in Clients
             PROVE  Bytes(c)
  BY DEF BytesInv
<1>1. pc[c] = "away" /\ upgraded[c] = FALSE /\ frames[c] = <<>>
  BY DEF Init
<1>2. Len(frames[c]) = 0
  BY <1>1
<1> QED
  BY <1>1, <1>2 DEF Bytes

\* The ends of the frames that are there do not move when another is begun.
LEMMA EndsStay ==
  ASSUME TypeOK, NEW c \in Clients, NEW e \in Sent, frames'[c] = Append(frames[c], e)
  PROVE  /\ Len(frames'[c]) = Len(frames[c]) + 1
         /\ EndOf(c, Len(frames[c]))' = e.end
         /\ \A n \in 0..Len(frames[c]) : EndOf(c, n)' = EndOf(c, n)
         /\ \A n \in 1..Len(frames[c]) : frames'[c][n] = frames[c][n]
         /\ frames'[c][Len(frames[c]) + 1] = e
<1>1. frames[c] \in Seq(Sent) /\ Len(frames[c]) \in Nat
  BY SentType
<1>2. /\ Len(frames'[c]) = Len(frames[c]) + 1
      /\ \A n \in 1..Len(frames[c]) : frames'[c][n] = frames[c][n]
      /\ frames'[c][Len(frames[c]) + 1] = e
  BY <1>1, AppendProperties
<1>3. EndOf(c, Len(frames[c]))' = e.end
  BY <1>1, <1>2 DEF EndOf
<1>4. ASSUME NEW n \in 0..Len(frames[c])
      PROVE  EndOf(c, n)' = EndOf(c, n)
  <2>1. n # 0 => n \in 1..Len(frames[c])
    BY <1>1
  <2> QED
    BY <1>2, <2>1 DEF EndOf
<1> QED
  BY <1>2, <1>3, <1>4

LEMMA BytesNext ==
  ASSUME TypeOK, RequestInv, PhaseInv, BytesInv, [Next]_vars
  PROVE  BytesInv'
<1> USE DEF Goto, At, Runs
<1>1. CASE UNCHANGED vars
  BY <1>1 DEF vars, streamVars, wsVars, BytesInv, Bytes, EndOf
<1>2. ASSUME NEW c \in Clients, ClientStep(c) \/ TaskStep(c), NEW d \in Clients, d # c
      PROVE  Bytes(d)'
  BY <1>2, OthersUnchanged DEF Unchanged, BytesInv, Bytes, EndOf
<1>3. ASSUME NEW c \in Clients, ClientStep(c) \/ TaskStep(c)
      PROVE  Bytes(c)'
  <2>1. /\ Bytes(c) /\ Phase(c)
        /\ avail[c] \in Nat /\ unsent[c] \in Nat /\ body[c] \in Nat /\ buf[c] \in Nat
        /\ Len(frames[c]) \in Nat /\ handled[c] \in Nat
        /\ EndOf(c, Len(frames[c])) \in Int /\ EndOf(c, handled[c]) \in Int
    <3>1. Bytes(c) /\ Phase(c) /\ Len(frames[c]) \in Nat /\ handled[c] \in Nat
      BY SentType DEF BytesInv, PhaseInv, TypeOK
    <3>2. Len(frames[c]) \in 0..Len(frames[c]) /\ handled[c] \in 0..Len(frames[c])
      BY <3>1 DEF Phase
    <3>3. EndOf(c, Len(frames[c])) \in Nat /\ EndOf(c, handled[c]) \in Nat
      BY <3>2, SentType
    <3> QED
      BY <3>1, <3>3 DEF TypeOK
  <2>2. frames'[c] = frames[c] => \A n : EndOf(c, n)' = EndOf(c, n)
    BY DEF EndOf
  <2>3. frames'[c] = frames[c] =>
          \A n \in 1..Len(frames[c]) :
              frames'[c][n].end = EndOf(c, n - 1)' + Size(frames'[c][n].frame)
    BY <2>1, <2>2 DEF Bytes
  <2>4. CASE Connect(c)
    <3>1. PICK q \in Requests[c] : /\ request' = [request EXCEPT ![c] = q]
                                   /\ unsent' = [unsent EXCEPT ![c] = HeadLen + q.body]
      BY <2>4 DEF Connect
    <3>2. request'[c] = q /\ unsent'[c] = HeadLen + q.body /\ q.body \in Nat
      BY <3>1, RequestAssumption DEF TypeOK, RequestInv
    <3>3. /\ pc[c] = "away" /\ pc'[c] = "request" /\ ~upgraded'[c] /\ avail'[c] = 0
          /\ frames'[c] = frames[c]
      BY <2>1, <2>4 DEF Connect, Phase, TypeOK, wsVars
    <3> QED
      BY <2>3, <3>2, <3>3 DEF Bytes, HeadLen
  <2>5. CASE Arrive(c)
    <3>1. PICK n \in 1..unsent[c] : /\ unsent' = [unsent EXCEPT ![c] = @ - n]
                                    /\ avail' = [avail EXCEPT ![c] = @ + n]
      BY <2>5 DEF Arrive
    <3>2. unsent'[c] = unsent[c] - n /\ avail'[c] = avail[c] + n
      BY Zenon, <3>1 DEF TypeOK
    <3>3. /\ avail'[c] + unsent'[c] = avail[c] + unsent[c]
          /\ body[c] + avail'[c] + unsent'[c] = body[c] + avail[c] + unsent[c]
          /\ buf[c] + avail'[c] + unsent'[c] = buf[c] + avail[c] + unsent[c]
      <4>1. unsent[c] \in Nat /\ avail[c] \in Nat /\ body[c] \in Nat /\ buf[c] \in Nat
        BY CountsType
      <4> QED
        BY SMT, <3>2, <4>1
    <3>4. /\ pc'[c] = pc[c] /\ request'[c] = request[c] /\ body'[c] = body[c]
          /\ upgraded'[c] = upgraded[c] /\ buf'[c] = buf[c]
          /\ frames'[c] = frames[c] /\ handled'[c] = handled[c]
      BY <2>5 DEF Arrive, wsVars
    <3> QED
      BY <2>1, <2>2, <2>3, <3>3, <3>4 DEF Bytes
  <2>6. CASE BeginFrame(c)
    <3>1. PICK f \in Frames :
             /\ frames' = [frames EXCEPT ![c] =
                    Append(frames[c], [frame |-> f, end |-> EndOf(c, Len(frames[c])) + Size(f)])]
             /\ unsent' = [unsent EXCEPT ![c] = Size(f)]
      BY <2>6 DEF BeginFrame
    <3> DEFINE e == [frame |-> f, end |-> EndOf(c, Len(frames[c])) + Size(f)]
               last == Len(frames[c])
    <3>2. Size(f) \in Nat /\ frames'[c] = Append(frames[c], e) /\ unsent'[c] = Size(f)
      BY <3>1, FrameSizes DEF TypeOK
    <3>3. EndOf(c, last) \in Nat
      BY <2>1, SentType
    <3>4. e \in Sent
      BY <3>2, <3>3 DEF Sent
    <3>5. /\ Len(frames'[c]) = last + 1 /\ EndOf(c, Len(frames[c]))' = EndOf(c, last) + Size(f)
          /\ \A n \in 0..last : EndOf(c, n)' = EndOf(c, n)
          /\ \A n \in 1..last : frames'[c][n] = frames[c][n]
          /\ frames'[c][last + 1] = e
      BY <3>2, <3>4, EndsStay
    <3>6. /\ unsent[c] = 0 /\ upgraded[c] /\ pc'[c] = pc[c] /\ avail'[c] = avail[c]
          /\ upgraded'[c] = upgraded[c] /\ buf'[c] = buf[c] /\ handled'[c] = handled[c]
      BY <2>6 DEF BeginFrame
    <3>7. pc'[c] \notin {"request", "body"}
      BY <2>1, <3>6 DEF Phase
    <3>8. handled[c] \in 0..last
      BY <2>1 DEF Phase
    <3>9. buf'[c] + avail'[c] + unsent'[c] = EndOf(c, Len(frames[c]))' - EndOf(c, handled[c])'
      <4>1. buf[c] + avail[c] + unsent[c] = EndOf(c, last) - EndOf(c, handled[c])
        BY <2>1, <3>6 DEF Bytes
      <4>2. EndOf(c, handled[c])' = EndOf(c, handled[c])
        BY <3>5, <3>6, <3>8
      <4>3. EndOf(c, handled[c]) \in Nat
        BY <2>1, <3>8, SentType
      <4>4. buf[c] \in Nat /\ avail[c] \in Nat
        BY CountsType
      <4> QED
        BY <3>2, <3>3, <3>5, <3>6, <4>1, <4>2, <4>3, <4>4
    <3>10. ASSUME NEW n \in 1..(last + 1)
           PROVE  frames'[c][n].end = EndOf(c, n - 1)' + Size(frames'[c][n].frame)
      <4>1. CASE n = last + 1
        <5>1. n - 1 = last /\ last \in 0..last
          BY <2>1, <4>1, SentType
        <5>2. EndOf(c, n - 1)' = EndOf(c, last)
          BY <3>5, <5>1
        <5> QED
          BY <3>5, <4>1, <5>2
      <4>2. CASE n # last + 1
        <5>1. n \in 1..last /\ n - 1 \in 0..last
          BY <2>1, <4>2
        <5> QED
          BY <2>1, <3>5, <5>1 DEF Bytes
      <4> QED
        BY <4>1, <4>2
    <3> QED
      BY <3>5, <3>6, <3>7, <3>9, <3>10 DEF Bytes
  <2>7. CASE HangUp(c) \/ ConnectionLost(c) \/ NoRequest(c) \/ AnyDrain(c)
    <3>1. /\ pc'[c] = pc[c] \/ pc'[c] \notin {"request", "body"}
          /\ request'[c] = request[c] /\ unsent'[c] = unsent[c]
          /\ avail'[c] = avail[c] /\ body'[c] = body[c] /\ upgraded'[c] = upgraded[c]
          /\ buf'[c] = buf[c] /\ frames'[c] = frames[c] /\ handled'[c] = handled[c]
      BY <2>7 DEF HangUp, ConnectionLost, NoRequest, AnyDrain, Drained, LeaveUnread, ReadOn,
                  AfterDrain, TypeOK, wsVars, streamVars
    <3> QED
      BY <2>1, <2>2, <2>3, <3>1 DEF Bytes
  <2>8. CASE FirstRead(c)
    <3>1. /\ pc[c] = "request" /\ avail'[c] = 0 /\ unsent'[c] = unsent[c]
          /\ request'[c] = request[c] /\ ~upgraded[c] /\ ~upgraded'[c]
          /\ frames'[c] = frames[c]
      BY <2>1, <2>8 DEF FirstRead, Phase, TypeOK, wsVars
    <3>2. pc'[c] # "request" /\ (pc'[c] = "body" => body'[c] = avail[c] - HeadLen)
      BY <2>8 DEF FirstRead, TypeOK
    <3>3. request[c].body \in Nat
      BY <3>1, RequestAssumption DEF RequestInv
    <3>4. avail[c] + unsent[c] = 2 + request[c].body
      BY <2>1, <3>1 DEF Bytes, HeadLen
    <3>5. pc'[c] = "body" => body'[c] + avail'[c] + unsent'[c] = request'[c].body
      <4>1. avail[c] \in Nat /\ unsent[c] \in Nat
        BY <2>1
      <4>2. avail[c] - 2 + 0 + unsent[c] = request[c].body
        BY <3>3, <3>4, <4>1
      <4>3. pc'[c] = "body" => body'[c] = avail[c] - 2
        BY <3>2 DEF HeadLen
      <4> QED
        BY <3>1, <4>2, <4>3
    <3> QED
      BY <2>3, <3>1, <3>2, <3>5 DEF Bytes
  <2>9. CASE ReadBody(c)
    <3>1. /\ pc[c] = "body" /\ pc'[c] = "body" /\ unsent'[c] = unsent[c]
          /\ request'[c] = request[c] /\ ~upgraded[c] /\ ~upgraded'[c]
          /\ frames'[c] = frames[c]
      BY <2>1, <2>9 DEF ReadBody, Phase, TypeOK, wsVars
    <3>2. \/ body'[c] = body[c] /\ avail'[c] = avail[c]
          \/ /\ body'[c] = body[c] + AtMost(avail[c], Missing(c))
             /\ avail'[c] = avail[c] - AtMost(avail[c], Missing(c))
      BY <2>9 DEF ReadBody, TypeOK
    <3>3. request[c].body \in Nat
      BY <3>1, RequestAssumption DEF RequestInv
    <3>4. AtMost(avail[c], Missing(c)) \in Int
      BY <2>1, <3>3 DEF AtMost, Missing
    <3>5. body'[c] + avail'[c] = body[c] + avail[c] /\ body'[c] \in Int /\ avail'[c] \in Int
      BY <2>1, <3>2, <3>4
    <3> QED
      BY <2>1, <2>3, <3>1, <3>5 DEF Bytes
  <2>10. CASE Answer(c)
    <3>1. /\ pc[c] = "body" /\ pc'[c] = "drain" /\ unsent'[c] = unsent[c] /\ avail'[c] = avail[c]
          /\ request[c].body - body[c] = 0 /\ frames'[c] = frames[c] /\ buf'[c] = buf[c]
          /\ handled'[c] = handled[c]
      BY <2>10 DEF Answer, Missing, TypeOK, streamVars
    <3>2. request[c].body \in Nat
      BY <3>1, RequestAssumption DEF RequestInv
    <3>3. frames[c] = <<>> /\ handled[c] = 0 /\ buf[c] = 0
      BY <2>1, <3>1 DEF Phase
    <3>4. avail[c] = 0 /\ unsent[c] = 0
      <4>1. body[c] + avail[c] + unsent[c] = request[c].body
        BY <2>1, <3>1 DEF Bytes
      <4>2. unsent[c] \in Nat /\ avail[c] \in Nat /\ body[c] \in Nat
        BY CountsType
      <4> QED
        BY <3>1, <3>2, <4>1, <4>2
    <3>5. Len(frames[c]) = 0
      BY <3>3
    <3> QED
      BY <2>3, <3>1, <3>3, <3>4, <3>5 DEF Bytes, EndOf
  <2>11. CASE WsRead(c)
    <3>1. \/ avail'[c] = avail[c] /\ buf'[c] = buf[c]
          \/ buf'[c] = buf[c] + avail[c] /\ avail'[c] = 0
      BY <2>11 DEF WsRead, TypeOK
    <3>2. /\ pc'[c] \notin {"request", "body"} /\ unsent'[c] = unsent[c]
          /\ upgraded'[c] = upgraded[c] /\ frames'[c] = frames[c] /\ handled'[c] = handled[c]
      BY <2>11 DEF WsRead, TypeOK
    <3>3. buf'[c] + avail'[c] + unsent'[c] = buf[c] + avail[c] + unsent[c]
      BY <2>1, <3>1, <3>2
    <3> QED
      BY <2>1, <2>2, <2>3, <3>2, <3>3 DEF Bytes
  <2>12. CASE WsFrame(c)
    <3>1. /\ handled[c] + 1 \in 1..Len(frames[c]) /\ Current(c) \in Frames
          /\ Size(Current(c)) \in Nat
      BY <2>12, CurrentFrame, FrameSizes DEF WsFrame
    <3>2. /\ handled'[c] = handled[c] + 1 /\ buf'[c] = buf[c] - Size(Current(c))
          /\ pc'[c] \notin {"request", "body"} /\ upgraded'[c] = upgraded[c]
          /\ avail'[c] = avail[c] /\ unsent'[c] = unsent[c] /\ frames'[c] = frames[c]
      <4>1. handled'[c] = handled[c] + 1 /\ buf'[c] = buf[c] - Size(Current(c))
        BY <2>12 DEF WsFrame, TypeOK
      <4>2. pc'[c] \notin {"request", "body"}
        BY <2>12 DEF WsFrame, TypeOK
      <4> QED
        BY <2>12, <4>1, <4>2 DEF WsFrame, streamVars
    <3>3. handled[c] + 1 - 1 = handled[c]
      BY <2>1
    <3>4. frames[c][handled[c] + 1].end = EndOf(c, handled[c]) + Size(Current(c))
      <4>1. \A n \in 1..Len(frames[c]) :
               frames[c][n].end = EndOf(c, n - 1) + Size(frames[c][n].frame)
        BY <2>1 DEF Bytes
      <4>2. PICK n \in 1..Len(frames[c]) : n = handled[c] + 1
        BY <3>1
      <4>3. EndOf(c, n - 1) = EndOf(c, handled[c])
        <5>1. handled[c] \in Nat
          BY CountsType
        <5>2. n - 1 = handled[c]
          BY <4>2, <5>1
        <5> QED
          BY Zenon, <5>2
      <4>4. frames[c][n].frame = Current(c)
        BY Zenon, <4>2 DEF Current
      <4>5. frames[c][n].end = EndOf(c, n - 1) + Size(frames[c][n].frame)
        BY Zenon, <4>1
      <4>6. frames[c][n].end = EndOf(c, handled[c]) + Size(Current(c))
        BY Zenon, <4>3, <4>4, <4>5
      <4> QED
        BY Zenon, <4>2, <4>6
    <3>5. EndOf(c, handled[c] + 1) = EndOf(c, handled[c]) + Size(Current(c))
      BY <2>1, <3>4 DEF EndOf
    <3>6. upgraded[c] => buf[c] + avail[c] + unsent[c]
                           = EndOf(c, Len(frames[c])) - EndOf(c, handled[c])
      BY <2>1 DEF Bytes
    <3>7. upgraded[c] => buf'[c] + avail'[c] + unsent'[c]
                           = EndOf(c, Len(frames[c])) - EndOf(c, handled[c] + 1)
      <4>1. PICK size \in Int, end \in Int, last \in Int, b \in Int, a \in Int, u \in Int :
                /\ size = Size(Current(c)) /\ end = EndOf(c, handled[c])
                /\ last = EndOf(c, Len(frames[c]))
                /\ b = buf[c] /\ a = avail[c] /\ u = unsent[c]
        <5>1. Size(Current(c)) \in Int /\ buf[c] \in Int /\ avail[c] \in Int /\ unsent[c] \in Int
          BY <2>1, <3>1
        <5> QED
          BY <2>1, <5>1
      <4>2. upgraded[c] => b + a + u = last - end
        BY <3>6, <4>1
      <4>3. upgraded[c] => b - size + a + u = last - (end + size)
        BY <4>2
      <4> QED
        BY <3>2, <3>5, <4>1, <4>3
    <3> QED
      BY <2>1, <2>2, <2>3, <3>2, <3>7 DEF Bytes
  <2> QED
    BY <1>3, <2>4, <2>5, <2>6, <2>7, <2>8, <2>9, <2>10, <2>11, <2>12 DEF ClientStep, TaskStep,
                                      AnyDrain
<1> QED
  BY <1>1, <1>2, <1>3 DEF Next, BytesInv

\* No byte is lost or read twice, by any number of clients, whatever the sizes of what
\* they send and wherever the network cuts it.
THEOREM NoByteIsLost == Spec => []NoByteLost
<1>1. TypeOK /\ RequestInv /\ PhaseInv /\ BytesInv /\ [Next]_vars => BytesInv'
  BY BytesNext
<1>2. BytesInv => NoByteLost
  BY DEF BytesInv, Bytes, NoByteLost, At
<1> QED
  BY <1>1, <1>2, Invariance, BytesInit, PTL DEF Spec
-------------------------------------------------------------------------------
(* Which frame each reply answers. *)

Orders(c, to) ==
    /\ \A n \in Asking(c) : \E i \in DOMAIN to : to[i] = n
    /\ \A i, k \in DOMAIN to : i < k => to[i] < to[k]
    /\ \A i \in DOMAIN to : replies[c][i] = frames[c][to[i]].frame.op

InOrder(c) ==
    upgraded[c] =>
        /\ Len(replies[c]) >= 1 /\ replies[c][1] = "101"
        /\ \E to \in [2..Len(replies[c]) -> Asking(c)] : Orders(c, to)

OrderInv == \A c \in Clients : InOrder(c)

LEMMA OrderInit == Init => OrderInv
  BY DEF Init, OrderInv, InOrder

\* Frames that were begun, but not handled, are no one's business yet.
LEMMA SameOrder ==
  ASSUME TypeOK, NEW c \in Clients, InOrder(c),
         upgraded'[c] = upgraded[c], replies'[c] = replies[c], handled'[c] = handled[c],
         \A n \in 1..handled[c] : frames'[c][n] = frames[c][n]
  PROVE  InOrder(c)'
<1>1. Asking(c)' = Asking(c)
  BY DEF Asking
<1>2. \A n \in Asking(c) : frames'[c][n] = frames[c][n]
  BY DEF Asking
<1>3. ASSUME NEW to \in [2..Len(replies[c]) -> Asking(c)], Orders(c, to)
      PROVE  Orders(c, to)'
  <2>1. \A i \in DOMAIN to : replies'[c][i] = frames'[c][to[i]].frame.op
    BY <1>2, <1>3 DEF Orders
  <2> QED
    BY <1>1, <1>3, <2>1 DEF Orders
<1> QED
  BY <1>1, <1>3 DEF InOrder

\* The handshake is the first answer, and no frame has been handled.
LEMMA HandshakeOrder ==
  ASSUME TypeOK, RequestInv, NEW c \in Clients, Phase(c), Answer(c)
  PROVE  InOrder(c)'
<1>1. pc[c] = "body" /\ replies[c] = <<>> /\ handled'[c] = 0
  BY DEF Answer, Runs, At, Phase
<1>2. PICK what \in Answered :
         /\ replies'[c] = Append(replies[c], what) /\ (upgraded'[c] => what = "101")
  BY DEF Answer, Reply, TypeOK, Answered
<1>3. replies'[c] = <<what>>
  BY <1>1, <1>2
<1>4. Len(replies'[c]) = 1 /\ replies'[c][1] = what
  BY <1>3
<1>5. Asking(c)' = {}
  BY <1>1 DEF Asking
<1>6. PICK to : to = [i \in 2..1 |-> 0]
  OBVIOUS
<1>7. 2..1 = {}
  OBVIOUS
<1>8. to \in [2..Len(replies'[c]) -> Asking(c)'] /\ DOMAIN to = {}
  BY <1>4, <1>6, <1>7
<1>9. Orders(c, to)'
  BY <1>5, <1>8 DEF Orders
<1>10. Len(replies'[c]) >= 1
  BY <1>4
<1> QED
  BY <1>2, <1>4, <1>8, <1>9, <1>10 DEF InOrder

\* The answer to the frame that is handled comes last, as its frame does.
LEMMA AnswerOrder ==
  ASSUME TypeOK, NEW c \in Clients, InOrder(c), HasFrame(c),
         handled'[c] = handled[c] + 1, upgraded'[c] = upgraded[c], frames'[c] = frames[c],
         IF Answers(Current(c).op)
         THEN replies'[c] = Append(replies[c], Current(c).op)
         ELSE replies'[c] = replies[c]
  PROVE  InOrder(c)'
<1> DEFINE new == handled[c] + 1
           last == Len(replies[c])
<1> SUFFICES ASSUME upgraded[c]
             PROVE  InOrder(c)'
  BY DEF InOrder
<1>1. handled[c] \in Nat /\ new \in 1..Len(frames[c]) /\ Current(c) = frames[c][new].frame
  <2>1. handled[c] \in Nat
    BY CountsType
  <2>2. new \in 1..Len(frames[c])
    BY CurrentFrame
  <2> QED
    BY <2>1, <2>2 DEF Current
<1>2. replies[c] \in Seq(Answered) /\ last \in Nat /\ last >= 1 /\ replies[c][1] = "101"
  <2>1. replies \in [Clients -> Seq(Answered)]
    BY DEF TypeOK, Answered
  <2>2. replies[c] \in Seq(Answered) /\ last \in Nat
    BY <2>1
  <2>3. last >= 1 /\ replies[c][1] = "101"
    BY DEF InOrder
  <2> QED
    BY <2>2, <2>3
<1>3. PICK to \in [2..last -> Asking(c)] : Orders(c, to)
  BY DEF InOrder
<1>4. new \notin Asking(c) /\ \A n \in Asking(c) : n \in Nat /\ n < new
  BY <1>1 DEF Asking
<1>5. CASE ~Answers(Current(c).op)
  <2>1. Asking(c)' = Asking(c)
    <3>1. \A n : n \in 1..new <=> n \in 1..handled[c] \/ n = new
      BY <1>1
    <3>2. ~Answers(frames'[c][new].frame.op)
      BY <1>1, <1>5
    <3> QED
      BY <3>1, <3>2 DEF Asking, Answers
  <2>2. replies'[c] = replies[c]
    BY <1>5
  <2>3. Orders(c, to)'
    BY <1>3, <2>1, <2>2 DEF Orders
  <2> QED
    BY <1>2, <1>3, <2>1, <2>2, <2>3 DEF InOrder
<1>6. CASE Answers(Current(c).op)
  <2>1. Asking(c)' = Asking(c) \cup {new}
    <3>1. \A n : n \in 1..new <=> n \in 1..handled[c] \/ n = new
      BY <1>1
    <3>2. Answers(frames'[c][new].frame.op)
      BY <1>1, <1>6
    <3> QED
      BY <3>1, <3>2 DEF Asking, Answers
  <2>2. /\ Len(replies'[c]) = last + 1 /\ replies'[c][last + 1] = Current(c).op
        /\ \A i \in 1..last : replies'[c][i] = replies[c][i]
    <3>1. Current(c).op \in Answered
      BY <1>6 DEF Answers, Answered, Ops
    <3>2. replies'[c] = Append(replies[c], Current(c).op)
      BY <1>6
    <3> QED
      BY <1>2, <3>1, <3>2, AppendProperties
  <2> PICK next : next = [i \in 2..(last + 1) |-> IF i = last + 1 THEN new ELSE to[i]]
    OBVIOUS
  <2>3. /\ DOMAIN next = 2..(last + 1) /\ next[last + 1] = new
        /\ \A i \in 2..last : i \in 2..(last + 1) /\ i # last + 1 /\ next[i] = to[i]
        /\ \A i \in 2..(last + 1) : i = last + 1 \/ i \in 2..last
    BY <1>2
  <2>4. next \in [2..(last + 1) -> Asking(c)']
    BY <2>1, <2>3, <1>3
  <2>5. \A n \in Asking(c)' : \E i \in DOMAIN next : next[i] = n
    <3>1. last + 1 \in DOMAIN next
      BY <1>2, <2>3
    <3>2. \A n \in Asking(c) : \E i \in 2..last : to[i] = n
      BY <1>3 DEF Orders
    <3> QED
      BY <2>1, <2>3, <3>1, <3>2
  <2>6. ASSUME NEW i \in DOMAIN next, NEW k \in DOMAIN next, i < k
        PROVE  next[i] < next[k]
    <3>1. i \in 2..last /\ to[i] \in Asking(c)
      <4>1. i \in 2..(last + 1) /\ k \in 2..(last + 1)
        BY <2>3
      <4>2. i \in 2..last
        BY <1>2, <2>6, <4>1
      <4> QED
        BY <1>3, <4>2
    <3>2. CASE k = last + 1
      BY <1>4, <2>3, <3>1, <3>2
    <3>3. CASE k \in 2..last
      BY <1>3, <2>3, <2>6, <3>1, <3>3 DEF Orders
    <3> QED
      BY <2>3, <3>2, <3>3
  <2>7. ASSUME NEW i \in DOMAIN next
        PROVE  replies'[c][i] = frames'[c][next[i]].frame.op
    <3>1. CASE i = last + 1
      BY <1>1, <2>2, <2>3, <3>1
    <3>2. CASE i \in 2..last
      <4>1. i \in 1..last
        BY <1>2, <3>2
      <4>2. replies[c][i] = frames[c][to[i]].frame.op
        BY <1>3, <3>2 DEF Orders
      <4>3. replies'[c][i] = replies[c][i] /\ next[i] = to[i]
        BY <2>2, <2>3, <3>2, <4>1
      <4> QED
        BY <4>2, <4>3
    <3> QED
      BY <2>3, <3>1, <3>2
  <2>8. Orders(c, next)'
    BY <2>5, <2>6, <2>7 DEF Orders
  <2>9. replies'[c][1] = "101" /\ Len(replies'[c]) >= 1
    <3>1. 1 \in 1..last /\ last + 1 >= 1
      BY <1>2
    <3> QED
      BY <1>2, <2>2, <3>1
  <2>10. [2..Len(replies'[c]) -> Asking(c)'] = [2..(last + 1) -> Asking(c)']
    BY <2>2
  <2> QED
    BY <1>2, <2>2, <2>4, <2>8, <2>9, <2>10 DEF InOrder
<1> QED
  BY <1>5, <1>6

LEMMA OrderNext ==
  ASSUME TypeOK, RequestInv, PhaseInv, OrderInv, [Next]_vars
  PROVE  OrderInv'
<1>1. CASE UNCHANGED vars
  BY <1>1, SameOrder DEF vars, wsVars, OrderInv
<1>2. ASSUME NEW c \in Clients, ClientStep(c) \/ TaskStep(c), NEW d \in Clients, d # c
      PROVE  InOrder(d)'
  <2>1. InOrder(d) /\ Unchanged(d)
    BY <1>2, OthersUnchanged DEF OrderInv
  <2> QED
    BY <2>1, SameOrder DEF Unchanged
<1>3. ASSUME NEW c \in Clients, ClientStep(c) \/ TaskStep(c)
      PROVE  InOrder(c)'
  <2>1. InOrder(c) /\ Phase(c) /\ handled[c] \in Nat
    BY DEF OrderInv, PhaseInv, TypeOK
  <2>2. CASE Connect(c) \/ Arrive(c) \/ HangUp(c) \/ ConnectionLost(c) \/ NoRequest(c)
             \/ ReadBody(c) \/ AnyDrain(c) \/ WsRead(c)
    <3>1. /\ upgraded'[c] = upgraded[c] /\ replies'[c] = replies[c]
          /\ handled'[c] = handled[c] /\ frames'[c] = frames[c]
      BY <2>2 DEF Connect, Arrive, HangUp, ConnectionLost, NoRequest, ReadBody, WsRead,
                  AnyDrain, Drained, LeaveUnread, ReadOn, wsVars
    <3> QED
      BY <2>1, <3>1, SameOrder
  <2>3. CASE BeginFrame(c)
    <3>1. PICK f \in Frames :
             frames' = [frames EXCEPT ![c] =
                 Append(frames[c], [frame |-> f, end |-> EndOf(c, Len(frames[c])) + Size(f)])]
      BY <2>3 DEF BeginFrame
    <3>2. frames'[c] = Append(frames[c], [frame |-> f, end |-> EndOf(c, Len(frames[c])) + Size(f)])
      BY <3>1 DEF TypeOK
    <3>3. frames[c] \in Seq(Sent) /\ handled[c] <= Len(frames[c]) /\ Len(frames[c]) \in Nat
      BY <2>1, SentType DEF Phase
    <3>4. \A n \in 1..handled[c] : n \in 1..Len(frames[c])
      BY <2>1, <3>3
    <3>5. \A n \in 1..handled[c] : frames'[c][n] = frames[c][n]
      <4>1. Len(frames[c]) \in 0..Len(frames[c])
        BY <3>3
      <4>2. EndOf(c, Len(frames[c])) \in Nat
        BY <4>1, SentType
      <4>3. [frame |-> f, end |-> EndOf(c, Len(frames[c])) + Size(f)] \in Sent
        BY <4>2, FrameSizes DEF Sent
      <4> QED
        BY <3>2, <3>4, <4>3, EndsStay
    <3>6. upgraded'[c] = upgraded[c] /\ replies'[c] = replies[c] /\ handled'[c] = handled[c]
      BY <2>3 DEF BeginFrame
    <3> QED
      BY <2>1, <3>5, <3>6, SameOrder
  <2>4. CASE FirstRead(c)
    <3>1. ~upgraded'[c]
      BY <2>1, <2>4 DEF FirstRead, Runs, At, Phase, wsVars
    <3> QED
      BY <3>1 DEF InOrder
  <2>5. CASE Answer(c)
    BY <2>1, <2>5, HandshakeOrder
  <2>6. CASE WsFrame(c)
    <3>1. /\ HasFrame(c) /\ handled'[c] = handled[c] + 1
          /\ upgraded'[c] = upgraded[c] /\ frames'[c] = frames[c]
      BY <2>6 DEF WsFrame, TypeOK
    <3>2. IF Answers(Current(c).op)
          THEN replies'[c] = Append(replies[c], Current(c).op)
          ELSE replies'[c] = replies[c]
      BY <2>6 DEF WsFrame, Reply, TypeOK
    <3> QED
      BY <2>1, <3>1, <3>2, AnswerOrder
  <2> QED
    BY <1>3, <2>2, <2>3, <2>4, <2>5, <2>6 DEF ClientStep, TaskStep,
                                      AnyDrain
<1> QED
  BY <1>1, <1>2, <1>3 DEF Next, OrderInv

\* Each answer belongs to one frame that asks for it, in the order of the frames, and
\* no frame that was handled goes without, whatever the client sends.
THEOREM AnswersAreInOrder == Spec => []AnswersInOrder
<1>1. TypeOK /\ RequestInv /\ PhaseInv /\ OrderInv /\ [Next]_vars => OrderInv'
  BY OrderNext
<1>2. OrderInv => AnswersInOrder
  BY DEF OrderInv, InOrder, Orders, AnswersInOrder
<1> QED
  BY <1>1, <1>2, Invariance, OrderInit, PTL DEF Spec

===============================================================================

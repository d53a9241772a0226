-------------------------- MODULE ModbusServer_proofs --------------------------
(* Theorems about ModbusServer, for any number of clients, requests and updates. *)
EXTENDS ModbusServer, SequenceTheorems, TLAPS

-------------------------------------------------------------------------------
(* Type correctness. *)

Requests == [kind : RequestKinds, since : Nat]
Replies == [tid : Nat, kind : RequestKinds, shows : Nat]

\* Where a task is tells how much it has read of the request it is at.
Progress(c) ==
    /\ taken[c] <= sent[c]
    /\ sent[c] <= 2 * Len(asked[c]) /\ sent[c] >= 2 * Len(asked[c]) - 1
    /\ 2 * Len(replies[c]) <= taken[c]
    /\ conn[c] \in {"none", "loop", "header"} => taken[c] = 2 * Len(replies[c])
    /\ conn[c] = "body" => taken[c] = 2 * Len(replies[c]) + 1

ProgressInv == \A c \in Clients : Progress(c)

\* What stop() leaves to each connection.
StopInv ==
    /\ \A c \in Clients : answered[c] \in Nat
    /\ stopping => \A c \in Clients :
          /\ Len(replies[c]) <= answered[c] + 1
          /\ conn[c] \in {"header", "body"} => Len(replies[c]) <= answered[c]

LEMMA TypesOf ==
  ASSUME TypeOK
  PROVE  /\ asked \in [Clients -> Seq(Requests)] /\ replies \in [Clients -> Seq(Replies)]
         /\ sent \in [Clients -> Nat] /\ taken \in [Clients -> Nat] /\ version \in Nat
         /\ \A d \in Clients : asked[d] \in Seq(Requests) /\ replies[d] \in Seq(Replies)
         /\ \A d \in Clients : /\ sent[d] \in Nat /\ taken[d] \in Nat
                               /\ Len(replies[d]) \in Nat /\ Len(asked[d]) \in Nat
<1>1. /\ asked \in [Clients -> Seq(Requests)] /\ replies \in [Clients -> Seq(Replies)]
      /\ sent \in [Clients -> Nat] /\ taken \in [Clients -> Nat] /\ version \in Nat
  BY DEF TypeOK, Requests, Replies
<1>2. \A d \in Clients : asked[d] \in Seq(Requests) /\ replies[d] \in Seq(Replies)
  BY <1>1
<1> QED
  BY <1>1, <1>2

LEMMA TypeInit == Init => TypeOK /\ ProgressInv
<1> SUFFICES ASSUME Init PROVE TypeOK /\ ProgressInv
  OBVIOUS
<1>1. \A c \in Clients : asked[c] = <<>> /\ replies[c] = <<>> /\ sent[c] = 0 /\ taken[c] = 0
  BY DEF Init
<1>2. <<>> \in Seq(Requests) /\ <<>> \in Seq(Replies) /\ Len(<<>>) = 0
  OBVIOUS
<1>3. asked \in [Clients -> Seq(Requests)] /\ replies \in [Clients -> Seq(Replies)]
  BY <1>2 DEF Init
<1>4. ProgressInv
  <2>1. \A c \in Clients : /\ Len(asked[c]) = 0 /\ Len(replies[c]) = 0
                           /\ sent[c] = 0 /\ taken[c] = 0 /\ conn[c] = "none"
    BY <1>1, <1>2 DEF Init
  <2> SUFFICES ASSUME NEW c \in Clients PROVE Progress(c)
    BY DEF ProgressInv
  <2> QED
    BY <2>1 DEF Progress
<1> QED
  BY <1>3, <1>4 DEF Init, TypeOK, Requests, Replies, Amounts

\* The request a task has read in full, or the header of, is the next to answer.
LEMMA CurrentRequest ==
  ASSUME TypeOK, ProgressInv, NEW c \in Clients, conn[c] \in {"header", "body"}, HasPiece(c)
  PROVE  /\ Number(c) = Len(replies[c]) + 1 /\ Number(c) \in 1..Len(asked[c])
         /\ Current(c) \in Requests
<1>1. /\ asked[c] \in Seq(Requests) /\ replies[c] \in Seq(Replies)
      /\ sent[c] \in Nat /\ taken[c] \in Nat
  BY DEF TypeOK, Requests, Replies
<1>2. Len(asked[c]) \in Nat /\ Len(replies[c]) \in Nat
  BY <1>1
<1>3. taken[c] = 2 * Len(replies[c]) \/ taken[c] = 2 * Len(replies[c]) + 1
  BY DEF ProgressInv, Progress
<1>4. Number(c) = Len(replies[c]) + 1
  <2>1. PICK n \in Nat, t \in Nat : n = Len(replies[c]) /\ t = taken[c]
    BY <1>1, <1>2
  <2>2. t = 2 * n \/ t = 2 * n + 1
    BY <1>3, <2>1
  <2>3. (t + 2) \div 2 = n + 1
    BY SMT, <2>2
  <2> QED
    BY Zenon, <2>1, <2>3 DEF Number
<1>5. taken[c] < sent[c] /\ sent[c] <= 2 * Len(asked[c])
  BY DEF HasPiece, ProgressInv, Progress
<1>6. Number(c) \in 1..Len(asked[c])
  BY <1>1, <1>2, <1>3, <1>4, <1>5
<1> QED
  BY <1>1, <1>4, <1>6 DEF Current

\* Steps that send, read and answer nothing.
LEMMA QuietStep ==
  ASSUME TypeOK, TypeOK', ProgressInv, UNCHANGED <<asked, sent, taken, replies>>,
         \A c \in Clients : conn'[c] = conn[c] \/ conn'[c] = "closed"
                              \/ (conn[c] \in {"none", "loop"} /\ conn'[c] \in {"loop", "header"})
  PROVE  ProgressInv'
  BY DEF ProgressInv, Progress

LEMMA ServerStep ==
  ASSUME TypeOK, ProgressInv, ThreadStep \/ MainStep \/ Update \/ UNCHANGED vars
  PROVE  TypeOK' /\ ProgressInv'
<1>1. UNCHANGED <<asked, sent, taken, replies, conn, eof, unread>>
  BY DEF ThreadStep, MainStep, Bind, CloseListener, LoopEnds, RequestStop, StopReturns, Update,
         clientVars, vars
<1>2. \A c \in Clients : Len(replies[c]) \in Nat
  BY DEF TypeOK
<1>3. TypeOK'
  <2>1. /\ main' \in {"serve", "stopping", "stopped"} /\ closing' \in BOOLEAN
        /\ thread' \in {"starting", "listening", "closing", "ended"}
    BY DEF ThreadStep, MainStep, Bind, CloseListener, LoopEnds, RequestStop, StopReturns, Update,
           lifeVars, vars, TypeOK
  <2>2. answered' \in [Clients -> Nat] /\ version' \in Nat
    BY <1>2 DEF ThreadStep, MainStep, Bind, CloseListener, LoopEnds, RequestStop, StopReturns,
                Update, vars, TypeOK
  <2> QED
    BY <1>1, <2>1, <2>2 DEF TypeOK
<1> QED
  BY <1>1, <1>3 DEF ProgressInv, Progress

LEMMA TaskNext ==
  ASSUME TypeOK, ProgressInv, NEW c \in Clients, TaskStep(c)
  PROVE  TypeOK' /\ ProgressInv'
<1> USE DEF At, Goto
<1>0. /\ \A d \in Clients : asked[d] \in Seq(Requests) /\ replies[d] \in Seq(Replies)
      /\ \A d \in Clients : sent[d] \in Nat /\ taken[d] \in Nat /\ Len(replies[d]) \in Nat
  BY TypesOf
<1>1. UNCHANGED <<lifeVars, asked, sent, eof, answered, version>> /\ unread' \in [Clients -> Amounts]
  <2>1. CASE Answer(c)
    <3>1. AmountsLeft(c) \subseteq Amounts
      BY DEF AmountsLeft, Amounts
    <3> QED
      BY <2>1, <3>1 DEF Answer, TypeOK
  <2> QED
    BY <2>1 DEF TaskStep, LoopTop, ReadHeader, HeaderMissing, BodyMissing, clientVars, TypeOK
<1>2. CASE LoopTop(c) \/ HeaderMissing(c) \/ BodyMissing(c)
  <2>1. TypeOK'
    BY <1>1, <1>2 DEF TypeOK, LoopTop, HeaderMissing, BodyMissing, lifeVars
  <2>2. \A d \in Clients : conn'[d] = conn[d] \/ conn'[d] = "closed"
                             \/ (conn[d] \in {"none", "loop"} /\ conn'[d] \in {"loop", "header"})
    BY <1>2 DEF TypeOK, LoopTop, HeaderMissing, BodyMissing
  <2>3. UNCHANGED <<asked, sent, taken, replies>>
    BY <1>1, <1>2 DEF LoopTop, HeaderMissing, BodyMissing
  <2> QED
    BY <2>1, <2>2, <2>3, QuietStep
<1>3. CASE ReadHeader(c)
  <2>1. /\ conn[c] = "header" /\ taken[c] < sent[c] /\ taken' = [taken EXCEPT ![c] = @ + 1]
        /\ conn'[c] \in {"body", "closed"} /\ \A d \in Clients \ {c} : conn'[d] = conn[d]
        /\ UNCHANGED replies
    BY <1>3 DEF ReadHeader, Take, HasPiece, TypeOK
  <2>2. TypeOK'
    <3>1. conn' \in [Clients -> {"none", "loop", "header", "body", "closed"}]
      BY <1>3 DEF TypeOK, ReadHeader
    <3>2. taken' \in [Clients -> Nat]
      BY <2>1 DEF TypeOK
    <3> QED
      BY <1>1, <2>1, <3>1, <3>2 DEF TypeOK, lifeVars
  <2>3. Progress(c)'
    <3>1. taken'[c] = taken[c] + 1 /\ taken[c] \in Nat /\ sent[c] \in Nat
      BY <1>0, <2>1 DEF TypeOK
    <3>2. UNCHANGED <<asked, replies, sent>>
      BY <1>1, <2>1
    <3>3. Progress(c) /\ Len(replies[c]) \in Nat
      BY <1>0 DEF ProgressInv
    <3> QED
      BY <2>1, <3>1, <3>2, <3>3 DEF Progress
  <2>4. \A d \in Clients \ {c} : Progress(d)'
    BY <1>1, <2>1 DEF ProgressInv, Progress, TypeOK
  <2> QED
    BY <2>2, <2>3, <2>4 DEF ProgressInv
<1>4. CASE Answer(c)
  <2> DEFINE r == [tid |-> Number(c), kind |-> Current(c).kind, shows |-> Shown(c)]
  <2>1. /\ conn[c] = "body" /\ HasPiece(c) /\ taken' = [taken EXCEPT ![c] = @ + 1]
        /\ conn' = [conn EXCEPT ![c] = "loop"] /\ replies' = [replies EXCEPT ![c] = Append(@, r)]
    BY <1>4 DEF Answer, Take
  <2>2. r \in Replies
    <3>1. Number(c) \in Nat /\ Current(c).kind \in RequestKinds
      BY <1>0, <2>1, CurrentRequest DEF Requests
    <3> QED
      BY <3>1 DEF Replies, Shown, TypeOK
  <2> HIDE DEF r
  <2>3. Append(replies[c], r) \in Seq(Replies) /\ Len(Append(replies[c], r)) = Len(replies[c]) + 1
    BY <1>0, <2>2, AppendProperties
  <2>4. replies' \in [Clients -> Seq(Replies)]
    BY <2>1, <2>3 DEF TypeOK, Replies
  <2>5. TypeOK'
    <3>1. conn' \in [Clients -> {"none", "loop", "header", "body", "closed"}]
      BY <2>1 DEF TypeOK
    <3>2. taken' \in [Clients -> Nat]
      BY <2>1 DEF TypeOK
    <3> QED
      BY <1>1, <2>4, <3>1, <3>2 DEF TypeOK, lifeVars, Replies
  <2>6. Progress(c)'
    <3>1. taken'[c] = taken[c] + 1 /\ conn'[c] = "loop" /\ replies'[c] = Append(replies[c], r)
      BY <2>1 DEF TypeOK
    <3>2. UNCHANGED <<asked, sent>> /\ Len(replies'[c]) = Len(replies[c]) + 1
      BY <1>1, <2>3, <3>1
    <3>3. Progress(c) /\ taken[c] \in Nat /\ sent[c] \in Nat /\ Len(replies[c]) \in Nat
      BY <1>0 DEF ProgressInv
    <3> QED
      BY <2>1, <3>1, <3>2, <3>3 DEF Progress, HasPiece
  <2>7. \A d \in Clients \ {c} : Progress(d)'
    BY <1>1, <2>1 DEF ProgressInv, Progress, TypeOK
  <2> QED
    BY <2>5, <2>6, <2>7 DEF ProgressInv
<1> QED
  BY <1>2, <1>3, <1>4 DEF TaskStep

\* The last byte of a request marks it with the update it came after.
LEMMA SendBodyMarks ==
  ASSUME TypeOK, NEW c \in Clients, SendBody(c)
  PROVE  /\ asked'[c] \in Seq(Requests) /\ Len(asked'[c]) = Len(asked[c])
         /\ \A n \in 1..Len(asked[c]) :
               asked'[c][n] = IF n = Len(asked[c]) THEN [asked[c][n] EXCEPT !.since = version]
                                                  ELSE asked[c][n]
         /\ \A d \in Clients \ {c} : asked'[d] = asked[d]
<1> DEFINE s == asked[c]
           i == Len(s)
           e == [s[i] EXCEPT !.since = version]
<1>1. s \in Seq(Requests) /\ i \in Nat /\ version \in Nat /\ sent[c] \in Nat
  BY TypesOf
<1>2. sent[c] = 2 * i - 1 /\ asked' = [asked EXCEPT ![c] = [s EXCEPT ![i] = e]]
  BY DEF SendBody, TypeOK
<1>3. i \in 1..Len(s)
  BY <1>1, <1>2
<1>4. e \in Requests
  <2>1. s[i] \in Requests
    BY <1>1, <1>3
  <2> QED
    BY <1>1, <2>1 DEF Requests
<1>5. asked'[c] = [s EXCEPT ![i] = e] /\ \A d \in Clients \ {c} : asked'[d] = asked[d]
  BY <1>2 DEF TypeOK
<1> HIDE DEF e
<1>6. /\ [s EXCEPT ![i] = e] \in Seq(Requests) /\ Len([s EXCEPT ![i] = e]) = Len(s)
      /\ \A j \in 1..Len(s) : [s EXCEPT ![i] = e][j] = IF j = i THEN e ELSE s[j]
  BY <1>1, <1>3, <1>4, ExceptSeq
<1> QED
  BY <1>5, <1>6 DEF e

LEMMA ClientNext ==
  ASSUME TypeOK, ProgressInv, NEW c \in Clients, ClientStep(c)
  PROVE  TypeOK' /\ ProgressInv'
<1> USE DEF Goto
<1>0. /\ \A d \in Clients : asked[d] \in Seq(Requests) /\ replies[d] \in Seq(Replies)
      /\ \A d \in Clients : /\ sent[d] \in Nat /\ taken[d] \in Nat /\ Len(replies[d]) \in Nat
                            /\ Len(asked[d]) \in Nat
  BY TypesOf
<1>1. UNCHANGED <<lifeVars, taken, replies, answered, version>>
  BY DEF ClientStep, Accept, SendHeader, SendBody, HangUp, ReadOn, ConnectionLost
<1>2. CASE Accept(c) \/ HangUp(c) \/ ReadOn(c) \/ ConnectionLost(c)
  <2>1. TypeOK'
    BY <1>1, <1>2 DEF TypeOK, Accept, HangUp, ReadOn, ConnectionLost, Amounts, lifeVars, clientVars
  <2>2. \A d \in Clients : conn'[d] = conn[d] \/ conn'[d] = "closed"
                             \/ (conn[d] = "none" /\ conn'[d] = "loop")
    BY <1>2 DEF TypeOK, Accept, HangUp, ReadOn, ConnectionLost
  <2>3. UNCHANGED <<asked, sent>>
    BY <1>2 DEF Accept, HangUp, ReadOn, ConnectionLost, clientVars
  <2> QED
    BY <1>1, <2>1, <2>2, <2>3, QuietStep
<1>3. CASE SendHeader(c)
  <2>1. PICK k \in Kinds[c] : asked' = [asked EXCEPT ![c] = Append(@, [kind |-> k, since |-> 0])]
    BY <1>3 DEF SendHeader
  <2> DEFINE r == [kind |-> k, since |-> 0]
  <2>2. r \in Requests
    BY KindAssumption DEF Requests
  <2> HIDE DEF r
  <2>3. Append(asked[c], r) \in Seq(Requests) /\ Len(Append(asked[c], r)) = Len(asked[c]) + 1
    BY <1>0, <2>2, AppendProperties
  <2>4. /\ asked' = [asked EXCEPT ![c] = Append(@, r)] /\ sent[c] = 2 * Len(asked[c])
        /\ sent' = [sent EXCEPT ![c] = @ + 1] /\ UNCHANGED <<conn, eof, unread>>
    BY <1>3, <2>1 DEF SendHeader, r
  <2>5. asked' \in [Clients -> Seq(Requests)]
    BY <2>3, <2>4 DEF TypeOK, Requests
  <2>6. TypeOK'
    <3>1. sent' \in [Clients -> Nat]
      BY <2>4 DEF TypeOK
    <3> QED
      BY <1>1, <2>4, <2>5, <3>1 DEF TypeOK, lifeVars, Requests
  <2>7. Progress(c)'
    BY <1>0, <1>1, <2>3, <2>4 DEF ProgressInv, Progress, TypeOK
  <2>8. \A d \in Clients \ {c} : Progress(d)'
    BY <1>1, <2>4 DEF ProgressInv, Progress, TypeOK
  <2> QED
    BY <2>6, <2>7, <2>8 DEF ProgressInv
<1>4. CASE SendBody(c)
  <2>1. /\ sent[c] = 2 * Len(asked[c]) - 1 /\ sent' = [sent EXCEPT ![c] = @ + 1]
        /\ asked' = [asked EXCEPT ![c][Len(asked[c])].since = version] /\ UNCHANGED <<conn, eof, unread>>
    BY <1>4 DEF SendBody
  <2>2. /\ asked'[c] \in Seq(Requests) /\ Len(asked'[c]) = Len(asked[c])
        /\ \A d \in Clients \ {c} : asked'[d] = asked[d]
    BY <1>4, SendBodyMarks
  <2>3. asked' \in [Clients -> Seq(Requests)]
    BY <1>0, <2>1, <2>2 DEF TypeOK
  <2>4. TypeOK'
    <3>1. sent' \in [Clients -> Nat]
      BY <2>1 DEF TypeOK
    <3> QED
      BY <1>1, <2>1, <2>3, <3>1 DEF TypeOK, lifeVars, Requests
  <2>5. Progress(c)'
    BY <1>0, <1>1, <2>1, <2>2 DEF ProgressInv, Progress, TypeOK
  <2>6. \A d \in Clients \ {c} : Progress(d)'
    BY <1>1, <2>1, <2>2 DEF ProgressInv, Progress, TypeOK
  <2> QED
    BY <2>4, <2>5, <2>6 DEF ProgressInv
<1> QED
  BY <1>2, <1>3, <1>4 DEF ClientStep

LEMMA TypeNext == TypeOK /\ ProgressInv /\ [Next]_vars => TypeOK' /\ ProgressInv'
  BY ServerStep, TaskNext, ClientNext DEF Next

\* Every variable has its type, whatever is asked, hung up or stopped.
THEOREM TypeCorrect == Spec => []TypeOK
  BY TypeInit, TypeNext, PTL DEF Spec
-------------------------------------------------------------------------------
(* Replies. *)

LEMMA ProgressCorrect == Spec => [](TypeOK /\ ProgressInv)
  BY TypeInit, TypeNext, PTL DEF Spec

\* No request is marked with an update that is still to come.
MarksInv == \A c \in Clients : \A n \in 1..Len(asked[c]) : asked[c][n].since <= version

ReplyInv == MarksInv /\ RepliesInOrder /\ FreshReads

LEMMA AnsweredWereAsked ==
  ASSUME TypeOK, ProgressInv, NEW c \in Clients
  PROVE  /\ Len(replies[c]) <= Len(asked[c])
         /\ sent[c] = 2 * Len(asked[c]) - 1 => Len(replies[c]) < Len(asked[c])
<1>1. /\ taken[c] \in Nat /\ sent[c] \in Nat /\ Len(replies[c]) \in Nat /\ Len(asked[c]) \in Nat
  BY TypesOf
<1>2. 2 * Len(replies[c]) <= taken[c] /\ taken[c] <= sent[c] /\ sent[c] <= 2 * Len(asked[c])
  BY DEF ProgressInv, Progress
<1> QED
  BY <1>1, <1>2

\* What has been answered stays answered if its requests stay as they are.
LEMMA AnsweredStay ==
  ASSUME ReplyInv, UNCHANGED replies, MarksInv',
         \A d \in Clients : \A n \in 1..Len(replies[d]) : asked'[d][n] = asked[d][n]
  PROVE  ReplyInv'
<1>1. RepliesInOrder'
  BY DEF ReplyInv, RepliesInOrder
<1>2. FreshReads'
  BY DEF ReplyInv, FreshReads
<1> QED
  BY <1>1, <1>2 DEF ReplyInv

LEMMA ReplyNext ==
  ASSUME TypeOK, TypeOK', ProgressInv, ReplyInv, [Next]_vars
  PROVE  ReplyInv'
<1>0. /\ \A d \in Clients : asked[d] \in Seq(Requests) /\ replies[d] \in Seq(Replies)
      /\ \A d \in Clients : Len(replies[d]) \in Nat /\ Len(asked[d]) \in Nat
      /\ asked \in [Clients -> Seq(Requests)] /\ replies \in [Clients -> Seq(Replies)]
      /\ version \in Nat
  BY TypesOf
<1>1. ASSUME NEW c \in Clients, Answer(c) PROVE ReplyInv'
  <2> DEFINE r == [tid |-> Number(c), kind |-> Current(c).kind, shows |-> version]
             k == Len(replies[c]) + 1
  <2>1. /\ replies' = [replies EXCEPT ![c] = Append(@, r)] /\ UNCHANGED <<asked, version>>
        /\ conn[c] = "body" /\ HasPiece(c)
    BY <1>1 DEF Answer, Shown, clientVars, At
  <2>2. Number(c) = k /\ k \in 1..Len(asked[c]) /\ Current(c) = asked[c][k] /\ asked[c][k] \in Requests
    BY <2>1, CurrentRequest DEF Current
  <2>3. r \in Replies /\ r.tid = k /\ r.kind = asked[c][k].kind /\ r.shows >= asked[c][k].since
    <3>1. asked[c][k].since <= version
      BY <2>2 DEF ReplyInv, MarksInv
    <3>2. k \in Nat /\ asked[c][k].since \in Nat /\ asked[c][k].kind \in RequestKinds
      BY <2>2 DEF Requests
    <3> QED
      BY <1>0, <2>2, <3>1, <3>2 DEF Replies
  <2> HIDE DEF r
  <2>4. /\ replies'[c] = Append(replies[c], r) /\ Len(replies'[c]) = k
        /\ \A n \in 1..Len(replies[c]) : replies'[c][n] = replies[c][n]
        /\ replies'[c][k] = r
    BY <1>0, <2>1, <2>3, AppendProperties
  <2>5. \A d \in Clients \ {c} : replies'[d] = replies[d]
    BY <1>0, <2>1
  <2>6. ASSUME NEW d \in Clients, NEW n \in 1..Len(replies'[d])
        PROVE  /\ replies'[d][n].tid = n /\ replies'[d][n].kind = asked[d][n].kind
               /\ replies'[d][n].shows >= asked[d][n].since
    <3>1. CASE d = c /\ n = k
      BY <2>3, <2>4, <3>1
    <3>2. CASE d = c /\ n # k
      <4>1. n \in 1..Len(replies[c])
        BY <1>0, <2>4, <3>2
      <4> QED
        BY <2>4, <3>2, <4>1 DEF ReplyInv, RepliesInOrder, FreshReads
    <3>3. CASE d # c
      BY <2>5, <3>3 DEF ReplyInv, RepliesInOrder, FreshReads
    <3> QED
      BY <3>1, <3>2, <3>3
  <2>7. MarksInv'
    BY <2>1 DEF ReplyInv, MarksInv
  <2> QED
    BY <2>1, <2>6, <2>7 DEF ReplyInv, RepliesInOrder, FreshReads
<1>2. ASSUME NEW c \in Clients, SendHeader(c) PROVE ReplyInv'
  <2>1. PICK k \in Kinds[c] : asked' = [asked EXCEPT ![c] = Append(@, [kind |-> k, since |-> 0])]
    BY <1>2 DEF SendHeader
  <2> DEFINE r == [kind |-> k, since |-> 0]
  <2>2. r \in Requests /\ r.since <= version
    BY <1>0, KindAssumption DEF Requests
  <2> HIDE DEF r
  <2>3. /\ asked' = [asked EXCEPT ![c] = Append(@, r)] /\ UNCHANGED <<replies, version>>
    BY <1>2, <2>1 DEF SendHeader, r
  <2>4. /\ Len(asked'[c]) = Len(asked[c]) + 1 /\ asked'[c][Len(asked[c]) + 1] = r
        /\ \A n \in 1..Len(asked[c]) : asked'[c][n] = asked[c][n]
    BY <1>0, <2>2, <2>3, AppendProperties
  <2>5. \A d \in Clients \ {c} : asked'[d] = asked[d]
    BY <1>0, <2>3
  <2>6. ASSUME NEW d \in Clients, NEW n \in 1..Len(asked'[d])
        PROVE  asked'[d][n].since <= version
    <3>1. CASE d = c
      <4>1. n \in 1..Len(asked[c]) \/ n = Len(asked[c]) + 1
        BY <1>0, <2>4, <3>1
      <4> QED
        BY <2>2, <2>4, <3>1, <4>1 DEF ReplyInv, MarksInv
    <3>2. CASE d # c
      BY <2>5, <3>2 DEF ReplyInv, MarksInv
    <3> QED
      BY <3>1, <3>2
  <2>7. ASSUME NEW d \in Clients, NEW n \in 1..Len(replies[d])
        PROVE  asked'[d][n] = asked[d][n]
    <3>1. n \in 1..Len(asked[d])
      BY <1>0, AnsweredWereAsked
    <3> QED
      BY <2>4, <2>5, <3>1
  <2>8. UNCHANGED <<replies, version>>
    BY <2>3
  <2> QED
    BY <2>6, <2>7, <2>8 DEF ReplyInv, MarksInv, RepliesInOrder, FreshReads
<1>3. ASSUME NEW c \in Clients, SendBody(c) PROVE ReplyInv'
  <2>1. sent[c] = 2 * Len(asked[c]) - 1 /\ UNCHANGED <<replies, version>>
    BY <1>3 DEF SendBody
  <2>2. ASSUME NEW d \in Clients, NEW n \in 1..Len(replies[d])
        PROVE  asked'[d][n] = asked[d][n]
    <3>1. n \in 1..Len(asked[d]) /\ (d = c => n # Len(asked[d]))
      BY <1>0, <2>1, AnsweredWereAsked
    <3> QED
      BY <1>3, <3>1, SendBodyMarks
  <2>3. ASSUME NEW d \in Clients, NEW n \in 1..Len(asked'[d])
        PROVE  asked'[d][n].since <= version
    <3>1. n \in 1..Len(asked[d])
      BY <1>3, SendBodyMarks
    <3>2. asked[d][n].since <= version /\ asked[d][n] \in Requests
      BY <1>0, <3>1 DEF ReplyInv, MarksInv
    <3> DEFINE old == asked[d][n]
               new == asked'[d][n]
    <3>3. new = old \/ new = [old EXCEPT !.since = version]
      BY <1>3, <3>1, SendBodyMarks
    <3> HIDE DEF new, old
    <3>4. old \in Requests /\ old.since <= version
      BY <3>2 DEF old
    <3>5. new.since = old.since \/ new.since = version
      BY <3>3, <3>4 DEF Requests
    <3>6. new.since <= version
      BY <1>0, <3>4, <3>5
    <3> QED
      BY <3>6 DEF new
  <2>4. MarksInv'
    BY <2>1, <2>3 DEF MarksInv
  <2> QED
    BY <2>1, <2>2, <2>4, AnsweredStay
<1>4. CASE Update
  <2>1. UNCHANGED <<asked, replies>> /\ version' = version + 1
    BY <1>4 DEF Update, clientVars
  <2>2. ASSUME NEW d \in Clients, NEW n \in 1..Len(asked[d])
        PROVE  asked[d][n].since <= version + 1
    <3>1. asked[d][n] \in Requests /\ asked[d][n].since <= version
      BY <1>0 DEF ReplyInv, MarksInv
    <3> QED
      BY <1>0, <3>1 DEF Requests
  <2> QED
    BY <2>1, <2>2 DEF ReplyInv, MarksInv, RepliesInOrder, FreshReads
<1>5. ASSUME UNCHANGED <<asked, replies, version>> PROVE ReplyInv'
  BY <1>5 DEF ReplyInv, MarksInv, RepliesInOrder, FreshReads
<1>6. CASE ThreadStep \/ MainStep \/ UNCHANGED vars
  BY <1>5, <1>6 DEF ThreadStep, MainStep, Bind, CloseListener, LoopEnds, RequestStop, StopReturns,
                    clientVars, vars
<1>7. ASSUME NEW c \in Clients, LoopTop(c) \/ ReadHeader(c) \/ HeaderMissing(c) \/ BodyMissing(c)
                                  \/ Accept(c) \/ HangUp(c) \/ ReadOn(c) \/ ConnectionLost(c)
      PROVE  ReplyInv'
  BY <1>5, <1>7 DEF LoopTop, ReadHeader, HeaderMissing, BodyMissing, Accept, HangUp, ReadOn,
                    ConnectionLost, clientVars
<1> QED
  BY <1>1, <1>2, <1>3, <1>4, <1>6, <1>7 DEF Next, TaskStep, ClientStep

LEMMA ReplyCorrect == Spec => []ReplyInv
<1>1. Init => ReplyInv
  <2> SUFFICES ASSUME Init PROVE ReplyInv
    OBVIOUS
  <2>1. \A c \in Clients : asked[c] = <<>> /\ replies[c] = <<>>
    BY DEF Init
  <2> QED
    BY <2>1 DEF ReplyInv, MarksInv, RepliesInOrder, FreshReads
<1>2. ReplyInv /\ TypeOK /\ ProgressInv /\ TypeOK' /\ [Next]_vars => ReplyInv'
  BY ReplyNext
<1> QED
  BY <1>1, <1>2, ProgressCorrect, PTL DEF Spec

\* However many requests are sent ahead, on however many connections, the n-th reply is
\* to the n-th request.
THEOREM RepliesAreInOrder == Spec => []RepliesInOrder
<1>1. ReplyInv => RepliesInOrder
  BY DEF ReplyInv
<1> QED
  BY <1>1, ReplyCorrect, PTL

\* No reply shows a meter older than the one there was when its request was complete.
THEOREM ReadsAreFresh == Spec => []FreshReads
<1>1. ReplyInv => FreshReads
  BY DEF ReplyInv
<1> QED
  BY <1>1, ReplyCorrect, PTL

-------------------------------------------------------------------------------
(* Stopping. *)

LEMMA StopNext ==
  ASSUME TypeOK, TypeOK', ProgressInv, StopInv, [Next]_vars
  PROVE  StopInv'
<1> USE DEF At, Goto, stopping
<1>0. /\ \A d \in Clients : Len(replies[d]) \in Nat /\ answered[d] \in Nat
      /\ \A d \in Clients : answered'[d] \in Nat
      /\ \A d \in Clients : replies[d] \in Seq(Replies)
      /\ replies \in [Clients -> Seq(Replies)]
  BY TypesOf DEF TypeOK
<1>1. CASE RequestStop
  <2>1. /\ \A c \in Clients : answered'[c] = Len(replies[c])
        /\ UNCHANGED <<conn, replies>>
    BY <1>1 DEF RequestStop
  <2> QED
    BY <1>0, <2>1 DEF StopInv
<1>2. ASSUME NEW c \in Clients, Answer(c) PROVE StopInv'
  <2> DEFINE r == [tid |-> Number(c), kind |-> Current(c).kind, shows |-> Shown(c)]
  <2>1. /\ conn[c] = "body" /\ HasPiece(c) /\ conn' = [conn EXCEPT ![c] = "loop"]
        /\ replies' = [replies EXCEPT ![c] = Append(@, r)] /\ UNCHANGED <<answered, main>>
    BY <1>2 DEF Answer, lifeVars
  <2>2. replies'[c] = Append(replies[c], r) /\ \A d \in Clients \ {c} : replies'[d] = replies[d]
    BY <1>0, <2>1
  <2> HIDE DEF r
  <2>3. Len(replies'[c]) = Len(replies[c]) + 1
    BY <1>0, <2>2
  <2>4. conn'[c] = "loop" /\ \A d \in Clients \ {c} : conn'[d] = conn[d]
    BY <2>1 DEF TypeOK
  <2> QED
    BY <1>0, <2>1, <2>2, <2>3, <2>4 DEF StopInv
<1>3. ASSUME UNCHANGED <<main, replies, answered>>,
             main # "serve" => \A d \in Clients :
                 conn'[d] \in {"header", "body"} => conn[d] \in {"header", "body"}
      PROVE  StopInv'
  BY <1>3 DEF StopInv
<1>4. ASSUME NEW c \in Clients, LoopTop(c) \/ ReadHeader(c) \/ HeaderMissing(c) \/ BodyMissing(c)
                                  \/ ClientStep(c)
      PROVE  StopInv'
  <2>1. UNCHANGED <<main, replies, answered>>
    BY <1>4 DEF LoopTop, ReadHeader, HeaderMissing, BodyMissing, ClientStep, Accept, SendHeader,
                SendBody, HangUp, ReadOn, ConnectionLost, lifeVars
  <2>2. main # "serve" => \A d \in Clients :
            conn'[d] \in {"header", "body"} => conn[d] \in {"header", "body"}
    BY <1>4 DEF LoopTop, ReadHeader, HeaderMissing, BodyMissing, ClientStep, Accept, SendHeader,
                SendBody, HangUp, ReadOn, ConnectionLost, TypeOK
  <2> QED
    BY <1>3, <2>1, <2>2
<1>5. CASE StopReturns
  BY <1>5 DEF StopReturns, StopInv
<1>6. CASE ThreadStep \/ Update \/ UNCHANGED vars
  BY <1>3, <1>6 DEF ThreadStep, Bind, CloseListener, LoopEnds, Update, lifeVars, vars
<1> QED
  BY <1>1, <1>2, <1>4, <1>5, <1>6 DEF Next, MainStep, TaskStep

\* After stop() a connection gets the reply it is waiting for and no other.
THEOREM StopLeavesOneReply == Spec => []OneReplyAfterStop
<1>1. Init => StopInv
  BY DEF Init, StopInv, stopping
<1>2. StopInv /\ TypeOK /\ ProgressInv /\ TypeOK' /\ [Next]_vars => StopInv'
  BY StopNext
<1>3. StopInv => OneReplyAfterStop
  BY DEF StopInv, OneReplyAfterStop
<1> QED
  BY <1>1, <1>2, <1>3, ProgressCorrect, PTL DEF Spec


===============================================================================

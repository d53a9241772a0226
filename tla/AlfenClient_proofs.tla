-------------------------- MODULE AlfenClient_proofs --------------------------
(* Theorems about AlfenClient, for every value of its constants. *)
EXTENDS AlfenClient, TLAPS

-------------------------------------------------------------------------------
(* Type correctness. *)

LEMMA CloseType ==
  ASSUME TypeOK, CloseClient
  PROVE  /\ client' \in Conns \cup {None} /\ mine' \in Conns \cup {None}
         /\ link' \in [Conns -> {"closed", "open", "dead"}] /\ connected' \in BOOLEAN
         /\ UNCHANGED <<locked, last, last_error, poll_count, error_count, backoff, store,
                        device, reader>>
  BY DEF TypeOK, CloseClient, Socket

LEMMA SlowerType ==
  ASSUME NEW b \in Nat
  PROVE  Slower(b) \in Nat
  BY SettingsAssumption DEF Slower

LEMMA TypeInit == Init => TypeOK
<1> SUFFICES ASSUME Init PROVE TypeOK
  OBVIOUS
<1>1. locked \in BOOLEAN /\ connected \in BOOLEAN
  BY DEF Init
<1>2. pc \in PcLabels /\ main \in {"run", "join", "closing", "stopped"}
  BY DEF Init, PcLabels
<1>3. /\ client \in Conns \cup {None} /\ mine \in Conns \cup {None}
      /\ link \in [Conns -> {"closed", "open", "dead"}]
  BY DEF Init
<1>4. /\ last \in [kind : {"none", "ok", "failed"}, value : Values \cup {Blank}]
      /\ last_error \in Errors \cup {None}
      /\ store \in [ok : BOOLEAN, value : Values \cup {Blank}]
  BY DEF Init
<1>5. /\ poll_count \in 0..MaxCount /\ error_count \in 0..MaxCount /\ backoff \in Nat
      /\ device \in {"good", "faulty", "silent"} /\ reader \in {"idle", "asking"}
  BY SettingsAssumption DEF Init
<1> QED
  BY <1>1, <1>2, <1>3, <1>4, <1>5 DEF TypeOK

LEMMA TypeNext == TypeOK /\ [Next]_vars => TypeOK'
<1> SUFFICES ASSUME TypeOK, [Next]_vars PROVE TypeOK'
  OBVIOUS
<1> USE SettingsAssumption DEF TypeOK, At, Goto, PcLabels, connVars, statusVars, Socket, Errors
<1>a. \A n \in 0..MaxCount : Bump(n) \in 0..MaxCount
  BY DEF Bump
<1>b. Slower(backoff) \in Nat
  BY SlowerType
<1>c. FailedMeasurements \in [kind : {"none", "ok", "failed"}, value : Values \cup {Blank}]
  BY DEF FailedMeasurements
<1>1. CASE LoopTop
  BY <1>1 DEF LoopTop
<1>2. CASE EnsureConnected
  <2>1. connected' \in BOOLEAN
    BY <1>2 DEF EnsureConnected
  <2>2. pc' \in PcLabels /\ client' \in Conns \cup {None} /\ mine' \in Conns \cup {None}
    BY <1>2 DEF EnsureConnected
  <2> QED
    BY <1>2, <2>1, <2>2 DEF EnsureConnected
<1>3. CASE Connect
  BY <1>3 DEF Connect, Released
<1>4. CASE Register
  <2>1. connected' \in BOOLEAN /\ locked' \in BOOLEAN
    BY <1>4 DEF Register
  <2>2. pc' \in PcLabels /\ client' \in Conns \cup {None} /\ mine' \in Conns \cup {None}
        /\ last_error' \in Errors \cup {None}
    BY <1>4 DEF Register
  <2> QED
    BY <1>4, <2>1, <2>2 DEF Register
<1>5. CASE Discard
  <2>1. connected' \in BOOLEAN /\ locked' \in BOOLEAN
    BY <1>5 DEF Discard
  <2>2. pc' \in PcLabels /\ mine' \in Conns \cup {None}
        /\ link' \in [Conns -> {"closed", "open", "dead"}]
    BY <1>5 DEF Discard
  <2> QED
    BY <1>5, <2>1, <2>2 DEF Discard
<1>6. CASE PollNotConnected
  BY <1>6, <1>a, <1>b, <1>c DEF PollNotConnected, Finish
<1>7. CASE BeginRead
  BY <1>7 DEF BeginRead
<1>8. CASE ReadReturns
  BY <1>8, <1>a DEF ReadReturns, Parsed
<1>9. CASE ReadFails
  BY <1>9 DEF ReadFails
<1>10. CASE CountReadFailure
  <2>1. connected' \in BOOLEAN /\ error_count' \in 0..MaxCount
    BY <1>10, <1>a DEF CountReadFailure
  <2> QED
    BY <1>10, <2>1 DEF CountReadFailure
<1>11. CASE CloseAfterFailure
  BY <1>11, CloseType DEF CloseAfterFailure
<1>12. CASE MergeFailure
  BY <1>12, <1>b, <1>c DEF MergeFailure, Finish
<1>13. CASE Deliver
  BY <1>13, <1>b DEF Deliver, Finish
<1>14. CASE SaveReturns
  BY <1>14, <1>b DEF SaveReturns, Finish
<1>15. CASE PollRaised
  BY <1>15, <1>a, <1>b DEF PollRaised, Finish
<1>16. CASE WaitEnds
  BY <1>16 DEF WaitEnds
<1>17. CASE RequestStop \/ JoinReturns
  BY <1>17 DEF RequestStop, JoinReturns
<1>18. CASE CloseOnStop
  BY <1>18, CloseType DEF CloseOnStop
<1>19. CASE AskStatus \/ GetStatus
  BY <1>19 DEF AskStatus, GetStatus
<1>20. CASE DeviceChanges
  BY <1>20 DEF DeviceChanges, Cut
<1>21. CASE UNCHANGED vars
  BY <1>21 DEF vars
<1> QED
  BY <1>1, <1>2, <1>3, <1>4, <1>5, <1>6, <1>7, <1>8, <1>9, <1>10, <1>11, <1>12, <1>13,
     <1>14, <1>15, <1>16, <1>17, <1>18, <1>19, <1>20, <1>21
  DEF Next, PollerComputes, NetworkCall

\* Every variable has its type, whatever the charger and the threads do.
THEOREM TypeCorrect == Spec => []TypeOK
  BY TypeInit, TypeNext, PTL DEF Spec

-------------------------------------------------------------------------------
(* Connections: none is lost, and none survives stop().                     *)

\* Where the poller holds a connection, and which one.
InHand ==
    /\ pc \notin {"connect", "register", "discard", "reading"} => mine = None
    /\ pc \in {"connect", "register", "discard"} => client = None
    /\ pc = "connect" /\ mine # None => link[mine] = "closed"
    /\ pc \in {"register", "discard", "reading"} => mine # None
    /\ pc = "reading" /\ mine # client => client = None /\ link[mine] = "closed"

StaysDisconnected == main = "stopped" => client = None /\ ~connected

ConnInv == InHand /\ NoConnectionLeak /\ StaysDisconnected

LEMMA ConnInit == Init => ConnInv
  BY DEF Init, ConnInv, InHand, NoConnectionLeak, StaysDisconnected

LEMMA CloseKeepsConnections ==
  ASSUME TypeOK, ConnInv, CloseClient,
         pc' = pc \/ (pc = "close" /\ pc' = "merge")
  PROVE  InHand' /\ NoConnectionLeak' /\ client' = None /\ connected' = FALSE
<1>1. client' = None /\ connected' = FALSE /\ mine' = mine
  BY DEF CloseClient
<1>2. \A k \in Conns : link'[k] = IF k = client THEN "closed" ELSE link[k]
  BY ValueAssumption DEF CloseClient, Socket, TypeOK
<1>3. mine # None => mine \in Conns
  BY DEF TypeOK
<1>4. InHand'
  BY <1>1, <1>2, <1>3 DEF ConnInv, InHand
<1>5. NoConnectionLeak'
  BY <1>1, <1>2 DEF ConnInv, NoConnectionLeak
<1> QED
  BY <1>1, <1>4, <1>5

LEMMA ConnNext == TypeOK /\ ConnInv /\ [Next]_vars => ConnInv'
<1> SUFFICES ASSUME TypeOK, ConnInv, [Next]_vars PROVE ConnInv'
  OBVIOUS
<1> USE ValueAssumption
    DEF ConnInv, InHand, NoConnectionLeak, StaysDisconnected, At, Goto, connVars, statusVars,
        stopping
<1>1. CASE LoopTop
  BY <1>1 DEF LoopTop
<1>2. CASE EnsureConnected
  BY <1>2 DEF EnsureConnected
<1>3. CASE Connect
  <2>1. Released = link
    BY <1>3 DEF Connect, Released, Socket, TypeOK
  <2>2. client' = None /\ connected' = connected /\ main' = main /\ client = None
    BY <1>3 DEF Connect
  <2>3. \A j \in Conns : link[j] = "closed"
    BY <1>3, <2>2 DEF Connect
  <2>4. CASE pc' = "register"
    <3>1. PICK k \in Conns : /\ mine' = k /\ pc' = "register"
                             /\ \A j \in Conns : j # k => link'[j] = link[j]
      BY <1>3, <2>1, <2>4 DEF Connect, TypeOK
    <3> QED
      BY <2>2, <2>3, <3>1
  <2>5. CASE pc' # "register"
    BY <1>3, <2>1, <2>2, <2>3, <2>5 DEF Connect
  <2> QED
    BY <2>4, <2>5
<1>4. CASE Register
  <2>1. CASE stopping
    BY <1>4, <2>1 DEF Register
  <2>2. CASE ~stopping
    BY <1>4, <2>2 DEF Register
  <2> QED
    BY <2>1, <2>2
<1>5. CASE Discard
  <2>1. \A k \in Conns : link'[k] = IF k = mine THEN "closed" ELSE link[k]
    BY <1>5 DEF Discard, Socket, TypeOK
  <2> QED
    BY <1>5, <2>1 DEF Discard
<1>6. CASE PollNotConnected \/ MergeFailure \/ PollRaised
  BY <1>6 DEF PollNotConnected, MergeFailure, PollRaised, Finish
<1>7. CASE BeginRead
  BY <1>7 DEF BeginRead
<1>8. CASE ReadReturns
  BY <1>8 DEF ReadReturns, Parsed
<1>9. CASE ReadFails
  <2>1. \A k \in Conns : link'[k] # "closed" => link[k] # "closed"
    BY <1>9 DEF ReadFails, Socket, TypeOK
  <2> QED
    BY <1>9, <2>1 DEF ReadFails
<1>10. CASE CountReadFailure
  BY <1>10 DEF CountReadFailure
<1>11. CASE CloseAfterFailure
  BY <1>11, CloseKeepsConnections DEF CloseAfterFailure
<1>12. CASE Deliver \/ SaveReturns
  BY <1>12 DEF Deliver, SaveReturns, Finish
<1>13. CASE WaitEnds
  BY <1>13 DEF WaitEnds
<1>14. CASE RequestStop \/ JoinReturns
  BY <1>14 DEF RequestStop, JoinReturns
<1>15. CASE CloseOnStop
  BY <1>15, CloseKeepsConnections DEF CloseOnStop
<1>16. CASE AskStatus \/ GetStatus
  BY <1>16 DEF AskStatus, GetStatus
<1>17. CASE DeviceChanges
  <2>1. \A k \in Conns : link'[k] = "closed" <=> link[k] = "closed"
    BY <1>17 DEF DeviceChanges, Cut
  <2>2. mine # None => mine \in Conns
    BY DEF TypeOK
  <2> QED
    BY <1>17, <2>1, <2>2 DEF DeviceChanges
<1>18. CASE UNCHANGED vars
  BY <1>18 DEF vars
<1> QED
  BY <1>1, <1>2, <1>3, <1>4, <1>5, <1>6, <1>7, <1>8, <1>9, <1>10, <1>11, <1>12, <1>13,
     <1>14, <1>15, <1>16, <1>17, <1>18
  DEF Next, PollerComputes, NetworkCall

LEMMA ConnInvariant == Spec => []ConnInv
  BY TypeCorrect, ConnInit, ConnNext, PTL DEF Spec

\* No socket is left open that neither _client nor the poller refers to.
THEOREM ConnectionsAreTracked == Spec => []NoConnectionLeak
<1>1. ConnInv => NoConnectionLeak
  BY DEF ConnInv
<1> QED
  BY <1>1, ConnInvariant, PTL

\* After stop() the client is disconnected for good, and no socket outlives the
\* poller, even if stop() did not wait for it.
THEOREM StopIsFinal == Spec => []StopDisconnects
<1>1. TypeOK /\ ConnInv => StopDisconnects
  BY ValueAssumption
  DEF ConnInv, InHand, NoConnectionLeak, StaysDisconnected, StopDisconnects, At, TypeOK
<1> QED
  BY <1>1, ConnInvariant, TypeCorrect, PTL

-------------------------------------------------------------------------------
(* The wait between polls.                                                   *)

LEMMA SlowerBounded ==
  ASSUME PollInterval <= MaxBackoff, NEW b \in Nat, PollInterval <= b, b <= MaxBackoff
  PROVE  PollInterval <= Slower(b) /\ Slower(b) <= MaxBackoff
  BY SettingsAssumption DEF Slower

\* The wait stays between the poll interval and the cap, however long the charger
\* is out of reach and however often it comes back.
THEOREM BackoffStaysBounded == Spec => []BackoffBounded
<1>1. Init => BackoffBounded
  BY SettingsAssumption DEF Init, BackoffBounded
<1>2. TypeOK /\ BackoffBounded /\ [Next]_vars => BackoffBounded'
  <2> SUFFICES ASSUME TypeOK, BackoffBounded, [Next]_vars, PollInterval <= MaxBackoff
               PROVE  PollInterval <= backoff' /\ backoff' <= MaxBackoff
    BY DEF BackoffBounded
  <2>1. backoff \in Nat /\ PollInterval <= backoff /\ backoff <= MaxBackoff
    BY DEF TypeOK, BackoffBounded
  <2>2. backoff' \in {backoff, PollInterval, Slower(backoff)}
    BY DEF Next, PollerComputes, NetworkCall, vars, LoopTop, EnsureConnected, Connect, Register,
           Discard, PollNotConnected, BeginRead, ReadReturns, ReadFails, CountReadFailure,
           CloseAfterFailure, CloseClient, MergeFailure, Deliver, SaveReturns, PollRaised,
           WaitEnds, RequestStop, JoinReturns, CloseOnStop, AskStatus, GetStatus, DeviceChanges,
           Finish
  <2> QED
    BY <2>1, <2>2, SlowerBounded, SettingsAssumption
<1> QED
  BY <1>1, <1>2, TypeCorrect, PTL DEF Spec

-------------------------------------------------------------------------------
(* What the status says, and what the store and _last hold.                  *)

\* Before the first reply there are no numbers to keep.
BlankBeforeFirst == poll_count = 0 => last.value = Blank

\* Only while a reply is on its way to the store do the two differ.
StoreInStep == pc # "deliver" => store.value = last.value

\* While a failed poll is under way its error is already shown.
ErrorInStep ==
    ~stopping =>
        /\ pc \in {"failed", "read_failed", "close", "merge"} => last_error # None
        /\ pc \notin {"failed", "read_failed", "close", "merge"}
              => ((last_error # None) <=> (last.kind = "failed"))
        /\ pc = "read" => client # None
        /\ pc # "discard"
        /\ main = "run"

StatusInv == BlankBeforeFirst /\ StoreInStep /\ ErrorInStep

LEMMA StatusInit == Init => StatusInv
  BY DEF Init, StatusInv, BlankBeforeFirst, StoreInStep, ErrorInStep

LEMMA FailedKeepsNumbers ==
  ASSUME BlankBeforeFirst, TypeOK
  PROVE  FailedMeasurements.value = last.value /\ FailedMeasurements.kind = "failed"
<1>1. poll_count = 0 \/ poll_count > 0
  BY SettingsAssumption DEF TypeOK
<1> QED
  BY <1>1 DEF FailedMeasurements, BlankBeforeFirst

LEMMA BumpPositive ==
  ASSUME NEW n \in 0..MaxCount
  PROVE  Bump(n) # 0
  BY SettingsAssumption DEF Bump

LEMMA StatusNext == TypeOK /\ ConnInv /\ StatusInv /\ [Next]_vars => StatusInv'
<1> SUFFICES ASSUME TypeOK, ConnInv, StatusInv, [Next]_vars PROVE StatusInv'
  OBVIOUS
<1> USE ValueAssumption
    DEF Errors, StatusInv, BlankBeforeFirst, StoreInStep, ErrorInStep, At, Goto, stopping,
        connVars, statusVars
<1>1. CASE LoopTop \/ WaitEnds
  BY <1>1 DEF LoopTop, WaitEnds
<1>2. CASE EnsureConnected
  BY <1>2 DEF EnsureConnected
<1>3. CASE Connect
  BY <1>3 DEF Connect
<1>4. CASE Register
  <2>1. CASE stopping
    BY <1>4, <2>1 DEF Register
  <2>2. CASE ~stopping
    BY <1>4, <2>2 DEF Register, ConnInv, InHand
  <2> QED
    BY <2>1, <2>2
<1>5. CASE Discard
  BY <1>5 DEF Discard
<1>6. CASE PollNotConnected \/ MergeFailure
  BY <1>6, FailedKeepsNumbers DEF PollNotConnected, MergeFailure, Finish
<1>7. CASE BeginRead
  BY <1>7 DEF BeginRead
<1>8. CASE ReadReturns
  <2>1. poll_count' # 0
    BY <1>8, BumpPositive DEF ReadReturns, Parsed, TypeOK
  <2>2. (last_error' # None) <=> (last'.kind = "failed")
    BY <1>8 DEF ReadReturns, Parsed
  <2> QED
    BY <1>8, <2>1, <2>2 DEF ReadReturns
<1>9. CASE ReadFails \/ CountReadFailure
  BY <1>9 DEF ReadFails, CountReadFailure
<1>10. CASE CloseAfterFailure
  BY <1>10 DEF CloseAfterFailure, CloseClient
<1>11. CASE Deliver \/ SaveReturns \/ PollRaised
  BY <1>11 DEF Deliver, SaveReturns, PollRaised, Finish
<1>12. CASE RequestStop \/ JoinReturns
  BY <1>12 DEF RequestStop, JoinReturns
<1>13. CASE CloseOnStop
  BY <1>13 DEF CloseOnStop, CloseClient
<1>14. CASE AskStatus \/ GetStatus \/ DeviceChanges
  BY <1>14 DEF AskStatus, GetStatus, DeviceChanges
<1>15. CASE UNCHANGED vars
  BY <1>15 DEF vars
<1> QED
  BY <1>1, <1>2, <1>3, <1>4, <1>5, <1>6, <1>7, <1>8, <1>9, <1>10, <1>11, <1>12, <1>13,
     <1>14, <1>15
  DEF Next, PollerComputes, NetworkCall

LEMMA StatusInvariant == Spec => []StatusInv
  BY TypeCorrect, ConnInvariant, StatusInit, StatusNext, PTL DEF Spec

\* Between polls the status shows an error exactly when the last poll failed.
THEOREM StatusIsTruthful == Spec => []StatusAgrees
<1>1. StatusInv => StatusAgrees
  BY DEF StatusInv, ErrorInStep, StatusAgrees, BetweenPolls
<1> QED
  BY <1>1, StatusInvariant, PTL

\* Between polls the store serves the numbers _last holds.
THEOREM StoreAgreesWithLast == Spec => []StoreFollowsPolls
<1>1. StatusInv => StoreFollowsPolls
  BY DEF StatusInv, StoreInStep, StoreFollowsPolls, BetweenPolls
<1> QED
  BY <1>1, StatusInvariant, PTL

\* Numbers that change come with a reply that was parsed.
LEMMA NumbersChangeOnReply ==
  ASSUME TypeOK, StatusInv, [Next]_vars, last'.value # last.value
  PROVE  ReadReturns
<1>1. ReadReturns \/ last' = last \/ last' = FailedMeasurements
  BY DEF Next, PollerComputes, NetworkCall, vars, connVars, statusVars, LoopTop,
         EnsureConnected, Connect, Register, Discard, PollNotConnected, BeginRead, ReadFails,
         CountReadFailure, CloseAfterFailure, CloseClient, MergeFailure, Deliver,
         SaveReturns, PollRaised, WaitEnds, RequestStop, JoinReturns, CloseOnStop,
         AskStatus, GetStatus, DeviceChanges
<1>2. last' # last /\ last' # FailedMeasurements
  BY FailedKeepsNumbers DEF StatusInv
<1> QED
  BY <1>1, <1>2

\* Failures, exceptions and stop() leave the numbers alone: only replies change them.
THEOREM NumbersOutliveFailures == Spec => NumbersNeedReply
<1>1. TypeOK /\ StatusInv /\ [Next]_vars
        => [last'.value # last.value => At("reading") /\ Goto("deliver")]_last
  BY NumbersChangeOnReply DEF ReadReturns
<1> QED
  BY <1>1, TypeCorrect, StatusInvariant, PTL DEF Spec, NumbersNeedReply

\* As long as no reply is short, those are good replies.
THEOREM LastGoodOutlivesFailures ==
  ASSUME ShortReads = FALSE
  PROVE  Spec => LastGoodKept
<1>1. TypeOK /\ StatusInv /\ [Next]_vars => [last'.value # last.value => last'.kind = "ok"]_last
  BY NumbersChangeOnReply DEF ReadReturns, Parsed
<1> QED
  BY <1>1, TypeCorrect, StatusInvariant, PTL DEF Spec, LastGoodKept

===============================================================================

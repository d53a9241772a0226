----------------------------- MODULE Sigelly_proofs -----------------------------
(* Theorems about Sigelly, for any services, settings and order of signals. *)
EXTENDS Sigelly, TLAPS

MainLabels ==
    {"start", "start_modbus", "start_mdns", "bind", "serve", "closing"} \cup Stopping \cup Ends

-------------------------------------------------------------------------------
(* mDNS: start() and stop() side by side. *)

LEMMA StartStepType ==
  ASSUME MdnsTypeOK, NEW enabled \in BOOLEAN, StartThread \/ StartStep(enabled)
  PROVE  MdnsTypeOK'
<1>1. CASE StartThread \/ StartLook(enabled) \/ MakeResponder
  BY <1>1 DEF StartThread, StartLook, MakeResponder, MdnsTypeOK
<1>2. ASSUME NEW s \in Services, Probe(s) PROVE MdnsTypeOK'
  BY <1>2 DEF Probe, MdnsTypeOK
<1>3. CASE RegisterEnds
  BY <1>3 DEF RegisterEnds, MdnsTypeOK
<1>4. CASE Publish
  BY <1>4 DEF Publish, MdnsTypeOK
<1> QED
  BY <1>1, <1>2, <1>3, <1>4 DEF StartStep

LEMMA StopStepType ==
  ASSUME MdnsTypeOK, CallStop \/ StopStep \/ Expire
  PROVE  MdnsTypeOK'
<1>1. CASE CallStop \/ StopLook \/ Expire
  BY <1>1 DEF CallStop, StopLook, Expire, start, MdnsTypeOK
<1>2. CASE Withdraw
  BY <1>2 DEF Withdraw, start, MdnsTypeOK
<1>3. CASE CloseResponder \/ Forget
  BY <1>3 DEF CloseResponder, Forget, start, MdnsTypeOK
<1> QED
  BY <1>1, <1>2, <1>3 DEF StopStep

\* stop() finds a responder only when the start thread has made one; it makes no
\* other, and one that is closed tells the network nothing.
QuietInv ==
    /\ zc => startPc \in {"register", "done"}
    /\ stopPc \in {"withdraw", "close", "forget", "done"} => startPc \in {"register", "done"}
    /\ stopPc \in {"forget", "done"} => responder = "closed" /\ advertised = {}

LEMMA QuietStartStep ==
  ASSUME MdnsTypeOK, QuietInv, NEW enabled \in BOOLEAN, StartStep(enabled)
  PROVE  QuietInv'
<1>1. CASE StartLook(enabled) \/ MakeResponder \/ Publish
  BY <1>1 DEF StartLook, MakeResponder, Publish, QuietInv
<1>2. ASSUME NEW s \in Services, Probe(s) PROVE QuietInv'
  BY <1>2 DEF Probe, QuietInv
<1>3. CASE RegisterEnds
  <2>1. responder = "closed" => advertised' = advertised
    BY <1>3 DEF RegisterEnds
  <2> QED
    BY <1>3, <2>1 DEF RegisterEnds, QuietInv
<1> QED
  BY <1>1, <1>2, <1>3 DEF StartStep

LEMMA QuietStopStep ==
  ASSUME MdnsTypeOK, QuietInv, CallStop \/ StopStep \/ Expire
  PROVE  QuietInv'
<1>1. CASE CallStop \/ StopLook \/ Withdraw \/ Expire
  BY <1>1 DEF CallStop, StopLook, Withdraw, Expire, start, QuietInv
<1>2. CASE CloseResponder \/ Forget
  BY <1>2 DEF CloseResponder, Forget, start, QuietInv
<1> QED
  BY <1>1, <1>2 DEF StopStep

-------------------------------------------------------------------------------
(* Type correctness. *)

NumbersOK == conns \in 0..MaxConns /\ sigints \in 0..2

PartsOK ==
    /\ settings \in [mdns : BOOLEAN, modbus : BOOLEAN] /\ main \in MainLabels
    /\ listening \in BOOLEAN
    /\ poller \in {"off", "polling", "stopping", "exited"}
    /\ modbus \in {"off", "running", "stopped"}

PortOK == listening <=> main = "serve"

LEMMA TypeParts == TypeOK <=> MdnsTypeOK /\ NumbersOK /\ PartsOK /\ PortOK
<1>1. listening \in BOOLEAN => ((listening = (main = "serve")) <=> PortOK)
  BY DEF PortOK
<1> QED
  BY <1>1 DEF TypeOK, NumbersOK, PartsOK, MainLabels

LEMMA TypeInit == Init => TypeOK
<1> SUFFICES ASSUME Init PROVE TypeOK
  OBVIOUS
<1>1. MdnsTypeOK
  BY DEF Init, MdnsInit, MdnsTypeOK
<1>2. NumbersOK
  BY ConfigAssumption DEF Init, NumbersOK
<1>3. PartsOK /\ PortOK
  BY DEF Init, PartsOK, PortOK, MainLabels
<1> QED
  BY <1>1, <1>2, <1>3, TypeParts

\* Steps that leave mDNS alone.
OtherSteps ==
    \/ StartAlfen \/ StartModbus \/ Bind \/ Closed \/ MdnsStopped \/ StopModbus \/ StopAlfen
    \/ Join \/ Save \/ Connect \/ Disconnect \/ Interrupt \/ Kill \/ PollerExits

LEMMA OtherStepsType ==
  ASSUME TypeOK, OtherSteps
  PROVE  TypeOK' /\ UNCHANGED mdnsVars
<1> USE DEF Goto
<1>0. MdnsTypeOK /\ NumbersOK /\ PartsOK /\ PortOK
  BY TypeParts
<1>1. UNCHANGED mdnsVars
  BY DEF OtherSteps, StartAlfen, StartModbus, Bind, Closed, MdnsStopped, StopModbus, StopAlfen,
         Join, Save, Connect, Disconnect, Interrupt, Kill, PollerExits
<1>2. MdnsTypeOK'
  BY <1>0, <1>1 DEF MdnsTypeOK, mdnsVars
<1>3. NumbersOK'
  <2>1. MaxConns \in Nat
    BY ConfigAssumption
  <2>2. CASE StartAlfen \/ StartModbus \/ Bind \/ Closed \/ MdnsStopped \/ StopModbus
             \/ StopAlfen \/ Join \/ PollerExits
    BY <1>0, <2>2 DEF StartAlfen, StartModbus, Bind, Closed, MdnsStopped, StopModbus, StopAlfen,
                      Join, PollerExits, parts, process, NumbersOK
  <2>3. CASE Connect \/ Disconnect \/ Kill
    BY <1>0, <2>1, <2>3 DEF Connect, Disconnect, Kill, parts, NumbersOK
  <2>4. CASE Interrupt
    <3>1. conns' \in {conns, 0} /\ sigints' = sigints + 1 /\ sigints < 2
      BY <2>4 DEF Interrupt
    <3> QED
      BY <1>0, <2>1, <3>1 DEF NumbersOK
  <2>5. CASE Save
    BY <1>0, <2>1, <2>5 DEF Save, NumbersOK
  <2> QED
    BY <2>2, <2>3, <2>4, <2>5 DEF OtherSteps
<1>4. PartsOK' /\ PortOK'
  <2>1. CASE StartAlfen \/ StartModbus \/ Closed \/ MdnsStopped
    BY <1>0, <2>1 DEF StartAlfen, StartModbus, Closed, MdnsStopped, parts, PartsOK, PortOK,
                      MainLabels, Stopping, Ends
  <2>6. CASE Bind
    <3>1. UNCHANGED <<settings, poller, modbus>>
      BY <2>6 DEF Bind, parts
    <3>2. CASE main' = "serve" /\ listening' = TRUE
      BY <1>0, <3>1, <3>2 DEF PartsOK, PortOK, MainLabels
    <3>3. CASE main = "bind" /\ main' = "failed" /\ listening' = listening
      BY <1>0, <3>1, <3>3 DEF PartsOK, PortOK, MainLabels, Ends
    <3> QED
      BY <2>6, <3>2, <3>3 DEF Bind
  <2>2. CASE StopModbus \/ StopAlfen \/ Join \/ Save
    BY <1>0, <2>2 DEF StopModbus, StopAlfen, Told, Join, Save, parts, PartsOK, PortOK,
                      MainLabels, Stopping, Ends
  <2>3. CASE Connect \/ Disconnect \/ PollerExits
    BY <1>0, <2>3 DEF Connect, Disconnect, PollerExits, parts, process, PartsOK,
                      PortOK
  <2>4. CASE Interrupt
    <3>1. UNCHANGED <<settings, poller, modbus>>
      BY <2>4 DEF Interrupt, parts
    <3>2. main' \in {main, "closing", "mdns", "failed"}
      BY <2>4 DEF Interrupt
    <3>3. listening' \in BOOLEAN /\ (listening' <=> main' = "serve")
      BY <1>0, <2>4 DEF Interrupt, PartsOK, PortOK
    <3> QED
      BY <1>0, <3>1, <3>2, <3>3 DEF PartsOK, PortOK, MainLabels, Stopping, Ends
  <2>5. CASE Kill
    BY <1>0, <2>5 DEF Kill, parts, PartsOK, PortOK, MainLabels, Ends
  <2> QED
    BY <2>1, <2>2, <2>3, <2>4, <2>5, <2>6 DEF OtherSteps
<1>5. TypeOK'
  BY <1>2, <1>3, <1>4, TypeParts, PTL
<1> QED
  BY <1>1, <1>5

LEMMA TypeNext == TypeOK /\ [Next]_vars => TypeOK'
<1> SUFFICES ASSUME TypeOK, [Next]_vars PROVE TypeOK'
  OBVIOUS
<1> USE DEF Goto
<1>1. CASE StartMdns
  BY <1>1, StartStepType DEF StartMdns, TypeOK, Stopping, Ends, parts
<1>2. CASE CallMdnsStop
  BY <1>2, StopStepType DEF CallMdnsStop, TypeOK, Stopping, Ends, parts
<1>3. CASE InMdnsStop \/ Forgotten
  BY <1>3, StopStepType DEF InMdnsStop, Forgotten, TypeOK, process, parts
<1>4. CASE InMdnsStart
  <2>1. settings.mdns \in BOOLEAN
    BY DEF TypeOK
  <2> QED
    BY <1>4, <2>1, StartStepType DEF InMdnsStart, TypeOK, process, parts
<1>5. CASE OtherSteps
  BY <1>5, OtherStepsType
<1>6. CASE UNCHANGED vars
  BY <1>6 DEF vars, process, parts, mdnsVars, TypeOK, MdnsTypeOK
<1> QED
  BY <1>1, <1>2, <1>3, <1>4, <1>5, <1>6 DEF Next, MainStep, OtherSteps

\* Every variable has its type, and the port is open exactly while the program serves.
THEOREM TypeCorrect == Spec => []TypeOK
  BY TypeInit, TypeNext, PTL DEF Spec

-------------------------------------------------------------------------------
(* Nothing is advertised after stop(). *)

\* The start thread is started once, before stop().
StartedOnce ==
    main \in {"start", "start_modbus", "start_mdns"} => startPc = "off" /\ stopPc = "off" /\ ~zc

LEMMA QuietNext ==
  ASSUME TypeOK, QuietInv, StartedOnce, [Next]_vars
  PROVE  QuietInv' /\ StartedOnce'
<1> USE DEF Goto
<1>0. MdnsTypeOK /\ settings.mdns \in BOOLEAN
  BY DEF TypeOK
<1>1. CASE StartMdns
  BY <1>1 DEF StartMdns, StartThread, StartedOnce, QuietInv
<1>2. CASE CallMdnsStop
  BY <1>0, <1>2, QuietStopStep DEF CallMdnsStop, StartedOnce
<1>3. CASE InMdnsStop
  BY <1>0, <1>3, QuietStopStep DEF InMdnsStop, process, StartedOnce
<1>4. CASE Forgotten
  BY <1>0, <1>4, QuietStopStep DEF Forgotten, Gone, Ends, process, StartedOnce
<1>5. CASE InMdnsStart
  <2>1. QuietInv' /\ main' = main /\ stopPc' = stopPc
    BY <1>0, <1>5, QuietStartStep DEF InMdnsStart, process, StartStep, StartLook, MakeResponder,
                                      Probe, RegisterEnds, Publish
  <2>2. startPc # "off"
    BY <1>5 DEF InMdnsStart, StartStep, StartLook, MakeResponder, Probe,
                 RegisterEnds, Publish
  <2> QED
    BY <2>1, <2>2 DEF StartedOnce
<1>6. CASE OtherSteps
  <2>1. UNCHANGED mdnsVars
    BY <1>6, OtherStepsType
  <2>2. main' \in {"start", "start_modbus", "start_mdns"}
          => main \in {"start", "start_modbus", "start_mdns"}
    BY <1>6 DEF OtherSteps, StartAlfen, StartModbus, Bind, Closed, MdnsStopped, StopModbus,
                StopAlfen, Join, Save, Connect, Disconnect, Interrupt, Kill, PollerExits, process
  <2> QED
    BY <2>1, <2>2 DEF mdnsVars, QuietInv, StartedOnce
<1>7. CASE UNCHANGED vars
  BY <1>7 DEF vars, process, mdnsVars, QuietInv, StartedOnce
<1> QED
  BY <1>1, <1>2, <1>3, <1>4, <1>5, <1>6, <1>7 DEF Next, MainStep, OtherSteps

\* Once stop() has closed a responder nothing is advertised, wherever the start thread
\* was when stop() came.
THEOREM QuietOnceStopped == Spec => []QuietAfterStop
<1>1. Init => QuietInv /\ StartedOnce
  BY DEF Init, MdnsInit, QuietInv, StartedOnce
<1>2. QuietInv /\ StartedOnce /\ TypeOK /\ [Next]_vars => QuietInv' /\ StartedOnce'
  BY QuietNext
<1>3. QuietInv => QuietAfterStop
  BY DEF QuietInv, QuietAfterStop
<1> QED
  BY <1>1, <1>2, <1>3, TypeCorrect, PTL DEF Spec
===============================================================================

---------------------------- MODULE ShellyRpc_proofs ----------------------------
(* Theorems about ShellyRpc, for any number of threads and requests, batches of *)
(* any length and a ring of any size.                                           *)
EXTENDS ShellyRpc, FiniteSetTheorems, SequenceTheorems, TLAPS

-------------------------------------------------------------------------------
(* Counters. *)

LEMMA CopiesType ==
  ASSUME NEW bag, IsABag(bag), NEW name
  PROVE  Copies(name, bag) \in Nat /\ (Copies(name, bag) = 0 <=> name \notin DOMAIN bag)
  BY DEF IsABag, Copies

\* One more of a name leaves the other names alone.
LEMMA CopiesAdded ==
  ASSUME NEW bag, IsABag(bag), NEW m
  PROVE  /\ IsABag(bag (+) SetToBag({m}))
         /\ DOMAIN (bag (+) SetToBag({m})) = DOMAIN bag \cup {m}
         /\ \A name : Copies(name, bag (+) SetToBag({m}))
                        = Copies(name, bag) + (IF name = m THEN 1 ELSE 0)
<1> DEFINE one == SetToBag({m})
           sum == bag (+) one
<1>1. DOMAIN one = {m} /\ one[m] = 1
  BY DEF SetToBag
<1>2. \A name \in DOMAIN bag : bag[name] \in Nat /\ bag[name] > 0
  BY DEF IsABag
<1> HIDE DEF one
<1>3. sum = [e \in DOMAIN bag \cup {m} |->
                (IF e \in DOMAIN bag THEN bag[e] ELSE 0) + (IF e \in {m} THEN one[e] ELSE 0)]
  BY <1>1 DEF (+)
<1>4. DOMAIN sum = DOMAIN bag \cup {m}
  BY <1>3
<1>5. \A name \in DOMAIN sum :
         sum[name] = Copies(name, bag) + (IF name = m THEN 1 ELSE 0)
  BY <1>1, <1>2, <1>3, <1>4 DEF Copies
<1> HIDE DEF sum
<1>6. sum = [e \in DOMAIN sum |-> sum[e]]
  BY <1>3 DEF sum
<1>7. \A name \in DOMAIN sum : sum[name] \in Nat /\ sum[name] > 0
  BY <1>2, <1>4, <1>5 DEF Copies
<1>8. IsABag(sum)
  BY <1>6, <1>7 DEF IsABag
<1>9. \A name : Copies(name, sum) = Copies(name, bag) + (IF name = m THEN 1 ELSE 0)
  BY <1>4, <1>5 DEF Copies
<1> QED
  BY <1>4, <1>8, <1>9 DEF sum, one

\* One more of a name makes the sum one more.
LEMMA TotalAdded ==
  ASSUME NEW bag, IsABag(bag), IsFiniteSet(AllCopies(bag)), NEW m
  PROVE  /\ IsFiniteSet(AllCopies(bag (+) SetToBag({m})))
         /\ Total(bag (+) SetToBag({m})) = Total(bag) + 1
<1> DEFINE sum == bag (+) SetToBag({m})
           copy == <<m, Copies(m, bag) + 1>>
<1>1. /\ DOMAIN sum = DOMAIN bag \cup {m}
      /\ \A name : Copies(name, sum) = Copies(name, bag) + (IF name = m THEN 1 ELSE 0)
  BY CopiesAdded
<1> HIDE DEF sum
<1>2. \A x : x \in AllCopies(bag) <=>
               \E name, n : x = <<name, n>> /\ n \in Nat /\ 1 <= n /\ n <= Copies(name, bag)
  BY DEF AllCopies, Copies, IsABag
<1>3. IsABag(sum)
  BY CopiesAdded DEF sum
<1>4. \A x : x \in AllCopies(sum) <=>
               \E name, n : x = <<name, n>> /\ n \in Nat /\ 1 <= n /\ n <= Copies(name, sum)
  BY <1>3 DEF AllCopies, Copies, IsABag
<1>5. Copies(m, bag) \in Nat
  BY CopiesType
<1>6. copy \notin AllCopies(bag)
  BY <1>2, <1>5
<1>7. AllCopies(sum) = AllCopies(bag) \cup {copy}
  <2>1. \A name, n : name # m => Copies(name, sum) = Copies(name, bag)
    <3>1. \A name : Copies(name, bag) \in Nat
      BY CopiesType
    <3> QED
      BY <1>1, <3>1
  <2>2. \A n \in Nat : n <= Copies(m, sum) <=> n <= Copies(m, bag) \/ n = Copies(m, bag) + 1
    BY <1>1, <1>5
  <2>3. 1 <= Copies(m, bag) + 1 /\ Copies(m, bag) + 1 \in Nat
    BY <1>5
  <2> QED
    BY <1>2, <1>4, <2>1, <2>2, <2>3
<1> QED
  BY <1>6, <1>7, FS_AddElement DEF Total, sum
-------------------------------------------------------------------------------
(* The last elements of a sequence. *)

LEMMA LastOfProperties ==
  ASSUME NEW S, NEW s \in Seq(S), NEW n \in Nat
  PROVE  /\ LastOf(s, n) \in Seq(S)
         /\ Len(LastOf(s, n)) = IF Len(s) > n THEN n ELSE Len(s)
         /\ \A i \in 1..Len(LastOf(s, n)) :
               LastOf(s, n)[i] = s[Len(s) - Len(LastOf(s, n)) + i]
<1>1. Len(s) \in Nat /\ \A i \in 1..Len(s) : s[i] \in S
  BY LenProperties, ElementOfSeq
<1>2. CASE Len(s) > n
  <2>1. LastOf(s, n) = SubSeq(s, Len(s) - n + 1, Len(s))
    BY <1>2 DEF LastOf
  <2>2. /\ Len(s) - n + 1 \in Int /\ Len(s) - (Len(s) - n + 1) + 1 = n
        /\ \A i \in (Len(s) - n + 1)..Len(s) : s[i] \in S
    BY <1>1, <1>2
  <2>3. /\ LastOf(s, n) \in Seq(S) /\ Len(LastOf(s, n)) = n
        /\ \A i \in 1..n : LastOf(s, n)[i] = s[Len(s) - n + 1 + i - 1]
    BY <1>1, <2>1, <2>2, SubSeqProperties
  <2>4. \A i \in 1..n : Len(s) - n + 1 + i - 1 = Len(s) - n + i
    BY <1>1
  <2> QED
    BY <1>2, <2>3, <2>4
<1>3. CASE ~(Len(s) > n)
  <2>1. LastOf(s, n) = s
    BY <1>3 DEF LastOf
  <2>2. \A i \in 1..Len(s) : Len(s) - Len(s) + i = i
    BY <1>1
  <2> QED
    BY <1>3, <2>1, <2>2
<1> QED
  BY <1>2, <1>3

\* A ring that is added to is the end of what was ever added to it.
LEMMA LastOfAppend ==
  ASSUME NEW S, NEW s \in Seq(S), NEW e \in S, NEW n \in Nat \ {0}
  PROVE  LastOf(Append(LastOf(s, n), e), n) = LastOf(Append(s, e), n)
<1> DEFINE r == LastOf(s, n)
           u == Append(r, e)
           v == Append(s, e)
<1>1. /\ r \in Seq(S) /\ Len(r) = (IF Len(s) > n THEN n ELSE Len(s)) /\ Len(s) \in Nat
      /\ \A i \in 1..Len(r) : r[i] = s[Len(s) - Len(r) + i]
  BY LastOfProperties, LenProperties
<1> HIDE DEF r
<1>2. /\ u \in Seq(S) /\ Len(u) = Len(r) + 1
      /\ \A i \in 1..Len(r) : u[i] = r[i]
      /\ u[Len(r) + 1] = e
  BY <1>1, AppendProperties
<1>3. /\ v \in Seq(S) /\ Len(v) = Len(s) + 1
      /\ \A i \in 1..Len(s) : v[i] = s[i]
      /\ v[Len(s) + 1] = e
  BY AppendProperties
<1> HIDE DEF u, v
<1>4. \A i \in 1..Len(u) : u[i] = v[Len(v) - Len(u) + i]
  <2> SUFFICES ASSUME NEW i \in 1..Len(u)
               PROVE  u[i] = v[Len(v) - Len(u) + i]
    OBVIOUS
  <2>1. Len(r) \in Nat /\ Len(r) <= Len(s) /\ Len(v) - Len(u) = Len(s) - Len(r)
    BY <1>1, <1>2, <1>3
  <2>2. CASE i = Len(r) + 1
    <3>1. Len(v) - Len(u) + i = Len(s) + 1
      BY <1>1, <2>1, <2>2
    <3> QED
      BY <1>2, <1>3, <2>2, <3>1
  <2>3. CASE i # Len(r) + 1
    <3>1. i \in 1..Len(r)
      BY <1>2, <2>1, <2>3
    <3>2. Len(s) - Len(r) + i \in 1..Len(s)
      BY <1>1, <2>1, <3>1
    <3> QED
      BY <1>1, <1>2, <1>3, <2>1, <3>1, <3>2
  <2> QED
    BY <2>2, <2>3
<1>5. /\ LastOf(u, n) \in Seq(S) /\ Len(LastOf(u, n)) = (IF Len(u) > n THEN n ELSE Len(u))
      /\ \A i \in 1..Len(LastOf(u, n)) : LastOf(u, n)[i] = u[Len(u) - Len(LastOf(u, n)) + i]
  BY <1>2, LastOfProperties
<1>6. /\ LastOf(v, n) \in Seq(S) /\ Len(LastOf(v, n)) = (IF Len(v) > n THEN n ELSE Len(v))
      /\ \A i \in 1..Len(LastOf(v, n)) : LastOf(v, n)[i] = v[Len(v) - Len(LastOf(v, n)) + i]
  BY <1>3, LastOfProperties
<1>7. Len(LastOf(u, n)) = Len(LastOf(v, n))
  BY <1>1, <1>2, <1>3, <1>5, <1>6
<1>lengths. /\ Len(u) \in Nat /\ Len(LastOf(u, n)) \in 0..Len(u) /\ Len(v) \in Nat
  BY <1>1, <1>2, <1>3, <1>5
<1>8. ASSUME NEW i \in 1..Len(LastOf(u, n))
      PROVE  LastOf(u, n)[i] = LastOf(v, n)[i]
  <2> DEFINE k == Len(u) - Len(LastOf(u, n)) + i
  <2>1. k \in 1..Len(u) /\ Len(v) - Len(u) + k = Len(v) - Len(LastOf(v, n)) + i
    BY <1>7, <1>lengths
  <2> HIDE DEF k
  <2>2. LastOf(u, n)[i] = u[k]
    BY <1>5 DEF k
  <2>3. u[k] = v[Len(v) - Len(u) + k]
    BY <1>4, <2>1
  <2> QED
    BY <1>6, <1>7, <2>1, <2>2, <2>3
<1>9. LastOf(u, n) = LastOf(v, n)
  BY <1>5, <1>6, <1>7, <1>8, SeqEqual
<1> QED
  BY <1>9 DEF u, v, r

\* The end of a ring is the end of what was added.
LEMMA LastOfLastOf ==
  ASSUME NEW S, NEW s \in Seq(S), NEW n \in Nat, NEW k \in 0..n
  PROVE  LastOf(LastOf(s, n), k) = LastOf(s, k)
<1> DEFINE r == LastOf(s, n)
<1>1. /\ r \in Seq(S) /\ Len(r) = (IF Len(s) > n THEN n ELSE Len(s)) /\ Len(s) \in Nat
      /\ \A i \in 1..Len(r) : r[i] = s[Len(s) - Len(r) + i]
  BY LastOfProperties, LenProperties
<1> HIDE DEF r
<1>2. /\ LastOf(r, k) \in Seq(S) /\ Len(LastOf(r, k)) = (IF Len(r) > k THEN k ELSE Len(r))
      /\ \A i \in 1..Len(LastOf(r, k)) : LastOf(r, k)[i] = r[Len(r) - Len(LastOf(r, k)) + i]
  <2>1. r \in Seq(S) /\ k \in Nat
    BY <1>1
  <2> QED
    BY Zenon, <2>1, LastOfProperties
<1>3. /\ LastOf(s, k) \in Seq(S) /\ Len(LastOf(s, k)) = (IF Len(s) > k THEN k ELSE Len(s))
      /\ \A i \in 1..Len(LastOf(s, k)) : LastOf(s, k)[i] = s[Len(s) - Len(LastOf(s, k)) + i]
  BY LastOfProperties
<1>4. Len(LastOf(r, k)) = Len(LastOf(s, k))
  BY <1>1, <1>2, <1>3
<1>lengths. Len(r) \in Nat /\ Len(LastOf(r, k)) \in 0..Len(r) /\ Len(s) \in Nat
  BY <1>1, <1>2
<1>5. ASSUME NEW i \in 1..Len(LastOf(r, k))
      PROVE  LastOf(r, k)[i] = LastOf(s, k)[i]
  <2> DEFINE j == Len(r) - Len(LastOf(r, k)) + i
  <2>1. j \in 1..Len(r) /\ Len(s) - Len(r) + j = Len(s) - Len(LastOf(s, k)) + i
    BY <1>4, <1>lengths
  <2> HIDE DEF j
  <2>2. LastOf(r, k)[i] = r[j]
    BY <1>2 DEF j
  <2>3. r[j] = s[Len(s) - Len(r) + j]
    BY <1>1, <2>1
  <2> QED
    BY <1>3, <1>4, <2>1, <2>2, <2>3
<1>6. LastOf(r, k) = LastOf(s, k)
  BY <1>2, <1>3, <1>4, <1>5, SeqEqual
<1> QED
  BY <1>6 DEF r

\* What is added to a sequence does not change its beginning.
LEMMA PrefixKept ==
  ASSUME NEW S, NEW s \in Seq(S), NEW e \in S, NEW n \in 0..Len(s)
  PROVE  SubSeq(Append(s, e), 1, n) = SubSeq(s, 1, n)
<1>1. /\ Append(s, e) \in Seq(S) /\ Len(Append(s, e)) = Len(s) + 1 /\ Len(s) \in Nat
      /\ \A i \in 1..Len(s) : Append(s, e)[i] = s[i]
      /\ \A i \in 1..Len(s) : s[i] \in S
  BY AppendProperties, LenProperties, ElementOfSeq
<1>2. \A i \in 1..n : Append(s, e)[i] = s[i] /\ s[i] \in S
  BY <1>1
<1>3. /\ SubSeq(Append(s, e), 1, n) \in Seq(S) /\ SubSeq(s, 1, n) \in Seq(S)
      /\ Len(SubSeq(Append(s, e), 1, n)) = (IF 1 <= n THEN n - 1 + 1 ELSE 0)
      /\ Len(SubSeq(s, 1, n)) = (IF 1 <= n THEN n - 1 + 1 ELSE 0)
      /\ \A i \in 1..(n - 1 + 1) : SubSeq(Append(s, e), 1, n)[i] = Append(s, e)[1 + i - 1]
      /\ \A i \in 1..(n - 1 + 1) : SubSeq(s, 1, n)[i] = s[1 + i - 1]
  BY <1>1, <1>2, SubSeqProperties
<1>4. \A i \in 1..Len(SubSeq(s, 1, n)) :
         /\ SubSeq(Append(s, e), 1, n)[i] = Append(s, e)[i]
         /\ SubSeq(s, 1, n)[i] = s[i]
         /\ Append(s, e)[i] = s[i]
  BY <1>1, <1>2, <1>3
<1> QED
  BY <1>3, <1>4, SeqEqual
-------------------------------------------------------------------------------
(* Types.  Besides TypeOK: a thread at work has a request that is not refused, *)
(* and one that is at the trace has an answer to tell of.                      *)

Working(t) ==
    /\ pc[t] # "idle" => req[t] \in Requests /\ Refusal(req[t]) = None
    /\ pc[t] \in {"record", "count"} => out[t] # <<>>
    /\ req[t].route = "debug" => out[t] = <<>>

Typed ==
    /\ TypeOK
    /\ reply = [t \in Threads |-> reply[t]]
    /\ \A t \in Threads : Working(t)

Acts(t) == Step(t) \/ WithLock(t) \/ \E r \in Requests : Arrive(t, r)

LEMMA NoneIsNoThread == None \notin Threads
  BY ThreadAssumption DEF Threads

\* What a thread does leaves the other threads alone.
LEMMA OthersUnchanged ==
  ASSUME Typed, NEW t \in Threads, Acts(t), NEW u \in Threads, u # t
  PROVE  /\ pc'[u] = pc[u] /\ req'[u] = req[u] /\ pos'[u] = pos[u]
         /\ out'[u] = out[u] /\ reply'[u] = reply[u] /\ variant' = variant
<1> USE DEF Typed, TypeOK
<1>1. CASE \E r \in Requests : Arrive(t, r)
  BY <1>1 DEF Arrive
<1>2. CASE Skip(t)
  BY <1>2 DEF Skip
<1>3. CASE Abort(t)
  BY <1>3 DEF Abort
<1>4. CASE Call(t)
  BY <1>4 DEF Call
<1>5. CASE Record(t)
  BY <1>5 DEF Record
<1>6. CASE Count(t)
  BY <1>6 DEF Count
<1>7. CASE Summarize(t)
  BY <1>7 DEF Summarize
<1>8. CASE Respond(t)
  BY <1>8 DEF Respond
<1> QED
  BY <1>1, <1>2, <1>3, <1>4, <1>5, <1>6, <1>7, <1>8 DEF Acts, Step, WithLock

LEMMA AnswerType ==
  ASSUME NEW r \in Requests, NEW item \in Items
  PROVE  Answered(r, item) \in Answers
<1>1. item.method \in STRING /\ item.id \in Nat \cup {None}
  BY DEF Items
<1>2. Name(r, item) \in Names
  BY <1>1 DEF Name, Names
<1>3. Kind(r, item) \in Kinds
  <2>1. Outcome(item.method, item.include) \in Kinds
    BY DEF Outcome, Kinds
  <2> QED
    BY <2>1 DEF Kind, Kinds
<1>4. (finite \/ Kind(r, item) # "result" \/ ~ShowsNumbers(item.method, item.include)) \in BOOLEAN
  OBVIOUS
<1>5. (IF r.route = "post" THEN item.id ELSE None) \in Nat \cup {None}
  BY <1>1
<1> QED
  BY <1>2, <1>3, <1>4, <1>5 DEF Answered, Answers

LEMMA EventType ==
  ASSUME Typed, NEW t \in Threads, pc[t] \in {"record", "count"}
  PROVE  /\ out[t] \in Seq(Answers) /\ Len(out[t]) \in Nat \ {0}
         /\ Told(t) \in Answers /\ Event(t) \in Events
<1>1. out[t] \in Seq(Answers) /\ out[t] # <<>>
  BY DEF Typed, TypeOK, Working
<1>2. Len(out[t]) \in Nat \ {0}
  BY <1>1, EmptySeq, LenProperties
<1>3. Told(t) \in Answers
  BY <1>1, <1>2, ElementOfSeq DEF Told
<1> QED
  BY <1>1, <1>2, <1>3 DEF Event, Events, Answers

LEMMA TypedInit == Init => Typed
<1> SUFFICES ASSUME Init
             PROVE  Typed
  OBVIOUS
<1> USE DEF Init
<1>1. TypeOK
  <2>1. IsABag(methods) /\ IsABag(errors) /\ DOMAIN errors = {}
    BY DEF EmptyBag, SetToBag, IsABag
  <2>2. events \in Seq(Events) /\ log \in Seq(Events)
    BY EmptySeq
  <2>3. out \in [Threads -> Seq(Answers)]
    BY EmptySeq
  <2>4. /\ served \in 0..MaxRequests /\ lock \in Threads \cup {None}
        /\ pc \in [Threads -> PcStates] /\ req \in [Threads -> Requests \cup {NoRequest}]
        /\ pos \in [Threads -> Nat]
    BY BoundAssumption DEF PcStates
  <2>5. ASSUME NEW t \in Threads
        PROVE  /\ pos[t] \in 1..(Len(req[t].items) + 1)
               /\ (pc[t] = "count") = (lock = t)
               /\ reply[t] = None
    <3>1. req[t].items = <<>> /\ Len(req[t].items) = 0
      BY <2>5, EmptySeq DEF NoRequest
    <3> QED
      BY <2>5, <3>1, NoneIsNoThread
  <2> QED
    BY <2>1, <2>2, <2>3, <2>4, <2>5 DEF TypeOK
<1>2. reply = [t \in Threads |-> reply[t]]
  OBVIOUS
<1>3. ASSUME NEW t \in Threads
      PROVE  Working(t)
  BY <1>3 DEF Working, NoRequest
<1> QED
  BY <1>1, <1>2, <1>3 DEF Typed

\* The parts of Typed that are about no thread, or about one.
TypedShared ==
    /\ variant \in {"wire", "fastapi"} /\ finite \in BOOLEAN /\ served \in 0..MaxRequests
    /\ events \in Seq(Events) /\ log \in Seq(Events)
    /\ lock \in Threads \cup {None}
    /\ IsABag(methods) /\ IsABag(errors)
    /\ \A name \in DOMAIN errors : Copies(name, errors) <= Copies(name, methods)

TypedFunctions ==
    /\ pc = [u \in Threads |-> pc[u]] /\ req = [u \in Threads |-> req[u]]
    /\ pos = [u \in Threads |-> pos[u]] /\ out = [u \in Threads |-> out[u]]
    /\ reply = [u \in Threads |-> reply[u]]

TypedThread(t) ==
    /\ pc[t] \in PcStates /\ req[t] \in Requests \cup {NoRequest}
    /\ pos[t] \in 1..(Len(req[t].items) + 1) /\ out[t] \in Seq(Answers)
    /\ reply[t] # None => reply[t].status \in {200, 400, 500} /\ reply[t].answers \in Seq(Answers)
    /\ (pc[t] = "count") = (lock = t)
    /\ Working(t)

TypedThreads == \A t \in Threads : TypedThread(t)

LEMMA TypedParts == Typed <=> TypedShared /\ TypedFunctions /\ TypedThreads
<1> USE DEF TypedThreads
<1>1. ASSUME NEW t \in Threads, req[t] \in Requests \cup {NoRequest}
      PROVE  Len(req[t].items) \in Nat
  <2>1. req[t].items \in Seq(Items)
    <3>1. CASE req[t] \in Requests
      BY <3>1, RequestAssumption
    <3>2. CASE req[t] = NoRequest
      <4>1. req[t].items = <<>>
        BY <3>2 DEF NoRequest
      <4> QED
        BY <4>1, EmptySeq
    <3> QED
      BY <1>1, <3>1, <3>2
  <2> QED
    BY <2>1, LenProperties
<1>2. Typed => TypedShared /\ TypedFunctions /\ TypedThreads
  BY DEF Typed, TypeOK, TypedShared, TypedFunctions, TypedThread
<1>3. ASSUME TypedShared, TypedFunctions, \A t \in Threads : TypedThread(t)
      PROVE  Typed
  <2>1. /\ pc \in [Threads -> PcStates] /\ req \in [Threads -> Requests \cup {NoRequest}]
        /\ out \in [Threads -> Seq(Answers)]
    BY <1>3 DEF TypedFunctions, TypedThread
  <2>2. pos \in [Threads -> Nat]
    <3>1. \A t \in Threads : pos[t] \in Nat
      BY <1>1, <1>3 DEF TypedThread
    <3> QED
      BY <1>3, <3>1 DEF TypedFunctions
  <2> QED
    BY <1>3, <2>1, <2>2 DEF Typed, TypeOK, TypedShared, TypedThread, TypedFunctions
<1> QED
  BY <1>2, <1>3

LEMMA ItemType ==
  ASSUME Typed, NEW t \in Threads, HasItem(t)
  PROVE  /\ req[t] \in Requests /\ Item(t) \in Items
         /\ pos[t] \in 1..Len(req[t].items) /\ Len(req[t].items) \in Nat
<1>1. req[t] \in Requests
  BY DEF Typed, Working, HasItem
<1>2. req[t].items \in Seq(Items)
  BY <1>1, RequestAssumption
<1>3. DOMAIN req[t].items = 1..Len(req[t].items) /\ Len(req[t].items) \in Nat
  BY <1>2, LenProperties
<1>4. pos[t] \in 1..Len(req[t].items)
  BY <1>3 DEF HasItem
<1> QED
  BY <1>1, <1>2, <1>3, <1>4, ElementOfSeq DEF Item

LEMMA TypedOthers ==
  ASSUME Typed, NEW t \in Threads, Acts(t), NEW u \in Threads, u # t, (lock' = u) = (lock = u)
  PROVE  TypedThread(u)'
<1>1. TypedThread(u)
  BY TypedParts DEF TypedThreads
<1>2. /\ pc'[u] = pc[u] /\ req'[u] = req[u] /\ pos'[u] = pos[u]
      /\ out'[u] = out[u] /\ reply'[u] = reply[u] /\ variant' = variant
  BY OthersUnchanged
<1>3. Working(u)'
  BY <1>1, <1>2 DEF TypedThread, Working, Refusal
<1> QED
  BY <1>1, <1>2, <1>3 DEF TypedThread

LEMMA TypedFunctionsNext ==
  ASSUME TypedFunctions, NEW t \in Threads, Acts(t)
  PROVE  TypedFunctions'
<1> USE DEF TypedFunctions
<1>1. CASE \E r \in Requests : Arrive(t, r)
  BY <1>1 DEF Arrive
<1>2. CASE Skip(t)
  BY <1>2 DEF Skip
<1>3. CASE Abort(t)
  <2>1. /\ pc' = [pc EXCEPT ![t] = "idle"] /\ reply' = [reply EXCEPT ![t] = Reply(500, <<>>, None)]
        /\ UNCHANGED <<req, pos, out>>
    BY <1>3 DEF Abort
  <2> QED
    BY <2>1
<1>4. CASE Call(t)
  BY <1>4 DEF Call
<1>5. CASE Record(t)
  BY <1>5 DEF Record
<1>6. CASE Count(t)
  BY <1>6 DEF Count
<1>7. CASE Summarize(t)
  BY <1>7 DEF Summarize
<1>8. CASE Respond(t)
  BY <1>8 DEF Respond
<1> QED
  BY <1>1, <1>2, <1>3, <1>4, <1>5, <1>6, <1>7, <1>8 DEF Acts, Step, WithLock

LEMMA TypedArrive ==
  ASSUME Typed, NEW t \in Threads, NEW r \in Requests, Arrive(t, r)
  PROVE  TypedShared' /\ \A u \in Threads : TypedThread(u)'
<1> USE DEF Arrive
<1>1. TypedShared /\ TypedFunctions /\ \A u \in Threads : TypedThread(u)
  BY TypedParts DEF TypedThreads
<1>2. TypedShared'
  <2>1. served' \in 0..MaxRequests
    BY <1>1, BoundAssumption DEF TypedShared
  <2> QED
    BY <1>1, <2>1 DEF TypedShared, Copies, trace
<1>3. lock' = lock
  BY DEF trace
<1>4. TypedThread(t)'
  <2>1. r.items \in Seq(Items) /\ (r.route = "debug" => r.items = <<>>)
    BY RequestAssumption
  <2>2. Len(r.items) \in Nat
    BY <2>1, LenProperties
  <2>3. /\ req'[t] = r /\ pos'[t] = 1 /\ out'[t] = <<>> /\ out'[t] \in Seq(Answers)
    <3>1. <<>> \in Seq(Answers)
      BY EmptySeq
    <3> QED
      BY <1>1, <3>1 DEF TypedFunctions
  <2>4. lock # t
    BY <1>1 DEF TypedThread
  <2>5. pc'[t] = IF Refusal(r) = None THEN "item" ELSE "idle"
    BY <1>1 DEF TypedFunctions
  <2>6. reply'[t] # None => reply'[t].status \in {200, 400, 500} /\ reply'[t].answers \in Seq(Answers)
    <3>1. CASE Refusal(r) = None
      BY <1>1, <3>1 DEF TypedThread
    <3>2. CASE Refusal(r) # None
      <4>1. reply'[t] = Reply(Refusal(r), <<>>, None)
        BY <1>1, <3>2 DEF TypedFunctions
      <4>2. Refusal(r) \in {200, 400, 500}
        BY <3>2 DEF Refusal
      <4> QED
        BY <4>1, <4>2, EmptySeq DEF Reply
    <3> QED
      BY <3>1, <3>2
  <2> QED
    <3>1. Working(t)'
      BY <1>3, <2>3, <2>4, <2>5 DEF Working, Refusal
    <3>2. pos'[t] \in 1..(Len(req'[t].items) + 1)
      BY <2>2, <2>3
    <3>3. pc'[t] \in PcStates /\ pc'[t] # "count"
      BY <2>5 DEF PcStates
    <3>4. r \in Requests \cup {NoRequest}
      OBVIOUS
    <3> QED
      BY <1>3, <2>3, <2>4, <2>6, <3>1, <3>2, <3>3, <3>4 DEF TypedThread
<1> QED
  BY <1>2, <1>3, <1>4, TypedOthers DEF Acts

LEMMA TypedSkipAbortCall ==
  ASSUME Typed, NEW t \in Threads, Skip(t) \/ Abort(t) \/ Call(t)
  PROVE  TypedShared' /\ \A u \in Threads : TypedThread(u)'
<1>1. TypedShared /\ TypedFunctions /\ \A u \in Threads : TypedThread(u)
  BY TypedParts DEF TypedThreads
<1>2. lock' = lock /\ UNCHANGED <<variant, finite, events, methods, errors, served, log>>
  BY DEF Skip, Abort, Call, trace
<1>3. TypedShared'
  BY <1>1, <1>2 DEF TypedShared, Copies
<1>4. /\ req[t] \in Requests /\ Item(t) \in Items
      /\ pos[t] \in 1..Len(req[t].items) /\ Len(req[t].items) \in Nat
      /\ pc[t] = "item" /\ req'[t] = req[t]
  BY <1>1, ItemType DEF Skip, Abort, Call, HasItem, TypedFunctions
<1>5. CASE Skip(t)
  <2>1. pos'[t] \in 1..(Len(req[t].items) + 1)
    BY <1>1, <1>4, <1>5 DEF Skip, TypedFunctions
  <2>2. pc'[t] = pc[t] /\ out'[t] = out[t] /\ reply'[t] = reply[t]
    BY <1>5 DEF Skip
  <2>3. Working(t)'
    BY <1>1, <1>2, <1>4, <2>2 DEF TypedThread, Working, Refusal
  <2>4. TypedThread(t)'
    BY <1>1, <1>2, <1>4, <2>1, <2>2, <2>3 DEF TypedThread
  <2> QED
    BY <1>2, <1>3, <1>5, <2>4, TypedOthers DEF Acts, Step
<1>6. CASE Abort(t)
  <2>1. reply'[t] = Reply(500, <<>>, None) /\ pc'[t] = "idle" /\ pos'[t] = pos[t] /\ out'[t] = out[t]
    BY <1>1, <1>6 DEF Abort, TypedFunctions
  <2>2. reply'[t].status \in {200, 400, 500} /\ reply'[t].answers \in Seq(Answers)
    BY <2>1, EmptySeq DEF Reply
  <2>3. TypedThread(t)'
    BY <1>1, <1>2, <1>4, <2>1, <2>2 DEF TypedThread, Working, PcStates
  <2> QED
    BY <1>2, <1>3, <1>6, <2>3, TypedOthers DEF Acts, Step
<1>7. CASE Call(t)
  <2>1. /\ pc'[t] = "record" /\ reply'[t] = reply[t] /\ pos'[t] = pos[t] + 1
        /\ out'[t] = Append(out[t], Answered(req[t], Item(t)))
    BY <1>1, <1>4, <1>7 DEF Call, TypedFunctions
  <2>2. pos'[t] \in 1..(Len(req[t].items) + 1)
    BY <1>4, <2>1
  <2>3. Answered(req[t], Item(t)) \in Answers /\ out[t] \in Seq(Answers)
    BY <1>1, <1>4, AnswerType DEF TypedThread
  <2>4. out'[t] \in Seq(Answers) /\ out'[t] # <<>>
    BY <2>1, <2>3, AppendProperties
  <2>5. req[t].route # "debug"
    <3>1. req[t].items # <<>>
      BY <1>4, EmptySeq
    <3> QED
      BY <1>4, <3>1, RequestAssumption
  <2>6. Working(t)'
    BY <1>1, <1>2, <1>4, <2>1, <2>4, <2>5 DEF TypedThread, Working, Refusal
  <2>7. TypedThread(t)'
    BY <1>1, <1>2, <1>4, <2>1, <2>2, <2>4, <2>6 DEF TypedThread, PcStates
  <2> QED
    BY <1>2, <1>3, <1>7, <2>7, TypedOthers DEF Acts, Step
<1> QED
  BY <1>5, <1>6, <1>7

LEMMA TypedRecord ==
  ASSUME Typed, NEW t \in Threads, Record(t)
  PROVE  TypedShared' /\ \A u \in Threads : TypedThread(u)'
<1> USE DEF Record
<1>1. TypedShared /\ TypedFunctions /\ \A u \in Threads : TypedThread(u)
  BY TypedParts DEF TypedThreads
<1>2. Event(t) \in Events
  BY EventType
<1>3. events' \in Seq(Events) /\ log' \in Seq(Events)
  <2>1. Append(events, Event(t)) \in Seq(Events) /\ Append(log, Event(t)) \in Seq(Events)
    BY <1>1, <1>2, AppendProperties DEF TypedShared
  <2> QED
    BY <2>1, LastOfProperties, RingAssumption
<1>4. TypedShared'
  BY <1>1, <1>3 DEF TypedShared, Copies
<1>5. /\ pc'[t] = "count" /\ pc[t] = "record" /\ out'[t] = out[t] /\ reply'[t] = reply[t]
      /\ req'[t] = req[t] /\ pos'[t] = pos[t] /\ variant' = variant
  BY <1>1 DEF TypedFunctions
<1>6. Working(t)'
  BY <1>1, <1>5 DEF TypedThread, Working, Refusal
<1>7. TypedThread(t)'
  BY <1>1, <1>5, <1>6 DEF TypedThread, PcStates
<1>8. ASSUME NEW u \in Threads, u # t
      PROVE  (lock' = u) = (lock = u)
  BY <1>8, NoneIsNoThread
<1> QED
  BY <1>4, <1>7, <1>8, TypedOthers DEF Acts, WithLock

LEMMA TypedCount ==
  ASSUME Typed, NEW t \in Threads, Count(t)
  PROVE  TypedShared' /\ \A u \in Threads : TypedThread(u)'
<1>1. TypedShared /\ TypedFunctions /\ \A u \in Threads : TypedThread(u)
  BY TypedParts DEF TypedThreads
<1>2. lock' = None /\ lock = t
  BY <1>1 DEF Count, LockAfter, TypedThread
<1>3. PICK name : name = Event(t).method
  OBVIOUS
<1>4. /\ methods' = methods (+) SetToBag({name})
      /\ errors' = (IF Event(t).ok THEN errors ELSE errors (+) SetToBag({name}))
  BY <1>3 DEF Count, CountedErrors
<1>5. /\ IsABag(methods') /\ IsABag(errors')
      /\ \A n \in DOMAIN errors' : Copies(n, errors') <= Copies(n, methods')
  <2>1. /\ IsABag(methods (+) SetToBag({name}))
        /\ \A n : Copies(n, methods (+) SetToBag({name})) = Copies(n, methods) + (IF n = name THEN 1 ELSE 0)
        /\ IsABag(errors (+) SetToBag({name}))
        /\ \A n : Copies(n, errors (+) SetToBag({name})) = Copies(n, errors) + (IF n = name THEN 1 ELSE 0)
    BY <1>1, CopiesAdded DEF TypedShared
  <2>2. \A n : Copies(n, errors) <= Copies(n, methods)
    <3>1. \A n : /\ Copies(n, errors) \in Nat /\ Copies(n, methods) \in Nat
                 /\ (Copies(n, errors) = 0 <=> n \notin DOMAIN errors)
      BY <1>1, CopiesType DEF TypedShared
    <3> QED
      BY <1>1, <3>1 DEF TypedShared
  <2>3. \A n : Copies(n, errors) \in Nat /\ Copies(n, methods) \in Nat
    BY <1>1, CopiesType DEF TypedShared
  <2>4. IsABag(methods') /\ IsABag(errors')
    BY <1>1, <1>4, <2>1 DEF TypedShared
  <2>5. ASSUME NEW n
        PROVE  Copies(n, errors') <= Copies(n, methods')
    <3>1. PICK more : more = (IF n = name THEN 1 ELSE 0)
      OBVIOUS
    <3>2. Copies(n, methods') = Copies(n, methods) + more
      BY <1>4, <2>1, <3>1
    <3>3. Copies(n, errors') = Copies(n, errors) \/ Copies(n, errors') = Copies(n, errors) + more
      BY <1>4, <2>1, <3>1
    <3> QED
      BY <2>2, <2>3, <3>1, <3>2, <3>3
  <2> QED
    BY <2>4, <2>5
<1>6. TypedShared'
  BY <1>1, <1>2, <1>5 DEF Count, TypedShared, Copies
<1>7. /\ pc'[t] = "item" /\ pc[t] = "count" /\ out'[t] = out[t] /\ reply'[t] = reply[t]
      /\ req'[t] = req[t] /\ pos'[t] = pos[t] /\ variant' = variant
  BY <1>1 DEF Count, TypedFunctions
<1>8. Working(t)'
  BY <1>1, <1>7 DEF TypedThread, Working, Refusal
<1>9. TypedThread(t)'
  BY <1>1, <1>2, <1>7, <1>8, NoneIsNoThread DEF TypedThread, PcStates
<1>10. ASSUME NEW u \in Threads, u # t
       PROVE  (lock' = u) = (lock = u)
  BY <1>2, <1>10, NoneIsNoThread
<1> QED
  BY <1>6, <1>9, <1>10, TypedOthers DEF Acts, Step

LEMMA TypedAnswer ==
  ASSUME Typed, NEW t \in Threads, Summarize(t) \/ Respond(t)
  PROVE  TypedShared' /\ \A u \in Threads : TypedThread(u)'
<1>1. TypedShared /\ TypedFunctions /\ \A u \in Threads : TypedThread(u)
  BY TypedParts DEF TypedThreads
<1>2. lock' = lock /\ UNCHANGED <<variant, finite, events, methods, errors, served, log>>
  BY DEF Summarize, Respond, trace
<1>3. TypedShared'
  BY <1>1, <1>2 DEF TypedShared, Copies
<1>4. /\ pc'[t] = "idle" /\ pc[t] = "item" /\ out'[t] = out[t]
      /\ req'[t] = req[t] /\ pos'[t] = pos[t]
  BY <1>1 DEF Summarize, Respond, TypedFunctions
<1>5. reply'[t].status \in {200, 400, 500} /\ reply'[t].answers \in Seq(Answers)
  <2>1. CASE Summarize(t)
    <3>1. reply'[t] = Reply(200, <<>>, Summary)
      BY <1>1, <2>1 DEF Summarize, TypedFunctions
    <3> QED
      BY <3>1, EmptySeq DEF Reply
  <2>2. CASE Respond(t)
    <3>1. reply'[t] = Reply(Status(t), IF Status(t) = 200 THEN out[t] ELSE <<>>, None)
      BY <1>1, <2>2 DEF Respond, TypedFunctions
    <3>2. Status(t) \in {200, 500}
      BY DEF Status
    <3>3. out[t] \in Seq(Answers) /\ <<>> \in Seq(Answers)
      BY <1>1, EmptySeq DEF TypedThread
    <3> QED
      BY <3>1, <3>2, <3>3 DEF Reply
  <2> QED
    BY <2>1, <2>2
<1>6. Working(t)'
  BY <1>1, <1>4 DEF TypedThread, Working
<1>7. TypedThread(t)'
  BY <1>1, <1>2, <1>4, <1>5, <1>6 DEF TypedThread, PcStates
<1> QED
  BY <1>2, <1>3, <1>7, TypedOthers DEF Acts, Step, WithLock

\* What can happen, as the proofs take it apart.
LEMMA NextCases ==
  ASSUME [Next]_vars
  PROVE  \/ \E t \in Threads : Acts(t)
         \/ /\ UNCHANGED <<variant, events, methods, errors, lock, pc, req, pos, out, reply,
                           served, log>>
            /\ finite' \in BOOLEAN \/ finite' = finite
  BY DEF Next, vars, trace, threads, Update, Acts

LEMMA TypedNext == Typed /\ [Next]_vars => Typed'
<1> SUFFICES ASSUME Typed, [Next]_vars
             PROVE  Typed'
  OBVIOUS
<1>1. TypedShared /\ TypedFunctions /\ \A u \in Threads : TypedThread(u)
  BY TypedParts DEF TypedThreads
<1>2. ASSUME NEW t \in Threads, Acts(t)
      PROVE  Typed'
  <2>1. TypedFunctions'
    BY <1>1, <1>2, TypedFunctionsNext
  <2>2. TypedShared' /\ \A u \in Threads : TypedThread(u)'
    BY <1>2, TypedArrive, TypedSkipAbortCall, TypedRecord, TypedCount, TypedAnswer
       DEF Acts, Step, WithLock
  <2>3. TypedThreads'
    BY <2>2 DEF TypedThreads
  <2> QED
    BY <2>1, <2>2, <2>3, TypedParts, PTL
<1>3. CASE /\ UNCHANGED <<variant, events, methods, errors, lock, pc, req, pos, out, reply,
                           served, log>>
           /\ finite' \in BOOLEAN \/ finite' = finite
  <2>1. TypedShared' /\ TypedFunctions'
    BY <1>1, <1>3 DEF TypedShared, TypedFunctions, Copies
  <2>2. ASSUME NEW t \in Threads
        PROVE  TypedThread(t)'
    BY <1>1, <1>3 DEF TypedThread, Working, Refusal
  <2>3. TypedThreads'
    BY <2>2 DEF TypedThreads
  <2> QED
    BY <2>1, <2>3, TypedParts, PTL
<1> QED
  BY <1>2, <1>3, NextCases

\* The inductive form of TypeOK, which also says which answers a thread can have at
\* hand when it writes the trace (rpc.py:45-81).
THEOREM TypedAlways == Spec => []Typed
<1>1. Init => Typed
  BY TypedInit
<1>2. Typed /\ [Next]_vars => Typed'
  BY TypedNext
<1> QED
  BY <1>1, <1>2, PTL DEF Spec

\* Every variable has its type, whatever is asked by however many threads: the thread
\* between the two parts of record() has the lock, and no method has failed more often
\* than it was called (trace.py:30-45).
THEOREM TypeCorrect == Spec => []TypeOK
<1>1. Typed => TypeOK
  BY DEF Typed
<1> QED
  BY <1>1, TypedAlways, PTL

-------------------------------------------------------------------------------
(* The trace.  The events are always the last of all that were recorded, and the *)
(* counters those of all of them but the one whose thread holds the lock.        *)

LEMMA NoCopies == AllCopies(EmptyBag) = {} /\ \A name : Copies(name, EmptyBag) = 0
<1>1. DOMAIN EmptyBag = {}
  BY DEF EmptyBag, SetToBag
<1> QED
  BY <1>1 DEF AllCopies, Copies

LEMMA WholePrefix ==
  ASSUME NEW S, NEW s \in Seq(S)
  PROVE  SubSeq(s, 1, Len(s)) = s
<1>1. Len(s) \in Nat /\ \A i \in 1..Len(s) : s[i] \in S
  BY LenProperties, ElementOfSeq
<1>2. /\ SubSeq(s, 1, Len(s)) \in Seq(S)
      /\ Len(SubSeq(s, 1, Len(s))) = (IF 1 <= Len(s) THEN Len(s) - 1 + 1 ELSE 0)
      /\ \A i \in 1..(Len(s) - 1 + 1) : SubSeq(s, 1, Len(s))[i] = s[1 + i - 1]
  BY <1>1, SubSeqProperties
<1>3. \A i \in 1..Len(s) : 1 + i - 1 = i
  OBVIOUS
<1>4. /\ Len(SubSeq(s, 1, Len(s))) = Len(s)
      /\ \A i \in 1..Len(s) : SubSeq(s, 1, Len(s))[i] = s[i]
  BY <1>1, <1>2, <1>3
<1> QED
  BY <1>2, <1>4, SeqEqual

\* A sequence is its beginning and its last element.
LEMMA BeforeLast ==
  ASSUME NEW S, NEW s \in Seq(S), s # <<>>
  PROVE  /\ SubSeq(s, 1, Len(s) - 1) \in Seq(S) /\ s[Len(s)] \in S
         /\ Len(SubSeq(s, 1, Len(s) - 1)) = Len(s) - 1
         /\ s = Append(SubSeq(s, 1, Len(s) - 1), s[Len(s)])
<1> DEFINE b == SubSeq(s, 1, Len(s) - 1)
<1>1. Len(s) \in Nat \ {0} /\ \A i \in 1..Len(s) : s[i] \in S
  BY EmptySeq, LenProperties, ElementOfSeq
<1>2. \A i \in 1..(Len(s) - 1) : s[i] \in S
  BY <1>1
<1>3. /\ b \in Seq(S)
      /\ Len(b) = (IF 1 <= Len(s) - 1 THEN Len(s) - 1 - 1 + 1 ELSE 0)
      /\ \A i \in 1..(Len(s) - 1 - 1 + 1) : b[i] = s[1 + i - 1]
  BY <1>1, <1>2, SubSeqProperties
<1>4. Len(b) = Len(s) - 1 /\ \A i \in 1..Len(b) : b[i] = s[i]
  <2>1. Len(s) - 1 - 1 + 1 = Len(s) - 1 /\ \A i \in 1..(Len(s) - 1) : 1 + i - 1 = i
    BY <1>1
  <2>2. Len(b) = Len(s) - 1
    <3>1. PICK k \in Nat : k = Len(s) - 1
      BY <1>1
    <3>2. Len(b) = IF 1 <= k THEN k - 1 + 1 ELSE 0
      BY <1>3, <3>1
    <3>3. Len(b) = k
      BY <3>2
    <3> QED
      BY <3>1, <3>3
  <2> QED
    BY <1>3, <2>1, <2>2
<1> HIDE DEF b
<1>5. /\ Append(b, s[Len(s)]) \in Seq(S) /\ Len(Append(b, s[Len(s)])) = Len(b) + 1
      /\ \A i \in 1..Len(b) : Append(b, s[Len(s)])[i] = b[i]
      /\ Append(b, s[Len(s)])[Len(b) + 1] = s[Len(s)]
  BY <1>1, <1>3, AppendProperties
<1>6. /\ Len(Append(b, s[Len(s)])) = Len(s)
      /\ \A i \in 1..Len(s) : Append(b, s[Len(s)])[i] = s[i]
  BY <1>1, <1>4, <1>5
<1>7. Append(b, s[Len(s)]) = s
  BY <1>5, <1>6, SeqEqual
<1> QED
  BY <1>1, <1>3, <1>4, <1>7 DEF b

\* One more event adds to the calls of its method, and to its failures if it is one.
LEMMA CallsAdded ==
  ASSUME NEW s \in Seq(Events), NEW e \in Events, NEW name,
         IsFiniteSet(Calls(s, name)), IsFiniteSet(Failures(s, name))
  PROVE  /\ IsFiniteSet(Calls(Append(s, e), name)) /\ IsFiniteSet(Failures(Append(s, e), name))
         /\ Cardinality(Calls(Append(s, e), name))
              = Cardinality(Calls(s, name)) + (IF e.method = name THEN 1 ELSE 0)
         /\ Cardinality(Failures(Append(s, e), name))
              = Cardinality(Failures(s, name)) + (IF e.method = name /\ ~e.ok THEN 1 ELSE 0)
<1> DEFINE u == Append(s, e)
<1>1. /\ Len(u) = Len(s) + 1 /\ Len(s) \in Nat
      /\ \A i \in 1..Len(s) : u[i] = s[i]
      /\ u[Len(s) + 1] = e
      /\ DOMAIN s = 1..Len(s) /\ DOMAIN u = 1..Len(u)
  BY AppendProperties, LenProperties
<1> HIDE DEF u
<1>2. DOMAIN u = DOMAIN s \cup {Len(s) + 1} /\ Len(s) + 1 \notin DOMAIN s
  BY <1>1
<1>3. Calls(u, name) = Calls(s, name) \cup (IF e.method = name THEN {Len(s) + 1} ELSE {})
  BY <1>1, <1>2 DEF Calls
<1>4. Failures(u, name)
        = Failures(s, name) \cup (IF e.method = name /\ ~e.ok THEN {Len(s) + 1} ELSE {})
  <2>1. \A i \in DOMAIN s : i \in Failures(u, name) <=> i \in Failures(s, name)
    BY <1>1, <1>2 DEF Calls, Failures
  <2>2. Len(s) + 1 \in Failures(u, name) <=> e.method = name /\ ~e.ok
    BY <1>1, <1>2 DEF Calls, Failures
  <2>3. Failures(u, name) \subseteq DOMAIN u /\ Failures(s, name) \subseteq DOMAIN s
    BY DEF Calls, Failures
  <2> QED
    BY <1>2, <2>1, <2>2, <2>3
<1>5. Len(s) + 1 \notin Calls(s, name) /\ Len(s) + 1 \notin Failures(s, name)
  BY <1>2 DEF Calls, Failures
<1>6. /\ IsFiniteSet(Calls(s, name) \cup {Len(s) + 1})
      /\ Cardinality(Calls(s, name) \cup {Len(s) + 1}) = Cardinality(Calls(s, name)) + 1
      /\ Cardinality(Calls(s, name)) \in Nat
      /\ IsFiniteSet(Failures(s, name) \cup {Len(s) + 1})
      /\ Cardinality(Failures(s, name) \cup {Len(s) + 1}) = Cardinality(Failures(s, name)) + 1
      /\ Cardinality(Failures(s, name)) \in Nat
  BY <1>5, FS_AddElement, FS_CardinalityType
<1>7. IsFiniteSet(Calls(u, name))
      /\ Cardinality(Calls(u, name)) = Cardinality(Calls(s, name)) + (IF e.method = name THEN 1 ELSE 0)
  <2>1. CASE e.method = name
    BY <1>3, <1>6, <2>1
  <2>2. CASE e.method # name
    <3>1. Calls(u, name) = Calls(s, name)
      BY <1>3, <2>2
    <3> QED
      BY <1>6, <2>2, <3>1
  <2> QED
    BY <2>1, <2>2
<1>8. IsFiniteSet(Failures(u, name))
      /\ Cardinality(Failures(u, name))
           = Cardinality(Failures(s, name)) + (IF e.method = name /\ ~e.ok THEN 1 ELSE 0)
  <2>1. CASE e.method = name /\ ~e.ok
    BY <1>4, <1>6, <2>1
  <2>2. CASE ~(e.method = name /\ ~e.ok)
    <3>1. Failures(u, name) = Failures(s, name)
      BY <1>4, <2>2
    <3> QED
      BY <1>6, <2>2, <3>1
  <2> QED
    BY <2>1, <2>2
<1> QED
  BY <1>7, <1>8 DEF u

LEMMA CallsFinite ==
  ASSUME NEW s \in Seq(Events), NEW name
  PROVE  IsFiniteSet(Calls(s, name)) /\ IsFiniteSet(Failures(s, name))
<1>1. IsFiniteSet(1..Len(s)) /\ DOMAIN s = 1..Len(s)
  BY LenProperties, FS_Interval
<1>2. Calls(s, name) \subseteq 1..Len(s) /\ Failures(s, name) \subseteq 1..Len(s)
  BY <1>1 DEF Calls, Failures
<1> QED
  BY <1>1, <1>2, FS_Subset

\* What holds of every name that is counted holds of every name.
LEMMA CountsAreAll ==
  ASSUME NEW calls, NEW failures, NEW s \in Seq(Events)
  PROVE  CountsAre(calls, failures, s)
           <=> \A name : /\ Copies(name, calls) = Cardinality(Calls(s, name))
                         /\ Copies(name, failures) = Cardinality(Failures(s, name))
<1> DEFINE names == DOMAIN calls \cup DOMAIN failures \cup {s[i].method : i \in DOMAIN s}
<1>1. ASSUME NEW name, name \notin names
      PROVE  /\ Copies(name, calls) = Cardinality(Calls(s, name))
             /\ Copies(name, failures) = Cardinality(Failures(s, name))
  <2>1. Calls(s, name) = {} /\ Failures(s, name) = {}
    BY <1>1 DEF Calls, Failures
  <2>2. Copies(name, calls) = 0 /\ Copies(name, failures) = 0
    BY <1>1 DEF Copies
  <2> QED
    BY <2>1, <2>2, FS_EmptySet
<1> QED
  BY <1>1 DEF CountsAre

Counted == IF lock = None THEN Len(log) ELSE Len(log) - 1

\* A summary is of one instant: the one at which so many calls had been recorded.
Instant(s) ==
    /\ s.total_calls \in 0..Len(log)
    /\ s.recent = LastOf(SubSeq(log, 1, s.total_calls), Recent)
    /\ CountsAre(s.methods, s.errors, SubSeq(log, 1, s.total_calls))

Shown(t) == reply[t] # None /\ reply[t].summary # None => Instant(reply[t].summary)

TraceInv ==
    /\ events = LastOf(log, RingSize)
    /\ Counted \in 0..Len(log)
    /\ CountsAre(methods, errors, SubSeq(log, 1, Counted))
    /\ IsFiniteSet(AllCopies(methods)) /\ Total(methods) = Counted
    /\ lock # None => log # <<>> /\ log[Len(log)] = Event(lock)
    /\ \A t \in Threads : Shown(t)

LEMMA TraceInvInit == Init => TraceInv
<1> SUFFICES ASSUME Init
             PROVE  TraceInv
  OBVIOUS
<1>1. /\ events = <<>> /\ log = <<>> /\ Len(log) = 0 /\ Counted = 0
      /\ lock = None /\ methods = EmptyBag /\ errors = EmptyBag
  BY EmptySeq DEF Init, Counted
<1>2. events = LastOf(log, RingSize)
  BY <1>1, RingAssumption DEF LastOf
<1>3. <<>> \in Seq(Events)
  BY EmptySeq
<1>4. SubSeq(log, 1, Counted) = <<>>
  BY <1>1, <1>3, WholePrefix
<1>5. CountsAre(methods, errors, SubSeq(log, 1, Counted))
  <2>1. \A name : Calls(<<>>, name) = {} /\ Failures(<<>>, name) = {}
    BY DEF Calls, Failures
  <2>2. \A name : /\ Copies(name, EmptyBag) = Cardinality(Calls(<<>>, name))
                  /\ Copies(name, EmptyBag) = Cardinality(Failures(<<>>, name))
    BY <2>1, NoCopies, FS_EmptySet
  <2>3. CountsAre(EmptyBag, EmptyBag, <<>>)
    BY ZenonT(30), <1>3, <2>2, CountsAreAll
  <2> QED
    BY <1>1, <1>4, <2>3
<1>6. IsFiniteSet(AllCopies(methods)) /\ Total(methods) = 0
  BY <1>1, NoCopies, FS_EmptySet DEF Total
<1>7. \A t \in Threads : reply[t] = None
  BY DEF Init
<1> QED
  BY <1>1, <1>2, <1>5, <1>6, <1>7 DEF TraceInv, Shown

\* What was shown stays what it was when more is recorded.
LEMMA InstantKept ==
  ASSUME Typed, NEW s, Instant(s), log' = log \/ (\E e \in Events : log' = Append(log, e))
  PROVE  Instant(s)'
<1>1. CASE log' = log
  BY <1>1 DEF Instant
<1>2. CASE \E e \in Events : log' = Append(log, e)
  <2>1. PICK e \in Events : log' = Append(log, e)
    BY <1>2
  <2>2. log \in Seq(Events)
    BY DEF Typed, TypeOK
  <2>3. Len(log') = Len(log) + 1 /\ Len(log) \in Nat
    BY <2>1, <2>2, AppendProperties, LenProperties
  <2>4. s.total_calls \in 0..Len(log) /\ s.total_calls \in 0..Len(log')
    BY <2>3 DEF Instant
  <2>5. SubSeq(log', 1, s.total_calls) = SubSeq(log, 1, s.total_calls)
    BY <2>1, <2>2, <2>4, PrefixKept
  <2> QED
    BY <2>4, <2>5 DEF Instant
<1> QED
  BY <1>1, <1>2

\* A reply without a summary is nothing to show, and a summary is kept with its reply.
LEMMA ShownNext ==
  ASSUME Typed, TraceInv, NEW t \in Threads,
         log' = log \/ (\E e \in Events : log' = Append(log, e)),
         reply'[t] = reply[t] \/ reply'[t].summary = None
  PROVE  Shown(t)'
<1>1. CASE reply'[t].summary = None
  BY <1>1 DEF Shown
<1>2. CASE reply'[t] = reply[t] /\ reply[t] # None /\ reply[t].summary # None
  <2>1. PICK s : s = reply[t].summary
    OBVIOUS
  <2>2. Instant(s)
    BY <1>2, <2>1 DEF TraceInv, Shown
  <2>3. Instant(s)'
    BY <2>2, InstantKept
  <2> QED
    BY <1>2, <2>1, <2>3 DEF Shown, Instant
<1> QED
  BY <1>1, <1>2 DEF Shown

\* A step that records and counts nothing.
LEMMA TraceInvKept ==
  ASSUME Typed, TraceInv, UNCHANGED <<events, methods, errors, lock, log>>,
         lock # None => out'[lock] = out[lock],
         \A t \in Threads : Shown(t)'
  PROVE  TraceInv'
<1>1. Counted' = Counted
  BY DEF Counted
<1>2. lock # None => Event(lock)' = Event(lock)
  BY DEF Event, Told
<1> QED
  BY <1>1, <1>2 DEF TraceInv, CountsAre, AllCopies, Total, Copies

LEMMA TraceInvQuiet ==
  ASSUME Typed, TraceInv, NEW t \in Threads,
         Skip(t) \/ Abort(t) \/ Call(t) \/ Respond(t) \/ \E r \in Requests : Arrive(t, r)
  PROVE  TraceInv'
<1>1. TypedFunctions /\ TypedThread(t)
  BY TypedParts DEF TypedThreads
<1>2. UNCHANGED <<events, methods, errors, lock, log>> /\ pc[t] # "count"
  BY DEF Skip, Abort, Call, Respond, Arrive, HasItem, trace
<1>3. lock # None => out'[lock] = out[lock]
  <2>1. lock # t /\ (lock # None => lock \in Threads)
    BY <1>1, <1>2 DEF TypedThread, Typed, TypeOK
  <2> QED
    BY <2>1, OthersUnchanged DEF Acts, Step
<1>4. ASSUME NEW u \in Threads
      PROVE  reply'[u] = reply[u] \/ reply'[u].summary = None
  <2>1. CASE u # t
    BY <2>1, OthersUnchanged DEF Acts, Step
  <2>2. CASE u = t
    BY <1>1, <2>2 DEF TypedFunctions, Skip, Abort, Call, Respond, Arrive, Reply
  <2> QED
    BY <2>1, <2>2
<1> QED
  BY <1>2, <1>3, <1>4, ShownNext, TraceInvKept

LEMMA TraceInvSummarize ==
  ASSUME Typed, TraceInv, NEW t \in Threads, Summarize(t)
  PROVE  TraceInv'
<1>1. TypedFunctions /\ TypedShared /\ TypedThread(t)
  BY TypedParts DEF TypedThreads
<1>2. UNCHANGED <<events, methods, errors, lock, log>> /\ lock = None
  BY DEF Summarize, trace, MayRead
<1>3. Instant(Summary)
  <2>1. log \in Seq(Events) /\ Len(log) \in Nat
    BY <1>1, LenProperties DEF TypedShared
  <2>2. Counted = Len(log) /\ SubSeq(log, 1, Len(log)) = log
    BY <1>2, <2>1, WholePrefix DEF Counted
  <2>3. LastOf(events, Recent) = LastOf(log, Recent)
    <3>1. RingSize \in Nat /\ Recent \in 0..RingSize
      BY RingAssumption
    <3> QED
      BY <2>1, <3>1, LastOfLastOf DEF TraceInv
  <2> QED
    BY <2>1, <2>2, <2>3 DEF TraceInv, Instant, Summary
<1>4. ASSUME NEW u \in Threads
      PROVE  Shown(u)'
  <2>1. CASE u # t
    <3>1. reply'[u] = reply[u]
      BY <2>1, OthersUnchanged DEF Acts, WithLock
    <3> QED
      BY <1>2, <3>1, ShownNext
  <2>2. CASE u = t
    <3>1. reply'[t].summary = Summary
      BY <1>1 DEF TypedFunctions, Summarize, Reply
    <3>2. PICK s : s = Summary
      OBVIOUS
    <3>3. Instant(s)'
      BY <1>2, <1>3, <3>2 DEF Instant
    <3> QED
      BY <2>2, <3>1, <3>2, <3>3 DEF Shown, Instant
  <2> QED
    BY <2>1, <2>2
<1> QED
  BY <1>2, <1>4, TraceInvKept

LEMMA TraceInvRecord ==
  ASSUME Typed, TraceInv, NEW t \in Threads, Record(t)
  PROVE  TraceInv'
<1> USE DEF Record
<1>1. TypedFunctions /\ TypedShared /\ TypedThread(t) /\ Event(t) \in Events
  BY TypedParts, EventType DEF TypedThreads
<1>2. PICK e \in Events : e = Event(t)
  BY <1>1
<1>3. /\ log' = Append(log, e) /\ log \in Seq(Events) /\ Len(log) \in Nat
      /\ log' \in Seq(Events) /\ Len(log') = Len(log) + 1 /\ log'[Len(log')] = e
  BY <1>1, <1>2, AppendProperties, LenProperties DEF TypedShared
<1>4. Counted = Len(log) /\ Counted' = Len(log)
  BY <1>1, <1>3, NoneIsNoThread DEF Counted
<1>5. SubSeq(log', 1, Len(log)) = SubSeq(log, 1, Len(log))
  BY <1>3, PrefixKept
<1>6. events' = LastOf(log', RingSize)
  BY <1>2, <1>3, LastOfAppend, RingAssumption DEF TraceInv
<1>7. CountsAre(methods', errors', SubSeq(log', 1, Counted'))
  BY <1>4, <1>5 DEF TraceInv
<1>8. log' # <<>>
  BY <1>3, EmptySeq
<1>9. Event(lock)' = e
  BY <1>2 DEF Event, Told
<1>10. \A u \in Threads : Shown(u)'
  BY <1>3, ShownNext
<1>11. IsFiniteSet(AllCopies(methods')) /\ Total(methods') = Counted' /\ Counted' \in 0..Len(log')
  BY <1>3, <1>4 DEF TraceInv
<1> QED
  BY <1>3, <1>6, <1>7, <1>8, <1>9, <1>10, <1>11 DEF TraceInv

LEMMA TraceInvCount ==
  ASSUME Typed, TraceInv, NEW t \in Threads, Count(t)
  PROVE  TraceInv'
<1>1. TypedFunctions /\ TypedShared /\ TypedThread(t) /\ pc[t] = "count"
  BY TypedParts DEF TypedThreads, Count
<1>2. lock = t /\ lock' = None /\ lock # None
  BY <1>1, NoneIsNoThread DEF TypedThread, Count, LockAfter
<1>3. PICK e \in Events : e = Event(t)
  BY <1>1, EventType
<1>4. PICK b : b = SubSeq(log, 1, Len(log) - 1)
  OBVIOUS
<1>5. /\ b \in Seq(Events) /\ log = Append(b, e) /\ Len(b) = Len(log) - 1
      /\ log \in Seq(Events) /\ Len(log) \in Nat
  BY <1>1, <1>2, <1>3, <1>4, BeforeLast, LenProperties DEF TraceInv, TypedShared
<1>6. /\ log' = log /\ Counted = Len(b) /\ Counted' = Len(log)
      /\ SubSeq(log, 1, Counted) = b /\ SubSeq(log', 1, Counted') = log
  BY <1>2, <1>4, <1>5, WholePrefix DEF Counted, Count
<1>7. PICK name : name = e.method
  OBVIOUS
<1>8. /\ methods' = methods (+) SetToBag({name})
      /\ errors' = (IF e.ok THEN errors ELSE errors (+) SetToBag({name}))
  BY <1>3, <1>7 DEF Count, CountedErrors
<1>9. CountsAre(methods', errors', log)
  <2> SUFFICES ASSUME NEW n
               PROVE  /\ Copies(n, methods') = Cardinality(Calls(log, n))
                      /\ Copies(n, errors') = Cardinality(Failures(log, n))
    BY <1>5, CountsAreAll
  <2>1. /\ Copies(n, methods) = Cardinality(Calls(b, n))
        /\ Copies(n, errors) = Cardinality(Failures(b, n))
    <3>1. CountsAre(methods, errors, b)
      BY <1>6 DEF TraceInv
    <3> QED
      BY <1>5, <3>1, CountsAreAll
  <2>2. /\ Cardinality(Calls(log, n))
              = Cardinality(Calls(b, n)) + (IF name = n THEN 1 ELSE 0)
        /\ Cardinality(Failures(log, n))
              = Cardinality(Failures(b, n)) + (IF name = n /\ ~e.ok THEN 1 ELSE 0)
    BY <1>5, <1>7, CallsFinite, CallsAdded
  <2>3. /\ Copies(n, methods (+) SetToBag({name})) = Copies(n, methods) + (IF n = name THEN 1 ELSE 0)
        /\ Copies(n, errors (+) SetToBag({name})) = Copies(n, errors) + (IF n = name THEN 1 ELSE 0)
        /\ Copies(n, errors) \in Nat
    BY <1>1, CopiesAdded, CopiesType DEF TypedShared
  <2>4. Copies(n, methods') = Cardinality(Calls(log, n))
    BY <1>8, <2>1, <2>2, <2>3
  <2>5. CASE e.ok
    BY <1>8, <2>1, <2>2, <2>3, <2>4, <2>5
  <2>6. CASE ~e.ok
    BY <1>8, <2>1, <2>2, <2>3, <2>4, <2>6
  <2> QED
    BY <2>5, <2>6
<1>10. IsFiniteSet(AllCopies(methods')) /\ Total(methods') = Len(log)
  <2>1. /\ IsFiniteSet(AllCopies(methods (+) SetToBag({name})))
        /\ Total(methods (+) SetToBag({name})) = Total(methods) + 1
    BY <1>1, TotalAdded DEF TraceInv, TypedShared
  <2> QED
    BY <1>5, <1>6, <1>8, <2>1 DEF TraceInv
<1>11. \A u \in Threads : Shown(u)'
  BY <1>6, ShownNext DEF Count
<1>12. events' = LastOf(log', RingSize)
  BY <1>6 DEF TraceInv, Count
<1>13. Counted' \in 0..Len(log')
  BY <1>5, <1>6
<1> QED
  BY <1>2, <1>6, <1>9, <1>10, <1>11, <1>12, <1>13 DEF TraceInv

LEMMA TraceInvNext == Typed /\ TraceInv /\ [Next]_vars => TraceInv'
<1> SUFFICES ASSUME Typed, TraceInv, [Next]_vars
             PROVE  TraceInv'
  OBVIOUS
<1>1. ASSUME NEW t \in Threads, Acts(t)
      PROVE  TraceInv'
  BY <1>1, TraceInvQuiet, TraceInvSummarize, TraceInvRecord, TraceInvCount DEF Acts, Step, WithLock
<1>2. CASE UNCHANGED <<variant, events, methods, errors, lock, pc, req, pos, out, reply,
                       served, log>>
  <2>1. \A u \in Threads : Shown(u)'
    BY <1>2, ShownNext
  <2> QED
    BY <1>2, <2>1, TraceInvKept
<1> QED
  BY <1>1, <1>2, NextCases

\* The trace and every summary that /debug has shown are of one instant, with a ring
\* of any size and any number of threads that record beside the reader: the counters
\* count exactly the calls up to it, and the events are its last ones (trace.py:30-56).
THEOREM OneInstant == Spec => []TraceIsOneInstant
<1>1. Init => TraceInv
  BY TraceInvInit
<1>2. Typed /\ TraceInv /\ [Next]_vars => TraceInv'
  BY TraceInvNext
<1>3. Typed /\ TraceInv => TraceIsOneInstant
  <2> SUFFICES ASSUME Typed, TraceInv
               PROVE  TraceIsOneInstant
    OBVIOUS
  <2>1. lock = None => events = LastOf(log, RingSize) /\ CountsAre(methods, errors, log)
    <3>1. log \in Seq(Events)
      BY DEF Typed, TypeOK
    <3> QED
      BY <3>1, WholePrefix DEF TraceInv, Counted
  <2> QED
    BY <2>1 DEF TraceInv, Shown, Instant, TraceIsOneInstant, Done
<1> QED
  BY <1>1, <1>2, <1>3, TypedAlways, PTL DEF Spec

-------------------------------------------------------------------------------
(* Enumerations, which grow at their end. *)

EnumerationWith(f, k, n) == [i \in 1..(k + 1) |-> IF i = k + 1 THEN n ELSE f[i]]

LEMMA EnumerationAdded ==
  ASSUME NEW S, \A m \in S : m \in Nat, NEW k \in Nat, NEW f \in [1..k -> S], InOrder(f, S),
         NEW n \in Nat, \A m \in S : m < n
  PROVE  /\ EnumerationWith(f, k, n) \in [1..(k + 1) -> S \cup {n}]
         /\ InOrder(EnumerationWith(f, k, n), S \cup {n})
         /\ EnumerationWith(f, k, n)[k + 1] = n
         /\ \A i \in 1..k : EnumerationWith(f, k, n)[i] = f[i]
<1> DEFINE g == EnumerationWith(f, k, n)
<1>1. /\ DOMAIN g = 1..(k + 1) /\ g = [i \in 1..(k + 1) |-> g[i]]
      /\ g[k + 1] = n /\ \A i \in 1..k : g[i] = f[i]
  BY DEF EnumerationWith
<1> HIDE DEF g
<1>2. \A i \in 1..k : i \in 1..(k + 1) /\ i # k + 1 /\ f[i] \in S
  OBVIOUS
<1>3. \A i \in 1..(k + 1) : i \in 1..k \/ i = k + 1
  OBVIOUS
<1>4. g \in [1..(k + 1) -> S \cup {n}]
  BY <1>1, <1>2, <1>3
<1>5. \A m \in S \cup {n} : \E i \in DOMAIN g : g[i] = m
  <2>1. \A m \in S : \E i \in 1..k : f[i] = m
    BY DEF InOrder
  <2>2. k + 1 \in DOMAIN g
    BY <1>1
  <2> QED
    BY <1>1, <1>2, <2>1, <2>2
<1>6. \A i, j \in DOMAIN g : i < j => g[i] < g[j]
  <2> SUFFICES ASSUME NEW i \in 1..(k + 1), NEW j \in 1..(k + 1), i < j
               PROVE  g[i] < g[j]
    BY <1>1
  <2>1. i \in 1..k
    OBVIOUS
  <2>2. CASE j \in 1..k
    BY <1>1, <2>1, <2>2 DEF InOrder
  <2>3. CASE j = k + 1
    BY <1>1, <2>1, <2>3
  <2> QED
    BY <1>3, <2>2, <2>3
<1> QED
  BY <1>1, <1>4, <1>5, <1>6 DEF InOrder, g

-------------------------------------------------------------------------------
(* What is told and what is traced.  From some event on, a thread's events are *)
(* those of the answers it has, without the one it has not recorded yet.       *)

Own(t, first) == {n \in first..Len(log) : log[n].by = t}
EventOf(t, answer) == [by |-> t, method |-> answer.name, ok |-> answer.kind = "result"]
Recorded(t) == IF pc[t] = "record" THEN Len(out[t]) - 1 ELSE Len(out[t])

TracedFrom(t, first, at) ==
    /\ InOrder(at, Own(t, first))
    /\ \A i \in 1..Recorded(t) : log[at[i]] = EventOf(t, out[t][i])

Traced(t) ==
    /\ \E first \in 1..(Len(log) + 1) : \E at \in [1..Recorded(t) -> Own(t, first)] :
            TracedFrom(t, first, at)
    /\ Ok(t) => reply[t].answers = out[t]

TracedInv == \A t \in Threads : Traced(t)

\* Nothing has been answered.
Nothing(t) ==
    /\ log \in Seq(Events) /\ out[t] = <<>> /\ pc[t] # "record"
    /\ Ok(t) => reply[t].answers = out[t]

LEMMA TracedNothing ==
  ASSUME NEW t \in Threads
  PROVE  (Nothing(t) => Traced(t)) /\ (Nothing(t)' => Traced(t)')
<1>1. Nothing(t) => Traced(t)
  <2> SUFFICES ASSUME Nothing(t)
               PROVE  Traced(t)
    OBVIOUS
  <2> USE DEF Nothing
  <2> DEFINE none == [i \in {} |-> 1]
  <2>1. Recorded(t) = 0 /\ Len(log) \in Nat
    BY EmptySeq, LenProperties DEF Recorded
  <2>2. Own(t, Len(log) + 1) = {}
    BY <2>1 DEF Own
  <2>3. 1..Recorded(t) = {} /\ Len(log) + 1 \in 1..(Len(log) + 1)
    BY <2>1
  <2>4. none \in [1..Recorded(t) -> Own(t, Len(log) + 1)] /\ InOrder(none, Own(t, Len(log) + 1))
    BY <2>2, <2>3 DEF InOrder
  <2>5. TracedFrom(t, Len(log) + 1, none)
    BY <2>3, <2>4 DEF TracedFrom
  <2> QED
    BY <2>3, <2>4, <2>5 DEF Traced
<1> QED
  BY <1>1, PTL

\* A step of which the thread's answers and their events know nothing.
LEMMA TracedKept ==
  ASSUME Typed, NEW t \in Threads, Traced(t), out'[t] = out[t],
         (pc'[t] = "record") = (pc[t] = "record"),
         Ok(t)' => reply'[t].answers = out[t],
         log' = log \/ (\E e \in Events : e.by # t /\ log' = Append(log, e))
  PROVE  Traced(t)'
<1>1. log \in Seq(Events) /\ Len(log) \in Nat
  BY LenProperties DEF Typed, TypeOK
<1>2. PICK first \in 1..(Len(log) + 1) : \E at \in [1..Recorded(t) -> Own(t, first)] :
            TracedFrom(t, first, at)
  BY DEF Traced
<1>3. PICK at \in [1..Recorded(t) -> Own(t, first)] : TracedFrom(t, first, at)
  BY <1>2
<1>4. Recorded(t)' = Recorded(t)
  BY DEF Recorded
<1>5. /\ Own(t, first)' = Own(t, first) /\ first \in 1..(Len(log') + 1)
      /\ \A n \in Own(t, first) : log'[n] = log[n]
  <2>1. CASE log' = log
    BY <2>1 DEF Own
  <2>2. CASE \E e \in Events : e.by # t /\ log' = Append(log, e)
    <3>1. PICK e \in Events : e.by # t /\ log' = Append(log, e)
      BY <2>2
    <3>2. /\ Len(log') = Len(log) + 1 /\ log'[Len(log) + 1] = e
          /\ \A n \in 1..Len(log) : log'[n] = log[n]
      BY <1>1, <3>1, AppendProperties
    <3>3. \A n \in first..(Len(log) + 1) : n \in 1..Len(log) \/ n = Len(log) + 1
      BY <1>1
    <3>4. \A n \in first..Len(log) : n \in 1..Len(log) /\ n \in first..(Len(log) + 1)
      BY <1>1
    <3>5. \A n \in 1..Len(log) : n \in first..(Len(log) + 1) => n \in first..Len(log)
      BY <1>1
    <3>6. Own(t, first)' = {n \in first..(Len(log) + 1) : log'[n].by = t}
      BY <3>2 DEF Own
    <3>7. Own(t, first)' = Own(t, first)
      BY <3>1, <3>2, <3>3, <3>4, <3>5, <3>6 DEF Own
    <3> QED
      BY <1>1, <3>2, <3>4, <3>7 DEF Own
  <2> QED
    BY <2>1, <2>2
<1>6. TracedFrom(t, first, at)'
  BY <1>3, <1>4, <1>5 DEF TracedFrom, InOrder
<1> QED
  BY <1>3, <1>4, <1>5, <1>6 DEF Traced

\* The event of an answer that is recorded is the thread's last.
LEMMA TracedRecorded ==
  ASSUME Typed, NEW t \in Threads, Traced(t), Record(t)
  PROVE  Traced(t)'
<1>1. TypedFunctions /\ TypedShared /\ TypedThread(t) /\ pc[t] = "record" /\ Event(t) \in Events
  BY TypedParts, EventType DEF TypedThreads, Record
<1>2. out[t] \in Seq(Answers) /\ Len(out[t]) \in Nat \ {0}
  BY <1>1, EventType
<1>3. PICK k \in Nat : k + 1 = Len(out[t])
  <2>1. Len(out[t]) - 1 \in Nat /\ Len(out[t]) - 1 + 1 = Len(out[t])
    BY <1>2
  <2> QED
    BY <2>1
<1>4. pc'[t] = "count" /\ out'[t] = out[t] /\ log' = Append(log, Event(t))
  BY <1>1 DEF Record, TypedFunctions
<1>5. Recorded(t) = k /\ Recorded(t)' = k + 1
  BY <1>1, <1>3, <1>4 DEF Recorded
<1>6. PICK l \in Nat : l = Len(log)
  BY <1>1, LenProperties DEF TypedShared
<1>7. /\ Len(log') = l + 1 /\ log'[l + 1] = Event(t)
      /\ \A n \in 1..l : log'[n] = log[n]
  BY <1>1, <1>4, <1>6, AppendProperties DEF TypedShared
<1>8. Event(t) = EventOf(t, out[t][k + 1]) /\ Event(t).by = t
  BY <1>3 DEF Event, EventOf, Told
<1>9. PICK first \in 1..(l + 1) : \E at \in [1..Recorded(t) -> Own(t, first)] :
            TracedFrom(t, first, at)
  BY <1>6 DEF Traced
<1>10. PICK at \in [1..k -> Own(t, first)] : TracedFrom(t, first, at)
  BY <1>5, <1>9
<1>11. PICK own : own = Own(t, first)
  OBVIOUS
<1>12. own = {n \in first..l : log[n].by = t}
  BY <1>6, <1>11 DEF Own
<1>13. own \in SUBSET Nat /\ \A n \in own : n < l + 1 /\ n \in 1..l
  BY <1>12
<1>14. Own(t, first)' = own \cup {l + 1}
  <2>1. \A n : n \in first..(l + 1) <=> n \in first..l \/ n = l + 1
    OBVIOUS
  <2>2. \A n \in first..l : n \in 1..l
    OBVIOUS
  <2>3. Own(t, first)' = {n \in first..(l + 1) : log'[n].by = t}
    BY <1>7 DEF Own
  <2> QED
    BY <1>7, <1>8, <1>12, <2>1, <2>2, <2>3
<1>15. PICK next : next = EnumerationWith(at, k, l + 1)
  OBVIOUS
<1>16. /\ next \in [1..(k + 1) -> own \cup {l + 1}] /\ InOrder(next, own \cup {l + 1})
       /\ next[k + 1] = l + 1 /\ \A i \in 1..k : next[i] = at[i]
  <2>1. at \in [1..k -> own] /\ InOrder(at, own) /\ l + 1 \in Nat
    BY <1>10, <1>11 DEF TracedFrom
  <2>2. PICK new \in Nat : new = l + 1
    OBVIOUS
  <2>3. \A m \in own : m < new
    BY <1>13, <2>2
  <2>4. \A m \in own : m \in Nat
    BY <1>13
  <2>5. /\ EnumerationWith(at, k, new) \in [1..(k + 1) -> own \cup {new}]
        /\ InOrder(EnumerationWith(at, k, new), own \cup {new})
    <3>1. at \in [1..k -> own] /\ InOrder(at, own)
      BY <2>1
    <3> QED
      BY <2>3, <2>4, <3>1, EnumerationAdded
  <2> QED
    BY <1>15, <2>2, <2>5 DEF EnumerationWith
<1>17. \A i \in 1..(k + 1) : log'[next[i]] = EventOf(t, out[t][i])
  <2> SUFFICES ASSUME NEW i \in 1..(k + 1)
               PROVE  log'[next[i]] = EventOf(t, out[t][i])
    OBVIOUS
  <2>1. CASE i = k + 1
    BY <1>7, <1>8, <1>16, <2>1
  <2>2. CASE i # k + 1
    <3>1. i \in 1..k
      BY <2>2
    <3>2. at[i] \in own /\ log[at[i]] = EventOf(t, out[t][i])
      BY <1>5, <1>10, <1>11, <3>1 DEF TracedFrom
    <3> QED
      BY <1>7, <1>13, <1>16, <3>1, <3>2
  <2> QED
    BY <2>1, <2>2
<1>18. TracedFrom(t, first, next)'
  <2>1. InOrder(next, own \cup {l + 1})' = InOrder(next, own \cup {l + 1})
    BY DEF InOrder
  <2> QED
    BY <1>4, <1>5, <1>14, <1>16, <1>17 DEF TracedFrom, InOrder, EventOf
<1>19. ~Ok(t)'
  BY <1>4 DEF Ok, Done
<1>20. first \in 1..(Len(log') + 1)
  BY <1>7
<1> QED
  BY <1>5, <1>14, <1>16, <1>18, <1>19, <1>20 DEF Traced

LEMMA TracedNext == Typed /\ TracedInv /\ [Next]_vars => TracedInv'
<1> SUFFICES ASSUME Typed, TracedInv, [Next]_vars, NEW u \in Threads
             PROVE  Traced(u)'
  BY DEF TracedInv
<1>1. TypedFunctions /\ TypedShared /\ TypedThread(u) /\ Traced(u)
  BY TypedParts DEF TypedThreads, TracedInv
<1>2. CASE UNCHANGED <<variant, events, methods, errors, lock, pc, req, pos, out, reply,
                       served, log>>
  BY <1>1, <1>2, TracedKept DEF Traced, Ok, Done
<1>3. ASSUME NEW t \in Threads, Acts(t), u # t
      PROVE  Traced(u)'
  <2>1. pc'[u] = pc[u] /\ out'[u] = out[u] /\ reply'[u] = reply[u]
    BY <1>3, OthersUnchanged
  <2>2. log' = log \/ \E e \in Events : e.by # u /\ log' = Append(log, e)
    <3>1. CASE Record(t)
      <4>1. Event(t) \in Events /\ Event(t).by = t /\ log' = Append(log, Event(t))
        BY <3>1, EventType DEF Record, Event
      <4> QED
        BY <1>3, <4>1
    <3>2. CASE ~Record(t)
      BY <1>3, <3>2 DEF Acts, Step, WithLock, Arrive, Skip, Abort, Call, Count, Summarize, Respond
    <3> QED
      BY <3>1, <3>2
  <2> QED
    BY <1>1, <2>1, <2>2, TracedKept DEF Traced, Ok, Done
<1>4. ASSUME \E r \in Requests : Arrive(u, r)
      PROVE  Traced(u)'
  <2>1. PICK r \in Requests : Arrive(u, r)
    BY <1>4
  <2>2. out'[u] = <<>> /\ pc'[u] # "record" /\ log' = log
    BY <1>1, <2>1 DEF Arrive, TypedFunctions
  <2>3. Ok(u)' => reply'[u].answers = <<>>
    BY <1>1, <2>1 DEF Arrive, TypedFunctions, Ok, Done, Reply
  <2> QED
    <3>1. Nothing(u)'
      BY <1>1, <2>2, <2>3 DEF Nothing, TypedShared
    <3> QED
      BY <3>1, TracedNothing
<1>5. ASSUME Skip(u) \/ Abort(u) \/ Summarize(u) \/ Respond(u) \/ Count(u)
      PROVE  Traced(u)'
  <2>1. out'[u] = out[u] /\ pc[u] # "record" /\ pc'[u] # "record" /\ log' = log
    BY <1>1, <1>5 DEF Skip, Abort, Summarize, Respond, Count, HasItem, TypedFunctions
  <2>2. Ok(u)' => reply'[u].answers = out[u]
    <3>1. CASE Skip(u) \/ Count(u)
      BY <1>1, <3>1 DEF Skip, Count, HasItem, TypedFunctions, Ok, Done
    <3>2. CASE Abort(u)
      BY <1>1, <3>2 DEF Abort, TypedFunctions, Ok, Done, Reply
    <3>3. CASE Summarize(u)
      BY <1>1, <3>3 DEF Summarize, TypedFunctions, TypedThread, Working, Reply
    <3>4. CASE Respond(u)
      BY <1>1, <3>4 DEF Respond, TypedFunctions, Ok, Done, Reply
    <3> QED
      BY <1>5, <3>1, <3>2, <3>3, <3>4
  <2> QED
    BY <1>1, <2>1, <2>2, TracedKept
<1>6. ASSUME Call(u)
      PROVE  Traced(u)'
  <2>1. PICK answer \in Answers : out'[u] = Append(out[u], answer)
    <3>1. Answered(req[u], Item(u)) \in Answers
      BY <1>6, ItemType, AnswerType DEF Call
    <3> QED
      BY <1>1, <1>6, <3>1 DEF Call, TypedFunctions
  <2>2. pc[u] # "record" /\ pc'[u] = "record" /\ log' = log
    BY <1>1, <1>6 DEF Call, HasItem, TypedFunctions
  <2>3. /\ Len(out'[u]) = Len(out[u]) + 1 /\ Len(out[u]) \in Nat
        /\ \A i \in 1..Len(out[u]) : out'[u][i] = out[u][i]
    BY <1>1, <2>1, AppendProperties, LenProperties DEF TypedThread
  <2>4. Recorded(u) = Len(out[u]) /\ Recorded(u)' = Len(out[u])
    BY <2>2, <2>3 DEF Recorded
  <2>5. PICK first \in 1..(Len(log) + 1) : \E at \in [1..Recorded(u) -> Own(u, first)] :
              TracedFrom(u, first, at)
    BY <1>1 DEF Traced
  <2>6. PICK at \in [1..Recorded(u) -> Own(u, first)] : TracedFrom(u, first, at)
    BY <2>5
  <2>7. Own(u, first)' = Own(u, first) /\ first \in 1..(Len(log') + 1)
    BY <2>2 DEF Own
  <2>8. TracedFrom(u, first, at)'
    BY <2>2, <2>3, <2>4, <2>6, <2>7 DEF TracedFrom, InOrder
  <2>9. ~Ok(u)'
    BY <2>2 DEF Ok, Done
  <2> QED
    BY <2>4, <2>6, <2>7, <2>8, <2>9 DEF Traced
<1> QED
  BY <1>1, <1>2, <1>3, <1>4, <1>5, <1>6, NextCases, TracedRecorded DEF Acts, Step, WithLock

\* For batches of any length on any number of threads: when a request is done, from
\* some event on its thread's own events are the answers to its calls, in their order,
\* each a success exactly when it holds a result; and a reply that succeeds holds these
\* answers (rpc.py:45-81).
THEOREM ToldIsTraced == Spec => []AnswersAreTraced
<1>1. Init => TracedInv
  <2> SUFFICES ASSUME Init, NEW t \in Threads
               PROVE  Traced(t)
    BY DEF TracedInv
  <2>1. Nothing(t)
    BY EmptySeq DEF Init, Nothing, Ok, Done
  <2> QED
    BY <2>1, TracedNothing
<1>2. Typed /\ TracedInv /\ [Next]_vars => TracedInv'
  BY TracedNext
<1>3. Typed /\ TracedInv => AnswersAreTraced
  <2> SUFFICES ASSUME Typed, TracedInv, NEW t \in Threads, Done(t)
               PROVE  /\ \E first \in 1..(Len(log) + 1) :
                            \E at \in [DOMAIN out[t] -> Own(t, first)] :
                                /\ InOrder(at, Own(t, first))
                                /\ \A i \in DOMAIN out[t] : log[at[i]] = EventOf(t, out[t][i])
                      /\ Ok(t) => reply[t].answers = out[t]
    BY DEF AnswersAreTraced, Own, EventOf
  <2>1. Recorded(t) = Len(out[t])
    BY DEF Recorded, Done
  <2>2. DOMAIN out[t] = 1..Len(out[t])
    BY LenProperties DEF Typed, TypeOK
  <2> QED
    BY <2>1, <2>2 DEF TracedInv, Traced, TracedFrom
<1> QED
  BY <1>1, <1>2, <1>3, TypedAlways, PTL DEF Spec

-------------------------------------------------------------------------------
(* Answers and items.  The answers so far are to the items so far that are asked. *)

Upto(r, n) == {k \in Asked(r) : k <= n}

Fits(r, answer, n) ==
    /\ r.route = "post" => answer.id = r.items[n].id
    /\ r.route # "shelly" =>
        (answer.kind \in {"result", "Exception"}) = Known(r.items[n])

LinesUp(r, n, answers, to) ==
    /\ InOrder(to, Upto(r, n))
    /\ \A i \in 1..Len(answers) : Fits(r, answers[i], to[i])

\* Why a request may fail as a whole.
Excused(t) ==
    \/ req[t].form = "malformed"
    \/ req[t].form = "scalar" /\ req[t].route = "get_batch"
    \/ req[t].route = "post" /\ \E i \in DOMAIN req[t].items : ~req[t].items[i].object
    \/ \E i \in DOMAIN out[t] : ~out[t][i].encodes

LineUp(t) ==
    /\ \E to \in [1..Len(out[t]) -> Upto(req[t], pos[t] - 1)] :
            LinesUp(req[t], pos[t] - 1, out[t], to)
    /\ Ok(t) /\ Refusal(req[t]) = None /\ req[t].route # "debug" =>
            reply[t].answers = out[t] /\ pos[t] = Len(req[t].items) + 1
    /\ Done(t) /\ reply[t].status = 500 => Excused(t)

LineUpInv == \A t \in Threads : LineUp(t)

\* An item's answer fits it, if it is asked and does not fail the batch.
LEMMA AnswerFits ==
  ASSUME Typed, NEW r \in Requests, NEW n \in DOMAIN r.items, ~Skipped(r, r.items[n])
  PROVE  Fits(r, Answered(r, r.items[n]), n)
<1> DEFINE item == r.items[n]
           answer == Answered(r, item)
<1>1. r.route = "post" => answer.id = item.id
  BY DEF Answered
<1>2. answer.kind = Kind(r, item)
  BY DEF Answered
<1>3. ASSUME r.route # "shelly"
      PROVE  Kind(r, item) \in {"result", "Exception"} <=> Known(item)
  <2>1. Missing(item) => ~Known(item)
    <3>1. Canonical(Absent) = Absent /\ Canonical(NotString) = NotString
      BY DEF Canonical, Absent, NotString
    <3>2. Absent \notin Methods /\ NotString \notin Methods
      BY DEF Methods, Absent, NotString
    <3> QED
      BY <3>1, <3>2 DEF Missing, Known
  <2>2. Outcome(item.method, item.include) \in {"result", "Exception"} <=> Known(item)
    <3>1. CASE ~Known(item)
      <4>1. Canonical(item.method) \notin Methods
        BY <3>1 DEF Known
      <4>2. Outcome(item.method, item.include) = "KeyError"
        BY <4>1 DEF Outcome, Methods
      <4> QED
        BY <3>1, <4>2
    <3>2. CASE Known(item)
      <4>1. Outcome(item.method, item.include) \in {"result", "Exception"}
        BY <3>2 DEF Outcome, Known
      <4> QED
        BY <3>2, <4>1
    <3> QED
      BY <3>1, <3>2
  <2>3. CASE Invalid(r, item)
    BY <1>3, <2>1, <2>3 DEF Kind, Invalid
  <2>4. CASE ~Invalid(r, item)
    <3>1. Kind(r, item) = Outcome(item.method, item.include)
      BY <1>3, <2>4 DEF Kind
    <3> QED
      BY <2>2, <3>1
  <2> QED
    BY <2>3, <2>4
<1> QED
  BY <1>1, <1>2, <1>3 DEF Fits, Known

LEMMA UptoNext ==
  ASSUME NEW r, NEW n \in Nat, \A k \in DOMAIN r.items : k \in Nat
  PROVE  /\ n + 1 \in Asked(r) => Upto(r, n + 1) = Upto(r, n) \cup {n + 1}
         /\ n + 1 \notin Asked(r) => Upto(r, n + 1) = Upto(r, n)
         /\ \A k \in Upto(r, n) : k \in Nat /\ k < n + 1
<1>1. \A k \in Asked(r) : k \in Nat
  BY DEF Asked
<1>2. \A k \in Nat : k <= n + 1 <=> k <= n \/ k = n + 1
  OBVIOUS
<1>3. \A k \in Nat : k <= n => k < n + 1
  OBVIOUS
<1> QED
  BY <1>1, <1>2, <1>3 DEF Upto

LEMMA ItemNumbers ==
  ASSUME Typed, NEW t \in Threads
  PROVE  /\ DOMAIN req[t].items = 1..Len(req[t].items) /\ Len(req[t].items) \in Nat
         /\ pos[t] - 1 \in Nat /\ pos[t] \in Nat
<1>1. req[t].items \in Seq(Items)
  <2>1. CASE req[t] \in Requests
    BY <2>1, RequestAssumption
  <2>2. CASE req[t] = NoRequest
    <3>1. req[t].items = <<>>
      BY <2>2 DEF NoRequest
    <3> QED
      BY <3>1, EmptySeq
  <2> QED
    BY <2>1, <2>2 DEF Typed, TypeOK
<1>2. DOMAIN req[t].items = 1..Len(req[t].items) /\ Len(req[t].items) \in Nat
  BY <1>1, LenProperties
<1>3. pos[t] \in 1..(Len(req[t].items) + 1)
  BY DEF Typed, TypeOK
<1> QED
  BY <1>2, <1>3

\* A step that leaves the answers and the items alone, and what it has replied.
LEMMA LineUpKept ==
  ASSUME Typed, NEW t \in Threads, LineUp(t),
         req'[t] = req[t], pos'[t] = pos[t], out'[t] = out[t], variant' = variant,
         Ok(t)' /\ Refusal(req[t]) = None /\ req[t].route # "debug" =>
            reply'[t].answers = out[t] /\ pos[t] = Len(req[t].items) + 1,
         Done(t)' /\ reply'[t].status = 500 => Excused(t)
  PROVE  LineUp(t)'
<1>1. Refusal(req[t])' = Refusal(req[t])
  BY DEF Refusal
<1>2. PICK to \in [1..Len(out[t]) -> Upto(req[t], pos[t] - 1)] :
         LinesUp(req[t], pos[t] - 1, out[t], to)
  BY DEF LineUp
<1>3. LinesUp(req[t], pos[t] - 1, out[t], to)'
  BY <1>2 DEF LinesUp, Fits, Known, InOrder, Upto, Asked, Skipped
<1>4. Upto(req[t], pos[t] - 1)' = Upto(req[t], pos[t] - 1)
  BY DEF Upto, Asked, Skipped
<1>5. Excused(t)' = Excused(t)
  BY DEF Excused
<1> QED
  BY <1>1, <1>2, <1>3, <1>4, <1>5 DEF LineUp

\* A thread that starts on a request has answered none of it.
LEMMA LineUpArrive ==
  ASSUME Typed, NEW t \in Threads, NEW r \in Requests, Arrive(t, r)
  PROVE  LineUp(t)'
<1> DEFINE none == [i \in {} |-> 1]
<1>1. TypedFunctions
  BY TypedParts
<1>2. /\ req'[t] = r /\ pos'[t] = 1 /\ out'[t] = <<>> /\ variant' = variant
      /\ Refusal(r) # None => reply'[t] = Reply(Refusal(r), <<>>, None)
      /\ Refusal(r) = None => pc'[t] = "item"
  BY <1>1 DEF Arrive, TypedFunctions
<1>3. Refusal(req[t])' = Refusal(r)
  BY <1>2 DEF Refusal
<1>4. Upto(req[t], pos[t] - 1)' = {}
  <2>1. r.items \in Seq(Items)
    BY RequestAssumption
  <2>2. DOMAIN r.items = 1..Len(r.items)
    BY <2>1, LenProperties
  <2>3. Upto(req[t], pos[t] - 1)' = {k \in Asked(req[t])' : k <= 0}
    BY <1>2 DEF Upto
  <2>4. \A k \in Asked(req[t])' : k \in 1..Len(r.items)
    BY <1>2, <2>2 DEF Asked
  <2> QED
    BY <2>3, <2>4
<1>5. 1..Len(out'[t]) = {}
  <2>1. Len(out'[t]) = 0
    BY <1>2, EmptySeq
  <2> QED
    BY <2>1
<1>6. none \in [1..Len(out'[t]) -> Upto(req[t], pos[t] - 1)'] /\ InOrder(none, Upto(req[t], pos[t] - 1)')
  BY <1>4, <1>5 DEF InOrder
<1>7. LinesUp(req[t], pos[t] - 1, out[t], none)'
  BY <1>5, <1>6 DEF LinesUp, InOrder
<1>8. ~(Ok(t)' /\ Refusal(r) = None)
  BY <1>2 DEF Ok, Done
<1>9. Done(t)' /\ reply'[t].status = 500 => Excused(t)'
  <2> SUFFICES ASSUME Done(t)', reply'[t].status = 500
               PROVE  Excused(t)'
    OBVIOUS
  <2>1. Refusal(r) = 500
    BY <1>2 DEF Done, Reply
  <2>2. r.form = "malformed" \/ (r.form = "scalar" /\ r.route = "get_batch")
    <3>1. 500 \notin {200, 400, None}
      BY NoneAssumption
    <3>2. ASSUME r.form # "malformed", ~(r.form = "scalar" /\ r.route = "get_batch")
          PROVE  Refusal(r) \in {200, 400, None}
      BY <3>2 DEF Refusal
    <3> QED
      BY <2>1, <3>1, <3>2
  <2> QED
    BY <1>2, <2>2 DEF Excused
<1> QED
  BY <1>3, <1>6, <1>7, <1>8, <1>9 DEF LineUp

\* An item that is skipped is not asked.
LEMMA LineUpSkip ==
  ASSUME Typed, NEW t \in Threads, LineUp(t), Skip(t)
  PROVE  LineUp(t)'
<1>1. TypedFunctions
  BY TypedParts
<1>2. /\ req'[t] = req[t] /\ pos'[t] = pos[t] + 1 /\ out'[t] = out[t] /\ variant' = variant
      /\ pc'[t] = "item"
  BY <1>1 DEF Skip, HasItem, TypedFunctions
<1>3. PICK n \in Nat : n = pos[t] - 1
  BY ItemNumbers
<1>4. n + 1 = pos[t] /\ pos'[t] - 1 = n + 1
  BY <1>2, <1>3, ItemNumbers
<1>5. PICK r : r = req[t]
  OBVIOUS
<1>6. n + 1 \notin Asked(r) /\ \A k \in DOMAIN r.items : k \in Nat
  <2>1. Skipped(r, r.items[n + 1])
    BY <1>4, <1>5 DEF Skip, Item
  <2> QED
    BY <1>5, <2>1, ItemNumbers DEF Asked
<1>7. Upto(r, n + 1) = Upto(r, n)
  BY <1>6, UptoNext
<1>8. PICK to \in [1..Len(out[t]) -> Upto(r, n)] : LinesUp(r, n, out[t], to)
  BY <1>3, <1>5 DEF LineUp
<1>9. LinesUp(r, n + 1, out[t], to)
  BY <1>7, <1>8 DEF LinesUp
<1>10. /\ Upto(req[t], pos[t] - 1)' = Upto(r, n)
       /\ LinesUp(req[t], pos[t] - 1, out[t], to)' = LinesUp(r, n + 1, out[t], to)
  <2>1. /\ Upto(req[t], pos[t] - 1)' = Upto(r, n + 1)
        /\ LinesUp(req[t], pos[t] - 1, out[t], to)' = LinesUp(r, n + 1, out[t], to)
    BY <1>2, <1>4, <1>5 DEF LinesUp, Fits, Known, InOrder, Upto, Asked, Skipped
  <2> QED
    BY <1>7, <2>1
<1>11. ~Ok(t)' /\ ~Done(t)'
  BY <1>2 DEF Ok, Done
<1> QED
  BY <1>2, <1>8, <1>9, <1>10, <1>11 DEF LineUp

\* An item that is called is answered.
LEMMA LineUpCall ==
  ASSUME Typed, NEW t \in Threads, LineUp(t), Call(t)
  PROVE  LineUp(t)'
<1>1. TypedFunctions /\ TypedThread(t)
  BY TypedParts DEF TypedThreads
<1>2. PICK n \in Nat : n = pos[t] - 1
  BY ItemNumbers
<1>3. PICK r \in Requests : r = req[t]
  BY ItemType DEF Call
<1>4. PICK answer \in Answers : answer = Answered(r, Item(t))
  BY <1>3, ItemType, AnswerType DEF Call
<1>5. PICK answers \in Seq(Answers) : answers = out[t]
  BY <1>1 DEF TypedThread
<1>6. PICK l \in Nat : l = Len(answers)
  BY LenProperties
<1>7. PICK more \in Seq(Answers) : more = Append(answers, answer)
  BY AppendProperties
<1>8. /\ Len(more) = l + 1 /\ more[l + 1] = answer
      /\ \A i \in 1..l : more[i] = answers[i]
  BY <1>6, <1>7, AppendProperties
<1>9. /\ req'[t] = r /\ pos'[t] = pos[t] + 1 /\ out'[t] = more /\ pc'[t] = "record"
  BY <1>1, <1>3, <1>4, <1>5, <1>7 DEF Call, TypedFunctions
<1>10. n + 1 = pos[t] /\ pos'[t] - 1 = n + 1
  BY <1>2, <1>9, ItemNumbers
<1>11. /\ Item(t) = r.items[n + 1] /\ n + 1 \in DOMAIN r.items
       /\ ~Skipped(r, r.items[n + 1])
       /\ \A k \in DOMAIN r.items : k \in Nat
  BY <1>3, <1>10, ItemNumbers DEF Call, Item, HasItem
<1>12. Fits(r, answer, n + 1)
  BY <1>4, <1>11, AnswerFits
<1>13. /\ Upto(r, n + 1) = Upto(r, n) \cup {n + 1}
       /\ \A k \in Upto(r, n) : k \in Nat /\ k < n + 1
  <2>1. n + 1 \in Asked(r)
    BY <1>11 DEF Asked
  <2> QED
    BY <1>11, <2>1, UptoNext
<1>14. PICK to \in [1..l -> Upto(r, n)] : LinesUp(r, n, answers, to)
  BY <1>2, <1>3, <1>5, <1>6 DEF LineUp
<1>15. PICK next : next = EnumerationWith(to, l, n + 1)
  OBVIOUS
<1>16. /\ next \in [1..(l + 1) -> Upto(r, n + 1)] /\ InOrder(next, Upto(r, n + 1))
       /\ next[l + 1] = n + 1 /\ \A i \in 1..l : next[i] = to[i]
  <2>1. PICK new \in Nat : new = n + 1
    OBVIOUS
  <2>2. PICK items : items = Upto(r, n)
    OBVIOUS
  <2>3. \A k \in items : k \in Nat /\ k < new
    BY <1>13, <2>1, <2>2
  <2>4. to \in [1..l -> items] /\ InOrder(to, items)
    BY <1>14, <2>2 DEF LinesUp
  <2>5. /\ EnumerationWith(to, l, new) \in [1..(l + 1) -> items \cup {new}]
        /\ InOrder(EnumerationWith(to, l, new), items \cup {new})
    BY <2>3, <2>4, EnumerationAdded
  <2>6. next[l + 1] = new /\ \A i \in 1..l : next[i] = to[i]
    BY <1>15, <2>1 DEF EnumerationWith
  <2>7. next = EnumerationWith(to, l, new) /\ Upto(r, n + 1) = items \cup {new}
    BY <1>13, <1>15, <2>1, <2>2
  <2> QED
    BY <2>1, <2>5, <2>6, <2>7
<1>17. \A i \in 1..(l + 1) : Fits(r, more[i], next[i])
  <2> SUFFICES ASSUME NEW i \in 1..(l + 1)
               PROVE  Fits(r, more[i], next[i])
    OBVIOUS
  <2>1. CASE i = l + 1
    BY <1>8, <1>12, <1>16, <2>1
  <2>2. CASE i # l + 1
    <3>1. i \in 1..l
      BY <2>2
    <3> QED
      BY <1>6, <1>8, <1>14, <1>16, <3>1 DEF LinesUp
  <2> QED
    BY <2>1, <2>2
<1>18. LinesUp(r, n + 1, more, next)
  BY <1>8, <1>16, <1>17 DEF LinesUp
<1>19. /\ Upto(req[t], pos[t] - 1)' = Upto(r, n + 1)
       /\ LinesUp(req[t], pos[t] - 1, out[t], next)' = LinesUp(r, n + 1, more, next)
  BY <1>9, <1>10 DEF LinesUp, Fits, Known, InOrder, Upto, Asked, Skipped
<1>20. ~Ok(t)' /\ ~Done(t)'
  BY <1>9 DEF Ok, Done
<1>21. Len(out'[t]) = l + 1
  BY <1>8, <1>9
<1> QED
  BY <1>16, <1>18, <1>19, <1>20, <1>21 DEF LineUp

LEMMA LineUpNext == Typed /\ LineUpInv /\ [Next]_vars => LineUpInv'
<1> SUFFICES ASSUME Typed, LineUpInv, [Next]_vars, NEW u \in Threads
             PROVE  LineUp(u)'
  BY DEF LineUpInv
<1>1. TypedFunctions /\ TypedThread(u) /\ LineUp(u)
  BY TypedParts DEF TypedThreads, LineUpInv
<1>2. ASSUME pc'[u] = pc[u], req'[u] = req[u], pos'[u] = pos[u], out'[u] = out[u],
             reply'[u] = reply[u], variant' = variant
      PROVE  LineUp(u)'
  <2>1. /\ Ok(u)' /\ Refusal(req[u]) = None /\ req[u].route # "debug" =>
              reply'[u].answers = out[u] /\ pos[u] = Len(req[u].items) + 1
        /\ Done(u)' /\ reply'[u].status = 500 => Excused(u)
    BY <1>1, <1>2 DEF LineUp, Ok, Done
  <2> QED
    BY <1>1, <1>2, <2>1, LineUpKept
<1>3. CASE UNCHANGED <<variant, events, methods, errors, lock, pc, req, pos, out, reply,
                       served, log>>
  BY <1>2, <1>3
<1>4. ASSUME NEW t \in Threads, Acts(t), u # t
      PROVE  LineUp(u)'
  BY <1>2, <1>4, OthersUnchanged
<1>5. ASSUME \E r \in Requests : Arrive(u, r)
      PROVE  LineUp(u)'
  BY <1>5, LineUpArrive
<1>6. ASSUME Record(u) \/ Count(u)
      PROVE  LineUp(u)'
  <2>1. /\ req'[u] = req[u] /\ pos'[u] = pos[u] /\ out'[u] = out[u] /\ variant' = variant
        /\ pc'[u] # "idle"
    BY <1>1, <1>6 DEF Record, Count, TypedFunctions
  <2> QED
    BY <1>1, <2>1, LineUpKept DEF Ok, Done
<1>7. ASSUME Abort(u)
      PROVE  LineUp(u)'
  <2>1. /\ req'[u] = req[u] /\ pos'[u] = pos[u] /\ out'[u] = out[u] /\ variant' = variant
        /\ reply'[u] = Reply(500, <<>>, None)
    BY <1>1, <1>7 DEF Abort, TypedFunctions
  <2>2. Excused(u)
    <3>1. req[u] \in Requests /\ pos[u] \in DOMAIN req[u].items
      BY <1>7, ItemType DEF Abort, HasItem
    <3>2. ~req[u].items[pos[u]].object /\ req[u].route # "get_batch"
      BY <1>7 DEF Abort, Aborts, Skipped, Item
    <3>3. req[u].route = "post"
      BY <3>1, <3>2, RequestAssumption
    <3> QED
      BY <3>1, <3>2, <3>3 DEF Excused
  <2>3. ~Ok(u)'
    BY <2>1 DEF Ok, Reply
  <2> QED
    BY <1>1, <2>1, <2>2, <2>3, LineUpKept
<1>8. ASSUME Summarize(u)
      PROVE  LineUp(u)'
  <2>1. /\ req'[u] = req[u] /\ pos'[u] = pos[u] /\ out'[u] = out[u] /\ variant' = variant
        /\ reply'[u].status = 200 /\ req[u].route = "debug"
    BY <1>1, <1>8 DEF Summarize, TypedFunctions, Reply
  <2> QED
    BY <1>1, <2>1, LineUpKept
<1>9. ASSUME Respond(u)
      PROVE  LineUp(u)'
  <2>1. /\ req'[u] = req[u] /\ pos'[u] = pos[u] /\ out'[u] = out[u] /\ variant' = variant
        /\ reply'[u] = Reply(Status(u), IF Status(u) = 200 THEN out[u] ELSE <<>>, None)
    BY <1>1, <1>9 DEF Respond, TypedFunctions
  <2>2. pos[u] = Len(req[u].items) + 1
    BY <1>1, <1>9, ItemNumbers DEF Respond, TypedThread
  <2>3. Ok(u)' => reply'[u].answers = out[u]
    BY <2>1 DEF Ok, Reply
  <2>4. Status(u) = 500 => Excused(u)
    BY DEF Status, Excused
  <2>5. Done(u)' /\ reply'[u].status = 500 => Excused(u)
    BY <2>1, <2>4 DEF Reply
  <2> QED
    BY <1>1, <2>1, <2>2, <2>3, <2>5, LineUpKept
<1>10. ASSUME Skip(u) \/ Call(u)
       PROVE  LineUp(u)'
  BY <1>1, <1>10, LineUpSkip, LineUpCall
<1> QED
  BY <1>3, <1>4, <1>5, <1>6, <1>7, <1>8, <1>9, <1>10, NextCases DEF Acts, Step, WithLock

\* In a batch of any length the n-th answer is to the n-th item asked, under its id, a
\* result or an exception of the method if the device has it and an error if not; a
\* request fails as a whole only if it cannot be read, holds an item that is no object
\* or has an answer JSON cannot hold (rpc.py:83-89, wire_server.py:205-227).
THEOREM AnswersMatchItems == Spec => []AnswersLineUp
<1>1. Init => LineUpInv
  <2> SUFFICES ASSUME Init, NEW t \in Threads
               PROVE  LineUp(t)
    BY DEF LineUpInv
  <2> DEFINE none == [i \in {} |-> 1]
  <2>1. out[t] = <<>> /\ Len(out[t]) = 0 /\ pos[t] = 1 /\ req[t] = NoRequest /\ reply[t] = None
    BY EmptySeq DEF Init
  <2>2. Asked(req[t]) = {}
    <3>1. NoRequest.items = <<>> /\ DOMAIN <<>> = 1..0
      BY EmptySeq DEF NoRequest
    <3> QED
      BY <2>1, <3>1 DEF Asked
  <2>3. Upto(req[t], pos[t] - 1) = {} /\ 1..Len(out[t]) = {}
    BY <2>1, <2>2 DEF Upto
  <2>4. none \in [1..Len(out[t]) -> Upto(req[t], pos[t] - 1)] /\ InOrder(none, Upto(req[t], pos[t] - 1))
    BY <2>3 DEF InOrder
  <2>5. LinesUp(req[t], pos[t] - 1, out[t], none)
    BY <2>3, <2>4 DEF LinesUp
  <2> QED
    BY <2>1, <2>4, <2>5 DEF LineUp, Ok, Done
<1>2. Typed /\ LineUpInv /\ [Next]_vars => LineUpInv'
  BY LineUpNext
<1>3. Typed /\ LineUpInv => AnswersLineUp
  <2> SUFFICES ASSUME Typed, LineUpInv, NEW t \in Threads
               PROVE  /\ Ok(t) /\ Refusal(req[t]) = None /\ req[t].route # "debug" =>
                           \E to \in [DOMAIN reply[t].answers -> Asked(req[t])] :
                               /\ InOrder(to, Asked(req[t]))
                               /\ \A i \in DOMAIN reply[t].answers :
                                      Fits(req[t], reply[t].answers[i], to[i])
                      /\ Done(t) /\ reply[t].status = 500 => Excused(t)
    BY DEF AnswersLineUp, Fits, Excused
  <2>1. LineUp(t)
    BY DEF LineUpInv
  <2>2. ASSUME Ok(t), Refusal(req[t]) = None, req[t].route # "debug"
        PROVE  \E to \in [DOMAIN reply[t].answers -> Asked(req[t])] :
                   /\ InOrder(to, Asked(req[t]))
                   /\ \A i \in DOMAIN reply[t].answers :
                          Fits(req[t], reply[t].answers[i], to[i])
    <3>1. reply[t].answers = out[t] /\ pos[t] = Len(req[t].items) + 1
      BY <2>1, <2>2 DEF LineUp
    <3>2. DOMAIN out[t] = 1..Len(out[t])
      BY LenProperties DEF Typed, TypeOK
    <3>3. pos[t] - 1 = Len(req[t].items)
      BY <3>1, ItemNumbers
    <3>4. \A n \in Asked(req[t]) : n \in 1..Len(req[t].items)
      BY ItemNumbers DEF Asked
    <3>5. Upto(req[t], pos[t] - 1) = Asked(req[t])
      BY <3>3, <3>4, ItemNumbers DEF Upto
    <3> QED
      BY <2>1, <3>1, <3>2, <3>5 DEF LineUp, LinesUp
  <2> QED
    BY <2>1, <2>2 DEF LineUp
<1> QED
  BY <1>1, <1>2, <1>3, TypedAlways, PTL DEF Spec

===============================================================================

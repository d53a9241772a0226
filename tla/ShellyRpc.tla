------------------------------ MODULE ShellyRpc ------------------------------
(***************************************************************************)
(* RPC over HTTP: the routes of app/wire_server.py and app/main.py, the    *)
(* calls of app/shelly/rpc.py and the trace of app/debug/trace.py.  The    *)
(* loop thread handles /rpc.  Under FastAPI other routes run on threads of *)
(* a pool, and share the trace's lock with it; the wire server has only    *)
(* the loop, and no /debug.  The poller updates the store all the while.   *)
(***************************************************************************)
EXTENDS ShellyResponses, Sequences, FiniteSets, Bags

CONSTANTS
    Loop, Workers,    \* the threads
    Requests,         \* what clients may ask: [route, form, items]
    RingSize,         \* events the trace keeps (maxlen)
    Recent,           \* events a summary shows
    MaxRequests       \* bound on the requests of one behaviour

(* An item's method is a name, Absent (missing, or any value that Python takes   *)
(* for false: null, "", 0, false, [], {}) or NotString (any other value); only a *)
(* batch can hold an item that is no object.                                     *)
Absent == "<absent>"
NotString == "<not a string>"

Items == [object : BOOLEAN, method : STRING, id : Nat \cup {None}, include : STRING]
Routes == {"post", "get", "get_batch", "shelly", "debug"}
Forms == {"single", "batch", "query", "path", "malformed", "scalar", "iterable"}

ASSUME RequestAssumption ==
    \A r \in Requests :
        /\ r.route \in Routes /\ r.form \in Forms /\ r.items \in Seq(Items)
        /\ r.form \in {"query", "path"} => r.items # <<>>
        /\ r.form = "iterable" => r.route = "get_batch"
        /\ r.route = "debug" => r.items = <<>>
        /\ \A i \in DOMAIN r.items : r.items[i].object \/ r.route \in {"post", "get_batch"}
ASSUME RingAssumption == RingSize \in Nat \ {0} /\ Recent \in 1..RingSize
ASSUME BoundAssumption == MaxRequests \in Nat
ASSUME ThreadAssumption == Loop \notin Workers /\ None \notin Workers \cup {Loop}

Threads == {Loop} \cup Workers
PcStates == {"idle", "item", "record", "count"}

VARIABLES
    variant,    \* the server that runs: "wire" or "fastapi"
    finite,     \* whether the store's numbers are
    events,     \* the trace: the events it keeps, oldest first,
    methods,    \*   calls by method,
    errors,     \*   failed calls by method,
    lock,       \*   and the thread that holds its lock, or None
    pc, req,    \* of each thread: where it is, its request,
    pos, out,   \*   the number of the next item and the answers so far,
    reply,      \*   and its last reply
    served,     \* number of requests
    log         \* history: every event

trace == <<events, methods, errors, lock>>
threads == <<pc, req, pos, out, reply>>
vars == <<variant, finite, trace, threads, served, log>>

-------------------------------------------------------------------------------
(* Requests. *)

\* Routes that run on the loop thread: all of the wire server's, and FastAPI's
\* async ones.
OnLoop(r) == variant = "wire" \/ r.route \in {"post", "get", "get_batch"}
\* A path that ends where the method should be is no route of FastAPI's.
Routed(r) ==
    IF variant = "wire" THEN r.route # "debug"
                        ELSE ~(r.form = "path" /\ r.items[1].method = Absent)

Reply(status, answers, summary) ==
    [status |-> status, answers |-> answers, summary |-> summary]

\* What is refused before any call: malformed JSON (which the wire server does not
\* catch), a value that is neither an object nor a list, no method in the query.  The
\* wire server walks whatever a batch in a query is: the keys of an object and the
\* characters of a string ("iterable") are all skipped, and a number, true or null
\* ("scalar") cannot be walked.
Refusal(r) ==
    CASE r.form = "malformed" -> IF variant = "wire" THEN 500 ELSE 400
      [] r.form = "scalar" -> IF r.route = "get_batch" /\ variant = "wire" THEN 500 ELSE 400
      [] r.form = "iterable" -> IF variant = "wire" THEN 200 ELSE 400
      [] r.form = "query" /\ r.items[1].method = Absent -> 400
      [] OTHER -> None

Arrive(t, r) ==
    /\ pc[t] = "idle" /\ served < MaxRequests
    /\ Routed(r) /\ (t = Loop <=> OnLoop(r))
    /\ served' = served + 1
    /\ req' = [req EXCEPT ![t] = r]
    /\ pos' = [pos EXCEPT ![t] = 1]
    /\ out' = [out EXCEPT ![t] = <<>>]
    /\ IF Refusal(r) = None
       THEN pc' = [pc EXCEPT ![t] = "item"] /\ UNCHANGED reply
       ELSE /\ reply' = [reply EXCEPT ![t] = Reply(Refusal(r), <<>>, None)]
            /\ UNCHANGED pc
    /\ UNCHANGED <<variant, finite, trace, log>>

-------------------------------------------------------------------------------
(* handle_call. *)

Missing(item) == item.method \in {Absent, NotString}
\* A batch in a query leaves out items whose method is false to Python, and makes a
\* string of any other.
Skipped(r, item) == r.route = "get_batch" /\ (~item.object \/ item.method = Absent)
Invalid(r, item) == Missing(item) /\ r.route # "get_batch"
Name(r, item) == IF Invalid(r, item) THEN "<missing>" ELSE item.method

Aborts_Unknown(r, item) ==
    r.form = "batch" /\ (~item.object \/ Outcome(item.method, item.include) = "KeyError")

\* An item of a posted batch that is no object has no get(): the whole batch fails.
Aborts(r, item) == ~item.object

Kind(r, item) ==
    CASE r.route = "shelly" -> "result"
      [] r.route # "shelly" /\ Invalid(r, item) -> "invalid"
      [] OTHER -> Outcome(item.method, item.include)

\* The answer to an item, as it is before the trace has been written.
Answered(r, item) ==
    [id |-> IF r.route = "post" THEN item.id ELSE None,
     name |-> Name(r, item), kind |-> Kind(r, item),
     encodes |-> finite \/ Kind(r, item) # "result" \/ ~ShowsNumbers(item.method, item.include)]

HasItem(t) == pc[t] = "item" /\ pos[t] \in DOMAIN req[t].items
Item(t) == req[t].items[pos[t]]

Skip(t) ==
    /\ HasItem(t) /\ Skipped(req[t], Item(t))
    /\ pos' = [pos EXCEPT ![t] = @ + 1]
    /\ UNCHANGED <<variant, finite, trace, pc, req, out, reply, served, log>>

Abort(t) ==
    /\ HasItem(t) /\ ~Skipped(req[t], Item(t)) /\ Aborts(req[t], Item(t))
    /\ pc' = [pc EXCEPT ![t] = "idle"]
    /\ reply' = [reply EXCEPT ![t] = Reply(500, <<>>, None)]
    /\ UNCHANGED <<variant, finite, trace, req, pos, out, served, log>>

\* The snapshot is taken and the method dispatched.  /shelly is traced before its
\* snapshot, of which it shows nothing.
Call(t) ==
    /\ HasItem(t) /\ ~Skipped(req[t], Item(t)) /\ ~Aborts(req[t], Item(t))
    /\ out' = [out EXCEPT ![t] = Append(@, Answered(req[t], Item(t)))]
    /\ pos' = [pos EXCEPT ![t] = @ + 1]
    /\ pc' = [pc EXCEPT ![t] = "record"]
    /\ UNCHANGED <<variant, finite, trace, req, reply, served, log>>

-------------------------------------------------------------------------------
(* RpcTrace.record, whose two parts a reader that takes no lock could tell apart. *)

Told(t) == out[t][Len(out[t])]     \* the answer at hand

Event_AlwaysOk(t) == [by |-> t, method |-> Told(t).name, ok |-> TRUE]
Event(t) == [by |-> t, method |-> Told(t).name, ok |-> Told(t).kind = "result"]

LastOf(s, n) == IF Len(s) > n THEN SubSeq(s, Len(s) - n + 1, Len(s)) ELSE s

Record(t) ==
    /\ pc[t] = "record" /\ lock = None
    /\ lock' = t
    /\ events' = LastOf(Append(events, Event(t)), RingSize)
    /\ log' = Append(log, Event(t))
    /\ pc' = [pc EXCEPT ![t] = "count"]
    /\ UNCHANGED <<variant, finite, methods, errors, req, pos, out, reply, served>>

LockAfter_Kept(t) == lock
LockAfter(t) == None

CountedErrors(t) ==
    IF Event(t).ok THEN errors ELSE errors (+) SetToBag({Event(t).method})

Count(t) ==
    /\ pc[t] = "count"
    /\ methods' = methods (+) SetToBag({Event(t).method})
    /\ errors' = CountedErrors(t)
    /\ lock' = LockAfter(t)
    /\ pc' = [pc EXCEPT ![t] = "item"]
    /\ UNCHANGED <<variant, finite, events, req, pos, out, reply, served, log>>

\* The sum of a counter: how many copies of how many names there are in it.
AllCopies(bag) == UNION {{name} \X (1..bag[name]) : name \in DOMAIN bag}
Total(bag) == Cardinality(AllCopies(bag))

\* RpcTrace.summary, for /debug.
Summary ==
    [total_calls |-> Total(methods), methods |-> methods, errors |-> errors,
     recent |-> LastOf(events, Recent)]

MayRead_Unlocked == TRUE
MayRead == lock = None

Summarize(t) ==
    /\ pc[t] = "item" /\ req[t].route = "debug" /\ MayRead
    /\ pc' = [pc EXCEPT ![t] = "idle"]
    /\ reply' = [reply EXCEPT ![t] = Reply(200, <<>>, Summary)]
    /\ UNCHANGED <<variant, finite, trace, req, pos, out, served, log>>

\* JSON has no infinity: a number that is not finite fails the whole reply.
Status(t) == IF \A i \in DOMAIN out[t] : out[t][i].encodes THEN 200 ELSE 500

Respond(t) ==
    /\ pc[t] = "item" /\ pos[t] > Len(req[t].items) /\ req[t].route # "debug"
    /\ pc' = [pc EXCEPT ![t] = "idle"]
    /\ reply' = [reply EXCEPT ![t] = Reply(Status(t), IF Status(t) = 200 THEN out[t] ELSE <<>>, None)]
    /\ UNCHANGED <<variant, finite, trace, req, pos, out, served, log>>

\* The poller updates the store; the charger may have sent an infinity.
Update == finite' \in BOOLEAN /\ UNCHANGED <<variant, trace, threads, served, log>>

-------------------------------------------------------------------------------

NoRequest == [route |-> "none", form |-> "none", items |-> <<>>]

Init ==
    /\ variant \in {"wire", "fastapi"}
    /\ finite = TRUE
    /\ events = <<>> /\ methods = EmptyBag /\ errors = EmptyBag /\ lock = None
    /\ pc = [t \in Threads |-> "idle"]
    /\ req = [t \in Threads |-> NoRequest]
    /\ pos = [t \in Threads |-> 1]
    /\ out = [t \in Threads |-> <<>>]
    /\ reply = [t \in Threads |-> None]
    /\ served = 0
    /\ log = <<>>

Step(t) == Skip(t) \/ Abort(t) \/ Call(t) \/ Count(t) \/ Respond(t)
WithLock(t) == Record(t) \/ Summarize(t)

Next ==
    \/ \E t \in Threads : Step(t) \/ WithLock(t) \/ \E r \in Requests : Arrive(t, r)
    \/ Update

\* A thread that can go on does; the lock is not denied to one that waits for it.
Spec == Init /\ [][Next]_vars /\ \A t \in Threads : WF_vars(Step(t)) /\ SF_vars(WithLock(t))

-------------------------------------------------------------------------------
(* Properties. *)

Kinds == {"invalid", "KeyError", "Exception", "result"}
Names == STRING \cup {"<missing>"}
Answers == [id : Nat \cup {None}, name : Names, kind : Kinds, encodes : BOOLEAN]
Events == [by : Threads, method : Names, ok : BOOLEAN]

\* Copies of a name in a counter.
Copies(name, bag) == IF name \in DOMAIN bag THEN bag[name] ELSE 0

\* Every variable has its type; who is between the two parts of record() has the
\* lock, and no method has failed more often than it was called.
TypeOK ==
    /\ variant \in {"wire", "fastapi"} /\ finite \in BOOLEAN /\ served \in 0..MaxRequests
    /\ events \in Seq(Events) /\ log \in Seq(Events)
    /\ lock \in Threads \cup {None}
    /\ pc \in [Threads -> PcStates] /\ req \in [Threads -> Requests \cup {NoRequest}]
    /\ pos \in [Threads -> Nat] /\ out \in [Threads -> Seq(Answers)]
    /\ \A t \in Threads :
        /\ pos[t] \in 1..(Len(req[t].items) + 1)
        /\ (pc[t] = "count") = (lock = t)
        /\ reply[t] # None => reply[t].status \in {200, 400, 500} /\ reply[t].answers \in Seq(Answers)
    /\ IsABag(methods) /\ IsABag(errors)
    /\ \A name \in DOMAIN errors : Copies(name, errors) <= Copies(name, methods)

Done(t) == pc[t] = "idle" /\ reply[t] # None
Ok(t) == Done(t) /\ reply[t].status = 200

\* Does f enumerate the numbers of S in their order?
InOrder(f, S) ==
    /\ \A n \in S : \E i \in DOMAIN f : f[i] = n
    /\ \A i, k \in DOMAIN f : i < k => f[i] < f[k]

\* The items that are answered, by number.
Asked(r) == {n \in DOMAIN r.items : ~Skipped(r, r.items[n])}

Known(item) == Canonical(item.method) \in Methods

\* In a batch that is answered, the n-th answer is to the n-th item asked, under its
\* id: a result if the method is one of the device's and an error if not, whatever
\* the items before it were.  It fails as a whole only for an item that is no
\* object or a number JSON cannot hold (rpc.py:83-89, wire_server.py:205-227).
AnswersLineUp ==
    \A t \in Threads :
        LET r == req[t]
            answers == reply[t].answers
        IN  /\ Ok(t) /\ Refusal(r) = None /\ r.route # "debug" =>
                \E to \in [DOMAIN answers -> Asked(r)] :
                    /\ InOrder(to, Asked(r))
                    /\ \A i \in DOMAIN answers :
                        /\ r.route = "post" => answers[i].id = r.items[to[i]].id
                        /\ r.route # "shelly" =>
                            (answers[i].kind \in {"result", "Exception"}) = Known(r.items[to[i]])
            /\ Done(t) /\ reply[t].status = 500 =>
                \/ r.form = "malformed"
                \/ r.form = "scalar" /\ r.route = "get_batch"
                \/ r.route = "post" /\ \E i \in DOMAIN r.items : ~r.items[i].object
                \/ \E i \in DOMAIN out[t] : ~out[t][i].encodes

Calls(s, name) == {i \in DOMAIN s : s[i].method = name}
Failures(s, name) == {i \in Calls(s, name) : ~s[i].ok}

\* Two counters hold the calls and the failures of s, and nothing else.
CountsAre(calls, failures, s) ==
    \A name \in DOMAIN calls \cup DOMAIN failures \cup {s[i].method : i \in DOMAIN s} :
        /\ Copies(name, calls) = Cardinality(Calls(s, name))
        /\ Copies(name, failures) = Cardinality(Failures(s, name))

\* The trace and what /debug shows of it are of one instant: the counters count
\* exactly the calls up to it, and the events are its last ones (trace.py:30-56).
TraceIsOneInstant ==
    /\ lock = None => events = LastOf(log, RingSize) /\ CountsAre(methods, errors, log)
    /\ \A t \in Threads :
        Done(t) /\ reply[t].summary # None =>
            LET s == reply[t].summary
                past == SubSeq(log, 1, s.total_calls)
            IN  /\ s.total_calls \in 0..Len(log)
                /\ s.recent = LastOf(past, Recent)
                /\ CountsAre(s.methods, s.errors, past)

\* The trace holds the calls made for a request, each once, in their order, and as a
\* success exactly when it gave a result: when a request is done, its thread's events
\* from some point on are its answers.  A reply that succeeds holds just these answers
\* (rpc.py:45-81).  Of a reply that fails as a whole, for an item that is no object or
\* a number JSON cannot hold, the trace says the same, though its client is told none
\* of them (rpc.py:89, wire_server.py:169).
AnswersAreTraced ==
    \A t \in Threads :
        Done(t) =>
            /\ \E first \in 1..(Len(log) + 1) :
                LET own == {n \in first..Len(log) : log[n].by = t}
                IN  \E at \in [DOMAIN out[t] -> own] :
                        /\ InOrder(at, own)
                        /\ \A i \in DOMAIN out[t] :
                            log[at[i]] = [by |-> t, method |-> out[t][i].name,
                                          ok |-> out[t][i].kind = "result"]
            /\ Ok(t) => reply[t].answers = out[t]

\* Every request is answered, whoever writes or reads the trace beside it
\* (trace.py:31, 50).
RequestsEnd == \A t \in Threads : pc[t] # "idle" ~> pc[t] = "idle"
===============================================================================

------------------------------ MODULE SdkClient ------------------------------
(***************************************************************************)
(* Calls of the TypeScript SDK over an unreliable network.  Each call is   *)
(* one promise: it checks its input, sends a request through ky, may send  *)
(* a read again, and ends with a value or an error.  A connection can      *)
(* break at any moment; the server does not learn of it once it has handed *)
(* the request to the blocking pool.  The server's store is TtlMap.        *)
(*                                                                         *)
(* Requests carry no TTL, so the clock plays no part.  A key is a sequence *)
(* of symbols; a symbol such as "25" stands for two hexadecimal digits.    *)
(***************************************************************************)
EXTENDS KeyOps

CONSTANTS
  Calls,       \* SDK calls, each made at most once
  Threads,     \* bound: requests that are in the server's handlers at once
  Names,       \* keys that callers use
  RetryLimit,  \* SAFE_RETRY.limit
  NoCall, Nobody, Pending

VARIABLES
  data, op,    \* the server's store (TtlMap)
  serving,     \* the exchange <<call, try>> each handler works on
  net,         \* requests on their way to the server
  answers,     \* answers on their way back
  ask,         \* what each call asks for
  pc, tries,   \* its control state, and how often it has sent again
  result,      \* how it ended
  applied,     \* history: how often its request took effect
  logical,     \* history: the map as its callers see it, by name
  glimpsed     \* history: what a read's name held at the instants of the call

server  == <<data, op, serving>>
client  == <<ask, pc, tries, result>>
history == <<applied, logical, glimpsed>>
vars == <<server, net, answers, client, history>>

Store == INSTANCE TtlMap WITH now <- 0, MaxTime <- 0

-----------------------------------------------------------------------------
(* Keys on the wire *)

Escapes == [c \in {"%", "/"} |-> IF c = "%" THEN "25" ELSE "2F"]

\* encodeURIComponent
EncodeURIComponent(s) ==
  LET code(c) == IF c \in DOMAIN Escapes THEN <<"%", Escapes[c]>> ELSE <<c>>
      upTo[i \in 0..Len(s)] == IF i = 0 THEN <<>> ELSE upTo[i - 1] \o code(s[i])
  IN upTo[Len(s)]

\* percent_decode_str; a "%" that starts no escape stands for itself.
PercentDecode(s) ==
  LET Escaped(i) == /\ s[i] = "%" /\ i < Len(s)
                    /\ \E c \in DOMAIN Escapes : Escapes[c] = s[i + 1]
      from[i \in 1..Len(s) + 1] ==
        IF i > Len(s) THEN <<>>
        ELSE IF Escaped(i)
             THEN <<CHOOSE c \in DOMAIN Escapes : Escapes[c] = s[i + 1]>> \o from[i + 2]
             ELSE <<s[i]>> \o from[i + 1]
  IN from[1]

\* A key in a path: axum's Path decodes it, and parse_percent_encoded_key again.
PathKey(name) == PercentDecode(PercentDecode(EncodeURIComponent(name)))

\* A key in the body of a transaction.
BodyKey(name) == PercentDecode(EncodeURIComponent(name))

\* Names that mean the same key in a path as in a body, and each its own.
Faithful(names) ==
  \A m, n \in names : PathKey(n) = BodyKey(n) /\ (PathKey(m) = PathKey(n) => m = n)

ASSUME ClientAssumption ==
  /\ RetryLimit \in Nat
  /\ Nobody \notin Calls \X (0 .. RetryLimit)
  /\ Absent \notin Values /\ Absent \notin Int
  /\ \A n \in Names : PathKey(n) \in Keys /\ BodyKey(n) \in Keys

-----------------------------------------------------------------------------
(* What a caller can ask for *)

Reads == [method : {"get"}, key : Names, orNull : BOOLEAN]
Writes ==
  [method : {"put"}, key : Names, value : WriteValues]
    \cup [method : {"delete"}, key : Names]
    \cup [method : {"patch"}, key : Names, delta : Deltas]
    \cup [method : {"post"},
          items : UNION {[1..n -> [key : Names, value : WriteValues \cup {Absent}]] : n \in 0..MaxBatch}]

IsRead(c) == ask[c] \in Reads

\* encodeKey, serializeDelta and serializeTransaction reject some input.
Valid(r) == IF r.method = "post"
            THEN r.items # <<>> /\ \A i \in DOMAIN r.items : r.items[i].key # <<>>
            ELSE r.key # <<>> /\ (r.method = "patch" => r.delta # 0)

\* A stored entry without expiry, or none.
CellOf(v) == IF v = Absent THEN Absent ELSE [value |-> v, expires |-> NoExpiry]

\* The request the handler builds for the store.
StoreOp(r) ==
  CASE r.method = "put" ->
         [type |-> "apply", items |-> <<[key |-> PathKey(r.key), entry |-> CellOf(r.value)]>>]
    [] r.method = "delete" -> [type |-> "delete", key |-> PathKey(r.key)]
    [] r.method = "patch" -> [type |-> "increment", key |-> PathKey(r.key), delta |-> r.delta,
                              expires |-> NoExpiry, at |-> 0]
    [] r.method = "post" ->
         [type |-> "apply",
          items |-> [i \in DOMAIN r.items |-> [key |-> BodyKey(r.items[i].key),
                                               entry |-> CellOf(r.items[i].value)]]]

\* The last item of a transaction on a name, if it has one, and the map by name
\* after a write took effect.
LastItem(r, n) ==
  {i \in DOMAIN r.items : /\ r.items[i].key = n
                          /\ \A j \in DOMAIN r.items : r.items[j].key = n => j <= i}
LogicalAfter(r) ==
  [n \in Names |->
     IF r.method = "post"
     THEN IF LastItem(r, n) = {} THEN logical[n]
          ELSE r.items[CHOOSE i \in LastItem(r, n) : TRUE].value
     ELSE IF n # r.key THEN logical[n]
     ELSE CASE r.method = "put" -> r.value
            [] r.method = "delete" -> Absent
            [] r.method = "patch" -> (IF logical[n] \in Int THEN logical[n] ELSE 0) + r.delta]

-----------------------------------------------------------------------------
(* The client *)

Init ==
  /\ Store!Init
  /\ serving = [t \in Threads |-> Nobody]
  /\ net = {} /\ answers = {}
  /\ ask = [c \in Calls |-> NoCall]
  /\ pc = [c \in Calls |-> "idle"]
  /\ tries = [c \in Calls |-> 0]
  /\ result = [c \in Calls |-> Pending]
  /\ applied = [c \in Calls |-> 0]
  /\ logical = [n \in Names |-> Absent]
  /\ glimpsed = [c \in Calls |-> {}]

Exchange(c) == <<c, tries[c]>>

\* The answer a call is waiting for, if it has arrived; no other one reaches it.
ToCall(c) == {a \in answers : a.call = c}

End(c, kind, value) ==
  /\ pc' = [pc EXCEPT ![c] = "ended"]
  /\ result' = [result EXCEPT ![c] = [kind |-> kind, value |-> value]]
  /\ UNCHANGED <<ask, tries>>

\* A call of the SDK checks its input and sends its request.
Begin(c) ==
  /\ pc[c] = "idle"
  /\ \E r \in Reads \cup Writes :
       /\ ask' = [ask EXCEPT ![c] = r]
       /\ \/ /\ Valid(r)
             /\ net' = net \cup {Exchange(c)}
             /\ pc' = [pc EXCEPT ![c] = "waiting"]
             /\ UNCHANGED result
          \/ /\ ~Valid(r)
             /\ pc' = [pc EXCEPT ![c] = "ended"]
             /\ result' = [result EXCEPT ![c] = [kind |-> "validation", value |-> Absent]]
             /\ UNCHANGED net
       /\ glimpsed' = [glimpsed EXCEPT ![c] = IF r \in Reads THEN {logical[r.key]} ELSE {}]
  /\ UNCHANGED <<server, answers, tries, applied, logical>>

\* Mutants: writes are retried like reads; one retry too many.
LimitForAll(c) == RetryLimit
LimitPlusOne(c) == IF IsRead(c) THEN RetryLimit + 1 ELSE 0

\* SAFE_RETRY is for get and head only; writeRequestOptions forces NO_RETRY.
Limit(c) == IF IsRead(c) THEN RetryLimit ELSE 0

\* A failed attempt is repeated after a pause, or ends the call.
RetryOr(c, kind) ==
  \/ /\ tries[c] < Limit(c)
     /\ pc' = [pc EXCEPT ![c] = "pause"]
     /\ UNCHANGED <<ask, tries, result>>
  \/ /\ tries[c] >= Limit(c)
     /\ End(c, kind, Absent)

\* Mutant: the retries are not counted.
ResendUncounted(c) ==
  /\ pc[c] = "pause"
  /\ pc' = [pc EXCEPT ![c] = "waiting"]
  /\ net' = net \cup {Exchange(c)}
  /\ UNCHANGED <<server, answers, ask, tries, result, history>>

Resend(c) ==
  /\ pc[c] = "pause"
  /\ pc' = [pc EXCEPT ![c] = "waiting"]
  /\ tries' = [tries EXCEPT ![c] = @ + 1]
  /\ net' = net \cup {<<c, tries[c] + 1>>}
  /\ UNCHANGED <<server, answers, ask, result, history>>

\* Mutant: every HTTP error counts as a missing key.
IsNotFoundAny(status) == TRUE

\* isNotFoundError
IsNotFound(status) == status = "missing"

\* The answer arrives.  The OrNull reads turn a 404 into null; ky throws an
\* HTTPError for other failures, after retrying a read on 408, 429 and 5xx.
Receive(c) ==
  /\ pc[c] = "waiting"
  /\ \E a \in ToCall(c) :
       /\ answers' = answers \ {a}
       /\ \/ a.status = "ok" /\ End(c, "ok", a.value)
          \/ a.status = "busy" /\ RetryOr(c, "http")
          \/ /\ a.status \in {"missing", "refused"}
             /\ End(c, IF IsRead(c) /\ ask[c].orNull /\ IsNotFound(a.status) THEN "ok" ELSE "http",
                    Absent)
  /\ UNCHANGED <<server, net, history>>

\* Mutant: a broken connection is reported as an answer of the server.
NetworkErrorAsAnswer(c) ==
  /\ pc[c] = "waiting"
  /\ RetryOr(c, "http")
  /\ answers' = answers \ ToCall(c)
  /\ UNCHANGED <<server, net, history>>

\* fetch fails, at whatever point the exchange is.
NetworkError(c) ==
  /\ pc[c] = "waiting"
  /\ RetryOr(c, "network")
  /\ answers' = answers \ ToCall(c)
  /\ UNCHANGED <<server, net, history>>

\* ky's timer; a timeout is not retried.
Timeout(c) ==
  /\ pc[c] \in {"waiting", "pause"}
  /\ End(c, "timeout", Absent)
  /\ answers' = answers \ ToCall(c)
  /\ UNCHANGED <<server, net, history>>

-----------------------------------------------------------------------------
(* The network and the server *)

LoseRequest ==
  /\ \E m \in net : net' = net \ {m}
  /\ UNCHANGED <<server, answers, client, history>>

\* An answer goes to the call if its connection is still open.
Reply(m, status, value) ==
  answers' = IF pc[m[1]] = "waiting" /\ m = Exchange(m[1])
             THEN answers \cup {[call |-> m[1], status |-> status, value |-> value]}
             ELSE answers

\* The rate limiter, the auth extractor or the parser answers: 429 or 4xx.
Refuse ==
  /\ \E m \in net, status \in {"busy", "refused"} :
       net' = net \ {m} /\ Reply(m, status, Absent)
  /\ UNCHANGED <<server, client, history>>

\* A handler passes the request to the blocking pool (spawn_usecase).
Accept(t) ==
  /\ serving[t] = Nobody
  /\ \E m \in net :
       /\ net' = net \ {m}
       /\ serving' = [serving EXCEPT ![t] = m]
       /\ op' = [op EXCEPT ![t] = IF IsRead(m[1]) THEN NoOp ELSE StoreOp(ask[m[1]])]
  /\ UNCHANGED <<data, answers, client, history>>

Done(t) == serving[t] # Nobody /\ serving' = [serving EXCEPT ![t] = Nobody]

ServeRead(t) ==
  /\ Done(t) /\ IsRead(serving[t][1])
  /\ LET cell == data[PathKey(ask[serving[t][1]].key)]
     IN IF cell = Absent THEN Reply(serving[t], "missing", Absent)
                         ELSE Reply(serving[t], "ok", cell.value)
  /\ UNCHANGED <<data, op, net, client, history>>

\* delete answers 404 for a key that is not there.
Finds(o) == o.type = "delete" => data[o.key] # Absent

ServeWrite(t) ==
  /\ Done(t) /\ ~IsRead(serving[t][1])
  /\ Finds(op[t])
  /\ Store!Apply(t)
  /\ LET c == serving[t][1] r == ask[c] IN
     /\ Reply(serving[t], "ok", IF r.method = "patch" THEN data'[PathKey(r.key)].value ELSE Absent)
     /\ applied' = [applied EXCEPT ![c] = @ + 1]
     /\ logical' = LogicalAfter(r)
     /\ glimpsed' = [d \in Calls |-> IF IsRead(d) /\ pc[d] # "ended"
                                     THEN glimpsed[d] \cup {logical'[ask[d].key]} ELSE glimpsed[d]]
  /\ UNCHANGED <<net, client>>

\* The use case fails without effect: a counter that cannot take the delta
\* (400), a missing key (404), an I/O error or a panic (500).
Failure(t) ==
  /\ Done(t)
  /\ op' = [op EXCEPT ![t] = NoOp]
  /\ \/ Reply(serving[t], "busy", Absent)
     \/ /\ op[t] # NoOp /\ ~Finds(op[t])
        /\ Reply(serving[t], "missing", Absent)
     \/ /\ op[t] # NoOp /\ op[t].type = "increment"
        /\ ~CanIncrement(CounterBase(data[op[t].key], 0), op[t].delta)
        /\ Reply(serving[t], "refused", Absent)
  /\ UNCHANGED <<data, net, client, history>>

\* The server stops and is started again.
Crash ==
  /\ \E t \in Threads : serving[t] # Nobody
  /\ serving' = [t \in Threads |-> Nobody]
  /\ op' = [t \in Threads |-> NoOp]
  /\ UNCHANGED <<data, net, answers, client, history>>

Next ==
  \/ \E c \in Calls : Begin(c) \/ Resend(c) \/ Receive(c) \/ NetworkError(c) \/ Timeout(c)
  \/ \E t \in Threads : Accept(t) \/ ServeRead(t) \/ ServeWrite(t) \/ Failure(t)
  \/ LoseRequest \/ Refuse \/ Crash

Spec == Init /\ [][Next]_vars

\* ky's timers fire; nothing is assumed of the network or the server.  The
\* timer is taken to be started anew by every attempt.
FairSpec ==
  /\ Spec
  /\ \A c \in Calls : /\ WF_vars(Resend(c))
                      /\ WF_vars(pc[c] = "waiting" /\ Timeout(c))

-----------------------------------------------------------------------------
(* Properties *)

\* Types, and the bound on retries.
TypeOK ==
  /\ data \in [Keys -> Cell]
  /\ \A t \in Threads : op[t] = NoOp \/ op[t] \in Ops
  /\ serving \in [Threads -> {Nobody} \cup (Calls \X (0..RetryLimit))]
  /\ net \subseteq Calls \X (0..RetryLimit)
  /\ pc \in [Calls -> {"idle", "waiting", "pause", "ended"}]
  /\ \A c \in Calls : \A a, b \in ToCall(c) : a = b

Ended(c, kinds) == pc[c] = "ended" /\ result[c].kind \in kinds

\* "Counter increments and transactions are never retried by the SDK default
\* path" (README.md of the SDK): whatever is lost and whoever gives up, a write
\* takes effect at most once.
WriteAtMostOnce == \A c \in Calls : applied[c] <= 1

\* What a write reports is so: after a success it has taken effect, and after
\* an error the server answered, or a rejected input, it has not and never
\* will.  Only a timeout and a broken connection leave it open.
OutcomeTruthful ==
  \A c \in Calls : ~IsRead(c) => /\ Ended(c, {"ok"}) => applied[c] = 1
                                 /\ Ended(c, {"http", "validation"}) => applied[c] = 0

\* "Keys are logical strings" (README.md of the SDK): a read that returns a
\* value or null returns what its name held at some instant of the call.
ReadTruthful ==
  \A c \in Calls : IsRead(c) /\ Ended(c, {"ok"}) => result[c].value \in glimpsed[c]

\* Every call ends, even if the server never answers.
EveryCallEnds == \A c \in Calls : pc[c] # "idle" ~> pc[c] = "ended"
=============================================================================

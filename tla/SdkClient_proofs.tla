--------------------------- MODULE SdkClient_proofs ---------------------------
(***************************************************************************)
(* Calls of the SDK, for any number of calls, server threads, names and    *)
(* retries, any network and any crash of the server.                       *)
(***************************************************************************)
EXTENDS SdkClient, KeyOps_proofs

USE SMTT(60), ZenonT(60)

-----------------------------------------------------------------------------
(* Exchanges: where a request may be *)

Pairs == Calls \X (0 .. RetryLimit)

\* The exchange is on its way to the server or in one of its handlers.
Under(m) == m \in net \/ \E t \in Threads : serving[t] = m

Silent(c) == \A k \in 0 .. RetryLimit : ~Under(<<c, k>>)

\* An exchange is in one place at a time.
Places ==
  /\ net \subseteq Pairs
  /\ serving \in [Threads -> {Nobody} \cup Pairs]
  /\ \A t \in Threads : serving[t] \notin net
  /\ \A t, u \in Threads : serving[t] = serving[u] /\ t # u => serving[t] = Nobody

CallsTyped ==
  /\ pc \in [Calls -> {"idle", "waiting", "pause", "ended"}]
  /\ tries \in [Calls -> 0 .. RetryLimit]
  /\ DOMAIN ask = Calls /\ DOMAIN result = Calls
  /\ applied \in [Calls -> {0, 1}]

\* A write has one exchange, and once it took effect none; an answer comes
\* after its exchange is over and says what became of it.
Sound(c) ==
  /\ pc[c] = "idle" => Silent(c) /\ tries[c] = 0 /\ applied[c] = 0
  /\ pc[c] # "idle" => ask[c] \in Reads \cup Writes
  /\ \A k \in 0 .. RetryLimit : Under(<<c, k>>) => k <= tries[c] /\ Valid(ask[c])
  /\ IF IsRead(c) THEN applied[c] = 0 ELSE tries[c] = 0 /\ pc[c] # "pause"
  /\ pc[c] = "pause" => tries[c] < RetryLimit
  /\ pc[c] \in {"waiting", "pause"} => Valid(ask[c])
  /\ applied[c] = 1 => Silent(c)
  /\ \A a \in ToCall(c) : /\ pc[c] = "waiting" /\ ~Under(Exchange(c)) /\ ToCall(c) = {a}
                          /\ ~IsRead(c) => (a.status = "ok" <=> applied[c] = 1)
  /\ ~IsRead(c) /\ pc[c] = "ended" =>
       /\ result[c].kind = "ok" => applied[c] = 1
       /\ result[c].kind \in {"http", "validation"} => applied[c] = 0 /\ Silent(c)

ExchangeInv == Places /\ CallsTyped /\ \A c \in Calls : Sound(c)

\* The exchanges under way after a step were under way before it.
Shrinks == \A d \in Calls, k \in 0 .. RetryLimit : Under(<<d, k>>)' => Under(<<d, k>>)

\* Requests that get lost, are accepted or die with the server leave the calls
\* as they are.
LEMMA ShrinkSound ==
  ASSUME ExchangeInv, UNCHANGED <<client, answers, applied>>, Shrinks
  PROVE  CallsTyped' /\ \A c \in Calls : Sound(c)'
  <1>1. UNCHANGED <<ask, pc, tries, result, answers, applied>>
    BY Zenon DEF client
  <1>2. CallsTyped'
    BY <1>1, Zenon DEF ExchangeInv, CallsTyped
  <1>3. ASSUME NEW c \in Calls PROVE Sound(c)'
    <2>1. Sound(c) /\ tries[c] \in 0 .. RetryLimit
      BY Zenon DEF ExchangeInv, CallsTyped
    <2>2. Silent(c) => Silent(c)'
      BY Zenon DEF Silent, Shrinks
    <2>3. Exchange(c)' = Exchange(c) /\ ToCall(c)' = ToCall(c) /\ IsRead(c)' = IsRead(c)
      BY <1>1, Zenon DEF Exchange, ToCall, IsRead
    <2>4. ~Under(Exchange(c)) => ~Under(Exchange(c))'
      BY <2>1, <2>3, Zenon DEF Shrinks, Exchange
    <2>5. \A k \in 0 .. RetryLimit : Under(<<c, k>>)' => k <= tries[c] /\ Valid(ask[c])
      BY <2>1, Zenon DEF Sound, Shrinks
    <2>. QED BY <1>1, <2>1, <2>2, <2>3, <2>4, <2>5, Zenon DEF Sound
  <1>. QED BY <1>2, <1>3, Zenon

\* An exchange ends with an answer, which reaches the call if it still waits.
LEMMA AnswerSound ==
  ASSUME ExchangeInv, UNCHANGED client, Shrinks,
         NEW m \in Pairs, Under(m), ~Under(m)', NEW status, NEW value, Reply(m, status, value),
         \/ applied' = applied /\ (status # "ok" \/ IsRead(m[1]))
         \/ ~IsRead(m[1]) /\ status = "ok" /\ applied' = [applied EXCEPT ![m[1]] = @ + 1]
  PROVE  CallsTyped' /\ \A c \in Calls : Sound(c)'
  <1> DEFINE e == m[1]
  <1>1. UNCHANGED <<ask, pc, tries, result>>
    BY Zenon DEF client
  <1>2. e \in Calls /\ m[2] \in 0 .. RetryLimit /\ m = <<e, m[2]>> /\ Sound(e)
    BY DEF Pairs, ExchangeInv
  <1>3. m[2] <= tries[e] /\ Valid(ask[e]) /\ ~Silent(e) /\ applied[e] = 0 /\ tries[e] \in 0 .. RetryLimit
    BY <1>2 DEF Sound, Silent, ExchangeInv, CallsTyped
  <1>4. ~IsRead(e) => m = Exchange(e) /\ tries[e] = 0
    BY <1>2, <1>3 DEF Sound, Exchange
  <1>5. m = Exchange(e) => ToCall(e) = {}
    BY <1>2, Zenon DEF Sound
  <1>6. /\ applied' \in [Calls -> {0, 1}]
        /\ \A c \in Calls \ {e} : applied'[c] = applied[c]
        /\ IF IsRead(e) THEN applied'[e] = 0 ELSE applied'[e] = 1 <=> status = "ok"
    BY <1>2, <1>3 DEF ExchangeInv, CallsTyped
  <1>7. CallsTyped'
    BY <1>1, <1>6, Zenon DEF ExchangeInv, CallsTyped
  <1> HIDE DEF e
  <1>8. ASSUME NEW c \in Calls PROVE Sound(c)'
    <2>1. Sound(c) /\ tries[c] \in 0 .. RetryLimit
      BY Zenon DEF ExchangeInv, CallsTyped
    <2>2. Silent(c) => Silent(c)'
      BY Zenon DEF Silent, Shrinks
    <2>3. Exchange(c)' = Exchange(c) /\ IsRead(c)' = IsRead(c)
      BY <1>1, Zenon DEF Exchange, IsRead
    <2>4. ~Under(Exchange(c)) => ~Under(Exchange(c))'
      BY <2>1, <2>3, Zenon DEF Shrinks, Exchange
    <2>5. \A k \in 0 .. RetryLimit : Under(<<c, k>>)' => k <= tries[c] /\ Valid(ask[c])
      BY <2>1, Zenon DEF Sound, Shrinks
    <2>6. CASE c # e
      <3>1. ToCall(c)' = ToCall(c)
        BY <2>6 DEF Reply, ToCall, e
      <3>. QED BY <1>1, <1>6, <2>1, <2>2, <2>3, <2>4, <2>5, <2>6, <3>1, Zenon DEF Sound
    <2>7. CASE c = e
      <3>1. ~IsRead(c) => Silent(c)'
        <4> SUFFICES ASSUME ~IsRead(c), NEW k \in 0 .. RetryLimit, Under(<<c, k>>)' PROVE FALSE
          BY Zenon DEF Silent
        <4>1. Under(<<c, k>>) /\ k <= tries[c]
          BY <2>1, Zenon DEF Shrinks, Sound
        <4>2. k = 0 /\ <<c, k>> = m
          BY <1>3, <1>4, <2>7, <4>1 DEF Exchange
        <4>. QED BY <4>2, Zenon
      <3>2. pc[c] # "idle"
        BY <1>3, <2>1, <2>7, Zenon DEF Sound
      <3>3. ASSUME NEW a \in ToCall(c)'
            PROVE  /\ pc[c] = "waiting" /\ ~Under(Exchange(c))' /\ ToCall(c)' = {a}
                   /\ ~IsRead(c) => (a.status = "ok" <=> applied'[c] = 1)
        <4>1. CASE pc[c] = "waiting" /\ m = Exchange(c)
          <5> DEFINE b == [call |-> c, status |-> status, value |-> value]
          <5>1. answers' = answers \cup {b}
            BY <2>7, <4>1, Zenon DEF Reply, e
          <5>2. ToCall(c)' = {b}
            BY <1>5, <2>7, <4>1, <5>1, Zenon DEF ToCall
          <5>3. a = b /\ a.status = status
            BY <3>3, <5>2
          <5>4. ~Under(Exchange(c))'
            BY <2>3, <4>1, Zenon
          <5>. QED BY <1>6, <2>7, <4>1, <5>2, <5>3, <5>4, Zenon
        <4>2. CASE ~(pc[c] = "waiting" /\ m = Exchange(c))
          <5>1. ToCall(c)' = ToCall(c)
            BY <2>7, <4>2, Zenon DEF Reply, ToCall, e
          <5>2. pc[c] = "waiting" /\ ~Under(Exchange(c)) /\ ToCall(c) = {a}
            BY <2>1, <3>3, <5>1, Zenon DEF Sound
          <5>3. IsRead(c)
            BY <1>4, <2>7, <5>2, Zenon
          <5>. QED BY <2>4, <5>1, <5>2, <5>3, Zenon
        <4>. QED BY <4>1, <4>2, Zenon
      <3>4. ~IsRead(c) /\ pc[c] = "ended" => result[c].kind \notin {"http", "validation", "ok"}
        BY <1>3, <2>1, <2>7, Zenon DEF Sound
      <3>. QED BY <1>1, <1>3, <1>6, <2>1, <2>2, <2>3, <2>5, <2>7, <3>1, <3>2, <3>3, <3>4, Zenon DEF Sound
    <2>. QED BY <2>6, <2>7, Zenon
  <1>. QED BY <1>7, <1>8, Zenon

\* A call ends or pauses: its answers, if any, are gone.
LEMMA LeaveSound ==
  ASSUME ExchangeInv, UNCHANGED <<net, serving, ask, tries, applied>>, NEW c \in Calls,
         pc[c] \in {"waiting", "pause"},
         \A d \in Calls \ {c} : pc'[d] = pc[d] /\ result'[d] = result[d] /\ ToCall(d)' = ToCall(d),
         ToCall(c)' = {}, CallsTyped', pc'[c] \in {"pause", "ended"},
         pc'[c] = "pause" => IsRead(c) /\ tries[c] < RetryLimit,
         ~IsRead(c) /\ pc'[c] = "ended" =>
           /\ result'[c].kind = "ok" => applied[c] = 1
           /\ result'[c].kind \in {"http", "validation"} => applied[c] = 0 /\ Silent(c)
  PROVE  ExchangeInv'
  <1>1. Places'
    BY Zenon DEF ExchangeInv, Places
  <1>2. \A m : Under(m)' <=> Under(m)
    BY Zenon DEF Under
  <1>3. ASSUME NEW d \in Calls PROVE Sound(d)'
    <2>1. Sound(d)
      BY Zenon DEF ExchangeInv
    <2>2. (Silent(d)' <=> Silent(d)) /\ Exchange(d)' = Exchange(d) /\ IsRead(d)' = IsRead(d)
      BY <1>2, Zenon DEF Silent, Exchange, IsRead
    <2>3. CASE d # c
      BY <1>2, <2>1, <2>2, <2>3, Zenon DEF Sound
    <2>4. CASE d = c
      BY <1>2, <2>1, <2>2, <2>4, Zenon DEF Sound
    <2>. QED BY <2>3, <2>4, Zenon
  <1>. QED BY <1>1, <1>3, Zenon DEF ExchangeInv

\* End and RetryOr on the variables of the call.
LEMMA Endings ==
  ASSUME ExchangeInv, NEW c \in Calls, NEW kind, NEW value,
         End(c, kind, value) \/ RetryOr(c, kind), UNCHANGED applied
  PROVE  /\ CallsTyped' /\ UNCHANGED <<ask, tries>>
         /\ \A d \in Calls \ {c} : pc'[d] = pc[d] /\ result'[d] = result[d]
         /\ \/ pc'[c] = "pause" /\ result'[c] = result[c] /\ IsRead(c) /\ tries[c] < RetryLimit
            \/ pc'[c] = "ended" /\ result'[c].kind = kind
  <1>0. CallsTyped
    BY Zenon DEF ExchangeInv
  <1>1. ASSUME NEW v, End(c, kind, v)
        PROVE  /\ CallsTyped' /\ UNCHANGED <<ask, tries>>
               /\ \A d \in Calls \ {c} : pc'[d] = pc[d] /\ result'[d] = result[d]
               /\ pc'[c] = "ended" /\ result'[c].kind = kind
    BY <1>0, <1>1, Zenon DEF End, CallsTyped
  <1>2. CASE tries[c] < Limit(c) /\ pc' = [pc EXCEPT ![c] = "pause"] /\ UNCHANGED <<ask, tries, result>>
    <2>1. IsRead(c) /\ tries[c] < RetryLimit
      BY <1>0, <1>2 DEF Limit, CallsTyped
    <2>. QED BY <1>0, <1>2, <2>1, Zenon DEF CallsTyped
  <1>. QED BY <1>1, <1>2, Zenon DEF RetryOr

\* What receive makes of an answer agrees with what the server did.
LEMMA ReceiveSound ==
  ASSUME ExchangeInv, NEW c \in Calls, Receive(c)
  PROVE  ExchangeInv'
  <1>0. Sound(c) /\ pc[c] = "waiting" /\ UNCHANGED <<net, serving, applied>>
    BY Zenon DEF Receive, ExchangeInv, server, history
  <1>1. PICK a \in ToCall(c) :
          /\ answers' = answers \ {a}
          /\ \/ a.status = "ok" /\ End(c, "ok", a.value)
             \/ a.status = "busy" /\ RetryOr(c, "http")
             \/ /\ a.status \in {"missing", "refused"}
                /\ End(c, IF IsRead(c) /\ ask[c].orNull /\ IsNotFound(a.status) THEN "ok" ELSE "http", Absent)
    BY Zenon DEF Receive
  <1>2. ToCall(c) = {a} /\ (~IsRead(c) => (a.status = "ok" <=> applied[c] = 1)) /\ ~Under(Exchange(c))
    BY <1>0, <1>1, Zenon DEF Sound
  <1>3. ToCall(c)' = {} /\ \A d \in Calls \ {c} : ToCall(d)' = ToCall(d)
    BY <1>1, <1>2, Zenon DEF ToCall
  <1>4. PICK kind, value : /\ End(c, kind, value) \/ RetryOr(c, kind)
                           /\ ~IsRead(c) => (kind = "ok" /\ a.status = "ok") \/ (kind = "http" /\ a.status # "ok")
    BY <1>1, Zenon
  <1>5. ~IsRead(c) => Silent(c)
    <2> SUFFICES ASSUME ~IsRead(c), NEW k \in 0 .. RetryLimit, Under(<<c, k>>) PROVE FALSE
      BY Zenon DEF Silent
    <2>1. k = 0 /\ tries[c] = 0
      BY <1>0 DEF Sound
    <2>. QED BY <1>2, <2>1, Zenon DEF Exchange
  <1>6. applied[c] \in {0, 1}
    BY Zenon DEF ExchangeInv, CallsTyped
  <1>. QED BY <1>0, <1>2, <1>3, <1>4, <1>5, <1>6, Endings, LeaveSound, Zenon

\* A timeout or a broken connection claims nothing of a write.
LEMMA GiveUpSound ==
  ASSUME ExchangeInv, NEW c \in Calls, NetworkError(c) \/ Timeout(c)
  PROVE  ExchangeInv'
  <1>1. /\ pc[c] \in {"waiting", "pause"} /\ UNCHANGED <<net, serving, applied>>
        /\ answers' = answers \ ToCall(c)
    BY Zenon DEF NetworkError, Timeout, server, history
  <1>2. PICK kind \in {"network", "timeout"} : End(c, kind, Absent) \/ RetryOr(c, kind)
    BY Zenon DEF NetworkError, Timeout
  <1>3. ToCall(c)' = {} /\ \A d \in Calls \ {c} : ToCall(d)' = ToCall(d)
    BY <1>1, Zenon DEF ToCall
  <1>. QED BY <1>1, <1>2, <1>3, Endings, LeaveSound, Zenon

\* A request is sent: the exchange of a call that has none like it.
LEMMA SendPlaces ==
  ASSUME Places, NEW m \in Pairs, ~Under(m), net' = net \cup {m}, UNCHANGED serving
  PROVE  Places' /\ \A x : Under(x)' <=> Under(x) \/ x = m
  <1>1. \A x : Under(x)' <=> Under(x) \/ x = m
    BY Zenon DEF Under
  <1>. QED BY <1>1, ClientAssumption, Zenon DEF Places, Under, Pairs

\* A call begins with nothing applied.
LEMMA BeginSound ==
  ASSUME ExchangeInv, NEW c \in Calls, Begin(c)
  PROVE  ExchangeInv'
  <1>0. Places /\ CallsTyped /\ Sound(c) /\ pc[c] = "idle" /\ UNCHANGED <<serving, answers, tries, applied>>
    BY Zenon DEF Begin, ExchangeInv, server
  <1>1. PICK r \in Reads \cup Writes :
          /\ ask' = [ask EXCEPT ![c] = r]
          /\ \/ /\ Valid(r) /\ net' = net \cup {Exchange(c)}
                /\ pc' = [pc EXCEPT ![c] = "waiting"] /\ UNCHANGED result
             \/ /\ ~Valid(r) /\ pc' = [pc EXCEPT ![c] = "ended"]
                /\ result' = [result EXCEPT ![c] = [kind |-> "validation", value |-> Absent]]
                /\ UNCHANGED net
    BY Zenon DEF Begin
  <1>2. Silent(c) /\ tries[c] = 0 /\ applied[c] = 0 /\ ToCall(c) = {} /\ 0 \in 0 .. RetryLimit
    BY <1>0, Zenon DEF Sound, CallsTyped
  <1>3. \A d \in Calls : ToCall(d)' = ToCall(d) /\ Exchange(d)' = Exchange(d)
    BY <1>0, Zenon DEF ToCall, Exchange
  <1>4. /\ CallsTyped' /\ ask'[c] = r
        /\ \A d \in Calls \ {c} : pc'[d] = pc[d] /\ result'[d] = result[d] /\ ask'[d] = ask[d]
    BY <1>0, <1>1, Zenon DEF CallsTyped
  <1>5. CASE Valid(r)
    <2> DEFINE m == <<c, 0>>
    <2>1. m \in Pairs /\ ~Under(m) /\ net' = net \cup {m} /\ pc'[c] = "waiting" /\ result' = result
      BY <1>0, <1>1, <1>2, <1>5, Zenon DEF Pairs, Silent, Exchange, CallsTyped
    <2>2. Places' /\ \A x : Under(x)' <=> Under(x) \/ x = m
      BY <1>0, <2>1, SendPlaces, Zenon
    <2>3. ASSUME NEW d \in Calls \ {c} PROVE Sound(d)'
      <3>1. \A k : Under(<<d, k>>)' <=> Under(<<d, k>>)
        BY <2>2, Zenon
      <3>2. (Silent(d)' <=> Silent(d)) /\ (Under(Exchange(d))' <=> Under(Exchange(d))) /\ IsRead(d)' = IsRead(d)
        BY <1>3, <1>4, <3>1, Zenon DEF Silent, Exchange, IsRead
      <3>. QED BY <1>0, <1>3, <1>4, <3>1, <3>2 DEF ExchangeInv, Sound
    <2>4. Sound(c)'
      <3>1. \A k \in 0 .. RetryLimit : Under(<<c, k>>)' => k = 0
        BY <1>2, <2>2, Zenon DEF Silent
      <3>. QED BY <1>0, <1>2, <1>3, <1>4, <1>5, <2>1, <3>1 DEF Sound
    <2>. QED BY <1>4, <2>2, <2>3, <2>4, Zenon DEF ExchangeInv
  <1>6. CASE ~Valid(r)
    <2>1. net' = net /\ pc'[c] = "ended"
      BY <1>0, <1>1, <1>6, Zenon DEF CallsTyped
    <2>2. Places' /\ \A x : Under(x)' <=> Under(x)
      BY <1>0, <2>1, Zenon DEF Places, Under
    <2>3. ASSUME NEW d \in Calls \ {c} PROVE Sound(d)'
      <3>1. (Silent(d)' <=> Silent(d)) /\ (Under(Exchange(d))' <=> Under(Exchange(d))) /\ IsRead(d)' = IsRead(d)
        BY <1>3, <1>4, <2>2, Zenon DEF Silent, IsRead
      <3>. QED BY <1>0, <1>3, <1>4, <2>2, <3>1 DEF ExchangeInv, Sound
    <2>4. Silent(c)' /\ result'[c].kind = "validation"
      BY <1>0, <1>1, <1>2, <1>6, <2>2 DEF Silent, CallsTyped
    <2>5. Sound(c)'
      BY <1>0, <1>2, <1>3, <1>4, <2>1, <2>4, Zenon DEF Sound, Silent
    <2>. QED BY <1>4, <2>2, <2>3, <2>5, Zenon DEF ExchangeInv
  <1>. QED BY <1>5, <1>6, Zenon

\* Only a call that changes nothing is sent again.
LEMMA ResendSound ==
  ASSUME ExchangeInv, NEW c \in Calls, Resend(c)
  PROVE  ExchangeInv'
  <1>0. /\ Places /\ CallsTyped /\ Sound(c) /\ pc[c] = "pause" /\ RetryLimit \in Nat
        /\ UNCHANGED <<serving, answers, ask, result, applied>>
        /\ pc' = [pc EXCEPT ![c] = "waiting"] /\ tries' = [tries EXCEPT ![c] = @ + 1]
        /\ net' = net \cup {<<c, tries[c] + 1>>}
    BY ClientAssumption, Zenon DEF Resend, ExchangeInv, server, history
  <1> DEFINE m == <<c, tries[c] + 1>>
  <1>1. /\ tries[c] \in Nat /\ tries[c] + 1 \in 0 .. RetryLimit /\ IsRead(c) /\ ToCall(c) = {}
        /\ ask[c] \in Reads \cup Writes
    BY <1>0 DEF Sound, CallsTyped
  <1>2. m \in Pairs /\ ~Under(m)
    BY <1>0, <1>1 DEF Pairs, Sound
  <1>3. Places' /\ \A x : Under(x)' <=> Under(x) \/ x = m
    BY <1>0, <1>2, SendPlaces, Zenon
  <1>4. /\ CallsTyped' /\ tries'[c] = tries[c] + 1 /\ pc'[c] = "waiting"
        /\ \A d \in Calls \ {c} : pc'[d] = pc[d] /\ tries'[d] = tries[d]
    BY <1>0, <1>1, Zenon DEF CallsTyped
  <1>5. \A d \in Calls : ToCall(d)' = ToCall(d) /\ IsRead(d)' = IsRead(d)
    BY <1>0, Zenon DEF ToCall, IsRead
  <1>6. ASSUME NEW d \in Calls \ {c} PROVE Sound(d)'
    <2>1. \A k : Under(<<d, k>>)' <=> Under(<<d, k>>)
      BY <1>3, Zenon
    <2>2. (Silent(d)' <=> Silent(d)) /\ (Under(Exchange(d))' <=> Under(Exchange(d)))
      BY <1>4, <2>1, Zenon DEF Silent, Exchange
    <2>. QED BY <1>0, <1>4, <1>5, <2>1, <2>2 DEF ExchangeInv, Sound
  <1>7. Sound(c)'
    <2>1. ASSUME NEW k \in 0 .. RetryLimit, Under(<<c, k>>)' PROVE k <= tries'[c] /\ Valid(ask[c])
      BY <1>0, <1>1, <1>3, <1>4, <2>1 DEF Sound
    <2>2. applied[c] = 0
      BY <1>0, <1>1, Zenon DEF Sound
    <2>. QED BY <1>0, <1>1, <1>4, <1>5, <2>1, <2>2 DEF Sound
  <1>. QED BY <1>3, <1>4, <1>6, <1>7, Zenon DEF ExchangeInv

\* A request leaves the network, or a handler is done with it.
LEMMA TakePlaces ==
  ASSUME Places, NEW m \in net, net' = net \ {m}, UNCHANGED serving
  PROVE  Places' /\ Shrinks /\ m \in Pairs /\ Under(m) /\ ~Under(m)'
  <1>1. \A x : Under(x)' => Under(x)
    BY Zenon DEF Under
  <1>2. Places' /\ m \in Pairs /\ Under(m) /\ ~Under(m)'
    BY Zenon DEF Places, Under
  <1>. QED BY <1>1, <1>2, Zenon DEF Shrinks

\* An exchange that ends is nowhere under way.
LEMMA DonePlaces ==
  ASSUME Places, NEW t \in Threads, Done(t), UNCHANGED net, NEW m, m = serving[t]
  PROVE  /\ Places' /\ Shrinks /\ m \in Pairs /\ Under(m) /\ ~Under(m)'
         /\ serving'[t] = Nobody /\ \A u \in Threads \ {t} : serving'[u] = serving[u]
  <1>1. /\ m \in Pairs /\ Nobody \notin Pairs /\ serving'[t] = Nobody
        /\ \A u \in Threads \ {t} : serving'[u] = serving[u]
        /\ serving' \in [Threads -> {Nobody} \cup Pairs]
    BY ClientAssumption, Zenon DEF Places, Done, Pairs
  <1>2. \A x \in Pairs : Under(x)' => Under(x)
    BY <1>1, Zenon DEF Under
  <1>3. Under(m)
    BY Zenon DEF Under
  <1>4. ~Under(m)'
    BY <1>1, Zenon DEF Places, Under
  <1>5. Places'
    BY <1>1, Zenon DEF Places
  <1>6. Shrinks
    BY <1>2, Zenon DEF Shrinks, Pairs
  <1>. QED BY <1>1, <1>3, <1>4, <1>5, <1>6, Zenon

\* The server takes over what the network carried.
LEMMA AcceptPlaces ==
  ASSUME Places, NEW t \in Threads, serving[t] = Nobody, NEW m \in net, net' = net \ {m},
         serving' = [serving EXCEPT ![t] = m]
  PROVE  Places' /\ Shrinks /\ m \in Pairs /\ serving'[t] = m
         /\ \A u \in Threads \ {t} : serving'[u] = serving[u]
  <1>1. /\ m \in Pairs /\ serving'[t] = m /\ \A u \in Threads \ {t} : serving'[u] = serving[u]
        /\ serving' \in [Threads -> {Nobody} \cup Pairs]
    BY Zenon DEF Places
  <1>2. \A x \in Pairs : Under(x)' => Under(x)
    BY <1>1, Zenon DEF Under
  <1>3. Places'
    BY <1>1, Zenon DEF Places
  <1>4. Shrinks
    BY <1>2, Zenon DEF Shrinks, Pairs
  <1>. QED BY <1>1, <1>3, <1>4, Zenon

\* A crash takes the requests that were being served.
LEMMA CrashPlaces ==
  ASSUME Places, Crash
  PROVE  Places' /\ Shrinks
  <1>1. net' = net /\ serving' = [t \in Threads |-> Nobody] /\ Nobody \notin Pairs
    BY ClientAssumption, Zenon DEF Crash, Pairs
  <1>2. Places'
    BY <1>1, Zenon DEF Places
  <1>3. \A x \in Pairs : Under(x)' => Under(x)
    BY <1>1, Zenon DEF Under
  <1>. QED BY <1>2, <1>3, Zenon DEF Shrinks, Pairs

\* No call has begun and nothing is under way.
LEMMA ExchangeInit == Init => ExchangeInv
  <1> SUFFICES ASSUME Init PROVE ExchangeInv
    BY Zenon
  <1>1. /\ serving = [t \in Threads |-> Nobody] /\ net = {} /\ answers = {}
        /\ pc = [c \in Calls |-> "idle"] /\ tries = [c \in Calls |-> 0] /\ applied = [c \in Calls |-> 0]
        /\ DOMAIN ask = Calls /\ DOMAIN result = Calls /\ RetryLimit \in Nat /\ Nobody \notin Pairs
    BY ClientAssumption, Zenon DEF Init, Pairs
  <1>2. Places
    BY <1>1, Zenon DEF Places
  <1>3. CallsTyped
    BY <1>1 DEF CallsTyped
  <1>4. ASSUME NEW c \in Calls PROVE Sound(c)
    <2>1. Silent(c)
      BY <1>1 DEF Silent, Under, Pairs
    <2>. QED BY <1>1, <2>1, Zenon DEF Sound, Silent, ToCall
  <1>. QED BY <1>2, <1>3, <1>4, Zenon DEF ExchangeInv

\* Every step keeps the invariant of the exchanges.
LEMMA ExchangeStep == ExchangeInv /\ [Next]_vars => ExchangeInv'
  <1> SUFFICES ASSUME ExchangeInv, [Next]_vars PROVE ExchangeInv'
    BY Zenon
  <1>0. Places
    BY Zenon DEF ExchangeInv
  <1>1. CASE UNCHANGED vars
    <2>1. UNCHANGED <<net, serving, answers, ask, pc, tries, result, applied>>
      BY <1>1, Zenon DEF vars, server, client, history
    <2>. QED BY <2>1 DEF ExchangeInv, Places, CallsTyped, Sound, Silent, Under, ToCall, Exchange, IsRead
  <1>2. ASSUME NEW c \in Calls, Begin(c) \/ Resend(c) \/ Receive(c) \/ NetworkError(c) \/ Timeout(c)
        PROVE  ExchangeInv'
    BY <1>2, BeginSound, ResendSound, ReceiveSound, GiveUpSound, Zenon
  <1>3. CASE LoseRequest
    <2>1. PICK m \in net : net' = net \ {m}
      BY <1>3, Zenon DEF LoseRequest
    <2>2. UNCHANGED serving /\ UNCHANGED <<client, answers, applied>>
      BY <1>3, Zenon DEF LoseRequest, server, history
    <2>3. Places' /\ Shrinks
      BY <1>0, <2>1, <2>2, TakePlaces, Zenon
    <2>. QED BY <2>2, <2>3, ShrinkSound, Zenon DEF ExchangeInv
  <1>4. CASE Refuse
    <2>1. PICK m \in net, status \in {"busy", "refused"} : net' = net \ {m} /\ Reply(m, status, Absent)
      BY <1>4, Zenon DEF Refuse
    <2>2. UNCHANGED serving /\ UNCHANGED client /\ applied' = applied
      BY <1>4, Zenon DEF Refuse, server, history
    <2>3. Places' /\ Shrinks /\ m \in Pairs /\ Under(m) /\ ~Under(m)'
      BY <1>0, <2>1, <2>2, TakePlaces, Zenon
    <2>4. status # "ok"
      BY <2>1, Zenon
    <2>. QED BY <2>1, <2>2, <2>3, <2>4, AnswerSound, Zenon DEF ExchangeInv
  <1>5. ASSUME NEW t \in Threads, Accept(t) PROVE ExchangeInv'
    <2>1. PICK m \in net : net' = net \ {m} /\ serving' = [serving EXCEPT ![t] = m]
      BY <1>5, Zenon DEF Accept
    <2>2. serving[t] = Nobody /\ UNCHANGED <<client, answers, applied>>
      BY <1>5, Zenon DEF Accept, history
    <2>3. Places' /\ Shrinks
      BY <1>0, <2>1, <2>2, AcceptPlaces, Zenon
    <2>. QED BY <2>2, <2>3, ShrinkSound, Zenon DEF ExchangeInv
  <1>6. CASE Crash
    BY <1>0, <1>6, CrashPlaces, ShrinkSound, Zenon DEF ExchangeInv, Crash, history
  <1>7. ASSUME NEW t \in Threads, ServeRead(t) \/ Failure(t) PROVE ExchangeInv'
    <2>0. PICK m : m = serving[t]
      BY Zenon
    <2>1. Done(t) /\ UNCHANGED net /\ UNCHANGED client /\ applied' = applied
      BY <1>7, Zenon DEF ServeRead, Failure, history
    <2>2. PICK status, value : Reply(m, status, value) /\ (status # "ok" \/ IsRead(m[1]))
      BY <1>7, <2>0 DEF ServeRead, Failure
    <2>3. Places' /\ Shrinks /\ m \in Pairs /\ Under(m) /\ ~Under(m)'
      BY <1>0, <2>0, <2>1, DonePlaces, Zenon
    <2>. QED BY <2>1, <2>2, <2>3, AnswerSound, Zenon DEF ExchangeInv
  <1>8. ASSUME NEW t \in Threads, ServeWrite(t) PROVE ExchangeInv'
    <2>0. PICK m : m = serving[t]
      OBVIOUS
    <2>1. /\ Done(t) /\ UNCHANGED net /\ UNCHANGED client /\ ~IsRead(m[1])
          /\ applied' = [applied EXCEPT ![m[1]] = @ + 1]
      BY <1>8, <2>0, Zenon DEF ServeWrite
    <2>2. PICK value : Reply(m, "ok", value)
      BY <1>8, <2>0, Zenon DEF ServeWrite
    <2>3. Places' /\ Shrinks /\ m \in Pairs /\ Under(m) /\ ~Under(m)'
      BY <1>0, <2>0, <2>1, DonePlaces, Zenon
    <2>. QED BY <2>1, <2>2, <2>3, AnswerSound, Zenon DEF ExchangeInv
  <1>. QED BY <1>1, <1>2, <1>3, <1>4, <1>5, <1>6, <1>7, <1>8, Zenon DEF Next

\* Each exchange is at one place, and outcomes agree with it.
LEMMA ExchangeInvariant == Spec => []ExchangeInv
  BY ExchangeInit, ExchangeStep, PTL DEF Spec

\* Whatever is lost and whoever gives up, a write takes effect at most once.
THEOREM WritesApplyOnce == Spec => []WriteAtMostOnce
  <1>1. ExchangeInv => WriteAtMostOnce
    BY DEF ExchangeInv, CallsTyped, WriteAtMostOnce
  <1>. QED BY <1>1, ExchangeInvariant, PTL

\* A write that reports success has taken effect, and one that reports an
\* answer of the server or a rejected input has not and never will.
THEOREM OutcomesAreTruthful == Spec => []OutcomeTruthful
  <1>1. ExchangeInv => OutcomeTruthful
    BY Zenon DEF ExchangeInv, Sound, OutcomeTruthful, Ended
  <1>. QED BY <1>1, ExchangeInvariant, PTL

-----------------------------------------------------------------------------
(* The store behind the handlers *)

\* A handler of a write has passed the call's request on, one of a read none.
StoreInv ==
  /\ data \in [Keys -> Cell]
  /\ DOMAIN op = Threads
  /\ \A t \in Threads :
       op[t] = IF serving[t] = Nobody \/ IsRead(serving[t][1]) THEN NoOp
                                                               ELSE StoreOp(ask[serving[t][1]])

\* A value that never expires is an entry.
LEMMA CellOfTyped ==
  ASSUME NEW v \in Values \cup {Absent}
  PROVE  CellOf(v) \in Cell
  BY ClientAssumption, Zenon DEF CellOf, Cell, Entry, Expiry

\* What the methods of the calls are.
LEMMA Methods ==
  ASSUME NEW r \in Writes
  PROVE  \/ r.method = "put" /\ r.key \in Names /\ r.value \in WriteValues
         \/ r.method = "delete" /\ r.key \in Names
         \/ r.method = "patch" /\ r.key \in Names /\ r.delta \in Deltas
         \/ /\ r.method = "post"
            /\ \E n \in Nat : r.items \in [1 .. n -> [key : Names, value : WriteValues \cup {Absent}]]
  <1>1. CASE r \in [method : {"put"}, key : Names, value : WriteValues]
    BY <1>1, Zenon
  <1>2. CASE r \in [method : {"delete"}, key : Names]
    BY <1>2, Zenon
  <1>3. CASE r \in [method : {"patch"}, key : Names, delta : Deltas]
    BY <1>3, Zenon
  <1>4. CASE r \in [method : {"post"},
                    items : UNION {[1..n -> [key : Names, value : WriteValues \cup {Absent}]] :
                                     n \in 0..MaxBatch}]
    <2>1. r.method = "post" /\ r.items \in UNION {[1..n -> [key : Names, value : WriteValues \cup {Absent}]] :
                                     n \in 0..MaxBatch}
      BY <1>4, Zenon
    <2>2. PICK n \in 0 .. MaxBatch : r.items \in [1..n -> [key : Names, value : WriteValues \cup {Absent}]]
      BY <2>1, Zenon
    <2>3. n \in Nat
      BY ValuesAssumption
    <2>. QED BY <2>1, <2>2, <2>3, Zenon
  <1>. QED BY <1>1, <1>2, <1>3, <1>4, Zenon DEF Writes

\* The request a handler builds is a request of the store.
LEMMA StoreOpTyped ==
  ASSUME NEW r \in Writes
  PROVE  StoreOp(r) \in Ops
  <1>1. CASE r.method = "put" /\ r.key \in Names /\ r.value \in WriteValues
    <2> DEFINE item == [key |-> PathKey(r.key), entry |-> CellOf(r.value)]
    <2>1. PathKey(r.key) \in Keys /\ CellOf(r.value) \in Cell
      BY <1>1, ClientAssumption, CellOfTyped, ValuesAssumption, Zenon
    <2>2. <<item>> \in Seq(Item)
      <3>1. item \in Item
        BY <2>1, Zenon DEF Item
      <3> HIDE DEF item
      <3>. QED BY <3>1
    <2>3. StoreOp(r) = [type |-> "apply", items |-> <<item>>]
      BY <1>1, Zenon DEF StoreOp
    <2> HIDE DEF item
    <2>. QED BY <2>2, <2>3 DEF Ops, WriteOp
  <1>2. CASE r.method = "delete" /\ r.key \in Names
    <2>1. StoreOp(r) = [type |-> "delete", key |-> PathKey(r.key)]
      BY <1>2, Zenon DEF StoreOp
    <2>. QED BY <1>2, <2>1, ClientAssumption DEF Ops, DeleteOp
  <1>3. CASE r.method = "patch" /\ r.key \in Names /\ r.delta \in Deltas
    <2>1. StoreOp(r) = [type |-> "increment", key |-> PathKey(r.key), delta |-> r.delta,
                        expires |-> NoExpiry, at |-> 0]
      BY <1>3, Zenon DEF StoreOp
    <2>. QED BY <1>3, <2>1, ClientAssumption DEF Ops, IncrOp, Expiry
  <1>4. CASE r.method = "post"
             /\ \E n \in Nat : r.items \in [1 .. n -> [key : Names, value : WriteValues \cup {Absent}]]
    <2>1. PICK n \in Nat : r.items \in [1 .. n -> [key : Names, value : WriteValues \cup {Absent}]]
      BY <1>4, Zenon
    <2> DEFINE item(i) == [key |-> BodyKey(r.items[i].key), entry |-> CellOf(r.items[i].value)]
    <2>2. ASSUME NEW i \in 1 .. n PROVE item(i) \in Item
      <3>1. r.items[i].key \in Names /\ r.items[i].value \in Values \cup {Absent}
        BY <2>1, ValuesAssumption, Zenon
      <3>. QED BY <3>1, ClientAssumption, CellOfTyped, Zenon DEF Item
    <2>3. StoreOp(r) = [type |-> "apply", items |-> [i \in 1 .. n |-> item(i)]]
      BY <1>4, <2>1, Zenon DEF StoreOp
    <2> HIDE DEF item
    <2>4. [i \in 1 .. n |-> item(i)] \in Seq(Item)
      BY <2>2
    <2>. QED BY <2>3, <2>4 DEF Ops, WriteOp
  <1>. QED BY <1>1, <1>2, <1>3, <1>4, Methods, Zenon

\* The operators of the store's module are those of this one.
LEMMA SameOperators ==
  /\ \A d, items : Store!Overlay(d, items) = Overlay(d, items)
  /\ \A c, tm : Store!CounterBase(c, tm) = CounterBase(c, tm)
  /\ \A n, delta : Store!CanIncrement(n, delta) <=> CanIncrement(n, delta)
  <1>1. ASSUME NEW d, NEW items PROVE Store!Overlay(d, items) = Overlay(d, items)
    BY Zenon DEF Store!Overlay, Overlay, Store!LastOn, LastOn
  <1>2. ASSUME NEW c, NEW tm PROVE Store!CounterBase(c, tm) = CounterBase(c, tm)
    BY Zenon DEF Store!ExpiredAt, ExpiredAt, Store!ExpiryOf, ExpiryOf, Store!CounterBase, CounterBase
  <1>3. ASSUME NEW n, NEW delta PROVE Store!CanIncrement(n, delta) <=> CanIncrement(n, delta)
    BY Zenon DEF Store!CanIncrement, CanIncrement
  <1>. QED BY <1>1, <1>2, <1>3, Zenon

\* What a request does to the store.
LEMMA ApplyKinds ==
  ASSUME NEW t \in Threads, NEW o, o = op[t], Store!Apply(t)
  PROVE  \/ o.type = "apply" /\ data' = Overlay(data, o.items)
         \/ o.type = "delete" /\ data' = [data EXCEPT ![o.key] = Absent]
         \/ /\ o.type = "increment"
            /\ \E tm \in o.at .. 0 :
                 /\ CanIncrement(CounterBase(data[o.key], tm), o.delta)
                 /\ data' = [data EXCEPT ![o.key] =
                               [value |-> CounterBase(data[o.key], tm) + o.delta,
                                expires |-> o.expires]]
  <1>1. CASE o.type = "apply" /\ data' = Store!Overlay(data, o.items)
    BY <1>1, SameOperators, Zenon
  <1>2. CASE o.type = "delete" /\ data' = [data EXCEPT ![o.key] = Absent]
    BY <1>2, Zenon
  <1>3. CASE /\ o.type = "increment"
             /\ \E tm \in o.at .. 0 :
                  /\ Store!CanIncrement(Store!CounterBase(data[o.key], tm), o.delta)
                  /\ data' = [data EXCEPT ![o.key] =
                                [value |-> Store!CounterBase(data[o.key], tm) + o.delta,
                                 expires |-> o.expires]]
    <2>1. PICK tm \in o.at .. 0 :
                  /\ Store!CanIncrement(Store!CounterBase(data[o.key], tm), o.delta)
                  /\ data' = [data EXCEPT ![o.key] =
                                [value |-> Store!CounterBase(data[o.key], tm) + o.delta,
                                 expires |-> o.expires]]
      BY <1>3, Zenon
    <2>2. Store!CounterBase(data[o.key], tm) = CounterBase(data[o.key], tm)
      BY SameOperators, Zenon
    <2>3. CanIncrement(CounterBase(data[o.key], tm), o.delta)
      BY <2>1, <2>2, SameOperators, Zenon
    <2>. QED BY <1>3, <2>1, <2>2, <2>3, Zenon
  <1>. QED BY <1>1, <1>2, <1>3, Zenon DEF Store!Apply

\* An operation leaves a typed store.
LEMMA ApplyTyped ==
  ASSUME data \in [Keys -> Cell], NEW t \in Threads, op[t] \in Ops, Store!Apply(t)
  PROVE  data' \in [Keys -> Cell]
  <1>0. PICK o \in Ops : o = op[t]
    BY Zenon
  <1>1. CASE o.type = "apply" /\ data' = Overlay(data, o.items)
    <2>1. \A i \in DOMAIN o.items : o.items[i].entry \in Cell
      BY <1>1, ItemsTyped, Zenon
    <2>. QED BY <1>1, <2>1, OverlayTyped, Zenon
  <1>2. CASE o.type = "delete" /\ data' = [data EXCEPT ![o.key] = Absent]
    BY <1>2, Zenon DEF Cell
  <1>3. ASSUME NEW tm, o.type = "increment",
               CanIncrement(CounterBase(data[o.key], tm), o.delta),
               data' = [data EXCEPT ![o.key] = [value |-> CounterBase(data[o.key], tm) + o.delta,
                                                expires |-> o.expires]]
        PROVE  data' \in [Keys -> Cell]
    <2>1. o.expires \in Expiry
      BY <1>3, OpKinds, Zenon DEF IncrOp
    <2>2. [value |-> CounterBase(data[o.key], tm) + o.delta, expires |-> o.expires] \in Cell
      BY <1>3, <2>1, Zenon DEF CanIncrement, Cell, Entry, Values
    <2>. QED BY <1>3, <2>2, Zenon
  <1>. QED BY <1>0, <1>1, <1>2, <1>3, ApplyKinds, Zenon

\* The handler of a write holds a request that the store can apply.
LEMMA WriteHeld ==
  ASSUME ExchangeInv, StoreInv, NEW t \in Threads, serving[t] # Nobody, ~IsRead(serving[t][1])
  PROVE  /\ serving[t][1] \in Calls /\ ask[serving[t][1]] \in Writes
         /\ op[t] = StoreOp(ask[serving[t][1]]) /\ op[t] \in Ops
  <1>1. PICK c \in Calls, k \in 0 .. RetryLimit : serving[t] = <<c, k>>
    BY DEF ExchangeInv, Places, Pairs
  <1>2. serving[t][1] = c /\ Under(<<c, k>>)
    BY <1>1 DEF Under
  <1>3. pc[c] # "idle"
    BY <1>2, Zenon DEF ExchangeInv, Sound, Silent
  <1>4. ask[c] \in Writes
    BY <1>2, <1>3, Zenon DEF ExchangeInv, Sound, IsRead
  <1>5. op[t] = StoreOp(ask[c])
    BY <1>2, Zenon DEF StoreInv
  <1>. QED BY <1>2, <1>4, <1>5, StoreOpTyped, Zenon

\* The store starts empty.
LEMMA StoreInit == Init => StoreInv
  <1> SUFFICES ASSUME Init PROVE StoreInv
    OBVIOUS
  <1>1. /\ data = [k \in Keys |-> Absent] /\ op = [t \in Threads |-> NoOp]
        /\ serving = [t \in Threads |-> Nobody]
    BY Zenon DEF Init, Store!Init
  <1>. QED BY <1>1, Zenon DEF StoreInv, Cell

\* A thread whose handler does not change keeps its request.
HandlerKept(t) ==
  /\ op'[t] = op[t] /\ serving'[t] = serving[t]
  /\ serving[t] # Nobody => ask'[serving[t][1]] = ask[serving[t][1]]

\* A step that leaves every handler its operation, or frees it, keeps the invariant.
LEMMA StoreKept ==
  ASSUME StoreInv, data' \in [Keys -> Cell], DOMAIN op' = Threads,
         \A t \in Threads : HandlerKept(t) \/ (serving'[t] = Nobody /\ op'[t] = NoOp)
  PROVE  StoreInv'
  BY Zenon DEF StoreInv, HandlerKept, IsRead

\* Every step keeps the types of the store.
LEMMA StoreStep == ExchangeInv /\ StoreInv /\ [Next]_vars => StoreInv'
  <1> SUFFICES ASSUME ExchangeInv, StoreInv, [Next]_vars PROVE StoreInv'
    BY Zenon
  <1>0. data \in [Keys -> Cell] /\ DOMAIN op = Threads /\ DOMAIN serving = Threads
        /\ DOMAIN ask = Calls
    BY Zenon DEF StoreInv, ExchangeInv, Places, CallsTyped
  <1>a. ASSUME UNCHANGED server, UNCHANGED ask PROVE StoreInv'
    BY <1>0, <1>a, StoreKept, Zenon DEF server, HandlerKept
  <1>1. CASE UNCHANGED vars
    BY <1>1, <1>a, Zenon DEF vars, client
  <1>2. CASE LoseRequest \/ Refuse
    BY <1>2, <1>a, Zenon DEF LoseRequest, Refuse, client
  <1>3. ASSUME NEW c \in Calls, Resend(c) \/ Receive(c) \/ NetworkError(c) \/ Timeout(c)
        PROVE  StoreInv'
    <2>1. UNCHANGED server /\ UNCHANGED ask
      BY <1>3, Zenon DEF Resend, Receive, NetworkError, Timeout, RetryOr, End
    <2>. QED BY <2>1, <1>a, Zenon
  <1>4. ASSUME NEW c \in Calls, Begin(c) PROVE StoreInv'
    <2>1. UNCHANGED server /\ Silent(c) /\ \A d \in Calls \ {c} : ask'[d] = ask[d]
      BY <1>0, <1>4, Zenon DEF Begin, ExchangeInv, Sound
    <2>2. ASSUME NEW t \in Threads, serving[t] # Nobody
          PROVE  serving[t][1] \in Calls \ {c}
      BY <2>1, <2>2 DEF ExchangeInv, Places, Pairs, Silent, Under
    <2>. QED BY <1>0, <2>1, <2>2, StoreKept, Zenon DEF server, HandlerKept
  <1>5. ASSUME NEW t \in Threads, Accept(t) PROVE StoreInv'
    <2>1. PICK m \in net :
            /\ serving' = [serving EXCEPT ![t] = m]
            /\ op' = [op EXCEPT ![t] = IF IsRead(m[1]) THEN NoOp ELSE StoreOp(ask[m[1]])]
      BY <1>5, Zenon DEF Accept
    <2>2. UNCHANGED <<data, ask>> /\ m # Nobody
      BY <1>5, ClientAssumption, Zenon DEF Accept, client, ExchangeInv, Places, Pairs
    <2>3. \A u \in Threads \ {t} : serving'[u] = serving[u] /\ op'[u] = op[u]
      BY <1>0, <2>1, Zenon
    <2>4. serving'[t] = m /\ op'[t] = IF IsRead(m[1]) THEN NoOp ELSE StoreOp(ask[m[1]])
      BY <1>0, <2>1, Zenon
    <2>5. DOMAIN op' = Threads
      BY <1>0, <2>1, Zenon
    <2>. QED BY <1>0, <2>2, <2>3, <2>4, <2>5, Zenon DEF StoreInv, IsRead
  <1>6. ASSUME NEW t \in Threads, ServeRead(t) PROVE StoreInv'
    <2>1. serving[t] # Nobody /\ serving' = [serving EXCEPT ![t] = Nobody] /\ IsRead(serving[t][1])
          /\ UNCHANGED <<data, op, ask>>
      BY <1>6, Zenon DEF ServeRead, Done, client
    <2>2. op[t] = NoOp
      BY <2>1, Zenon DEF StoreInv
    <2>. QED BY <1>0, <2>1, <2>2, StoreKept, Zenon DEF HandlerKept
  <1>7. ASSUME NEW t \in Threads, Failure(t) PROVE StoreInv'
    <2>1. serving' = [serving EXCEPT ![t] = Nobody] /\ op' = [op EXCEPT ![t] = NoOp]
          /\ UNCHANGED <<data, ask>>
      BY <1>7, Zenon DEF Failure, Done, client
    <2>. QED BY <1>0, <2>1, StoreKept, Zenon DEF HandlerKept
  <1>8. ASSUME NEW t \in Threads, ServeWrite(t) PROVE StoreInv'
    <2>1. /\ serving' = [serving EXCEPT ![t] = Nobody] /\ serving[t] # Nobody
          /\ ~IsRead(serving[t][1]) /\ Store!Apply(t) /\ UNCHANGED ask
      BY <1>8, Zenon DEF ServeWrite, Done, client
    <2>2. op' = [op EXCEPT ![t] = NoOp]
      BY <2>1, Zenon DEF Store!Apply
    <2>3. data' \in [Keys -> Cell]
      BY <1>0, <2>1, WriteHeld, ApplyTyped, Zenon
    <2>. QED BY <1>0, <2>1, <2>2, <2>3, StoreKept, Zenon DEF HandlerKept
  <1>9. CASE Crash
    BY <1>0, <1>9, StoreKept, Zenon DEF Crash
  <1>. QED BY <1>1, <1>2, <1>3, <1>4, <1>5, <1>6, <1>7, <1>8, <1>9, Zenon DEF Next

\* The store behind the server is typed.
LEMMA StoreInvariant == Spec => [](ExchangeInv /\ StoreInv)
  BY ExchangeInit, ExchangeStep, StoreInit, StoreStep, PTL DEF Spec

\* Types, the bound on retries, and at most one answer on its way to a call.
THEOREM TypesHold == Spec => []TypeOK
  <1>1. ExchangeInv /\ StoreInv => TypeOK
    <2> SUFFICES ASSUME ExchangeInv, StoreInv PROVE TypeOK
      BY Zenon
    <2>1. ASSUME NEW t \in Threads PROVE op[t] = NoOp \/ op[t] \in Ops
      BY WriteHeld, Zenon DEF StoreInv
    <2>2. ASSUME NEW c \in Calls PROVE \A a, b \in ToCall(c) : a = b
      BY DEF ExchangeInv, Sound
    <2>3. /\ data \in [Keys -> Cell] /\ serving \in [Threads -> {Nobody} \cup Pairs]
          /\ net \subseteq Pairs /\ pc \in [Calls -> {"idle", "waiting", "pause", "ended"}]
      BY Zenon DEF StoreInv, ExchangeInv, Places, CallsTyped
    <2>. QED BY <2>1, <2>2, <2>3, Zenon DEF TypeOK, Pairs
  <1>. QED BY <1>1, StoreInvariant, PTL

-----------------------------------------------------------------------------
(* What reads return, when each name means one key *)

\* The store holds under each name's key what the callers know of the name.
ByName ==
  /\ logical \in [Names -> Values \cup {Absent}]
  /\ \A n \in Names : data[PathKey(n)] = CellOf(logical[n])

\* A read under way has seen the present value of its name; an answer on its
\* way to it, and its result, are among the values it has seen.
Seen(c) ==
  IsRead(c) =>
    /\ pc[c] \in {"waiting", "pause"} => logical[ask[c].key] \in glimpsed[c]
    /\ \A a \in ToCall(c) : /\ a.status = "ok" => a.value \in glimpsed[c]
                            /\ a.status = "missing" => Absent \in glimpsed[c]
    /\ Ended(c, {"ok"}) => result[c].value \in glimpsed[c]

ReadInv == ByName /\ DOMAIN glimpsed = Calls /\ \A c \in Calls : Seen(c)

\* After a write the history of names is a function of the names.
LEMMA LogicalForm ==
  ASSUME NEW r
  PROVE  LogicalAfter(r) = [n \in Names |-> LogicalAfter(r)[n]]
  <1> DEFINE After(n) ==
        IF r.method = "post"
        THEN IF LastItem(r, n) = {} THEN logical[n]
             ELSE r.items[CHOOSE i \in LastItem(r, n) : TRUE].value
        ELSE IF n # r.key THEN logical[n]
        ELSE CASE r.method = "put" -> r.value
               [] r.method = "delete" -> Absent
               [] r.method = "patch" -> (IF logical[n] \in Int THEN logical[n] ELSE 0) + r.delta
  <1>1. LogicalAfter(r) = [n \in Names |-> After(n)]
    BY Zenon DEF LogicalAfter
  <1> HIDE DEF After
  <1>. QED BY <1>1, Zenon

\* What the callers know after a write that names only the name it is for.
LEMMA LogicalOfOne ==
  ASSUME NEW r \in Writes, r.method # "post", logical' = LogicalAfter(r)
  PROVE  /\ \A n \in Names \ {r.key} : logical'[n] = logical[n]
         /\ r.key \in Names
         /\ r.method = "put" => logical'[r.key] = r.value
         /\ r.method = "delete" => logical'[r.key] = Absent
         /\ r.method = "patch" =>
              logical'[r.key] = (IF logical[r.key] \in Int THEN logical[r.key] ELSE 0) + r.delta
  <1>1. r.key \in Names
    BY Methods, Zenon
  <1>. QED BY <1>1, Zenon DEF LogicalAfter

\* A write to one key does to the key what it does to the name.
LEMMA WriteOfOne ==
  ASSUME Faithful(Names), ByName, data \in [Keys -> Cell], NEW r \in Writes, r.method # "post",
         logical' = LogicalAfter(r), data' \in [Keys -> Cell], NEW v \in Values \cup {Absent},
         logical'[r.key] = v, data'[PathKey(r.key)] = CellOf(v),
         \A k \in Keys \ {PathKey(r.key)} : data'[k] = data[k]
  PROVE  ByName'
  <1>1. r.key \in Names /\ \A n \in Names \ {r.key} : logical'[n] = logical[n]
    BY LogicalOfOne, Zenon
  <1>2. logical' \in [Names -> Values \cup {Absent}]
    <2>1. logical' = [n \in Names |-> logical'[n]]
      BY LogicalForm, Zenon
    <2>2. \A n \in Names : logical'[n] \in Values \cup {Absent}
      BY <1>1, Zenon DEF ByName
    <2>. QED BY <2>1, <2>2, Zenon
  <1>3. ASSUME NEW n \in Names PROVE data'[PathKey(n)] = CellOf(logical'[n])
    <2>1. CASE n = r.key
      BY <2>1, Zenon
    <2>2. CASE n # r.key
      <3>1. PathKey(n) # PathKey(r.key) /\ PathKey(n) \in Keys
        BY <1>1, <2>2, ClientAssumption, Zenon DEF Faithful
      <3>. QED BY <1>1, <2>2, <3>1, Zenon DEF ByName
    <2>. QED BY <2>1, <2>2, Zenon
  <1>. QED BY <1>2, <1>3, Zenon DEF ByName, CellOf

\* A put changes the name it was given and no other.
LEMMA PutByName ==
  ASSUME Faithful(Names), ByName, data \in [Keys -> Cell], data' \in [Keys -> Cell],
         NEW r \in Writes, r.method = "put", logical' = LogicalAfter(r),
         data' = Overlay(data, StoreOp(r).items)
  PROVE  ByName'
  <1> DEFINE items == <<[key |-> PathKey(r.key), entry |-> CellOf(r.value)]>>
  <1>1. r.key \in Names /\ r.value \in Values /\ logical'[r.key] = r.value /\ PathKey(r.key) \in Keys
    BY Methods, LogicalOfOne, ClientAssumption, ValuesAssumption, Zenon
  <1>2. StoreOp(r).items = items
    BY Zenon DEF StoreOp
  <1>3. DOMAIN items = {1} /\ items[1].key = PathKey(r.key) /\ items[1].entry = CellOf(r.value)
    OBVIOUS
  <1> HIDE DEF items
  <1>4. \A i, k : LastOn(items, i, k) <=> i = 1 /\ k = PathKey(r.key)
    BY <1>3 DEF LastOn
  <1>5. data'[PathKey(r.key)] = CellOf(r.value)
    <2>1. (CHOOSE i \in DOMAIN items : LastOn(items, i, PathKey(r.key))) = 1
      BY <1>3, <1>4, Zenon
    <2>2. \E i \in DOMAIN items : LastOn(items, i, PathKey(r.key))
      BY <1>3, <1>4, Zenon
    <2>. QED BY <1>1, <1>2, <1>3, <2>1, <2>2, Zenon DEF Overlay
  <1>6. \A k \in Keys \ {PathKey(r.key)} : data'[k] = data[k]
    BY <1>2, <1>4, Zenon DEF Overlay
  <1>. QED BY <1>1, <1>5, <1>6, WriteOfOne, Zenon

\* So does a delete.
LEMMA DeleteByName ==
  ASSUME Faithful(Names), ByName, data \in [Keys -> Cell], data' \in [Keys -> Cell],
         NEW r \in Writes, r.method = "delete", logical' = LogicalAfter(r),
         data' = [data EXCEPT ![StoreOp(r).key] = Absent]
  PROVE  ByName'
  <1>1. r.key \in Names /\ logical'[r.key] = Absent /\ PathKey(r.key) \in Keys
    BY Methods, LogicalOfOne, ClientAssumption, Zenon
  <1>2. StoreOp(r).key = PathKey(r.key)
    BY Zenon DEF StoreOp
  <1>3. data'[PathKey(r.key)] = CellOf(Absent) /\ \A k \in Keys \ {PathKey(r.key)} : data'[k] = data[k]
    BY <1>1, <1>2, Zenon DEF CellOf
  <1>. QED BY <1>1, <1>3, WriteOfOne, Zenon

\* So does an increment.
LEMMA PatchByName ==
  ASSUME Faithful(Names), ByName, data \in [Keys -> Cell], data' \in [Keys -> Cell],
         NEW r \in Writes, r.method = "patch", logical' = LogicalAfter(r),
         NEW o, o = StoreOp(r), NEW tm \in o.at .. 0,
         CanIncrement(CounterBase(data[o.key], tm), o.delta),
         data' = [data EXCEPT ![o.key] = [value |-> CounterBase(data[o.key], tm) + o.delta,
                                          expires |-> o.expires]]
  PROVE  ByName'
  <1> DEFINE base == CounterBase(data[o.key], tm)
  <1>1. r.key \in Names /\ PathKey(r.key) \in Keys /\ r.delta \in Int
        /\ logical'[r.key] = (IF logical[r.key] \in Int THEN logical[r.key] ELSE 0) + r.delta
    BY Methods, LogicalOfOne, ClientAssumption, ValuesAssumption, Zenon
  <1>2. o.key = PathKey(r.key) /\ o.delta = r.delta /\ o.expires = NoExpiry
    BY Zenon DEF StoreOp
  <1>3. base = IF logical[r.key] = Absent THEN 0 ELSE logical[r.key]
    <2>1. data[o.key] = CellOf(logical[r.key]) /\ CellOf(logical[r.key]) \in Cell
      BY <1>1, <1>2, CellOfTyped, Zenon DEF ByName
    <2>2. CASE logical[r.key] = Absent
      BY <2>1, <2>2, Zenon DEF CellOf, CounterBase
    <2>3. CASE logical[r.key] # Absent
      <3>0. data[o.key] = [value |-> logical[r.key], expires |-> NoExpiry]
        BY <2>1, <2>3, Zenon DEF CellOf
      <3>1. data[o.key] # Absent
        <4>1. logical[r.key] \in Values
          BY <1>1, <2>3, Zenon DEF ByName
        <4>2. [value |-> logical[r.key], expires |-> NoExpiry] \in Entry
          BY <4>1, Zenon DEF Entry, Expiry
        <4>. QED BY <3>0, <4>2, CellAssumption, Zenon
      <3>. QED BY <2>3, <3>0, <3>1 DEF CounterBase, ExpiredAt, ExpiryOf
    <2>. QED BY <2>2, <2>3, Zenon
  <1>4. base \in MinInt .. MaxInt /\ base + r.delta \in MinInt .. MaxInt
    BY <1>2, Zenon DEF CanIncrement
  <1> HIDE DEF base
  <1>5. logical'[r.key] = base + r.delta /\ base + r.delta \in Values /\ base + r.delta # Absent
    BY <1>1, <1>3, <1>4, ClientAssumption, ValuesAssumption DEF Values
  <1>6. data'[PathKey(r.key)] = CellOf(base + r.delta)
    BY <1>1, <1>2, <1>5, Zenon DEF CellOf, base
  <1>7. \A k \in Keys \ {PathKey(r.key)} : data'[k] = data[k]
    BY <1>1, <1>2, Zenon
  <1>. QED BY <1>1, <1>5, <1>6, <1>7, WriteOfOne, Zenon

\* The last operation of a transaction on a name is the last one on its key.
LEMMA PostByName ==
  ASSUME Faithful(Names), ByName, data \in [Keys -> Cell],
         NEW r \in Writes, r.method = "post", logical' = LogicalAfter(r),
         data' = Overlay(data, StoreOp(r).items)
  PROVE  ByName'
  <1>1. PICK len \in Nat : r.items \in [1 .. len -> [key : Names, value : WriteValues \cup {Absent}]]
    BY Methods, Zenon
  <1> DEFINE its == r.items
             ops == [i \in 1 .. len |-> [key |-> BodyKey(its[i].key), entry |-> CellOf(its[i].value)]]
             L(n) == LastItem(r, n)
  <1>2. StoreOp(r).items = ops /\ DOMAIN ops = 1 .. len /\ DOMAIN its = 1 .. len
    <2>1. DOMAIN its = 1 .. len
      BY <1>1, Zenon
    <2>2. StoreOp(r) = [type |-> "apply", items |-> ops]
      BY <2>1, Zenon DEF StoreOp
    <2>. QED BY <2>1, <2>2
  <1>3. \A i \in 1 .. len : /\ its[i].key \in Names /\ its[i].value \in Values \cup {Absent}
                            /\ ops[i].key = BodyKey(its[i].key) /\ ops[i].entry = CellOf(its[i].value)
    BY <1>1, ValuesAssumption, Zenon
  <1>4. ASSUME NEW n \in Names
        PROVE  logical'[n] = IF L(n) = {} THEN logical[n] ELSE its[CHOOSE i \in L(n) : TRUE].value
    BY Zenon DEF LogicalAfter
  <1>5. ASSUME NEW n \in Names
        PROVE  PathKey(n) \in Keys /\ \A i \in 1 .. len : ops[i].key = PathKey(n) <=> its[i].key = n
    BY <1>3, ClientAssumption, Zenon DEF Faithful
  <1> HIDE DEF ops
  <1>6. ASSUME NEW n \in Names PROVE \A i \in 1 .. len : LastOn(ops, i, PathKey(n)) <=> i \in L(n)
    BY <1>2, <1>5 DEF LastOn, LastItem
  <1>. HIDE DEF its
  <1>7. ASSUME NEW n \in Names
        PROVE  /\ logical'[n] \in Values \cup {Absent}
               /\ data'[PathKey(n)] = CellOf(logical'[n])
    <2>1. CASE L(n) = {}
      <3>1. data'[PathKey(n)] = data[PathKey(n)]
        BY <1>2, <1>5, <1>6, <2>1, Zenon DEF Overlay
      <3>. QED BY <1>4, <2>1, <3>1, Zenon DEF ByName
    <2>2. ASSUME NEW i \in L(n)
          PROVE  logical'[n] \in Values \cup {Absent} /\ data'[PathKey(n)] = CellOf(logical'[n])
      <3>1. i \in 1 .. len /\ \A j \in L(n) : j = i
        BY <1>2, <2>2 DEF LastItem, its
      <3>2. (CHOOSE j \in L(n) : TRUE) = i
        BY <2>2, <3>1, Zenon
      <3>3. \A j \in DOMAIN ops : LastOn(ops, j, PathKey(n)) <=> j = i
        BY <1>2, <1>6, <2>2, <3>1, Zenon
      <3>4. (CHOOSE j \in DOMAIN ops : LastOn(ops, j, PathKey(n))) = i
        BY <1>2, <3>1, <3>3, Zenon
      <3>5. data'[PathKey(n)] = ops[i].entry
        BY <1>2, <1>5, <3>1, <3>3, <3>4, Zenon DEF Overlay
      <3>6. logical'[n] = its[i].value
        BY <1>4, <2>2, <3>2, Zenon
      <3>. QED BY <1>3, <3>1, <3>5, <3>6, Zenon
    <2>. QED BY <2>1, <2>2, Zenon
  <1>8. logical' = [n \in Names |-> logical'[n]]
    BY LogicalForm, Zenon
  <1>9. logical' \in [Names -> Values \cup {Absent}]
    BY <1>7, <1>8, Zenon
  <1>. QED BY <1>7, <1>9, Zenon DEF ByName, CellOf

\* Whatever the server writes, keys hold what their names do.
LEMMA WriteByName ==
  ASSUME Faithful(Names), ByName, data \in [Keys -> Cell], NEW t \in Threads, NEW r \in Writes,
         op[t] = StoreOp(r), Store!Apply(t), logical' = LogicalAfter(r)
  PROVE  ByName'
  <1>1. PICK o \in Ops : o = op[t] /\ o = StoreOp(r)
    BY StoreOpTyped, Zenon
  <1>2. data' \in [Keys -> Cell]
    BY <1>1, ApplyTyped, Zenon
  <1>3. /\ r.method = "put" => o.type = "apply"
        /\ r.method = "delete" => o.type = "delete"
        /\ r.method = "patch" => o.type = "increment"
        /\ r.method = "post" => o.type = "apply"
    BY <1>1 DEF StoreOp
  <1>4. CASE r.method = "put"
    <2>1. data' = Overlay(data, o.items)
      BY <1>1, <1>3, <1>4, ApplyKinds, Zenon
    <2>. QED BY <1>1, <1>2, <1>4, <2>1, PutByName, Zenon
  <1>5. CASE r.method = "delete"
    <2>1. data' = [data EXCEPT ![o.key] = Absent]
      BY <1>1, <1>3, <1>5, ApplyKinds, Zenon
    <2>. QED BY <1>1, <1>2, <1>5, <2>1, DeleteByName, Zenon
  <1>6. CASE r.method = "patch"
    <2>1. PICK tm \in o.at .. 0 :
                 /\ CanIncrement(CounterBase(data[o.key], tm), o.delta)
                 /\ data' = [data EXCEPT ![o.key] =
                               [value |-> CounterBase(data[o.key], tm) + o.delta,
                                expires |-> o.expires]]
      BY <1>1, <1>3, <1>6, ApplyKinds, Zenon
    <2>. QED BY <1>1, <1>2, <1>6, <2>1, PatchByName, Zenon
  <1>7. CASE r.method = "post"
    <2>1. data' = Overlay(data, o.items)
      BY <1>1, <1>3, <1>7, ApplyKinds, Zenon
    <2>. QED BY <1>1, <1>2, <1>7, <2>1, PostByName, Zenon
  <1>. QED BY <1>4, <1>5, <1>6, <1>7, Methods, Zenon

-----------------------------------------------------------------------------

\* Names and keys start without values.
LEMMA ReadInit == Init => ReadInv
  <1> SUFFICES ASSUME Init PROVE ReadInv
    OBVIOUS
  <1>1. /\ data = [k \in Keys |-> Absent] /\ logical = [n \in Names |-> Absent]
        /\ pc = [c \in Calls |-> "idle"] /\ answers = {} /\ glimpsed = [c \in Calls |-> {}]
    BY Zenon DEF Init, Store!Init
  <1>2. ByName
    BY <1>1, ClientAssumption, Zenon DEF ByName, CellOf
  <1>3. \A c \in Calls : Seen(c)
    BY <1>1, Zenon DEF Seen, ToCall, Ended
  <1>. QED BY <1>1, <1>2, <1>3, Zenon DEF ReadInv

\* Nothing a call knows gets lost while its control state stays the same, and
\* an answer it gains is right.
LEMMA SeenKept ==
  ASSUME NEW c, Seen(c), ask'[c] = ask[c], pc'[c] = pc[c], result'[c] = result[c],
         glimpsed[c] \subseteq glimpsed'[c],
         IsRead(c) /\ pc[c] \in {"waiting", "pause"} => logical'[ask[c].key] \in glimpsed'[c],
         IsRead(c) => \A a \in ToCall(c)' :
           \/ a \in ToCall(c)
           \/ /\ a.status = "ok" => a.value \in glimpsed'[c]
              /\ a.status = "missing" => Absent \in glimpsed'[c]
  PROVE  Seen(c)'
  BY Zenon DEF Seen, IsRead, Ended

\* The answer to the exchange of another call, or to one that is over, is not
\* for this call.
LEMMA AnswersTo ==
  ASSUME NEW m \in Pairs, NEW status, NEW value, Reply(m, status, value), NEW c,
         NEW a \in ToCall(c)', a \notin ToCall(c)
  PROVE  c = m[1] /\ pc[c] = "waiting" /\ a.status = status /\ a.value = value
  <1>1. /\ answers' # answers
        /\ answers' = answers \cup {[call |-> m[1], status |-> status, value |-> value]}
        /\ pc[m[1]] = "waiting"
    BY Zenon DEF Reply, ToCall
  <1>2. a = [call |-> m[1], status |-> status, value |-> value] /\ a.call = c
    BY <1>1, Zenon DEF ToCall
  <1>. QED BY <1>1, <1>2, Zenon

\* Steps that answer no call, or answer one with a refusal.
LEMMA PassiveSeen ==
  ASSUME ReadInv, UNCHANGED client, UNCHANGED <<data, history>>,
         \/ UNCHANGED answers
         \/ \E m \in Pairs : \E status, value :
              Reply(m, status, value) /\ (IsRead(m[1]) => status \notin {"ok", "missing"})
  PROVE  ReadInv'
  <1>1. UNCHANGED <<ask, pc, result, data, logical, glimpsed>>
    BY Zenon DEF client, history
  <1>2. ByName' /\ DOMAIN glimpsed' = Calls
    BY <1>1, Zenon DEF ReadInv, ByName
  <1>3. ASSUME NEW c \in Calls PROVE Seen(c)'
    <2>0. Seen(c) /\ (IsRead(c) /\ pc[c] \in {"waiting", "pause"} => logical'[ask[c].key] \in glimpsed'[c])
      BY <1>1, Zenon DEF ReadInv, Seen
    <2>1. CASE UNCHANGED answers
      <3>1. ToCall(c)' = ToCall(c)
        BY <2>1, Zenon DEF ToCall
      <3>. QED BY <1>1, <2>0, <3>1, SeenKept, Zenon
    <2>2. ASSUME NEW m \in Pairs, NEW status, NEW value, Reply(m, status, value),
                 IsRead(m[1]) => status \notin {"ok", "missing"}
          PROVE  Seen(c)'
      <3>1. ASSUME NEW a \in ToCall(c)', a \notin ToCall(c), IsRead(c)
            PROVE  a.status \notin {"ok", "missing"}
        BY <2>2, <3>1, AnswersTo
      <3>. QED BY <1>1, <2>0, <3>1, SeenKept, Zenon
    <2>. QED BY <2>1, <2>2, Zenon
  <1>. QED BY <1>2, <1>3, Zenon DEF ReadInv

\* A read that is served finds what its name holds now.
LEMMA ServeReadSeen ==
  ASSUME ExchangeInv, ReadInv, NEW t \in Threads, ServeRead(t)
  PROVE  ReadInv'
  <1>0. UNCHANGED <<ask, pc, result, data, logical, glimpsed>>
    BY Zenon DEF ServeRead, client, history
  <1>1. PICK m : m = serving[t]
    BY Zenon
  <1>2. m \in Pairs /\ IsRead(m[1]) /\ m[1] \in Calls
    BY <1>1, Zenon DEF ServeRead, Done, ExchangeInv, Places, Pairs
  <1> DEFINE n == ask[m[1]].key
             cell == data[PathKey(n)]
  <1>3. n \in Names
    BY <1>2, Zenon DEF IsRead, Reads
  <1>4. cell = CellOf(logical[n]) /\ logical[n] \in Values \cup {Absent}
    BY <1>3, Zenon DEF ReadInv, ByName
  <1>5. \/ logical[n] = Absent /\ Reply(m, "missing", Absent)
        \/ logical[n] # Absent /\ Reply(m, "ok", logical[n])
    <2>1. IF cell = Absent THEN Reply(m, "missing", Absent) ELSE Reply(m, "ok", cell.value)
      BY <1>1, Zenon DEF ServeRead
    <2>2. CASE logical[n] = Absent
      BY <1>4, <2>1, <2>2, Zenon DEF CellOf
    <2>3. CASE logical[n] # Absent
      <3>1. cell = [value |-> logical[n], expires |-> NoExpiry] /\ logical[n] \in Values
        BY <1>4, <2>3, Zenon DEF CellOf
      <3>2. cell \in Entry
        BY <3>1 DEF Entry, Expiry
      <3>3. cell # Absent
        BY <3>2, CellAssumption, Zenon
      <3>. QED BY <2>1, <2>3, <3>1, <3>3
    <2>. QED BY <2>2, <2>3, Zenon
  <1> HIDE DEF cell
  <1>6. ByName' /\ DOMAIN glimpsed' = Calls
    BY <1>0, Zenon DEF ReadInv, ByName
  <1>7. ASSUME NEW c \in Calls PROVE Seen(c)'
    <2>0. Seen(c) /\ (IsRead(c) /\ pc[c] \in {"waiting", "pause"} => logical'[ask[c].key] \in glimpsed'[c])
      BY <1>0, Zenon DEF ReadInv, Seen
    <2>1. ASSUME NEW a \in ToCall(c)', a \notin ToCall(c), IsRead(c)
          PROVE  /\ a.status = "ok" => a.value \in glimpsed'[c]
                 /\ a.status = "missing" => Absent \in glimpsed'[c]
      <3>1. c = m[1] /\ pc[c] = "waiting"
            /\ \/ logical[n] = Absent /\ a.status = "missing"
               \/ a.status = "ok" /\ a.value = logical[n]
        BY <1>2, <1>5, <2>1, AnswersTo
      <3>2. logical[n] \in glimpsed'[c]
        BY <1>0, <2>0, <2>1, <3>1, Zenon
      <3>. QED BY <3>1, <3>2, Zenon
    <2>. QED BY <1>0, <2>0, <2>1, SeenKept, Zenon
  <1>. QED BY <1>6, <1>7, Zenon DEF ReadInv

\* A step of one call's client leaves the others alone.
LEMMA ClientSeen ==
  ASSUME ExchangeInv, ReadInv, NEW c \in Calls,
         Resend(c) \/ Receive(c) \/ NetworkError(c) \/ Timeout(c)
  PROVE  ReadInv'
  <1>0. UNCHANGED <<ask, data, logical, glimpsed>> /\ answers' \subseteq answers
    BY Zenon DEF Resend, Receive, NetworkError, Timeout, RetryOr, End, server, history
  <1>1. \A d \in Calls : d # c => pc'[d] = pc[d] /\ result'[d] = result[d]
    BY Zenon DEF Resend, Receive, NetworkError, Timeout, RetryOr, End, ExchangeInv, CallsTyped
  <1>2. ByName' /\ DOMAIN glimpsed' = Calls
    BY <1>0, Zenon DEF ReadInv, ByName
  <1>3. ASSUME NEW d \in Calls, d # c PROVE Seen(d)'
    <2>1. ToCall(d)' \subseteq ToCall(d) /\ Seen(d)
      BY <1>0, Zenon DEF ToCall, ReadInv
    <2>. QED BY <1>0, <1>1, <1>3, <2>1, SeenKept, Zenon DEF Seen
  <1>4. Seen(c)'
    <2>0. /\ Seen(c) /\ pc[c] \in {"waiting", "pause"} /\ ToCall(c)' \subseteq ToCall(c)
          /\ IsRead(c)' <=> IsRead(c)
      BY <1>0, Zenon DEF ReadInv, Resend, Receive, NetworkError, Timeout, ToCall, IsRead
    <2>1. pc'[c] = "ended" /\ result'[c].kind = "ok" /\ IsRead(c) => result'[c].value \in glimpsed[c]
      <3>1. CASE Resend(c)
        BY <3>1, Zenon DEF Resend, ExchangeInv, CallsTyped
      <3>2. CASE NetworkError(c) \/ Timeout(c)
        BY <3>2 DEF NetworkError, Timeout, RetryOr, End, ExchangeInv, CallsTyped
      <3>3. CASE Receive(c)
        <4>1. PICK a \in ToCall(c) :
                \/ a.status = "ok" /\ End(c, "ok", a.value)
                \/ a.status = "busy" /\ RetryOr(c, "http")
                \/ /\ a.status \in {"missing", "refused"}
                   /\ End(c, IF IsRead(c) /\ ask[c].orNull /\ IsNotFound(a.status) THEN "ok" ELSE "http",
                          Absent)
          BY <3>3, Zenon DEF Receive
        <4>2. CASE a.status = "ok" /\ End(c, "ok", a.value)
          BY <2>0, <4>2, Zenon DEF Seen, End, ExchangeInv, CallsTyped
        <4>3. CASE a.status = "busy" /\ RetryOr(c, "http")
          BY <4>3 DEF RetryOr, End, ExchangeInv, CallsTyped
        <4>4. CASE /\ a.status \in {"missing", "refused"}
                   /\ End(c, IF IsRead(c) /\ ask[c].orNull /\ IsNotFound(a.status) THEN "ok" ELSE "http",
                          Absent)
          BY <2>0, <4>4, Zenon DEF Seen, End, IsNotFound, ExchangeInv, CallsTyped
        <4>. QED BY <4>1, <4>2, <4>3, <4>4, Zenon
      <3>. QED BY <3>1, <3>2, <3>3, Zenon
    <2>. QED BY <1>0, <2>0, <2>1, Zenon DEF Seen, Ended
  <1>. QED BY <1>2, <1>3, <1>4, Zenon DEF ReadInv

\* A call has seen what holds when it begins.
LEMMA BeginSeen ==
  ASSUME ExchangeInv, ReadInv, NEW c \in Calls, Begin(c)
  PROVE  ReadInv'
  <1>0. /\ UNCHANGED <<data, logical, answers>> /\ pc[c] = "idle"
        /\ DOMAIN ask = Calls /\ DOMAIN pc = Calls /\ DOMAIN result = Calls /\ DOMAIN glimpsed = Calls
    BY Zenon DEF Begin, server, ExchangeInv, CallsTyped, ReadInv
  <1>1. PICK r \in Reads \cup Writes :
          /\ ask' = [ask EXCEPT ![c] = r]
          /\ \/ pc' = [pc EXCEPT ![c] = "waiting"] /\ UNCHANGED result
             \/ /\ pc' = [pc EXCEPT ![c] = "ended"]
                /\ result' = [result EXCEPT ![c] = [kind |-> "validation", value |-> Absent]]
          /\ glimpsed' = [glimpsed EXCEPT ![c] = IF r \in Reads THEN {logical[r.key]} ELSE {}]
    BY Zenon DEF Begin
  <1>2. ByName' /\ DOMAIN glimpsed' = Calls
    BY <1>0, <1>1, Zenon DEF ReadInv, ByName
  <1>3. ASSUME NEW d \in Calls, d # c PROVE Seen(d)'
    <2>1. /\ ToCall(d)' = ToCall(d) /\ Seen(d) /\ ask'[d] = ask[d] /\ pc'[d] = pc[d]
          /\ result'[d] = result[d] /\ glimpsed'[d] = glimpsed[d]
      BY <1>0, <1>1, <1>3, Zenon DEF ToCall, ReadInv
    <2>. QED BY <1>0, <2>1, SeenKept, Zenon DEF Seen
  <1>4. Seen(c)'
    <2>1. ToCall(c)' = {}
      <3>1. ToCall(c) = {}
        BY <1>0, Zenon DEF ExchangeInv, Sound
      <3>. QED BY <1>0, <3>1, Zenon DEF ToCall
    <2>2. ask'[c] = r /\ (r \in Reads => glimpsed'[c] = {logical'[r.key]})
      BY <1>0, <1>1, Zenon
    <2>3. pc'[c] = "waiting" \/ (pc'[c] = "ended" /\ result'[c].kind = "validation")
      BY <1>0, <1>1
    <2>. QED BY <2>1, <2>2, <2>3, Zenon DEF Seen, IsRead, Ended
  <1>. QED BY <1>2, <1>3, <1>4, Zenon DEF ReadInv

\* Open calls see what is written.
LEMMA ServeWriteSeen ==
  ASSUME Faithful(Names), ExchangeInv, StoreInv, ReadInv, NEW t \in Threads, ServeWrite(t)
  PROVE  ReadInv'
  <1>1. PICK m : m = serving[t]
    BY Zenon
  <1>2. /\ Done(t) /\ ~IsRead(m[1]) /\ Store!Apply(t) /\ logical' = LogicalAfter(ask[m[1]])
        /\ glimpsed' = [d \in Calls |-> IF IsRead(d) /\ pc[d] # "ended"
                                        THEN glimpsed[d] \cup {logical'[ask[d].key]} ELSE glimpsed[d]]
        /\ UNCHANGED client
    BY <1>1, Zenon DEF ServeWrite
  <1>3. m[1] \in Calls /\ m \in Pairs /\ ask[m[1]] \in Writes /\ op[t] = StoreOp(ask[m[1]])
    BY <1>1, <1>2, WriteHeld, Zenon DEF Done, ExchangeInv, Places
  <1>4. PICK value : Reply(m, "ok", value)
    BY <1>1, Zenon DEF ServeWrite
  <1>5. ByName'
    BY <1>2, <1>3, WriteByName, Zenon DEF ReadInv, StoreInv
  <1>6. ASSUME NEW c \in Calls PROVE Seen(c)'
    <2>1. /\ Seen(c) /\ ask'[c] = ask[c] /\ pc'[c] = pc[c] /\ result'[c] = result[c]
          /\ glimpsed[c] \subseteq glimpsed'[c]
          /\ IsRead(c) /\ pc[c] # "ended" => logical'[ask[c].key] \in glimpsed'[c]
      BY <1>2, Zenon DEF ReadInv, client
    <2>2. ASSUME IsRead(c), NEW a \in ToCall(c)' PROVE a \in ToCall(c)
      BY <1>2, <1>3, <1>4, <2>2, AnswersTo
    <2>. QED BY <2>1, <2>2, SeenKept, Zenon
  <1>. QED BY <1>2, <1>5, <1>6, Zenon DEF ReadInv

\* Every step keeps the invariant of the reads.
LEMMA ReadStep ==
  ASSUME Faithful(Names), ExchangeInv, StoreInv, ReadInv, [Next]_vars
  PROVE  ReadInv'
  <1>1. CASE UNCHANGED vars \/ LoseRequest \/ Crash
    <2>1. UNCHANGED client /\ UNCHANGED <<data, history>> /\ UNCHANGED answers
      BY <1>1, Zenon DEF vars, LoseRequest, Crash, server
    <2>. QED BY <2>1, PassiveSeen, Zenon
  <1>2. ASSUME NEW t \in Threads, Accept(t) PROVE ReadInv'
    <2>1. UNCHANGED client /\ UNCHANGED <<data, history>> /\ UNCHANGED answers
      BY <1>2, Zenon DEF Accept
    <2>. QED BY <2>1, PassiveSeen, Zenon
  <1>3. CASE Refuse
    <2>1. PICK m \in net, status \in {"busy", "refused"} : Reply(m, status, Absent)
      BY <1>3, Zenon DEF Refuse
    <2>2. UNCHANGED client /\ UNCHANGED <<data, history>> /\ m \in Pairs
      BY <1>3, Zenon DEF Refuse, server, ExchangeInv, Places
    <2>. QED BY <2>1, <2>2, PassiveSeen, Zenon
  <1>4. ASSUME NEW t \in Threads, Failure(t) PROVE ReadInv'
    <2>1. PICK m : m = serving[t]
      BY Zenon
    <2>2. m \in Pairs /\ UNCHANGED client /\ UNCHANGED <<data, history>>
      BY <1>4, <2>1, Zenon DEF Failure, Done, ExchangeInv, Places
    <2>3. IsRead(m[1]) => op[t] = NoOp
      BY <2>1, Zenon DEF StoreInv
    <2>4. \E status, value : Reply(m, status, value) /\ (IsRead(m[1]) => status \notin {"ok", "missing"})
      BY <1>4, <2>1, <2>3 DEF Failure
    <2>. QED BY <2>2, <2>4, PassiveSeen, Zenon
  <1>5. ASSUME NEW c \in Calls, Resend(c) \/ Receive(c) \/ NetworkError(c) \/ Timeout(c)
        PROVE  ReadInv'
    BY <1>5, ClientSeen, Zenon
  <1>6. ASSUME NEW c \in Calls, Begin(c) PROVE ReadInv'
    BY <1>6, BeginSeen, Zenon
  <1>7. ASSUME NEW t \in Threads, ServeRead(t) \/ ServeWrite(t) PROVE ReadInv'
    BY <1>7, ServeReadSeen, ServeWriteSeen, Zenon
  <1>. QED BY <1>1, <1>2, <1>3, <1>4, <1>5, <1>6, <1>7, Zenon DEF Next

\* If each name means one key, in a path as in a body, then a read that returns
\* a value or null returns what its name held at some instant of the call.
THEOREM ReadsAreTruthful ==
  ASSUME Faithful(Names)
  PROVE  Spec => []ReadTruthful
  <1>1. ExchangeInv /\ StoreInv /\ ReadInv /\ [Next]_vars => ReadInv'
    BY ReadStep, Zenon
  <1>2. ReadInv => ReadTruthful
    BY Zenon DEF ReadInv, Seen, ReadTruthful
  <1>. QED BY <1>1, <1>2, StoreInvariant, ReadInit, PTL DEF Spec
===============================================================================

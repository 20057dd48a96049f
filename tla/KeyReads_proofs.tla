---------------------------- MODULE KeyReads_proofs ----------------------------
(***************************************************************************)
(* Reads without locks, next to any number of readers, writers and keys:   *)
(* a get never serves an expired value, and a list misses nothing that was *)
(* there throughout.                                                       *)
(***************************************************************************)
EXTENDS KeyReads, KeyOps_proofs

USE KeysAssumption, CellAssumption, ValuesAssumption, SMTT(60), ZenonT(60)

-----------------------------------------------------------------------------
(* The inductive invariant *)

StoreTyped ==
  /\ now \in Nat
  /\ data \in [Keys -> Cell]
  /\ op \in [Threads -> Ops \cup {NoOp}]

\* The histories of a call under way bound what is live now; an entry that was
\* fetched was live during the call, unless its time has passed already; the
\* cutoff of a list is the time of its call.
ReaderInv(r) ==
  /\ Busy(r) => /\ LiveEntries(data, now) \subseteq glimpsed[r]
                /\ lasting[r] \subseteq Live(data, now)
  /\ rpc[r] \in {"fetch", "judge"} => key[r] \in Keys
  /\ rpc[r] = "judge" =>
       /\ entry[r] \in Entry /\ entry[r].expires \in Nat
       /\ <<key[r], entry[r]>> \in glimpsed[r] \/ entry[r].expires <= now
  /\ rpc[r] = "scan" => cutoff[r] = since[r] /\ cutoff[r] \in Nat /\ cutoff[r] <= now

\* Every variable of the readers is a function on them.
Shapes ==
  /\ DOMAIN rpc = Readers /\ DOMAIN answer = Readers /\ DOMAIN key = Readers
  /\ DOMAIN entry = Readers /\ DOMAIN cutoff = Readers /\ DOMAIN since = Readers
  /\ DOMAIN lasting = Readers /\ DOMAIN glimpsed = Readers

ReadsInv == StoreTyped /\ Shapes /\ \A r \in Readers : ReaderInv(r)

-----------------------------------------------------------------------------
(* The store *)

\* KeyReads and the map it reads are built from the same operators of KeyOps.
LEMMA SameOperators ==
  ASSUME NEW d, NEW x, NEW t
  PROVE  /\ Store!Overlay(d, x) = Overlay(d, x)
         /\ Store!SetRequests(t) = SetRequests(t)
         /\ Store!BatchRequests(t) = BatchRequests(t)
         /\ Store!DeleteRequests = DeleteRequests
         /\ Store!IncrementRequests(t) = IncrementRequests(t)
  <1>1. Store!NewEntries(t) = NewEntries(t)
    BY DEF Store!NewEntries, NewEntries, Store!ResolveTtl, ResolveTtl
  <1>2. Store!IncrementRequests(t) = IncrementRequests(t)
    BY DEF Store!IncrementRequests, IncrementRequests, Store!ResolveTtl, ResolveTtl
  <1>3. /\ Store!SetRequests(t) = SetRequests(t)
        /\ Store!BatchRequests(t) = BatchRequests(t)
        /\ Store!DeleteRequests = DeleteRequests
    BY <1>1 DEF Store!SetRequests, SetRequests, Store!BatchRequests, BatchRequests,
                Store!DeleteRequests, DeleteRequests
  <1>4. Store!Overlay(d, x) = Overlay(d, x)
    BY Zenon DEF Store!Overlay, Overlay, Store!LastOn, LastOn
  <1>. QED BY <1>2, <1>3, <1>4, Zenon

\* An applied request leaves a map of entries.
LEMMA ApplyTyped ==
  ASSUME StoreTyped, NEW t \in Threads, Store!Apply(t)
  PROVE  StoreTyped' /\ now' = now
  <1> DEFINE o == op[t]
  <1>1. o \in Ops
    BY Zenon DEF StoreTyped, Store!Apply
  <1>2. now' = now /\ op' \in [Threads -> Ops \cup {NoOp}]
    BY Zenon DEF StoreTyped, Store!Apply
  <1>3. CASE o.type = "apply"
    <2>1. data' = Overlay(data, o.items)
      BY <1>3, SameOperators, Zenon DEF Store!Apply
    <2>2. \A i \in DOMAIN o.items : o.items[i].entry \in Cell
      BY <1>1, <1>3, ItemsTyped, Zenon
    <2>3. data' \in [Keys -> Cell]
      BY <2>1, <2>2, OverlayTyped, Zenon DEF StoreTyped
    <2>. QED BY <1>2, <2>3, Zenon DEF StoreTyped
  <1>4. CASE o.type = "delete"
    <2>1. data' = [data EXCEPT ![o.key] = Absent]
      BY <1>4, Zenon DEF Store!Apply
    <2>2. data' \in [Keys -> Cell]
      BY <2>1, Zenon DEF StoreTyped, Cell
    <2>. QED BY <1>2, <2>2 DEF StoreTyped
  <1>5. CASE o.type = "increment"
    <2> DEFINE base(tm) == Store!CounterBase(data[o.key], tm)
    <2>1. PICK tm \in o.at .. now :
            /\ Store!CanIncrement(base(tm), o.delta)
            /\ data' = [data EXCEPT ![o.key] = [value |-> base(tm) + o.delta,
                                                expires |-> o.expires]]
      BY <1>5, Zenon DEF Store!Apply
    <2>2. o.expires \in Expiry
      BY <1>1, <1>5, OpKinds, Zenon DEF IncrOp
    <2>3. [value |-> base(tm) + o.delta, expires |-> o.expires] \in Cell
      BY <2>1, <2>2, Zenon DEF Store!CanIncrement, Cell, Entry, Values
    <2>4. data' \in [Keys -> Cell]
      BY <2>1, <2>3, Zenon DEF StoreTyped
    <2>. QED BY <1>2, <2>4, Zenon DEF StoreTyped
  <1>. QED BY <1>3, <1>4, <1>5, Zenon DEF Store!Apply

\* A step of the writers, the clock or the sweeper keeps the map a map, and
\* time does not go back.
LEMMA StoreStep ==
  ASSUME StoreTyped, Store!Next
  PROVE  StoreTyped' /\ now <= now'
  <1>1. CASE Store!Tick
    BY <1>1 DEF StoreTyped, Store!Tick
  <1>2. ASSUME NEW t \in Threads, Store!Request(t) PROVE StoreTyped' /\ now <= now'
    <2>1. PICK o \in Ops : op' = [op EXCEPT ![t] = o] /\ UNCHANGED <<data, now>>
      BY <1>2, RequestsTyped, SameOperators, Zenon DEF Store!Request, StoreTyped
    <2>. QED BY <2>1 DEF StoreTyped
  <1>3. ASSUME NEW t \in Threads, Store!Apply(t) PROVE StoreTyped' /\ now <= now'
    BY <1>3, ApplyTyped DEF StoreTyped
  <1>4. CASE Store!Fail
    <2>1. PICK T \in SUBSET Threads :
            /\ op' = [t \in Threads |-> IF t \in T THEN NoOp ELSE op[t]]
            /\ UNCHANGED <<data, now>>
      BY <1>4, Zenon DEF Store!Fail
    <2>. QED BY <2>1 DEF StoreTyped
  <1>5. CASE Store!Forget
    <2>1. PICK k \in Keys : data' = [data EXCEPT ![k] = Absent] /\ UNCHANGED <<now, op>>
      BY <1>5, Zenon DEF Store!Forget
    <2>. QED BY <2>1 DEF StoreTyped, Cell
  <1>. QED BY <1>1, <1>2, <1>3, <1>4, <1>5, Zenon DEF Store!Next

-----------------------------------------------------------------------------
(* Every step keeps the invariant *)

\* No call has begun.
LEMMA InitEstablishes == Init => ReadsInv
  <1>. SUFFICES ASSUME Init PROVE ReadsInv
    BY Zenon
  <1>1. StoreTyped
    BY Zenon DEF Init, Store!Init, StoreTyped, Cell
  <1>2. Shapes
    BY Zenon DEF Init, Shapes
  <1>3. ASSUME NEW r \in Readers PROVE ReaderInv(r)
    BY Zenon DEF Init, ReaderInv, Busy
  <1>. QED BY <1>1, <1>2, <1>3, Zenon DEF ReadsInv

\* Clock, writers and sweeper keep what the open calls rely on.
LEMMA EnvironmentKeeps ==
  ASSUME ReadsInv, Environment
  PROVE  ReadsInv'
  <1>1. StoreTyped' /\ now <= now' /\ now \in Nat /\ now' \in Nat
    BY StoreStep, Zenon DEF ReadsInv, Environment, StoreTyped
  <1>2. Shapes'
    BY Zenon DEF ReadsInv, Shapes, Environment, callVars
  <1>3. ASSUME NEW r \in Readers PROVE ReaderInv(r)'
    <2>1. /\ rpc' = rpc /\ key' = key /\ entry' = entry /\ cutoff' = cutoff /\ since' = since
          /\ ReaderInv(r)
      BY Zenon DEF ReadsInv, Environment, callVars
    <2>2. Busy(r) => /\ lasting'[r] = lasting[r] \cap Live(data', now')
                     /\ glimpsed'[r] = glimpsed[r] \cup LiveEntries(data', now')
      BY Zenon DEF Environment
    <2>3. CASE ~Busy(r)
      BY <2>1, <2>3, Zenon DEF ReaderInv, Busy
    <2>4. CASE Busy(r)
      <3>1. /\ LiveEntries(data', now') \subseteq glimpsed'[r]
            /\ lasting'[r] \subseteq Live(data', now')
        BY <2>2, <2>4, Zenon
      <3>2. rpc[r] = "judge" => /\ entry[r] \in Entry /\ entry[r].expires \in Nat
                                /\ <<key[r], entry[r]>> \in glimpsed'[r] \/ entry[r].expires <= now'
        BY <1>1, <2>1, <2>2, <2>4 DEF ReaderInv
      <3>3. rpc[r] = "scan" => cutoff[r] = since[r] /\ cutoff[r] \in Nat /\ cutoff[r] <= now'
        BY <1>1, <2>1 DEF ReaderInv
      <3>4. rpc[r] \in {"fetch", "judge"} => key[r] \in Keys
        BY <2>1, Zenon DEF ReaderInv
      <3>. QED BY <2>1, <3>1, <3>2, <3>3, <3>4, Zenon DEF ReaderInv, Busy
    <2>. QED BY <2>3, <2>4, Zenon
  <1>. QED BY <1>1, <1>2, <1>3, Zenon DEF ReadsInv

\* What a step of one reader leaves of the others.
LEMMA OtherReaders ==
  ASSUME ReadsInv, NEW q \in Readers, UNCHANGED <<data, now>>,
         rpc'[q] = rpc[q], key'[q] = key[q], entry'[q] = entry[q], cutoff'[q] = cutoff[q],
         since'[q] = since[q], lasting'[q] = lasting[q], glimpsed'[q] = glimpsed[q]
  PROVE  ReaderInv(q)'
  BY Zenon DEF ReadsInv, ReaderInv, Busy, Live, LiveEntries

\* A reader that is idle keeps no promise.
LEMMA ReturnKeeps ==
  ASSUME ReadsInv, NEW r \in Readers, NEW result, Return(r, result)
  PROVE  ReadsInv'
  <1>1. StoreTyped' /\ Shapes'
    BY Zenon DEF ReadsInv, StoreTyped, Shapes, Return
  <1>2. ASSUME NEW q \in Readers PROVE ReaderInv(q)'
    <2>1. CASE q = r
      <3>1. rpc'[q] = "idle"
        BY <2>1, Zenon DEF ReadsInv, Shapes, Return
      <3>. QED BY <3>1, Zenon DEF ReaderInv, Busy
    <2>2. CASE q # r
      BY <2>2, OtherReaders, Zenon DEF ReadsInv, Shapes, Return
    <2>. QED BY <2>1, <2>2, Zenon
  <1>. QED BY <1>1, <1>2, Zenon DEF ReadsInv

\* A call begins with what is live.
LEMMA BeginKeeps ==
  ASSUME ReadsInv, NEW r \in Readers,
         \/ \E k \in Keys : Get(r, k)
         \/ List(r)
  PROVE  ReadsInv'
  <1>1. StoreTyped' /\ Shapes' /\ data' = data /\ now' = now /\ now \in Nat
    BY Zenon DEF ReadsInv, StoreTyped, Shapes, Get, List, Begin
  <1>2. ASSUME NEW q \in Readers PROVE ReaderInv(q)'
    <2>1. CASE q = r
      <3>1. lasting'[q] = Live(data, now) /\ glimpsed'[q] = LiveEntries(data, now)
        BY <2>1, Zenon DEF ReadsInv, Shapes, Get, List, Begin
      <3>2. \/ rpc'[q] = "fetch" /\ key'[q] \in Keys
            \/ rpc'[q] = "scan" /\ cutoff'[q] = now /\ since'[q] = now
        BY <2>1 DEF ReadsInv, Shapes, Get, List, Begin
      <3>. QED BY <1>1, <3>1, <3>2 DEF ReaderInv, Busy
    <2>2. CASE q # r
      BY <2>2, OtherReaders DEF ReadsInv, Shapes, Get, List, Begin
    <2>. QED BY <2>1, <2>2, Zenon
  <1>. QED BY <1>1, <1>2, Zenon DEF ReadsInv

\* A get that has fetched an entry with an expiry: live now, so glimpsed, or due.
LEMMA FetchKeeps ==
  ASSUME ReadsInv, NEW r \in Readers, GetFetch(r)
  PROVE  ReadsInv'
  <1> DEFINE e == data[key[r]]
  <1>1. CASE \E result : Return(r, result)
    BY <1>1, ReturnKeeps, Zenon
  <1>2. CASE /\ ExpiryOf(e) # NoExpiry
             /\ rpc' = [rpc EXCEPT ![r] = "judge"]
             /\ entry' = [entry EXCEPT ![r] = e]
             /\ UNCHANGED <<data, now, op, answer, key, cutoff, history>>
    <2>1. StoreTyped' /\ Shapes'
      BY <1>2, Zenon DEF ReadsInv, StoreTyped, Shapes, history
    <2>2. /\ key[r] \in Keys /\ Busy(r) /\ now \in Nat /\ data \in [Keys -> Cell]
          /\ LiveEntries(data, now) \subseteq glimpsed[r] /\ lasting[r] \subseteq Live(data, now)
      BY Zenon DEF ReadsInv, ReaderInv, StoreTyped, GetFetch, Busy
    <2>3. e \in Entry /\ e.expires \in Nat /\ e # Absent
      BY <1>2, <2>2, Zenon DEF Cell, ExpiryOf, Entry, Expiry
    <2>4. <<key[r], e>> \in glimpsed[r] \/ e.expires <= now
      BY <2>2, <2>3 DEF LiveEntries, Live, Unexpired
    <2>5. ASSUME NEW q \in Readers PROVE ReaderInv(q)'
      <3>1. CASE q = r
        <4>1. /\ rpc'[q] = "judge" /\ entry'[q] = e /\ key' = key /\ glimpsed' = glimpsed
              /\ lasting' = lasting /\ data' = data /\ now' = now
          BY <1>2, <3>1, Zenon DEF ReadsInv, Shapes, history
        <4>. QED BY <2>2, <2>3, <2>4, <3>1, <4>1, Zenon DEF ReaderInv, Busy
      <3>2. CASE q # r
        BY <1>2, <3>2, OtherReaders, Zenon DEF ReadsInv, Shapes, history
      <3>. QED BY <3>1, <3>2, Zenon
    <2>. QED BY <2>1, <2>5, Zenon DEF ReadsInv
  <1>. QED BY <1>1, <1>2, Zenon DEF GetFetch

\* The invariant holds throughout.
THEOREM ReadsInvariant == Spec => []ReadsInv
  <1>1. ReadsInv /\ [Next]_vars => ReadsInv'
    <2>. SUFFICES ASSUME ReadsInv, [Next]_vars PROVE ReadsInv'
      BY Zenon
    <2>1. CASE Environment
      BY <2>1, EnvironmentKeeps, Zenon
    <2>2. ASSUME NEW r \in Readers, (\E k \in Keys : Get(r, k)) \/ List(r) PROVE ReadsInv'
      BY <2>2, BeginKeeps, Zenon
    <2>3. ASSUME NEW r \in Readers, GetFetch(r) PROVE ReadsInv'
      BY <2>3, FetchKeeps, Zenon
    <2>4. ASSUME NEW r \in Readers, GetJudge(r) \/ ListScan(r) PROVE ReadsInv'
      <3>1. \E result : Return(r, result)
        BY <2>4, Zenon DEF GetJudge, ListScan
      <3>. QED BY <3>1, ReturnKeeps, Zenon
    <2>5. CASE UNCHANGED vars
      BY <2>5, Zenon DEF ReadsInv, StoreTyped, Shapes, ReaderInv, Busy, Live, LiveEntries, vars,
                  callVars, history
    <2>. QED BY <2>1, <2>2, <2>3, <2>4, <2>5, Zenon DEF Next
  <1>. QED BY <1>1, InitEstablishes, PTL DEF Spec

-----------------------------------------------------------------------------
(* What follows from it *)

\* Only three steps end a call, and each answers as the code does.
LEMMA Answers ==
  ASSUME ReadsInv, [Next]_vars, NEW r \in Readers, rpc[r] # "idle", rpc'[r] = "idle"
  PROVE  /\ GetReturns(r) /\ answer'[r] # NotFound =>
              \/ /\ rpc[r] = "fetch" /\ answer'[r] = data[key[r]]
                 /\ data[key[r]] # Absent /\ ExpiryOf(data[key[r]]) = NoExpiry
              \/ rpc[r] = "judge" /\ answer'[r] = entry[r] /\ ~ExpiredAt(entry[r], now)
         /\ ListReturns(r) =>
              answer'[r] = {k \in Keys : data[k] # Absent /\ ~ExpiredAt(data[k], cutoff[r])}
  <1>. USE DEF ReadsInv, Shapes
  <1>1. CASE Environment \/ UNCHANGED vars
    BY <1>1, Zenon DEF Environment, vars
  <1>2. ASSUME NEW q \in Readers, (\E k \in Keys : Get(q, k)) \/ List(q)
        PROVE  FALSE
    BY <1>2 DEF Get, List, Begin, Busy
  <1>3. ASSUME NEW q \in Readers, NEW result, Return(q, result)
        PROVE  q = r /\ answer'[r] = result
    BY <1>3, Zenon DEF Return
  <1>4. ASSUME NEW q \in Readers, GetFetch(q)
        PROVE  /\ q = r /\ rpc[r] = "fetch"
               /\ answer'[r] # NotFound =>
                    /\ answer'[r] = data[key[r]]
                    /\ data[key[r]] # Absent /\ ExpiryOf(data[key[r]]) = NoExpiry
    <2>1. CASE Return(q, NotFound)
      BY <1>3, <1>4, <2>1, Zenon DEF GetFetch
    <2>2. CASE /\ data[key[q]] # Absent /\ ExpiryOf(data[key[q]]) = NoExpiry
               /\ Return(q, data[key[q]])
      BY <1>3, <1>4, <2>2, Zenon DEF GetFetch
    <2>3. CASE rpc' = [rpc EXCEPT ![q] = "judge"]
      BY <2>3, Zenon
    <2>. QED BY <1>4, <2>1, <2>2, <2>3, Zenon DEF GetFetch
  <1>5. ASSUME NEW q \in Readers, GetJudge(q)
        PROVE  /\ q = r /\ rpc[r] = "judge"
               /\ answer'[r] # NotFound => answer'[r] = entry[r] /\ ~ExpiredAt(entry[r], now)
    BY <1>3, <1>5, Zenon DEF GetJudge
  <1>6. ASSUME NEW q \in Readers, ListScan(q)
        PROVE  /\ q = r /\ rpc[r] = "scan"
               /\ answer'[r] = {k \in Keys : data[k] # Absent /\ ~ExpiredAt(data[k], cutoff[r])}
    BY <1>3, <1>6, Zenon DEF ListScan
  <1>. QED BY <1>1, <1>2, <1>4, <1>5, <1>6, Zenon DEF Next, GetReturns, ListReturns

\* A get never serves an expired value, whoever else runs (KeyService::get).
THEOREM GetsServeLive == Spec => GetServesLive
  <1>1. ReadsInv /\ [Next]_vars => [ReturnsLive]_vars
    <2> SUFFICES ASSUME ReadsInv, [Next]_vars, NEW r \in Readers,
                        GetReturns(r), answer'[r] # NotFound
                 PROVE  <<key[r], answer'[r]>> \in glimpsed[r]
      BY Zenon DEF ReturnsLive
    <2>1. /\ ReaderInv(r) /\ Busy(r) /\ key[r] \in Keys
          /\ now \in Nat /\ data \in [Keys -> Cell]
      BY Zenon DEF ReadsInv, StoreTyped, ReaderInv, GetReturns, Busy
    <2>2. rpc[r] # "idle" /\ rpc'[r] = "idle"
      BY Zenon DEF GetReturns
    <2>3. CASE /\ answer'[r] = data[key[r]]
               /\ data[key[r]] # Absent /\ ExpiryOf(data[key[r]]) = NoExpiry
      <3>1. Unexpired(data[key[r]], now)
        BY <2>3, Zenon DEF Unexpired, ExpiryOf
      <3>2. <<key[r], data[key[r]]>> \in LiveEntries(data, now)
        BY <2>1, <3>1, Zenon DEF LiveEntries, Live
      <3>. QED BY <2>1, <2>3, <3>2, Zenon DEF ReaderInv
    <2>4. CASE rpc[r] = "judge" /\ answer'[r] = entry[r] /\ ~ExpiredAt(entry[r], now)
      <3>1. /\ entry[r] \in Entry /\ entry[r].expires \in Nat
            /\ <<key[r], entry[r]>> \in glimpsed[r] \/ entry[r].expires <= now
        BY <2>1, <2>4, Zenon DEF ReaderInv
      <3>2. ~(entry[r].expires <= now)
        BY <2>4, <3>1, Zenon DEF ExpiredAt, ExpiryOf
      <3>. QED BY <2>4, <3>1, <3>2, Zenon
    <2>. QED BY <2>2, <2>3, <2>4, Answers, Zenon
  <1>. QED BY <1>1, ReadsInvariant, PTL DEF Spec, GetServesLive

\* A list misses nothing that was there throughout and shows nothing that had
\* expired when it was called (KeyService::list).
THEOREM ListsAreBetween == Spec => ListBetween
  <1>1. ReadsInv /\ [Next]_vars => [ListsLasting]_vars
    <2> SUFFICES ASSUME ReadsInv, [Next]_vars, NEW r \in Readers, ListReturns(r)
                 PROVE  /\ lasting[r] \subseteq answer'[r]
                        /\ \A k \in answer'[r] : Unexpired(data[k], since[r])
      BY Zenon DEF ListsLasting
    <2>1. /\ lasting[r] \subseteq Live(data, now)
          /\ cutoff[r] = since[r] /\ cutoff[r] \in Nat /\ cutoff[r] <= now
          /\ now \in Nat /\ data \in [Keys -> Cell]
      BY Zenon DEF ReadsInv, StoreTyped, ReaderInv, ListReturns, Busy
    <2>2. answer'[r] = {k \in Keys : data[k] # Absent /\ ~ExpiredAt(data[k], cutoff[r])}
      BY Answers, Zenon DEF ListReturns
    <2>3. ASSUME NEW k \in Keys, data[k] # Absent
          PROVE  /\ data[k] \in Entry
                 /\ Unexpired(data[k], now) => ~ExpiredAt(data[k], cutoff[r])
                 /\ ~ExpiredAt(data[k], cutoff[r]) => Unexpired(data[k], since[r])
      <3>1. data[k] \in Entry
        BY <2>1, <2>3, Zenon DEF Cell
      <3>2. data[k].expires \in Nat \cup {NoExpiry}
        BY <3>1, Zenon DEF Entry, Expiry
      <3>. QED BY <2>1, <2>3, <3>1, <3>2 DEF Unexpired, ExpiredAt, ExpiryOf
    <2>4. \A k \in Live(data, now) : k \in Keys /\ data[k] # Absent /\ Unexpired(data[k], now)
      BY Zenon DEF Live, Unexpired
    <2>. QED BY <2>1, <2>2, <2>3, <2>4, Zenon
  <1>. QED BY <1>1, ReadsInvariant, PTL DEF Spec, ListBetween
=============================================================================

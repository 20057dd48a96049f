------------------------------- MODULE KeyOps -------------------------------
(***************************************************************************)
(* Entries of the key store, the write requests the use cases hand to it   *)
(* and what each request does to a map of entries.  A key is a storage key *)
(* `bucket:key`.  Times are whole Unix seconds: encode_entry truncates an  *)
(* expiry to seconds, and a whole second e satisfies e <= t exactly when   *)
(* e <= floor(t).  A counter is an integer; floats: StoredValues.          *)
(***************************************************************************)
EXTENDS Integers, Sequences

CONSTANTS
  Keys,        \* storage keys
  Absent,      \* the storage key is not in the map
  NoExpiry,    \* an entry without a TTL
  NoOp,        \* no request
  Text,        \* any stored value a counter cannot be read from
  MinInt,      \* smallest counter value (i64::MIN)
  MaxInt,      \* largest counter value (i64::MAX)
  WriteValues, \* values that set and transactions write
  Deltas,      \* counter deltas
  Ttls,        \* TTLs in seconds; 0 stands for a write without expiry
  MaxBatch     \* bound: operations in one transaction

Values == (MinInt..MaxInt) \cup {Text}
Expiry == Nat \cup {NoExpiry}
Entry  == [value : Values, expires : Expiry]
Cell   == Entry \cup {Absent}

\* One operation of a transaction: a set, or a delete when the cell is Absent.
Item == [key : Keys, entry : Cell]

WriteOp  == [type : {"apply"}, items : Seq(Item)]
DeleteOp == [type : {"delete"}, key : Keys]
IncrOp   == [type : {"increment"}, key : Keys, delta : Deltas, expires : Expiry, at : Nat]
Ops      == WriteOp \cup DeleteOp \cup IncrOp

ASSUME KeysAssumption == Keys # {}
ASSUME CellAssumption ==
  Absent \notin Entry /\ NoExpiry \notin Nat /\ Text \notin Int /\ NoOp \notin Ops
ASSUME ValuesAssumption ==
  /\ MinInt \in Int /\ MaxInt \in Int /\ 0 \in MinInt..MaxInt
  /\ WriteValues \subseteq Values
  /\ Deltas \subseteq Int
  /\ Ttls \subseteq Nat
  /\ MaxBatch \in Nat

-----------------------------------------------------------------------------
\* A cell's expiry, NoExpiry when it has none.
ExpiryOf(cell) == IF cell = Absent THEN NoExpiry ELSE cell.expires

\* `exp <= now`, the test of get, list, increment and the sweeper.
ExpiredAt(cell, t) == ExpiryOf(cell) # NoExpiry /\ ExpiryOf(cell) <= t

KeysOf(o) == IF o.type = "apply" THEN {o.items[i].key : i \in DOMAIN o.items}
                                 ELSE {o.key}

\* A fjall batch applied to map d: for each key the last operation on it wins.
LastOn(items, i, k) == /\ i \in DOMAIN items /\ items[i].key = k
                       /\ \A j \in DOMAIN items : j > i => items[j].key # k
Overlay(d, items) ==
  [k \in Keys |-> IF \E i \in DOMAIN items : LastOn(items, i, k)
                  THEN items[CHOOSE i \in DOMAIN items : LastOn(items, i, k)].entry
                  ELSE d[k]]

\* Mutant: only the first operation of a transaction is indexed.
IndexEntriesFirst(items) ==
  {<<ExpiryOf(items[i].entry), items[i].key>> :
     i \in {j \in DOMAIN items : j = 1 /\ ExpiryOf(items[j].entry) # NoExpiry}}

\* The index entries the same batch inserts: one per set with an expiry.
IndexEntries(items) ==
  {<<ExpiryOf(items[i].entry), items[i].key>> :
     i \in {j \in DOMAIN items : ExpiryOf(items[j].entry) # NoExpiry}}

\* The counter an increment starts from: 0 when missing or expired at time t.
CounterBase(cell, t) == IF cell = Absent \/ ExpiredAt(cell, t) THEN 0 ELSE cell.value

\* Mutant: an unchecked addition.
CanIncrementUnchecked(base, delta) == base \in MinInt..MaxInt

\* from_stored accepts the base and checked_add does not overflow.
CanIncrement(base, delta) == base \in MinInt..MaxInt /\ base + delta \in MinInt..MaxInt

-----------------------------------------------------------------------------
\* KeyService::resolve_ttl at time t, after the choice of override or default.
ResolveTtl(ttl, t) == IF ttl = 0 THEN NoExpiry ELSE t + ttl

NewEntries(t) == {[value |-> v, expires |-> ResolveTtl(ttl, t)] : v \in WriteValues, ttl \in Ttls}

\* The requests a use case can issue at time t.
SetRequests(t) ==
  {[type |-> "apply", items |-> <<[key |-> k, entry |-> e]>>] : k \in Keys, e \in NewEntries(t)}
BatchRequests(t) ==
  {[type |-> "apply", items |-> s] :
     s \in UNION {[1..n -> [key : Keys, entry : NewEntries(t) \cup {Absent}]] : n \in 1..MaxBatch}}
DeleteRequests == {[type |-> "delete", key |-> k] : k \in Keys}
IncrementRequests(t) ==
  {[type |-> "increment", key |-> k, delta |-> d, expires |-> ResolveTtl(ttl, t), at |-> t] :
     k \in Keys, d \in Deltas, ttl \in Ttls}
====

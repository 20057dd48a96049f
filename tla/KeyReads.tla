------------------------------ MODULE KeyReads ------------------------------
(***************************************************************************)
(* KeyService::get (GET and HEAD of a key) and KeyService::list while      *)
(* writers run.  Reads take no lock.  The writers, the clock and the       *)
(* sweeper are those of TtlMap, the map FjallStore implements.  A get      *)
(* fetches the entry and then reads the clock; a list reads the clock and  *)
(* then opens a snapshot of the keyspace.                                  *)
(***************************************************************************)
EXTENDS KeyOps

CONSTANTS
  Threads,   \* writers
  MaxTime,   \* bound: the clock stops here
  Readers,   \* blocking tasks that run a get or a list
  NoKey,     \* a list, or no call
  NotFound   \* answer of a get that finds nothing

VARIABLES
  data, now, op,  \* the map, the clock and the write requests (TtlMap)
  rpc,            \* control state of each reader
  key,            \* the key a get asks for
  entry,          \* what the get fetched
  cutoff,         \* `expires_before` of a list
  answer,         \* what the last call returned
  since,          \* history: time of the call
  lasting,        \* history: keys that were live in every state of the call
  glimpsed        \* history: <<key, entry>> that were live in some state of the call

callVars == <<key, entry, cutoff>>
history  == <<since, lasting, glimpsed>>
vars == <<data, now, op, rpc, answer, callVars, history>>

Store == INSTANCE TtlMap

-----------------------------------------------------------------------------
(* History *)

Busy(r) == rpc[r] # "idle"

Unexpired(cell, t) == cell # Absent /\ (cell.expires = NoExpiry \/ cell.expires > t)

Live(d, t) == {k \in Keys : Unexpired(d[k], t)}
LiveEntries(d, t) == {<<k, d[k]>> : k \in Live(d, t)}

-----------------------------------------------------------------------------
Init ==
  /\ Store!Init
  /\ rpc = [r \in Readers |-> "idle"]
  /\ answer = [r \in Readers |-> NotFound]
  /\ key = [r \in Readers |-> NoKey]
  /\ entry = [r \in Readers |-> Absent]
  /\ cutoff = [r \in Readers |-> 0]
  /\ since = [r \in Readers |-> 0]
  /\ lasting = [r \in Readers |-> {}]
  /\ glimpsed = [r \in Readers |-> {}]

\* A step of the writers, the clock or the sweeper, seen by the calls under way.
Environment ==
  /\ Store!Next
  /\ lasting' = [r \in Readers |-> IF Busy(r) THEN lasting[r] \cap Live(data', now')
                                   ELSE lasting[r]]
  /\ glimpsed' = [r \in Readers |-> IF Busy(r) THEN glimpsed[r] \cup LiveEntries(data', now')
                                    ELSE glimpsed[r]]
  /\ UNCHANGED <<rpc, answer, callVars, since>>

Begin(r, step) ==
  /\ ~Busy(r)
  /\ rpc' = [rpc EXCEPT ![r] = step]
  /\ answer' = [answer EXCEPT ![r] = NotFound]
  /\ since' = [since EXCEPT ![r] = now]
  /\ lasting' = [lasting EXCEPT ![r] = Live(data, now)]
  /\ glimpsed' = [glimpsed EXCEPT ![r] = LiveEntries(data, now)]
  /\ UNCHANGED <<data, now, op>>

\* The call returns; its locals are gone.
Return(r, result) ==
  /\ rpc' = [rpc EXCEPT ![r] = "idle"]
  /\ answer' = [answer EXCEPT ![r] = result]
  /\ key' = [key EXCEPT ![r] = NoKey]
  /\ entry' = [entry EXCEPT ![r] = Absent]
  /\ cutoff' = [cutoff EXCEPT ![r] = 0]
  /\ since' = [since EXCEPT ![r] = 0]
  /\ lasting' = [lasting EXCEPT ![r] = {}]
  /\ glimpsed' = [glimpsed EXCEPT ![r] = {}]
  /\ UNCHANGED <<data, now, op>>

-----------------------------------------------------------------------------
\* get_key and head_key hand the key to the blocking pool.
Get(r, k) ==
  /\ Begin(r, "fetch")
  /\ key' = [key EXCEPT ![r] = k]
  /\ UNCHANGED <<entry, cutoff>>

\* `repo.get(..)?.ok_or(NotFound)?`; an entry without expiry is returned at once.
GetFetch(r) ==
  /\ rpc[r] = "fetch"
  /\ LET e == data[key[r]] IN
     \/ e = Absent /\ Return(r, NotFound)
     \/ e # Absent /\ ExpiryOf(e) = NoExpiry /\ Return(r, e)
     \/ /\ ExpiryOf(e) # NoExpiry
        /\ rpc' = [rpc EXCEPT ![r] = "judge"]
        /\ entry' = [entry EXCEPT ![r] = e]
        /\ UNCHANGED <<data, now, op, answer, key, cutoff, history>>

\* Mutant: an entry is returned in the very second it expires.
GetJudgeStrict(r) ==
  /\ rpc[r] = "judge"
  /\ Return(r, IF ExpiryOf(entry[r]) < now THEN NotFound ELSE entry[r])

\* `exp <= clock.now_utc()`, with the clock read after the fetch.
GetJudge(r) ==
  /\ rpc[r] = "judge"
  /\ Return(r, IF ExpiredAt(entry[r], now) THEN NotFound ELSE entry[r])

\* KeyService::list reads the clock into `expires_before`.
List(r) ==
  /\ Begin(r, "scan")
  /\ cutoff' = [cutoff EXCEPT ![r] = now]
  /\ UNCHANGED <<key, entry>>

\* Mutant: keys in their last second are left out.
ListScanEager(r) ==
  /\ rpc[r] = "scan"
  /\ Return(r, {k \in Keys : data[k] # Absent /\ ~ExpiredAt(data[k], cutoff[r] + 1)})

\* list_inner on the snapshot that `data.prefix(..)` opens (paging: ListScan).
ListScan(r) ==
  /\ rpc[r] = "scan"
  /\ Return(r, {k \in Keys : data[k] # Absent /\ ~ExpiredAt(data[k], cutoff[r])})

Next == \/ Environment
        \/ \E r \in Readers : \/ \E k \in Keys : Get(r, k)
                              \/ GetFetch(r) \/ GetJudge(r) \/ List(r) \/ ListScan(r)

Spec == Init /\ [][Next]_vars

-----------------------------------------------------------------------------
(* Properties *)

\* The call of reader r returns in this step: a get of key[r], or a list.
GetReturns(r)  == rpc[r] \in {"fetch", "judge"} /\ rpc'[r] = "idle"
ListReturns(r) == rpc[r] = "scan" /\ rpc'[r] = "idle"

\* A get never serves an expired value (keys.rs get): what it returns was the
\* stored and unexpired entry of the key at some instant of the call.
ReturnsLive ==
  \A r \in Readers : GetReturns(r) /\ answer'[r] # NotFound =>
                       <<key[r], answer'[r]>> \in glimpsed[r]

GetServesLive == [][ReturnsLive]_vars

\* A list misses no key that was there and unexpired from its call to its
\* return, and shows no entry that had expired when it was called, whatever
\* the writers and the sweeper do meanwhile (keys.rs list, store.rs list_inner).
ListsLasting ==
  \A r \in Readers : ListReturns(r) =>
    /\ lasting[r] \subseteq answer'[r]
    /\ \A k \in answer'[r] : Unexpired(data[k], since[r])

ListBetween == [][ListsLasting]_vars
====

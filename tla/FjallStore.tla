----------------------------- MODULE FjallStore -----------------------------
(***************************************************************************)
(* The storage adapter of keydock (crates/keydock-fjall): the `data` and   *)
(* `expiry` keyspaces, the striped write locks that serialise writers, the *)
(* garbage collector that sweeps expired entries, and the faults the code  *)
(* handles.  Worker threads are the blocking tasks that run one KeyService *)
(* or TxnService call.  Reads, which take no lock, are in KeyReads.        *)
(***************************************************************************)
EXTENDS KeyOps

CONSTANTS
  Threads,     \* blocking tasks that may run at the same time
  Stripes,     \* indices of the striped write locks
  StripeOf,    \* the stripe a storage key hashes to
  Gc,          \* the sweeper, as a holder of locks
  Free,        \* holder of a lock nobody holds
  MaxTime,     \* bound: the clock stops here
  Faults,      \* the kinds of fault that may occur
  MaxFaults    \* bound: faults in one behaviour

Actors == Threads \cup {Gc}

ASSUME StripesAssumption == Stripes \subseteq Nat /\ StripeOf \in [Keys -> Stripes]
\* The number of stripes is fixed (WRITE_LOCK_STRIPES).
ASSUME LastStripeAssumption == \E last \in Stripes : \A s \in Stripes : s <= last
ASSUME ActorsAssumption == Gc \notin Threads /\ Free \notin Actors
ASSUME FaultsAssumption ==
  MaxTime \in Nat /\ MaxFaults \in Nat /\ Faults \subseteq {"crash", "io", "panic"}

VARIABLES
  data,      \* keyspace `data`: storage key -> entry
  expiry,    \* keyspace `expiry`: the set of index entries <<expires, key>>
  now,       \* system clock
  holder,    \* who holds each striped lock
  poisoned,  \* stripes whose mutex is poisoned
  pc,        \* control state of each worker thread
  op,        \* the operation each worker thread runs
  need,      \* stripes the operation has still to lock
  seen,      \* what the operation read under the lock
  gcPc,      \* control state of the sweeper
  gcNow,     \* `now_ts` of the sweep
  gcScan,    \* what is left of the snapshot of `expiry` the sweep iterates
  gcEntry,   \* the index entry being handled
  leaked,    \* history: index entries dropped although their data entry stayed
  faults     \* number of faults so far

storage    == <<data, expiry>>
locks      == <<holder, poisoned>>
threadVars == <<pc, op, need, seen>>
gcVars     == <<gcPc, gcNow, gcScan, gcEntry>>
history    == <<leaked, faults>>
vars == <<storage, now, locks, threadVars, gcVars, history>>

-----------------------------------------------------------------------------
(* Helpers *)

\* The stripes of lock_for and lock_stripes_for_keys; as a set, deduplicated.
StripesOf(o) == {StripeOf[k] : k \in KeysOf(o)}

Held(a) == {s \in Stripes : holder[s] = a}

\* The sweeper handles no index entry.
NoIndexEntry == <<0, CHOOSE k \in Keys : TRUE>>

\* Mutant: one guard is forgotten when several are dropped.
ReleasedAllButOne(a) ==
  [s \in Stripes |-> IF holder[s] = a /\ (\A r \in Held(a) : r <= s) THEN Free ELSE holder[s]]

\* Dropping every guard that actor a holds.
Released(a) == [s \in Stripes |-> IF holder[s] = a THEN Free ELSE holder[s]]

-----------------------------------------------------------------------------
Init ==
  /\ data = [k \in Keys |-> Absent]
  /\ expiry = {}
  /\ now = 0
  /\ holder = [s \in Stripes |-> Free]
  /\ poisoned = {}
  /\ pc = [t \in Threads |-> "idle"]
  /\ op = [t \in Threads |-> NoOp]
  /\ need = [t \in Threads |-> {}]
  /\ seen = [t \in Threads |-> Absent]
  /\ gcPc = "sleep"
  /\ gcNow = 0
  /\ gcScan = {}
  /\ gcEntry = NoIndexEntry
  /\ leaked = {}
  /\ faults = 0

Tick ==
  /\ now < MaxTime
  /\ now' = now + 1
  /\ UNCHANGED <<storage, locks, threadVars, gcVars, history>>

-----------------------------------------------------------------------------
(* Worker threads *)

\* The request reaches the blocking pool: TTL resolved, stripes computed.
Start(t, o) ==
  /\ pc[t] = "idle"
  /\ pc' = [pc EXCEPT ![t] = "lock"]
  /\ op' = [op EXCEPT ![t] = o]
  /\ need' = [need EXCEPT ![t] = StripesOf(o)]
  /\ UNCHANGED <<storage, now, locks, seen, gcVars, history>>

\* The operation returns and drops its guards.
Finish(t) ==
  /\ pc' = [pc EXCEPT ![t] = "idle"]
  /\ op' = [op EXCEPT ![t] = NoOp]
  /\ need' = [need EXCEPT ![t] = {}]
  /\ seen' = [seen EXCEPT ![t] = Absent]
  /\ holder' = Released(t)

Set(t)        == \E o \in SetRequests(now) : Start(t, o)
ApplyBatch(t) == \E o \in BatchRequests(now) : Start(t, o)
Delete(t)     == \E o \in DeleteRequests : Start(t, o)
Increment(t)  == \E o \in IncrementRequests(now) : Start(t, o)

\* Mutant: the guard is dropped at once (`let _ = lock_for(..)`).
LockDropped(t) ==
  /\ pc[t] = "lock"
  /\ \E s \in need[t] : holder[s] = Free /\ need' = [need EXCEPT ![t] = @ \ {s}]
  /\ pc' = [pc EXCEPT ![t] = IF need'[t] # {} THEN "lock"
                             ELSE IF op[t].type = "apply" THEN "write" ELSE "read"]
  /\ UNCHANGED <<storage, now, locks, op, seen, gcVars, history>>

\* Mutant: the stripes are locked in the order of the request.
LockUnsorted(t) ==
  /\ pc[t] = "lock"
  /\ \E s \in need[t] :
       /\ holder[s] = Free
       /\ \/ /\ s \notin poisoned
             /\ holder' = [holder EXCEPT ![s] = t]
             /\ need' = [need EXCEPT ![t] = @ \ {s}]
             /\ pc' = [pc EXCEPT ![t] =
                         IF need[t] # {s} THEN "lock"
                         ELSE IF op[t].type = "apply" THEN "write" ELSE "read"]
             /\ UNCHANGED <<op, seen>>
          \/ /\ s \in poisoned
             /\ Finish(t)
  /\ UNCHANGED <<storage, now, poisoned, gcVars, history>>

\* lock_for / lock_stripes_for_keys: block on the smallest stripe still needed.
Lock(t) ==
  /\ pc[t] = "lock"
  /\ \E s \in need[t] :
       /\ \A r \in need[t] : s <= r
       /\ holder[s] = Free
       /\ \/ /\ s \notin poisoned
             /\ holder' = [holder EXCEPT ![s] = t]
             /\ need' = [need EXCEPT ![t] = @ \ {s}]
             /\ pc' = [pc EXCEPT ![t] =
                         IF need[t] # {s} THEN "lock"
                         ELSE IF op[t].type = "apply" THEN "write" ELSE "read"]
             /\ UNCHANGED <<op, seen>>
          \/ /\ s \in poisoned
             /\ Finish(t)
  /\ UNCHANGED <<storage, now, poisoned, gcVars, history>>

\* Mutant: the operations are committed one at a time.
CommitStepwise(t) ==
  /\ pc[t] = "write" /\ op[t].type = "apply"
  /\ data' = Overlay(data, <<Head(op[t].items)>>)
  /\ expiry' = expiry \cup IndexEntries(<<Head(op[t].items)>>)
  /\ \/ Len(op[t].items) = 1 /\ Finish(t)
     \/ /\ Len(op[t].items) > 1
        /\ op' = [op EXCEPT ![t].items = Tail(@)]
        /\ UNCHANGED <<pc, need, seen, holder>>
  /\ UNCHANGED <<now, poisoned, gcVars, history>>

\* `batch.commit()` of set and apply_batch.
Commit(t) ==
  /\ pc[t] = "write" /\ op[t].type = "apply"
  /\ data' = Overlay(data, op[t].items)
  /\ expiry' = expiry \cup IndexEntries(op[t].items)
  /\ Finish(t)
  /\ UNCHANGED <<now, poisoned, gcVars, history>>

\* `contains_key` of delete; a missing key ends the operation.
DeleteRead(t) ==
  /\ pc[t] = "read" /\ op[t].type = "delete"
  /\ \/ /\ data[op[t].key] = Absent
        /\ Finish(t)
     \/ /\ data[op[t].key] # Absent
        /\ seen' = [seen EXCEPT ![t] = data[op[t].key]]
        /\ pc' = [pc EXCEPT ![t] = "write"]
        /\ UNCHANGED <<op, need, holder>>
  /\ UNCHANGED <<storage, now, poisoned, gcVars, history>>

\* `data.remove` of delete; the index entry stays for the sweeper.
DeleteRemove(t) ==
  /\ pc[t] = "write" /\ op[t].type = "delete"
  /\ data' = [data EXCEPT ![op[t].key] = Absent]
  /\ Finish(t)
  /\ UNCHANGED <<expiry, now, poisoned, gcVars, history>>

\* increment reads the clock and the entry under the lock; a value that is not
\* a number, or an overflow, ends the operation with an error.  What it keeps
\* is the counter it read, here as an entry that carries the new value.
IncrementRead(t) ==
  LET o    == op[t]
      base == CounterBase(data[o.key], now)
  IN /\ pc[t] = "read" /\ o.type = "increment"
     /\ \/ /\ ~CanIncrement(base, o.delta)
           /\ Finish(t)
        \/ /\ CanIncrement(base, o.delta)
           /\ seen' = [seen EXCEPT ![t] = [value |-> base + o.delta, expires |-> o.expires]]
           /\ pc' = [pc EXCEPT ![t] = "write"]
           /\ UNCHANGED <<op, need, holder>>
     /\ UNCHANGED <<storage, now, poisoned, gcVars, history>>

\* Mutant: increment forgets to index the expiry it writes.
IncrementWriteUnindexed(t) ==
  /\ pc[t] = "write" /\ op[t].type = "increment"
  /\ data' = [data EXCEPT ![op[t].key] = seen[t]]
  /\ Finish(t)
  /\ UNCHANGED <<expiry, now, poisoned, gcVars, history>>

\* The batch of increment: the new counter and its index entry.
IncrementWrite(t) ==
  /\ pc[t] = "write" /\ op[t].type = "increment"
  /\ LET items == <<[key |-> op[t].key, entry |-> seen[t]]>>
     IN /\ data' = Overlay(data, items)
        /\ expiry' = expiry \cup IndexEntries(items)
  /\ Finish(t)
  /\ UNCHANGED <<now, poisoned, gcVars, history>>

-----------------------------------------------------------------------------
(* The sweeper: GcSweeper::run and sweep_keyspace *)

GcKey == gcEntry[2]
GcStripe == StripeOf[GcKey]
GcHoldsLock == gcPc \in {"unindex", "verify", "remove"}

\* `continue` with the next index entry, dropping the guard of this one.
GcContinue ==
  /\ gcPc' = "scan"
  /\ gcEntry' = NoIndexEntry
  /\ holder' = Released(Gc)
  /\ UNCHANGED <<gcNow, gcScan>>

\* The sweep is over; its locals are gone.
GcSleep ==
  /\ gcPc' = "sleep"
  /\ gcNow' = 0
  /\ gcScan' = {}
  /\ gcEntry' = NoIndexEntry

\* The interval has passed: read the clock once for the whole sweep.
GcStart ==
  /\ gcPc = "sleep"
  /\ gcPc' = "open"
  /\ gcNow' = now
  /\ UNCHANGED <<storage, now, locks, threadVars, gcScan, gcEntry, history>>

\* `expiry.iter()` opens a snapshot of the index.
GcOpen ==
  /\ gcPc = "open"
  /\ gcPc' = "scan"
  /\ gcScan' = expiry
  /\ UNCHANGED <<storage, now, locks, threadVars, gcNow, gcEntry, history>>

\* The entry the iterator yields: ascending by encoded expiry, the byte order
\* of keys with the same expiry is not modelled.
GcYields(e) == e \in gcScan /\ \A f \in gcScan : e[1] <= f[1]

\* Next loop iteration: the snapshot is exhausted or the rest is not due
\* (`break`), or the entry is due and its stripe is to be locked.
GcNext ==
  /\ gcPc = "scan"
  /\ \/ /\ \A e \in gcScan : GcYields(e) => e[1] > gcNow
        /\ GcSleep
     \/ \E e \in gcScan :
        /\ GcYields(e)
        /\ e[1] <= gcNow
        /\ gcPc' = "lock"
        /\ gcScan' = gcScan \ {e}
        /\ gcEntry' = e
        /\ UNCHANGED gcNow
  /\ UNCHANGED <<storage, now, locks, threadVars, history>>

\* Mutant: the guard is dropped at once (`let _ = lock_for(..)`).
GcLockDropped ==
  /\ gcPc = "lock"
  /\ holder[GcStripe] = Free
  /\ gcPc' = "unindex"
  /\ UNCHANGED <<storage, now, locks, threadVars, gcNow, gcScan, gcEntry, history>>

\* `lock_for(storage_key)`; a poisoned stripe skips the entry.
GcLock ==
  /\ gcPc = "lock"
  /\ holder[GcStripe] = Free
  /\ \/ /\ GcStripe \notin poisoned
        /\ holder' = [holder EXCEPT ![GcStripe] = Gc]
        /\ gcPc' = "unindex"
        /\ UNCHANGED <<gcNow, gcScan, gcEntry>>
     \/ /\ GcStripe \in poisoned
        /\ GcContinue
  /\ UNCHANGED <<storage, now, poisoned, threadVars, history>>

\* Mutant: an index entry goes only together with the data entry it names.
GcUnindexMatching ==
  /\ gcPc = "unindex"
  /\ expiry' = IF ExpiryOf(data[GcKey]) = gcEntry[1] THEN expiry \ {gcEntry} ELSE expiry
  /\ gcPc' = "verify"
  /\ UNCHANGED <<data, now, locks, threadVars, gcNow, gcScan, gcEntry, history>>

\* `expiry.remove(expiry_key)`, before the data entry is looked at.
GcUnindex ==
  /\ gcPc = "unindex"
  /\ expiry' = expiry \ {gcEntry}
  /\ gcPc' = "verify"
  /\ UNCHANGED <<data, now, locks, threadVars, gcNow, gcScan, gcEntry, history>>

\* Mutant: `>=` in the comparison with the clock.
GcMatchesStrict == /\ ExpiryOf(data[GcKey]) # NoExpiry
                   /\ ~(ExpiryOf(data[GcKey]) >= gcNow)
                   /\ ExpiryOf(data[GcKey]) = gcEntry[1]

\* Mutant: the expiry the index named is not compared.
GcMatchesAnyDue == ExpiryOf(data[GcKey]) # NoExpiry /\ ~(ExpiryOf(data[GcKey]) > gcNow)

\* Mutant: the sweeper believes the index.
GcMatchesTrusting == ExpiryOf(data[GcKey]) # NoExpiry

\* The data entry is still there, expired, and it is the one the index named.
GcMatches == /\ ExpiryOf(data[GcKey]) # NoExpiry
             /\ ~(ExpiryOf(data[GcKey]) > gcNow)
             /\ ExpiryOf(data[GcKey]) = gcEntry[1]

\* Mutant: the guard is dropped between the check and the removal.
GcVerifyUnlocks ==
  /\ gcPc = "verify"
  /\ \/ /\ GcMatches
        /\ gcPc' = "remove"
        /\ holder' = Released(Gc)
        /\ UNCHANGED <<gcNow, gcScan, gcEntry>>
     \/ ~GcMatches /\ GcContinue
  /\ UNCHANGED <<storage, now, poisoned, threadVars, history>>

\* `data.get`, `decode_entry_expires_unix` and the two comparisons.
GcVerify ==
  /\ gcPc = "verify"
  /\ \/ /\ GcMatches
        /\ gcPc' = "remove"
        /\ UNCHANGED <<holder, gcNow, gcScan, gcEntry>>
     \/ ~GcMatches /\ GcContinue
  /\ UNCHANGED <<storage, now, poisoned, threadVars, history>>

GcRemove ==
  /\ gcPc = "remove"
  /\ data' = [data EXCEPT ![GcKey] = Absent]
  /\ GcContinue
  /\ UNCHANGED <<expiry, now, poisoned, threadVars, history>>

-----------------------------------------------------------------------------
(* Faults: each leaves the two keyspaces as they are *)

Fault(kind) == kind \in Faults /\ faults < MaxFaults /\ faults' = faults + 1

\* The sweep is cut short after it dropped the index entry of a data entry
\* that is still there: nothing names that data entry any more.
GcAbandons ==
  leaked' = IF gcPc \in {"verify", "remove"} /\ ExpiryOf(data[GcKey]) = gcEntry[1]
            THEN leaked \cup {gcEntry} ELSE leaked

\* A storage call of a worker fails (`map_err(FjallError::from)?`).
IoError(t) ==
  /\ Fault("io")
  /\ pc[t] \in {"read", "write"}
  /\ Finish(t)
  /\ UNCHANGED <<storage, now, poisoned, gcVars, leaked>>

\* A storage call of the sweeper fails: every error arm is a `continue`.
GcIoError ==
  /\ Fault("io")
  /\ \/ /\ gcPc = "scan"
        /\ \E e \in gcScan : GcYields(e) /\ gcScan' = gcScan \ {e}
        /\ UNCHANGED <<holder, gcPc, gcNow, gcEntry>>
     \/ GcHoldsLock /\ GcContinue
  /\ GcAbandons
  /\ UNCHANGED <<storage, now, poisoned, threadVars>>

\* A worker panics while it holds guards: unwinding poisons their mutexes.
Panic(t) ==
  /\ Fault("panic")
  /\ pc[t] \in {"read", "write"}
  /\ poisoned' = poisoned \cup Held(t)
  /\ Finish(t)
  /\ UNCHANGED <<storage, now, gcVars, leaked>>

\* The sweep panics; `run` logs the join error and sleeps again.
GcPanic ==
  /\ Fault("panic")
  /\ GcHoldsLock
  /\ poisoned' = poisoned \cup Held(Gc)
  /\ holder' = Released(Gc)
  /\ GcSleep
  /\ GcAbandons
  /\ UNCHANGED <<storage, now, threadVars>>

\* The process dies and is started again: only the keyspaces survive.
Crash ==
  /\ Fault("crash")
  /\ holder' = [s \in Stripes |-> Free]
  /\ poisoned' = {}
  /\ pc' = [t \in Threads |-> "idle"]
  /\ op' = [t \in Threads |-> NoOp]
  /\ need' = [t \in Threads |-> {}]
  /\ seen' = [t \in Threads |-> Absent]
  /\ GcSleep
  /\ GcAbandons
  /\ UNCHANGED <<storage, now>>

-----------------------------------------------------------------------------
Call(t) == Set(t) \/ ApplyBatch(t) \/ Delete(t) \/ Increment(t)

Work(t) == \/ Commit(t) \/ DeleteRead(t) \/ DeleteRemove(t)
           \/ IncrementRead(t) \/ IncrementWrite(t)

Sweep == GcStart \/ GcOpen \/ GcNext \/ GcUnindex \/ GcVerify \/ GcRemove

Failure == (\E t \in Threads : IoError(t) \/ Panic(t)) \/ GcIoError \/ GcPanic \/ Crash

Next == \/ Tick
        \/ \E t \in Threads : Call(t) \/ Lock(t) \/ Work(t)
        \/ Sweep \/ GcLock
        \/ Failure

Spec == Init /\ [][Next]_vars

\* A started blocking task runs on, the sweeper's timer fires, and a mutex that
\* is released again and again is eventually granted to each waiter.
Fairness == /\ \A t \in Threads : WF_vars(Work(t)) /\ SF_vars(Lock(t))
            /\ WF_vars(Sweep) /\ SF_vars(GcLock)

FairSpec == Spec /\ Fairness

-----------------------------------------------------------------------------
(* Properties *)

TypeOK ==
  /\ data \in [Keys -> Cell]
  /\ expiry \subseteq Nat \X Keys
  /\ now \in Nat
  /\ holder \in [Stripes -> Actors \cup {Free}]
  /\ poisoned \subseteq Stripes
  /\ pc \in [Threads -> {"idle", "lock", "read", "write"}]
  /\ op \in [Threads -> Ops \cup {NoOp}]
  /\ \A t \in Threads : pc[t] = "idle" <=> op[t] = NoOp
  /\ need \in [Threads -> SUBSET Stripes]
  /\ seen \in [Threads -> Cell]
  /\ gcPc \in {"sleep", "open", "scan", "lock", "unindex", "verify", "remove"}
  /\ gcNow \in Nat
  /\ gcScan \subseteq Nat \X Keys
  /\ gcEntry \in Nat \X Keys
  /\ leaked \subseteq Nat \X Keys
  /\ faults \in Nat

\* The inductive description of the locks: a thread holds exactly the stripes
\* of its operation that it no longer needs, the sweeper the one of its entry.
LocksHeld ==
  /\ \A t \in Threads :
       /\ pc[t] = "idle" => need[t] = {} /\ Held(t) = {}
       /\ pc[t] # "idle" => /\ need[t] \subseteq StripesOf(op[t])
                            /\ Held(t) = StripesOf(op[t]) \ need[t]
       /\ pc[t] \in {"read", "write"} => need[t] = {}
       /\ pc[t] = "read" => op[t].type # "apply"
  /\ Held(Gc) = IF GcHoldsLock THEN {GcStripe} ELSE {}

\* No clock reading lies in the future, and the sweeper handles only entries
\* that were due at the start of the sweep.
ClockReadings ==
  /\ gcNow <= now
  /\ gcPc \in {"lock", "unindex", "verify", "remove"} => gcEntry[1] <= gcNow
  /\ gcPc = "remove" => ExpiryOf(data[GcKey]) = gcEntry[1]
  /\ \A t \in Threads : op[t] \in IncrOp => op[t].at <= now

\* What thread t's increment is about to write is computed from what is stored.
IncrementCurrent(t) ==
  pc[t] = "write" /\ op[t].type = "increment" =>
    \E tm \in op[t].at..now :
      /\ CanIncrement(CounterBase(data[op[t].key], tm), op[t].delta)
      /\ seen[t] = [value   |-> CounterBase(data[op[t].key], tm) + op[t].delta,
                    expires |-> op[t].expires]

\* No lost update (store.rs increment): what an increment is about to write is
\* the sum of its delta and of the counter that is stored now, as it was at
\* some instant since the call; no other writer and no sweep came between.
NoLostIncrement == \A t \in Threads : IncrementCurrent(t)

\* The expiry index is complete (store.rs set, increment, apply_batch; gc.rs):
\* every stored entry with an expiry is named by the index, unless the sweeper
\* is removing it at this moment or was cut short while doing so.
ExpiringEntriesIndexed ==
  \A k \in Keys : LET e == <<ExpiryOf(data[k]), k>> IN
    ExpiryOf(data[k]) # NoExpiry =>
      \/ e \in expiry \cup leaked
      \/ gcPc \in {"verify", "remove"} /\ gcEntry = e

\* Deadlock freedom (locks.rs lock_stripes_for_keys): whenever a thread waits
\* for a stripe, some actor that holds or wants locks can take its next step.
SomeoneCanRun ==
  (\E t \in Threads : pc[t] = "lock") =>
    \/ GcHoldsLock
    \/ \E t \in Threads :
         \/ pc[t] \in {"read", "write"}
         \/ pc[t] = "lock" /\ \E s \in need[t] : /\ \A r \in need[t] : s <= r
                                                /\ holder[s] = Free

\* A key that goes absent was expired, or a worker returns from a request on it.
DropsWithReason ==
  \A k \in Keys :
    data[k] # Absent /\ data'[k] = Absent =>
      \/ ExpiredAt(data[k], now)
      \/ \E t \in Threads : pc[t] = "write" /\ pc'[t] = "idle" /\ k \in KeysOf(op[t])

\* Entries disappear only for a reason (gc.rs sweep_keyspace): the sweeper, who
\* decides on an index entry written long before, never takes a renewed entry.
OnlyExpiredCollected == [][DropsWithReason]_vars

\* Every call returns (locks.rs): no writer waits for ever, whatever the other
\* writers, the sweeper and the faults do.
EveryCallReturns == \A t \in Threads : pc[t] # "idle" ~> pc[t] = "idle"

\* "Removes all entries with `expires_at <= now`" (gc.rs:37): an expired entry
\* does not stay in `data` for ever.
ExpiredEventuallyCollected ==
  \A k \in Keys : \A e \in 0..MaxTime :
    (ExpiryOf(data[k]) = e /\ e <= now) ~> ExpiryOf(data[k]) # e

\* Index entries left by deletes and overwrites do not pile up (gc.rs:107):
\* an index entry that is due is eventually dropped.
IndexEventuallyDrained ==
  \A k \in Keys : \A e \in 0..MaxTime :
    (<<e, k>> \in expiry /\ e <= now) ~> <<e, k>> \notin expiry

\* FjallStore implements TtlMap: with `data`, the clock and the requests under
\* way seen as they are, the locks, the index and the sweeper are invisible.
Map == INSTANCE TtlMap
MapSpec == Map!Spec
====

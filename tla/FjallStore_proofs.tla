------------------------- MODULE FjallStore_proofs --------------------------
(***************************************************************************)
(* The invariants of FjallStore for any set of keys, threads and stripes,  *)
(* any assignment of keys to stripes, any batches and any number of        *)
(* faults; and that FjallStore implements TtlMap: through the locks, the   *)
(* expiry index, the sweeper and the faults, callers see a map whose       *)
(* requests take effect atomically.  The mapping is the identity on data,  *)
(* now and op.  The steps come first: they keep the types and the order of *)
(* the striped locks, and change only so much of the cells, the requests,  *)
(* the clock and the sweeper's locals.                                     *)
(***************************************************************************)
EXTENDS FjallStore, KeyOps_proofs, WellFoundedInduction

USE KeysAssumption, CellAssumption, ValuesAssumption, StripesAssumption,
    ActorsAssumption, FaultsAssumption, SMTT(60), ZenonT(60)

\* A request names keys of the store, and its stripes are stripes.
LEMMA KeysOfTyped ==
  ASSUME NEW o \in Ops
  PROVE  KeysOf(o) \subseteq Keys /\ StripesOf(o) \subseteq Stripes
  <1>1. CASE o.type = "apply"
    <2>1. \A i \in DOMAIN o.items : o.items[i].key \in Keys
      BY <1>1, ItemsTyped, Zenon
    <2>. QED BY <1>1, <2>1 DEF KeysOf, StripesOf
  <1>2. CASE o.type # "apply"
    BY <1>2, OpKinds DEF KeysOf, StripesOf, Ops, WriteOp, DeleteOp, IncrOp
  <1>. QED BY <1>1, <1>2, Zenon

-----------------------------------------------------------------------------
(* Type correctness *)

\* Releasing guards keeps the lock table a lock table.
LEMMA ReleasedTyped ==
  ASSUME NEW a, holder \in [Stripes -> Actors \cup {Free}]
  PROVE  Released(a) \in [Stripes -> Actors \cup {Free}]
  BY Zenon DEF Released

\* Ending an operation keeps the thread variables and the locks typed.
LEMMA FinishTyped ==
  ASSUME TypeOK, NEW t \in Threads, Finish(t)
  PROVE  /\ holder' \in [Stripes -> Actors \cup {Free}]
         /\ pc' \in [Threads -> {"idle", "lock", "read", "write"}]
         /\ op' \in [Threads -> Ops \cup {NoOp}]
         /\ \A u \in Threads : pc'[u] = "idle" <=> op'[u] = NoOp
         /\ need' \in [Threads -> SUBSET Stripes]
         /\ seen' \in [Threads -> Cell]
  BY ReleasedTyped, Zenon DEF Finish, TypeOK, Cell

\* A request under way is not NoOp.
LEMMA BusyHasOp ==
  ASSUME TypeOK, NEW t \in Threads, pc[t] # "idle"
  PROVE  op[t] \in Ops
  BY DEF TypeOK

\* A thread that takes up a request is well typed.
LEMMA StartTyped ==
  ASSUME TypeOK, NEW t \in Threads, NEW o \in Ops, Start(t, o)
  PROVE  TypeOK'
  <1>1. StripesOf(o) \subseteq Stripes
    BY KeysOfTyped, Zenon
  <1>2. o # NoOp
    BY Zenon
  <1>. QED
    BY <1>1, <1>2, Zenon DEF Start, TypeOK, storage, locks, gcVars, history

\* Every step keeps the state well typed.
THEOREM TypeStep == TypeOK /\ [Next]_vars => TypeOK'
  <1> SUFFICES ASSUME TypeOK, [Next]_vars PROVE TypeOK'
    BY Zenon
  <1> USE DEF storage, locks, threadVars, gcVars, history
  <1>0. CASE UNCHANGED vars
    BY <1>0, Zenon DEF TypeOK, vars
  <1>1. CASE Tick
    BY <1>1 DEF Tick, TypeOK
  <1>2. ASSUME NEW t \in Threads, Call(t) PROVE TypeOK'
    <2>1. now \in Nat
      BY Zenon DEF TypeOK
    <2>2. PICK o \in Ops : Start(t, o)
      BY <1>2, <2>1, RequestsTyped, Zenon DEF Call, Set, ApplyBatch, Delete, Increment
    <2>. QED BY <2>2, StartTyped, Zenon
  <1>3. ASSUME NEW t \in Threads, Lock(t) PROVE TypeOK'
    <2>1. PICK s \in need[t] :
            \/ /\ holder' = [holder EXCEPT ![s] = t]
               /\ need' = [need EXCEPT ![t] = @ \ {s}]
               /\ pc' = [pc EXCEPT ![t] =
                           IF need[t] # {s} THEN "lock"
                           ELSE IF op[t].type = "apply" THEN "write" ELSE "read"]
               /\ UNCHANGED <<op, seen>>
            \/ Finish(t)
      BY <1>3, Zenon DEF Lock
    <2>2. s \in Stripes /\ pc[t] = "lock" /\ UNCHANGED <<storage, now, poisoned, gcVars, history>>
      BY <1>3, Zenon DEF Lock, TypeOK
    <2>3. CASE Finish(t)
      BY <2>2, <2>3, FinishTyped, Zenon DEF TypeOK
    <2>4. CASE ~Finish(t)
      BY <2>1, <2>2, <2>4 DEF TypeOK, Actors
    <2>. QED BY <2>3, <2>4, Zenon
  <1>4. ASSUME NEW t \in Threads, Commit(t) PROVE TypeOK'
    <2>1. op[t] \in Ops /\ op[t].type = "apply"
      BY <1>4, BusyHasOp, Zenon DEF Commit
    <2>2. \A i \in DOMAIN op[t].items : op[t].items[i].entry \in Cell /\ op[t].items[i].key \in Keys
      BY <2>1, ItemsTyped, Zenon
    <2>3. data' \in [Keys -> Cell] /\ expiry' \subseteq Nat \X Keys
      BY <1>4, <2>2, OverlayTyped, IndexEntriesTyped, Zenon DEF Commit, TypeOK
    <2>. QED BY <1>4, <2>3, FinishTyped, Zenon DEF Commit, TypeOK
  <1>5. ASSUME NEW t \in Threads, DeleteRead(t) PROVE TypeOK'
    <2>1. op[t] \in DeleteOp
      BY <1>5, BusyHasOp, OpKinds, Zenon DEF DeleteRead
    <2>2. data[op[t].key] \in Cell
      BY <2>1, Zenon DEF DeleteOp, TypeOK
    <2>3. CASE Finish(t)
      BY <1>5, <2>3, FinishTyped, Zenon DEF DeleteRead, TypeOK
    <2>4. CASE ~Finish(t)
      BY <1>5, <2>2, <2>4 DEF DeleteRead, TypeOK
    <2>. QED BY <2>3, <2>4, Zenon
  <1>6. ASSUME NEW t \in Threads, DeleteRemove(t) PROVE TypeOK'
    <2>1. data' \in [Keys -> Cell]
      BY <1>6, ZenonT(60) DEF DeleteRemove, TypeOK, Cell
    <2>. QED BY <1>6, <2>1, FinishTyped, Zenon DEF DeleteRemove, TypeOK
  <1>7. ASSUME NEW t \in Threads, IncrementRead(t) PROVE TypeOK'
    <2>1. op[t] \in IncrOp
      BY <1>7, BusyHasOp, OpKinds, Zenon DEF IncrementRead
    <2>2. CASE Finish(t)
      BY <1>7, <2>2, FinishTyped, Zenon DEF IncrementRead, TypeOK
    <2>3. CASE ~Finish(t)
      <3> DEFINE base == CounterBase(data[op[t].key], now)
                 new  == [value |-> base + op[t].delta, expires |-> op[t].expires]
      <3>1. CanIncrement(base, op[t].delta)
        BY <1>7, <2>3, ZenonT(60) DEF IncrementRead
      <3>2. new \in Cell
        BY <2>1, <3>1, Zenon DEF IncrOp, Cell, Entry, Values, CanIncrement
      <3>3. seen' = [seen EXCEPT ![t] = new] /\ pc' = [pc EXCEPT ![t] = "write"]
        BY <1>7, <2>3, Zenon DEF IncrementRead
      <3> HIDE DEF new
      <3>. QED BY <1>7, <2>3, <3>2, <3>3 DEF IncrementRead, TypeOK
    <2>. QED BY <2>2, <2>3
  <1>8. ASSUME NEW t \in Threads, IncrementWrite(t) PROVE TypeOK'
    <2> DEFINE items == <<[key |-> op[t].key, entry |-> seen[t]]>>
    <2>1. op[t] \in IncrOp
      BY <1>8, BusyHasOp, OpKinds, ZenonT(60) DEF IncrementWrite
    <2>a. op[t].key \in Keys
      BY <2>1, Zenon DEF IncrOp
    <2>b. seen[t] \in Cell
      BY ZenonT(60) DEF TypeOK
    <2>2. \A i \in DOMAIN items : items[i].entry \in Cell /\ items[i].key \in Keys
      BY <2>a, <2>b
    <2>3. data' = Overlay(data, items) /\ expiry' = expiry \cup IndexEntries(items)
      BY <1>8, Zenon DEF IncrementWrite
    <2> HIDE DEF items
    <2>4. data' \in [Keys -> Cell] /\ expiry' \subseteq Nat \X Keys
      BY <2>2, <2>3, OverlayTyped, IndexEntriesTyped, Zenon DEF TypeOK
    <2>. QED BY <1>8, <2>4, FinishTyped, Zenon DEF IncrementWrite, TypeOK
  <1>9. CASE Sweep \/ GcLock
    <2>1. NoIndexEntry \in Nat \X Keys
      BY DEF NoIndexEntry
    <2>2. GcKey \in Keys /\ GcStripe \in Stripes
      BY Zenon DEF GcKey, GcStripe, TypeOK
    <2>3. CASE GcStart \/ GcOpen \/ GcUnindex
      BY <2>3, ZenonT(90) DEF GcStart, GcOpen, GcUnindex, TypeOK
    <2>4. CASE GcNext
      BY <2>1, <2>4 DEF GcNext, GcSleep, TypeOK
    <2>5. CASE GcLock
      BY <2>1, <2>2, <2>5, ReleasedTyped DEF GcLock, GcContinue, TypeOK, Actors
    <2>6. CASE GcVerify
      BY <2>1, <2>6, ReleasedTyped DEF GcVerify, GcContinue, TypeOK
    <2>7. CASE GcRemove
      <3>1. data' \in [Keys -> Cell]
        BY <2>7, ZenonT(60) DEF GcRemove, TypeOK, Cell
      <3>. QED BY <2>1, <2>7, <3>1, ReleasedTyped, Zenon DEF GcRemove, GcContinue, TypeOK
    <2>. QED BY <1>9, <2>3, <2>4, <2>5, <2>6, <2>7, Zenon DEF Sweep
  <1>10. CASE Failure
    <2>1. NoIndexEntry \in Nat \X Keys
      BY DEF NoIndexEntry
    <2>2. GcAbandons => leaked' \subseteq Nat \X Keys
      BY Zenon DEF GcAbandons, TypeOK
    <2>3. ASSUME NEW t \in Threads, IoError(t) PROVE TypeOK'
      BY <2>3, FinishTyped DEF IoError, Fault, TypeOK
    <2>4. ASSUME NEW t \in Threads, Panic(t) PROVE TypeOK'
      <3>1. Held(t) \subseteq Stripes
        BY Zenon DEF Held
      <3>2. poisoned' = poisoned \cup Held(t) /\ faults' = faults + 1
        BY <2>4, Zenon DEF Panic, Fault
      <3>3. poisoned' \subseteq Stripes
        BY <3>1, <3>2, ZenonT(60) DEF TypeOK
      <3>4. faults' \in Nat
        BY <3>2 DEF TypeOK
      <3>5. Finish(t) /\ UNCHANGED <<storage, now, gcVars, leaked>>
        BY <2>4, Zenon DEF Panic
      <3>. QED BY <3>3, <3>4, <3>5, FinishTyped, Zenon DEF TypeOK
    <2>5. CASE GcIoError
      BY <2>1, <2>2, <2>5, ReleasedTyped DEF GcIoError, Fault, GcContinue, TypeOK
    <2>6. CASE GcPanic
      <3>1. Held(Gc) \subseteq Stripes
        BY Zenon DEF Held
      <3>2. poisoned' = poisoned \cup Held(Gc) /\ faults' = faults + 1
        BY <2>6, Zenon DEF GcPanic, Fault
      <3>3. poisoned' \subseteq Stripes
        BY <3>1, <3>2, ZenonT(60) DEF TypeOK
      <3>4. faults' \in Nat
        BY <3>2 DEF TypeOK
      <3>5. holder' = Released(Gc) /\ GcSleep /\ GcAbandons /\ UNCHANGED <<storage, now, threadVars>>
        BY <2>6, Zenon DEF GcPanic
      <3>. QED BY <2>1, <2>2, <3>3, <3>4, <3>5, ReleasedTyped, Zenon DEF GcSleep, TypeOK
    <2>7. CASE Crash
      BY <2>1, <2>2, <2>7 DEF Crash, Fault, GcSleep, TypeOK, Cell
    <2>. QED BY <1>10, <2>3, <2>4, <2>5, <2>6, <2>7, Zenon DEF Failure
  <1>. QED
    BY <1>0, <1>1, <1>2, <1>3, <1>4, <1>5, <1>6, <1>7, <1>8, <1>9, <1>10, Zenon DEF Next, Work

\* Type correctness: every reachable state is well typed, and a thread has a
\* request exactly while it is busy.
THEOREM TypeCorrect == Spec => []TypeOK
  <1>1. Init => TypeOK
    BY DEF Init, TypeOK, NoIndexEntry, Cell
  <1>. QED BY <1>1, TypeStep, PTL DEF Spec

-----------------------------------------------------------------------------
(* The striped locks *)

\* Dropping an actor's guards leaves the other actors' guards alone.
LEMMA ReleasedHeld ==
  ASSUME TypeOK, NEW a \in Actors, holder' = Released(a), NEW b \in Actors
  PROVE  Held(b)' = IF b = a THEN {} ELSE Held(b)
  BY Zenon DEF Held, Released, Actors

\* Taking a free stripe adds it to the taker's guards and to nobody else's.
LEMMA AcquiredHeld ==
  ASSUME TypeOK, NEW a \in Actors, NEW s \in Stripes, holder[s] = Free,
         holder' = [holder EXCEPT ![s] = a], NEW b \in Actors
  PROVE  Held(b)' = IF b = a THEN Held(a) \cup {s} ELSE Held(b)
  BY DEF Held, TypeOK

\* Guards change only with the lock table.
LEMMA SameHeld ==
  ASSUME UNCHANGED holder, NEW b
  PROVE  Held(b)' = Held(b)
  BY Zenon DEF Held

\* Two actors never hold the same stripe.
LEMMA HeldDisjoint ==
  ASSUME NEW a, NEW b, a # b
  PROVE  Held(a) \cap Held(b) = {}
  BY Zenon DEF Held

\* What LocksHeld says of one thread.
ThreadLocks(t) ==
  /\ pc[t] = "idle" => need[t] = {} /\ Held(t) = {}
  /\ pc[t] # "idle" => /\ need[t] \subseteq StripesOf(op[t])
                       /\ Held(t) = StripesOf(op[t]) \ need[t]
  /\ pc[t] \in {"read", "write"} => need[t] = {}
  /\ pc[t] = "read" => op[t].type # "apply"

\* What it says of the sweeper.
GcLocks == Held(Gc) = IF GcHoldsLock THEN {GcStripe} ELSE {}

\* LocksHeld is the conjunction of the parts.
LEMMA LocksHeldParts == LocksHeld <=> (\A t \in Threads : ThreadLocks(t)) /\ GcLocks
  BY Zenon DEF LocksHeld, ThreadLocks, GcLocks

\* The same in the next state.
LEMMA LocksHeldPartsPrime == LocksHeld' <=> (\A t \in Threads : ThreadLocks(t)') /\ GcLocks'
  BY Zenon DEF LocksHeld, ThreadLocks, GcLocks

\* A thread whose variables and guards do not change keeps its part.
LEMMA ThreadLocksKept ==
  ASSUME NEW t, ThreadLocks(t), pc'[t] = pc[t], op'[t] = op[t], need'[t] = need[t],
         Held(t)' = Held(t)
  PROVE  ThreadLocks(t)'
  BY DEF ThreadLocks, StripesOf, KeysOf

\* So does the sweeper.
LEMMA GcLocksKept ==
  ASSUME GcLocks, gcPc' = gcPc, gcEntry' = gcEntry, Held(Gc)' = Held(Gc)
  PROVE  GcLocks'
  BY Zenon DEF GcLocks, GcHoldsLock, GcStripe, GcKey

\* An operation that ends gives its guards back.
LEMMA FinishLocks ==
  ASSUME TypeOK, LocksHeld, NEW t \in Threads, Finish(t), UNCHANGED gcVars
  PROVE  LocksHeld'
  <1>1. \A b \in Actors : Held(b)' = IF b = t THEN {} ELSE Held(b)
    BY ReleasedHeld, Zenon DEF Finish, Actors
  <1>2. ASSUME NEW u \in Threads PROVE ThreadLocks(u)'
    <2>1. CASE u = t
      BY <1>1, <2>1, Zenon DEF Finish, ThreadLocks, TypeOK, Actors
    <2>2. CASE u # t
      BY <1>1, <2>2, LocksHeldParts, ThreadLocksKept DEF Finish, TypeOK, Actors
    <2>. QED BY <2>1, <2>2, Zenon
  <1>3. GcLocks'
    BY <1>1, LocksHeldParts, GcLocksKept, Zenon DEF gcVars, Actors
  <1>. QED BY <1>2, <1>3, LocksHeldPartsPrime, Zenon

\* A step of the sweeper that drops its guard.
LEMMA GcReleaseLocks ==
  ASSUME TypeOK, LocksHeld, holder' = Released(Gc), UNCHANGED threadVars,
         gcPc' \in {"scan", "sleep"}
  PROVE  LocksHeld'
  <1>1. \A b \in Actors : Held(b)' = IF b = Gc THEN {} ELSE Held(b)
    BY ReleasedHeld, Zenon DEF Actors
  <1>2. ASSUME NEW u \in Threads PROVE ThreadLocks(u)'
    BY <1>1, LocksHeldParts, ThreadLocksKept, Zenon DEF threadVars, Actors
  <1>3. GcLocks'
    BY <1>1, Zenon DEF GcLocks, GcHoldsLock, Actors
  <1>. QED BY <1>2, <1>3, LocksHeldPartsPrime, Zenon

\* A step that touches no lock and no control state of a lock holder.
LEMMA LocksUntouched ==
  ASSUME TypeOK, LocksHeld, UNCHANGED <<holder, pc, op, need>>,
         \/ UNCHANGED <<gcPc, gcEntry>>
         \/ ~GcHoldsLock /\ ~GcHoldsLock'
         \/ GcHoldsLock /\ GcHoldsLock' /\ gcEntry' = gcEntry
  PROVE  LocksHeld'
  <1>1. \A b : Held(b)' = Held(b)
    BY SameHeld, Zenon
  <1>2. ASSUME NEW u \in Threads PROVE ThreadLocks(u)'
    BY <1>1, LocksHeldParts, ThreadLocksKept, Zenon
  <1>3. GcLocks'
    BY <1>1, LocksHeldParts, Zenon DEF GcLocks, GcHoldsLock, GcStripe, GcKey
  <1>. QED BY <1>2, <1>3, LocksHeldPartsPrime, Zenon

\* Taking the next stripe, or giving up on a poisoned one.
LEMMA LockStep ==
  ASSUME TypeOK, LocksHeld, NEW t \in Threads, Lock(t)
  PROVE  LocksHeld'
  <1>1. pc[t] = "lock" /\ UNCHANGED gcVars
    BY Zenon DEF Lock
  <1>2. CASE Finish(t)
    BY <1>1, <1>2, FinishLocks, Zenon
  <1>3. CASE ~Finish(t)
    <2>1. PICK s \in need[t] :
            /\ holder[s] = Free
            /\ holder' = [holder EXCEPT ![s] = t]
            /\ need' = [need EXCEPT ![t] = @ \ {s}]
            /\ pc' = [pc EXCEPT ![t] =
                        IF need[t] # {s} THEN "lock"
                        ELSE IF op[t].type = "apply" THEN "write" ELSE "read"]
            /\ UNCHANGED <<op, seen>>
      BY <1>3, Zenon DEF Lock
    <2>2. s \in Stripes /\ op[t] \in Ops
      BY <1>1, BusyHasOp, Zenon DEF TypeOK
    <2>3. \A b \in Actors : Held(b)' = IF b = t THEN Held(t) \cup {s} ELSE Held(b)
      BY <2>1, <2>2, AcquiredHeld, ZenonT(60) DEF Actors
    <2>4. ASSUME NEW u \in Threads PROVE ThreadLocks(u)'
      <3>1. CASE u = t
        <4>1. ThreadLocks(t) /\ StripesOf(op[t])' = StripesOf(op[t])
          BY <2>1, LocksHeldParts, Zenon DEF StripesOf, KeysOf
        <4>. QED
          BY <1>1, <2>1, <2>2, <2>3, <3>1, <4>1 DEF ThreadLocks, TypeOK, Actors
      <3>2. CASE u # t
        BY <2>1, <2>3, <3>2, LocksHeldParts, ThreadLocksKept DEF TypeOK, Actors
      <3>. QED BY <3>1, <3>2, Zenon
    <2>5. GcLocks'
      BY <1>1, <2>3, LocksHeldParts, GcLocksKept, Zenon DEF gcVars, Actors
    <2>. QED BY <2>4, <2>5, LocksHeldPartsPrime, Zenon
  <1>. QED BY <1>2, <1>3, Zenon

\* A thread goes from its read to its write with the guards it has.
LEMMA ReadToWriteLocks ==
  ASSUME TypeOK, LocksHeld, NEW t \in Threads, pc[t] = "read",
         pc' = [pc EXCEPT ![t] = "write"], UNCHANGED <<op, need, holder, gcVars>>
  PROVE  LocksHeld'
  <1>1. \A b : Held(b)' = Held(b)
    BY SameHeld, Zenon
  <1>2. ASSUME NEW u \in Threads PROVE ThreadLocks(u)'
    <2>1. CASE u = t
      BY <1>1, <2>1, LocksHeldParts, Zenon DEF ThreadLocks, StripesOf, KeysOf, TypeOK
    <2>2. CASE u # t
      BY <1>1, <2>2, LocksHeldParts, ThreadLocksKept, Zenon DEF TypeOK
    <2>. QED BY <2>1, <2>2, Zenon
  <1>3. GcLocks'
    BY <1>1, LocksHeldParts, GcLocksKept, Zenon DEF gcVars
  <1>. QED BY <1>2, <1>3, LocksHeldPartsPrime, Zenon

\* A thread takes up a request and holds nothing yet.
LEMMA StartLocks ==
  ASSUME TypeOK, LocksHeld, NEW t \in Threads, NEW o \in Ops, Start(t, o)
  PROVE  LocksHeld'
  <1>1. \A b : Held(b)' = Held(b)
    BY SameHeld, Zenon DEF Start, locks
  <1>2. ASSUME NEW u \in Threads PROVE ThreadLocks(u)'
    <2>1. CASE u = t
      <3>1. /\ Held(t)' = {} /\ pc'[t] = "lock" /\ op'[t] = o /\ need'[t] = StripesOf(o)
        BY <1>1, LocksHeldParts DEF ThreadLocks, Start, TypeOK
      <3>2. StripesOf(op[t])' = StripesOf(o)
        BY <3>1 DEF StripesOf, KeysOf
      <3>. QED BY <2>1, <3>1, <3>2, Zenon DEF ThreadLocks
    <2>2. CASE u # t
      BY <1>1, <2>2, LocksHeldParts, ThreadLocksKept, Zenon DEF Start, TypeOK
    <2>. QED BY <2>1, <2>2, Zenon
  <1>3. GcLocks'
    BY <1>1, LocksHeldParts, GcLocksKept, Zenon DEF Start, gcVars
  <1>. QED BY <1>2, <1>3, LocksHeldPartsPrime, Zenon

\* The sweeper takes the stripe of its entry, or skips a poisoned one.
LEMMA GcLockLocks ==
  ASSUME TypeOK, LocksHeld, GcLock
  PROVE  LocksHeld'
  <1>1. CASE GcContinue
    BY <1>1, GcReleaseLocks, Zenon DEF GcLock, GcContinue, threadVars
  <1>2. CASE ~GcContinue
    <2>1. /\ gcPc = "lock" /\ gcPc' = "unindex" /\ gcEntry' = gcEntry /\ UNCHANGED threadVars
          /\ holder[GcStripe] = Free /\ holder' = [holder EXCEPT ![GcStripe] = Gc]
      BY <1>2, Zenon DEF GcLock
    <2>2. GcStripe \in Stripes /\ GcStripe' = GcStripe
      BY <2>1, Zenon DEF GcStripe, GcKey, TypeOK
    <2>3. \A b \in Actors : Held(b)' = IF b = Gc THEN Held(Gc) \cup {GcStripe} ELSE Held(b)
      BY <2>1, <2>2, AcquiredHeld, ZenonT(60) DEF Actors
    <2>4. ASSUME NEW u \in Threads PROVE ThreadLocks(u)'
      BY <2>1, <2>3, LocksHeldParts, ThreadLocksKept, Zenon DEF threadVars, Actors
    <2>5. GcLocks'
      BY <2>1, <2>2, <2>3, LocksHeldParts, Zenon DEF GcLocks, GcHoldsLock, Actors
    <2>. QED BY <2>4, <2>5, LocksHeldPartsPrime, Zenon
  <1>. QED BY <1>1, <1>2, Zenon

\* Every step keeps the account of who holds which stripe.
THEOREM LocksStep == TypeOK /\ LocksHeld /\ [Next]_vars => LocksHeld'
  <1> SUFFICES ASSUME TypeOK, LocksHeld, [Next]_vars PROVE LocksHeld'
    BY Zenon
  <1> USE DEF storage, locks, threadVars, gcVars, history
  <1>1. CASE UNCHANGED vars \/ Tick
    BY <1>1, LocksUntouched, Zenon DEF vars, Tick
  <1>2. ASSUME NEW t \in Threads, Call(t) PROVE LocksHeld'
    <2>1. now \in Nat
      BY Zenon DEF TypeOK
    <2>2. PICK o \in Ops : Start(t, o)
      BY <1>2, <2>1, RequestsTyped, Zenon DEF Call, Set, ApplyBatch, Delete, Increment
    <2>. QED BY <2>2, StartLocks, Zenon
  <1>3. ASSUME NEW t \in Threads, Lock(t) PROVE LocksHeld'
    BY <1>3, LockStep, Zenon
  <1>4. ASSUME NEW t \in Threads, Work(t) PROVE LocksHeld'
    <2>1. CASE Finish(t)
      <3>1. UNCHANGED gcVars
        BY <1>4, ZenonT(60) DEF Work, Commit, DeleteRead, DeleteRemove, IncrementRead, IncrementWrite
      <3>. QED BY <2>1, <3>1, FinishLocks, Zenon
    <2>2. CASE ~Finish(t)
      <3>1. /\ pc[t] = "read" /\ pc' = [pc EXCEPT ![t] = "write"]
            /\ UNCHANGED <<op, need, holder, gcVars>>
        BY <1>4, <2>2, ZenonT(60) DEF Work, Commit, DeleteRead, DeleteRemove, IncrementRead, IncrementWrite
      <3>. QED BY <3>1, ReadToWriteLocks, ZenonT(60)
    <2>. QED BY <2>1, <2>2, Zenon
  <1>5. CASE Sweep
    <2>1. CASE GcStart \/ GcOpen \/ GcNext \/ GcUnindex
      BY <2>1, LocksUntouched, Zenon DEF GcStart, GcOpen, GcNext, GcUnindex, GcSleep, GcHoldsLock
    <2>2. CASE GcVerify
      <3>1. CASE GcContinue
        BY <2>2, <3>1, GcReleaseLocks, Zenon DEF GcVerify, GcContinue
      <3>2. CASE ~GcContinue
        BY <2>2, <3>2, LocksUntouched, Zenon DEF GcVerify, GcHoldsLock
      <3>. QED BY <3>1, <3>2, Zenon
    <2>3. CASE GcRemove
      BY <2>3, GcReleaseLocks, Zenon DEF GcRemove, GcContinue
    <2>. QED BY <1>5, <2>1, <2>2, <2>3, Zenon DEF Sweep
  <1>6. CASE GcLock
    BY <1>6, GcLockLocks, Zenon
  <1>7. CASE Failure
    <2>1. ASSUME NEW t \in Threads, IoError(t) \/ Panic(t) PROVE LocksHeld'
      BY <2>1, FinishLocks, Zenon DEF IoError, Panic
    <2>2. CASE GcIoError
      <3>1. CASE GcContinue
        BY <2>2, <3>1, GcReleaseLocks, Zenon DEF GcIoError, GcContinue
      <3>2. CASE ~GcContinue
        BY <2>2, <3>2, LocksUntouched, Zenon DEF GcIoError
      <3>. QED BY <3>1, <3>2
    <2>3. CASE GcPanic
      BY <2>3, GcReleaseLocks, Zenon DEF GcPanic, GcSleep
    <2>4. CASE Crash
      <3>1. \A b \in Actors : Held(b)' = {}
        BY <2>4, Zenon DEF Crash, Held
      <3>2. ASSUME NEW u \in Threads PROVE ThreadLocks(u)'
        BY <2>4, <3>1, Zenon DEF Crash, ThreadLocks, Actors
      <3>3. GcLocks'
        BY <2>4, <3>1, Zenon DEF Crash, GcSleep, GcLocks, GcHoldsLock, Actors
      <3>. QED BY <3>2, <3>3, LocksHeldPartsPrime, Zenon
    <2>. QED BY <1>7, <2>1, <2>2, <2>3, <2>4, Zenon DEF Failure
  <1>. QED BY <1>1, <1>2, <1>3, <1>4, <1>5, <1>6, <1>7, Zenon DEF Next

-----------------------------------------------------------------------------
(* What the locks protect *)

\* Mutual exclusion: a thread past its locks shares no key with another such
\* thread, nor with the entry the sweeper handles under its lock.
LEMMA Exclusive ==
  ASSUME TypeOK, LocksHeld, NEW t \in Threads, pc[t] \in {"read", "write"},
         NEW k \in KeysOf(op[t])
  PROVE  /\ \A u \in Threads : u # t /\ pc[u] \in {"read", "write"} => k \notin KeysOf(op[u])
         /\ GcHoldsLock => k # GcKey
  <1>1. \A u \in Threads : pc[u] \in {"read", "write"} =>
          \A j \in KeysOf(op[u]) : StripeOf[j] \in Held(u)
    BY DEF LocksHeld, StripesOf
  <1>2. GcHoldsLock => StripeOf[GcKey] \in Held(Gc)
    BY Zenon DEF LocksHeld, GcStripe
  <1>. QED BY <1>1, <1>2 DEF Held

-----------------------------------------------------------------------------
\* The cells a step changes: those of a request that takes effect, or the one
\* the sweeper removes.
LEMMA DataStep ==
  ASSUME TypeOK, [Next]_vars, NEW k \in Keys, data'[k] # data[k]
  PROVE  \/ \E t \in Threads : pc[t] = "write" /\ pc'[t] = "idle" /\ k \in KeysOf(op[t])
         \/ gcPc = "remove" /\ k = GcKey /\ gcPc' = "scan"
  <1> USE DEF storage, locks, threadVars, gcVars, history
  <1>1. ASSUME NEW t \in Threads, Work(t)
        PROVE  pc[t] = "write" /\ pc'[t] = "idle" /\ k \in KeysOf(op[t])
    <2>1. CASE Commit(t)
      <3>1. \E i \in DOMAIN op[t].items : op[t].items[i].key = k
        BY <2>1, OverlayCell DEF Commit, TypeOK
      <3>. QED BY <2>1, <3>1 DEF Commit, Finish, KeysOf, TypeOK
    <2>2. CASE DeleteRemove(t)
      BY <2>2, Zenon DEF DeleteRemove, Finish, KeysOf, TypeOK
    <2>3. CASE IncrementWrite(t)
      <3> DEFINE items == <<[key |-> op[t].key, entry |-> seen[t]]>>
      <3>1. data' = Overlay(data, items)
        BY <2>3, Zenon DEF IncrementWrite
      <3>2. \E i \in DOMAIN items : items[i].key = k
        <4> HIDE DEF items
        <4>. QED BY <3>1, OverlayCell DEF TypeOK
      <3>3. k = op[t].key
        BY <3>2
      <3>. QED BY <2>3, <3>3, Zenon DEF IncrementWrite, Finish, KeysOf, TypeOK
    <2>4. CASE DeleteRead(t) \/ IncrementRead(t)
      BY <2>4, Zenon DEF DeleteRead, IncrementRead
    <2>. QED BY <1>1, <2>1, <2>2, <2>3, <2>4, Zenon DEF Work
  <1>2. ASSUME NEW t \in Threads, Call(t) \/ Lock(t) PROVE FALSE
    BY <1>2, Zenon DEF Call, Set, ApplyBatch, Delete, Increment, Start, Lock
  <1>3. CASE Sweep \/ GcLock
    BY <1>3, Zenon DEF Sweep, GcStart, GcOpen, GcNext, GcUnindex, GcVerify, GcRemove, GcLock,
                GcContinue, TypeOK
  <1>4. CASE Tick \/ Failure \/ UNCHANGED vars
    BY <1>4, Zenon DEF Tick, vars, Failure, IoError, Panic, GcIoError, GcPanic, Crash
  <1>. QED BY <1>1, <1>2, <1>3, <1>4, Zenon DEF Next

\* The clock never goes back.
LEMMA ClockStep ==
  ASSUME TypeOK, [Next]_vars
  PROVE  now' \in Nat /\ now <= now'
  <1> USE DEF storage, locks, threadVars, gcVars, history
  <1>1. CASE Tick
    BY <1>1 DEF Tick, TypeOK
  <1>2. CASE UNCHANGED now
    BY <1>2 DEF TypeOK
  <1>3. \A t \in Threads : Call(t) \/ Lock(t) \/ Work(t) => UNCHANGED now
    BY ZenonT(60) DEF Call, Set, ApplyBatch, Delete, Increment, Start, Lock, Work, Commit,
           DeleteRead, DeleteRemove, IncrementRead, IncrementWrite
  <1>4. Sweep \/ GcLock \/ Failure => UNCHANGED now
    BY ZenonT(60) DEF Sweep, GcStart, GcOpen, GcNext, GcUnindex, GcVerify, GcRemove, GcLock,
           Failure, IoError, Panic, GcIoError, GcPanic, Crash
  <1>. QED BY <1>1, <1>2, <1>3, <1>4, Zenon DEF Next, vars

\* What a step does to the request of a thread: nothing, or it ends, or the
\* thread takes up a new one now.
LEMMA OpStep ==
  ASSUME TypeOK, [Next]_vars, NEW u \in Threads
  PROVE  \/ op'[u] = op[u]
         \/ op'[u] = NoOp /\ pc'[u] = "idle"
         \/ /\ pc[u] = "idle" /\ pc'[u] = "lock"
            /\ op'[u] \in SetRequests(now) \cup BatchRequests(now)
                           \cup DeleteRequests \cup IncrementRequests(now)
  <1> USE DEF storage, locks, threadVars, gcVars, history
  <1>1. ASSUME NEW t \in Threads, Call(t)
        PROVE  \E o \in SetRequests(now) \cup BatchRequests(now)
                          \cup DeleteRequests \cup IncrementRequests(now) : Start(t, o)
    BY <1>1, Zenon DEF Call, Set, ApplyBatch, Delete, Increment
  <1>2. ASSUME NEW t \in Threads, Call(t)
        PROVE  \/ op'[u] = op[u]
               \/ /\ pc[u] = "idle" /\ pc'[u] = "lock"
                  /\ op'[u] \in SetRequests(now) \cup BatchRequests(now)
                                 \cup DeleteRequests \cup IncrementRequests(now)
    BY <1>1, <1>2 DEF Start, TypeOK
  <1>3. ASSUME NEW t \in Threads, Lock(t) \/ Work(t)
        PROVE  op' = op \/ Finish(t)
    BY <1>3, ZenonT(60) DEF Lock, Work, Commit, DeleteRead, DeleteRemove, IncrementRead, IncrementWrite
  <1>4. CASE Sweep \/ GcLock \/ Tick \/ UNCHANGED vars
    BY <1>4, ZenonT(60) DEF Sweep, GcStart, GcOpen, GcNext, GcUnindex, GcVerify, GcRemove, GcLock, Tick, vars
  <1>5. CASE Failure
    <2>1. CASE GcIoError \/ GcPanic
      BY <2>1, ZenonT(60) DEF GcIoError, GcPanic
    <2>2. ASSUME NEW t \in Threads, IoError(t) \/ Panic(t) PROVE Finish(t)
      BY <2>2, Zenon DEF IoError, Panic
    <2>3. CASE Crash
      BY <2>3, ZenonT(60) DEF Crash
    <2>. QED BY <1>5, <2>1, <2>2, <2>3 DEF Failure, Finish, TypeOK
  <1>. QED BY <1>2, <1>3, <1>4, <1>5 DEF Next, Finish, TypeOK

\* What a step does to the sweeper.
LEMMA GcStep ==
  ASSUME TypeOK, [Next]_vars
  PROVE  \/ UNCHANGED <<gcPc, gcNow, gcEntry>>
         \/ gcPc' \in {"sleep", "open", "scan"} /\ gcNow' \in {gcNow, 0, now}
         \/ gcPc' = "lock" /\ gcEntry'[1] <= gcNow /\ gcNow' = gcNow
         \/ /\ gcPc \in {"lock", "unindex"} /\ gcPc' \in {"unindex", "verify"}
            /\ UNCHANGED <<gcNow, gcEntry>>
         \/ /\ gcPc = "verify" /\ gcPc' = "remove" /\ GcMatches
            /\ UNCHANGED <<data, gcNow, gcEntry>>
  <1> USE DEF storage, locks, threadVars, gcVars, history
  <1>1. ASSUME NEW t \in Threads, Call(t) \/ Lock(t) \/ Work(t)
        PROVE  UNCHANGED <<gcPc, gcNow, gcEntry>>
    BY <1>1, ZenonT(60) DEF Call, Set, ApplyBatch, Delete, Increment, Start, Lock, Work, Commit,
                DeleteRead, DeleteRemove, IncrementRead, IncrementWrite
  <1>2. CASE Tick \/ UNCHANGED vars
    BY <1>2, Zenon DEF Tick, vars
  <1>3. CASE GcStart \/ GcOpen \/ GcNext \/ GcUnindex
    BY <1>3, Zenon DEF GcStart, GcOpen, GcNext, GcUnindex, GcSleep
  <1>4. CASE GcVerify \/ GcRemove \/ GcLock
    BY <1>4, Zenon DEF GcVerify, GcRemove, GcLock, GcContinue
  <1>5. CASE Failure
    BY <1>5, Zenon DEF Failure, IoError, Panic, GcIoError, GcPanic, Crash, GcContinue, GcSleep
  <1>. QED BY <1>1, <1>2, <1>3, <1>4, <1>5, Zenon DEF Next, Sweep

-----------------------------------------------------------------------------
\* Every step keeps ClockReadings.
THEOREM ClockReadingsStep ==
  TypeOK /\ LocksHeld /\ ClockReadings /\ [Next]_vars => ClockReadings'
  <1> SUFFICES ASSUME TypeOK, LocksHeld, ClockReadings, [Next]_vars PROVE ClockReadings'
    BY Zenon
  <1>1. now \in Nat /\ now' \in Nat /\ now <= now' /\ TypeOK'
    BY ClockStep, TypeStep, Zenon DEF TypeOK
  <1>2. (gcNow <= now)'
    BY <1>1, GcStep DEF ClockReadings, TypeOK
  <1>3. (gcPc \in {"lock", "unindex", "verify", "remove"} => gcEntry[1] <= gcNow)'
    BY GcStep, Zenon DEF ClockReadings
  <1>4. (gcPc = "remove" => ExpiryOf(data[GcKey]) = gcEntry[1])'
    <2> SUFFICES ASSUME gcPc' = "remove"
                 PROVE  ExpiryOf(data'[gcEntry'[2]]) = gcEntry'[1]
      BY Zenon DEF GcKey, ExpiryOf
    <2>1. CASE gcPc = "verify" /\ GcMatches /\ UNCHANGED <<data, gcEntry>>
      BY <2>1, Zenon DEF GcMatches, GcKey
    <2>2. CASE gcPc = "remove" /\ UNCHANGED gcEntry
      <3>1. GcHoldsLock /\ GcKey \in Keys
        BY <2>2, Zenon DEF GcHoldsLock, GcKey, TypeOK
      <3>2. data'[GcKey] = data[GcKey]
        BY <2>2, <3>1, DataStep, Exclusive, Zenon
      <3>. QED BY <2>2, <3>2, Zenon DEF ClockReadings, GcKey
    <2>. QED BY <2>1, <2>2, GcStep, Zenon
  <1>5. ASSUME NEW u \in Threads, op'[u] \in IncrOp PROVE op'[u].at <= now'
    <2>1. CASE op'[u] = op[u]
      <3>1. op[u].at <= now /\ op[u].at \in Nat
        BY <1>5, <2>1, Zenon DEF ClockReadings, IncrOp
      <3>. QED BY <1>1, <2>1, <3>1
    <2>2. CASE op'[u] \in IncrementRequests(now)
      BY <1>1, <2>2 DEF IncrementRequests
    <2>3. CASE op'[u] \in SetRequests(now) \cup BatchRequests(now) \cup DeleteRequests
      <3>1. op'[u].type # "increment"
        BY <2>3 DEF SetRequests, BatchRequests, DeleteRequests
      <3>. QED BY <1>5, <3>1, Zenon DEF IncrOp
    <2>4. CASE op'[u] = NoOp
      BY <1>5, <2>4, Zenon DEF Ops
    <2>. QED BY <2>1, <2>2, <2>3, <2>4, OpStep, Zenon
  <1>. QED BY <1>2, <1>3, <1>4, <1>5, Zenon DEF ClockReadings

\* A step that leaves a thread about to write an increment.
LEMMA IncrementStep ==
  ASSUME TypeOK, [Next]_vars, NEW u \in Threads, pc'[u] = "write", op'[u].type = "increment"
  PROVE  \/ IncrementRead(u)
         \/ pc[u] = "write" /\ op'[u] = op[u] /\ seen'[u] = seen[u]
  <1> USE DEF storage, locks, threadVars, gcVars, history
  <1>1. ASSUME NEW t \in Threads, Call(t)
        PROVE  pc[u] = "write" /\ op'[u] = op[u] /\ seen'[u] = seen[u]
    BY <1>1 DEF Call, Set, ApplyBatch, Delete, Increment, Start, TypeOK
  <1>2. ASSUME NEW t \in Threads, Finish(t)
        PROVE  pc[u] = "write" /\ op'[u] = op[u] /\ seen'[u] = seen[u]
    BY <1>2, Zenon DEF Finish, TypeOK
  <1>3. ASSUME NEW t \in Threads, Lock(t), ~Finish(t)
        PROVE  pc[u] = "write" /\ op'[u] = op[u] /\ seen'[u] = seen[u]
    BY <1>3 DEF Lock, TypeOK
  <1>4. ASSUME NEW t \in Threads, Work(t), ~Finish(t)
        PROVE  \/ IncrementRead(u)
               \/ pc[u] = "write" /\ op'[u] = op[u] /\ seen'[u] = seen[u]
    <2>1. CASE DeleteRead(t)
      BY <1>4, <2>1, Zenon DEF DeleteRead, TypeOK
    <2>2. CASE IncrementRead(t)
      BY <1>4, <2>2, Zenon DEF IncrementRead, TypeOK
    <2>. QED BY <1>4, <2>1, <2>2, Zenon DEF Work, Commit, DeleteRemove, IncrementWrite
  <1>5. CASE UNCHANGED <<pc, op, seen>>
    BY <1>5, Zenon
  <1>6. Sweep \/ GcLock \/ Tick \/ GcIoError \/ GcPanic => UNCHANGED <<pc, op, seen>>
    BY ZenonT(60) DEF Sweep, GcStart, GcOpen, GcNext, GcUnindex, GcVerify, GcRemove, GcLock, Tick,
           GcIoError, GcPanic
  <1>7. \A t \in Threads : IoError(t) \/ Panic(t) => Finish(t)
    BY Zenon DEF IoError, Panic
  <1>8. ~Crash
    BY Zenon DEF Crash
  <1>. QED BY <1>1, <1>2, <1>3, <1>4, <1>5, <1>6, <1>7, <1>8, Zenon DEF Next, Failure, vars

\* Every step keeps NoLostIncrement: the thread's own read establishes it, and
\* the lock on its key's stripe keeps everybody else from disturbing it.
THEOREM NoLostIncrementStep ==
  TypeOK /\ LocksHeld /\ ClockReadings /\ NoLostIncrement /\ [Next]_vars => NoLostIncrement'
  <1> SUFFICES ASSUME TypeOK, LocksHeld, ClockReadings, NoLostIncrement, [Next]_vars,
                      NEW u \in Threads
               PROVE  IncrementCurrent(u)'
    BY ZenonT(60) DEF NoLostIncrement
  <1> SUFFICES ASSUME pc'[u] = "write", op'[u].type = "increment"
               PROVE  \E tm \in op'[u].at..now' :
                        /\ CanIncrement(CounterBase(data'[op'[u].key], tm), op'[u].delta)
                        /\ seen'[u] = [value |-> CounterBase(data'[op'[u].key], tm) + op'[u].delta,
                                       expires |-> op'[u].expires]
    BY ZenonT(60) DEF IncrementCurrent, CounterBase, ExpiredAt, ExpiryOf
  <1>1. now \in Nat /\ now' \in Nat /\ now <= now'
    BY ClockStep, Zenon DEF TypeOK
  <1>2. CASE IncrementRead(u)
    <2> DEFINE base == CounterBase(data[op[u].key], now)
    <2>1. ~Finish(u)
      BY DEF Finish, TypeOK
    <2>2. /\ CanIncrement(base, op[u].delta)
          /\ seen'[u] = [value |-> base + op[u].delta, expires |-> op[u].expires]
          /\ op' = op /\ data' = data /\ now' = now /\ pc[u] = "read" /\ op[u].type = "increment"
      BY <1>2, <2>1, Zenon DEF IncrementRead, storage, TypeOK
    <2>3. op[u] \in IncrOp
      BY <2>2, BusyHasOp, OpKinds, Zenon
    <2>4. op[u].at <= now
      BY <2>3, Zenon DEF ClockReadings
    <2>5. op[u].at \in Int
      BY <2>3 DEF IncrOp
    <2>6. now \in op[u].at..now
      BY <1>1, <2>4, <2>5
    <2>. QED BY <2>2, <2>6, Zenon
  <1>3. CASE pc[u] = "write" /\ op'[u] = op[u] /\ seen'[u] = seen[u]
    <2>1. op[u] \in IncrOp
      BY <1>3, BusyHasOp, OpKinds, Zenon
    <2>2. op[u].key \in KeysOf(op[u]) /\ op[u].key \in Keys
      BY <1>3, <2>1, Zenon DEF KeysOf, IncrOp
    <2>3. data'[op[u].key] = data[op[u].key]
      BY <1>3, <2>2, DataStep, Exclusive, Zenon DEF GcHoldsLock
    <2>4. op[u].at..now \subseteq op[u].at..now'
      BY <1>1, <2>1 DEF IncrOp
    <2>. QED BY <1>3, <2>3, <2>4 DEF NoLostIncrement, IncrementCurrent
  <1>. QED BY <1>2, <1>3, IncrementStep, ZenonT(60)

\* A batch indexes every expiring entry it stores.
LEMMA OverlayIndexed ==
  ASSUME NEW d \in [Keys -> Cell], NEW items, NEW k \in Keys,
         ExpiryOf(Overlay(d, items)[k]) # NoExpiry
  PROVE  \/ Overlay(d, items)[k] = d[k]
         \/ <<ExpiryOf(Overlay(d, items)[k]), k>> \in IndexEntries(items)
  BY OverlayCell DEF IndexEntries

\* What ExpiringEntriesIndexed says of one key.
Indexed(k) ==
  ExpiryOf(data[k]) # NoExpiry =>
    \/ <<ExpiryOf(data[k]), k>> \in expiry \cup leaked
    \/ gcPc \in {"verify", "remove"} /\ gcEntry = <<ExpiryOf(data[k]), k>>

\* Every step keeps ExpiringEntriesIndexed.
THEOREM IndexedStep ==
  TypeOK /\ LocksHeld /\ ClockReadings /\ ExpiringEntriesIndexed /\ [Next]_vars
    => ExpiringEntriesIndexed'
  <1> SUFFICES ASSUME TypeOK, LocksHeld, ClockReadings, ExpiringEntriesIndexed, [Next]_vars,
                      NEW k \in Keys
               PROVE  Indexed(k)'
    BY Zenon DEF ExpiringEntriesIndexed, Indexed
  <1> USE DEF storage, locks, threadVars, gcVars, history
  <1>0. Indexed(k)
    BY Zenon DEF ExpiringEntriesIndexed, Indexed
  <1>a. GcKey \in Keys /\ gcEntry = <<gcEntry[1], GcKey>> /\ gcEntry[1] \in Nat
    BY DEF GcKey, TypeOK
  <1>1. CASE UNCHANGED <<data, expiry, leaked, gcPc, gcEntry>>
    BY <1>0, <1>1, Zenon DEF Indexed, ExpiryOf
  <1>2. ASSUME NEW t \in Threads, Call(t) \/ Lock(t) \/ IoError(t) \/ Panic(t)
        PROVE  UNCHANGED <<data, expiry, leaked, gcPc, gcEntry>>
    BY <1>2, ZenonT(60) DEF Call, Set, ApplyBatch, Delete, Increment, Start, Lock, IoError, Panic
  <1>3. ASSUME NEW t \in Threads, NEW items,
               data' = Overlay(data, items), expiry' = expiry \cup IndexEntries(items),
               UNCHANGED <<leaked, gcPc, gcEntry>>
        PROVE  Indexed(k)'
    <2>1. data \in [Keys -> Cell]
      BY Zenon DEF TypeOK
    <2>2. CASE data'[k] = data[k]
      BY <1>0, <1>3, <2>2, Zenon DEF Indexed, ExpiryOf
    <2>3. CASE data'[k] # data[k]
      BY <1>3, <2>1, <2>3, OverlayIndexed, Zenon DEF Indexed, ExpiryOf
    <2>. QED BY <2>2, <2>3, Zenon
  <1>4. ASSUME NEW t \in Threads, Work(t) PROVE Indexed(k)'
    <2>1. CASE Commit(t)
      BY <1>3, <2>1, ZenonT(60) DEF Commit
    <2>2. CASE IncrementWrite(t)
      BY <1>3, <2>2, ZenonT(60) DEF IncrementWrite
    <2>3. CASE DeleteRemove(t)
      BY <1>0, <2>3, Zenon DEF DeleteRemove, Indexed, ExpiryOf, TypeOK
    <2>4. CASE DeleteRead(t) \/ IncrementRead(t)
      BY <1>1, <2>4, ZenonT(60) DEF DeleteRead, IncrementRead
    <2>. QED BY <1>4, <2>1, <2>2, <2>3, <2>4, Zenon DEF Work
  <1>5. CASE GcStart \/ GcOpen \/ GcNext \/ GcLock
    BY <1>0, <1>5, Zenon DEF GcStart, GcOpen, GcNext, GcLock, GcContinue, GcSleep, Indexed, ExpiryOf
  <1>6. CASE GcUnindex
    BY <1>0, <1>6, ZenonT(60) DEF GcUnindex, Indexed, ExpiryOf
  <1>7. CASE GcVerify
    <2>1. UNCHANGED <<data, expiry, leaked>>
      BY <1>7, Zenon DEF GcVerify
    <2>2. CASE GcMatches
      BY <1>0, <1>7, <2>1, <2>2, Zenon DEF GcVerify, GcContinue, Indexed, ExpiryOf
    <2>3. CASE ~GcMatches
      <3>1. gcEntry[1] <= gcNow /\ gcNow \in Nat
        BY <1>7, Zenon DEF GcVerify, ClockReadings, TypeOK
      <3>2. ExpiryOf(data[k]) # NoExpiry => gcEntry # <<ExpiryOf(data[k]), k>>
        BY <1>a, <2>3, <3>1 DEF GcMatches, GcKey
      <3>. QED BY <1>0, <2>1, <3>2, Zenon DEF Indexed, ExpiryOf
    <2>. QED BY <2>2, <2>3, Zenon
  <1>8. CASE GcRemove
    <2>1. CASE k = GcKey
      BY <1>8, <2>1, Zenon DEF GcRemove, Indexed, ExpiryOf, TypeOK
    <2>2. CASE k # GcKey
      <3>1. data'[k] = data[k] /\ UNCHANGED <<expiry, leaked>> /\ gcEntry # <<ExpiryOf(data[k]), k>>
        BY <1>8, <1>a, <2>2 DEF GcRemove, GcKey, TypeOK
      <3>. QED BY <1>0, <3>1, Zenon DEF Indexed, ExpiryOf
    <2>. QED BY <2>1, <2>2, Zenon
  <1>9. CASE GcIoError \/ GcPanic \/ Crash
    <2>1. UNCHANGED <<data, expiry>> /\ GcAbandons
      BY <1>9, Zenon DEF GcIoError, GcPanic, Crash
    <2>2. (gcPc \in {"verify", "remove"} /\ gcEntry = <<ExpiryOf(data[k]), k>>) => gcEntry \in leaked'
      BY <2>1 DEF GcAbandons, GcKey
    <2>3. leaked \subseteq leaked'
      BY <2>1, Zenon DEF GcAbandons
    <2>. QED BY <1>0, <2>1, <2>2, <2>3, Zenon DEF Indexed, ExpiryOf
  <1>10. CASE Tick \/ UNCHANGED vars
    BY <1>1, <1>10, Zenon DEF Tick, vars
  <1>. QED
    BY <1>1, <1>2, <1>4, <1>5, <1>6, <1>7, <1>8, <1>9, <1>10, Zenon DEF Next, Sweep, Failure

-----------------------------------------------------------------------------
(* The results *)

\* The inductive invariant of the store.
StoreInv == TypeOK /\ LocksHeld /\ ClockReadings /\ NoLostIncrement /\ ExpiringEntriesIndexed

\* The store keeps its inductive invariant, for every number of threads, keys
\* and stripes and whatever faults occur.
THEOREM StoreInvariant == Spec => []StoreInv
  <1>1. Init => StoreInv
    <2> SUFFICES ASSUME Init PROVE StoreInv
      BY Zenon
    <2>1. TypeOK
      BY DEF Init, TypeOK, NoIndexEntry, Cell
    <2>2. LocksHeld
      BY Zenon DEF Init, LocksHeld, Held, GcHoldsLock, Actors
    <2>3. ClockReadings /\ NoLostIncrement
      BY DEF Init, ClockReadings, NoLostIncrement, IncrementCurrent, Ops
    <2>4. ExpiringEntriesIndexed
      BY Zenon DEF Init, ExpiringEntriesIndexed, ExpiryOf
    <2>. QED BY <2>1, <2>2, <2>3, <2>4, Zenon DEF StoreInv
  <1>2. StoreInv /\ [Next]_vars => StoreInv'
    BY TypeStep, LocksStep, ClockReadingsStep, NoLostIncrementStep, IndexedStep, Zenon DEF StoreInv
  <1>. QED BY <1>1, <1>2, PTL DEF Spec

\* Whoever writes an entry holds the lock of its stripe, and no two actors hold
\* one (locks.rs): mutual exclusion per key, for any hash and any batch.
THEOREM MutualExclusion == Spec => []LocksHeld
  <1>1. StoreInv => LocksHeld
    BY Zenon DEF StoreInv
  <1>. QED BY <1>1, StoreInvariant, PTL

\* When the sweeper removes an entry, what it read of the clock, the index and
\* the entry is still true (gc.rs sweep_keyspace).
THEOREM SweeperReadsHold == Spec => []ClockReadings
  <1>1. StoreInv => ClockReadings
    BY Zenon DEF StoreInv
  <1>. QED BY <1>1, StoreInvariant, PTL

\* No increment is lost (store.rs increment), whoever else runs.
THEOREM IncrementsSafe == Spec => []NoLostIncrement
  <1>1. StoreInv => NoLostIncrement
    BY Zenon DEF StoreInv
  <1>. QED BY <1>1, StoreInvariant, PTL

\* The expiry index is complete: the sweeper can find every expiring entry,
\* except the ones a fault made it abandon.
THEOREM IndexComplete == Spec => []ExpiringEntriesIndexed
  <1>1. StoreInv => ExpiringEntriesIndexed
    BY Zenon DEF StoreInv
  <1>. QED BY <1>1, StoreInvariant, PTL

\* The sweeper collects expired entries only (gc.rs sweep_keyspace): a renewed
\* or unexpiring entry is never its victim.
THEOREM CollectsOnlyExpired == Spec => OnlyExpiredCollected
  <1>1. StoreInv /\ [Next]_vars => [DropsWithReason]_vars
    <2> SUFFICES ASSUME StoreInv, [Next]_vars, NEW k \in Keys,
                        data[k] # Absent, data'[k] = Absent
                 PROVE  \/ ExpiredAt(data[k], now)
                        \/ \E t \in Threads : /\ pc[t] = "write" /\ pc'[t] = "idle"
                                              /\ k \in KeysOf(op[t])
      BY Zenon DEF DropsWithReason
    <2>1. TypeOK /\ ClockReadings /\ data'[k] # data[k]
      BY Zenon DEF StoreInv
    <2>2. CASE gcPc = "remove" /\ k = GcKey
      BY <2>1, <2>2 DEF ClockReadings, ExpiredAt, GcKey, TypeOK
    <2>. QED BY <2>1, <2>2, DataStep, Zenon
  <1>. QED BY <1>1, StoreInvariant, PTL DEF Spec, OnlyExpiredCollected

-----------------------------------------------------------------------------
(* Deadlock freedom *)

\* A thread wants only stripes above the ones it holds, and while it waits it
\* wants one.
Ascending(t) ==
  /\ \A h \in Held(t), s \in need[t] : h < s
  /\ pc[t] = "lock" => need[t] # {}

\* Every request names a key.
LEMMA RequestsName ==
  ASSUME NEW o \in SetRequests(now) \cup BatchRequests(now)
                     \cup DeleteRequests \cup IncrementRequests(now)
  PROVE  StripesOf(o) # {}
  <1>1. KeysOf(o) # {}
    <2>1. CASE o \in SetRequests(now)
      <3>1. PICK k \in Keys, e \in NewEntries(now) : o = [type |-> "apply", items |-> <<[key |-> k, entry |-> e]>>]
        BY <2>1 DEF SetRequests
      <3>2. o.type = "apply" /\ 1 \in DOMAIN o.items
        BY <3>1
      <3>3. o.items[1].key \in KeysOf(o)
        BY <3>2, Zenon DEF KeysOf
      <3>. QED BY <3>3, Zenon
    <2>2. CASE o \in BatchRequests(now)
      <3>1. PICK n \in 1 .. MaxBatch :
              \E s \in [1 .. n -> [key : Keys, entry : NewEntries(now) \cup {Absent}]] :
                o = [type |-> "apply", items |-> s]
        BY <2>2, Zenon DEF BatchRequests
      <3>2. o.type = "apply" /\ 1 \in DOMAIN o.items
        BY <3>1
      <3>3. o.items[1].key \in KeysOf(o)
        BY <3>2, Zenon DEF KeysOf
      <3>. QED BY <3>3, Zenon
    <2>3. CASE o \in DeleteRequests \cup IncrementRequests(now)
      BY <2>3 DEF DeleteRequests, IncrementRequests, KeysOf
    <2>. QED BY <2>1, <2>2, <2>3, Zenon
  <1>. QED BY <1>1 DEF StripesOf

\* How a thread comes to wait for a stripe.
LEMMA WaitStep ==
  ASSUME TypeOK, [Next]_vars, NEW u \in Threads, pc'[u] = "lock"
  PROVE  \/ pc[u] = "lock" /\ op'[u] = op[u] /\ need'[u] = need[u]
         \/ \E o \in SetRequests(now) \cup BatchRequests(now)
                       \cup DeleteRequests \cup IncrementRequests(now) :
              op'[u] = o /\ need'[u] = StripesOf(o)
         \/ /\ pc[u] = "lock" /\ op'[u] = op[u]
            /\ \E s \in need[u] : /\ \A r \in need[u] : s <= r
                                  /\ need'[u] = need[u] \ {s} /\ need[u] # {s}
  <1> USE DEF storage, locks, threadVars, gcVars, history
  <1>0. DOMAIN pc = Threads /\ DOMAIN op = Threads /\ DOMAIN need = Threads
    BY Zenon DEF TypeOK
  <1>a. ASSUME NEW t \in Threads, Finish(t)
        PROVE  pc[u] = "lock" /\ op'[u] = op[u] /\ need'[u] = need[u]
    BY <1>0, <1>a, Zenon DEF Finish
  <1>b. ASSUME UNCHANGED <<pc, op, need>>
        PROVE  pc[u] = "lock" /\ op'[u] = op[u] /\ need'[u] = need[u]
    BY <1>b, Zenon
  <1>1. ASSUME NEW t \in Threads, Call(t)
        PROVE  \/ pc[u] = "lock" /\ op'[u] = op[u] /\ need'[u] = need[u]
               \/ \E o \in SetRequests(now) \cup BatchRequests(now)
                             \cup DeleteRequests \cup IncrementRequests(now) :
                    op'[u] = o /\ need'[u] = StripesOf(o)
    <2>1. PICK o \in SetRequests(now) \cup BatchRequests(now)
                       \cup DeleteRequests \cup IncrementRequests(now) : Start(t, o)
      BY <1>1, Zenon DEF Call, Set, ApplyBatch, Delete, Increment
    <2>. QED BY <1>0, <2>1, Zenon DEF Start
  <1>2. ASSUME NEW t \in Threads, Lock(t), ~Finish(t)
        PROVE  \/ pc[u] = "lock" /\ op'[u] = op[u] /\ need'[u] = need[u]
               \/ /\ pc[u] = "lock" /\ op'[u] = op[u]
                  /\ \E s \in need[u] : /\ \A r \in need[u] : s <= r
                                        /\ need'[u] = need[u] \ {s} /\ need[u] # {s}
    <2>1. PICK s \in need[t] :
            /\ \A r \in need[t] : s <= r
            /\ need' = [need EXCEPT ![t] = @ \ {s}]
            /\ pc' = [pc EXCEPT ![t] =
                        IF need[t] # {s} THEN "lock"
                        ELSE IF op[t].type = "apply" THEN "write" ELSE "read"]
            /\ UNCHANGED op
      BY <1>2, Zenon DEF Lock
    <2>2. pc[t] = "lock"
      BY <1>2, Zenon DEF Lock
    <2>. QED BY <1>0, <2>1, <2>2, Zenon
  <1>3. ASSUME NEW t \in Threads, Work(t), ~Finish(t)
        PROVE  pc[u] = "lock" /\ op'[u] = op[u] /\ need'[u] = need[u]
    <2>1. pc' = [pc EXCEPT ![t] = "write"] /\ UNCHANGED <<op, need>>
      BY <1>3, ZenonT(60) DEF Work, Commit, DeleteRead, DeleteRemove, IncrementRead, IncrementWrite
    <2>. QED BY <1>0, <2>1, Zenon
  <1>4. CASE Sweep \/ GcLock \/ Tick \/ UNCHANGED vars
    <2>1. UNCHANGED <<pc, op, need>>
      BY <1>4, ZenonT(60) DEF Sweep, GcStart, GcOpen, GcNext, GcUnindex, GcVerify, GcRemove, GcLock, Tick, vars
    <2>. QED BY <2>1, <1>b, Zenon
  <1>5. CASE Failure
    <2>1. CASE GcIoError \/ GcPanic
      <3>1. UNCHANGED <<pc, op, need>>
        BY <2>1, ZenonT(60) DEF GcIoError, GcPanic
      <3>. QED BY <3>1, <1>b
    <2>2. ASSUME NEW t \in Threads, IoError(t) \/ Panic(t) PROVE Finish(t)
      BY <2>2, Zenon DEF IoError, Panic
    <2>3. ~Crash
      BY Zenon DEF Crash
    <2>. QED BY <1>5, <1>a, <2>1, <2>2, <2>3, Zenon DEF Failure
  <1>. QED BY <1>a, <1>1, <1>2, <1>3, <1>4, <1>5, Zenon DEF Next

\* Every step leaves the stripes that a thread has yet to take above its own.
LEMMA AscendingStep ==
  ASSUME TypeOK, LocksHeld, LocksHeld', TypeOK', [Next]_vars, NEW u \in Threads, Ascending(u)
  PROVE  Ascending(u)'
  <1>1. CASE pc'[u] # "lock"
    <2>1. need'[u] = {}
      BY <1>1 DEF LocksHeld, TypeOK
    <2>. QED BY <1>1, <2>1, Zenon DEF Ascending
  <1>2. CASE pc'[u] = "lock"
    <2>0. Held(u)' = StripesOf(op'[u]) \ need'[u] /\ need'[u] \subseteq StripesOf(op'[u])
      BY <1>2, Zenon DEF LocksHeld, StripesOf, KeysOf
    <2>1. CASE pc[u] = "lock" /\ op'[u] = op[u] /\ need'[u] = need[u]
      <3>1. Held(u)' = Held(u)
        BY <2>0, <2>1, Zenon DEF LocksHeld
      <3>. QED BY <2>1, <3>1, Zenon DEF Ascending
    <2>2. ASSUME NEW o \in SetRequests(now) \cup BatchRequests(now)
                             \cup DeleteRequests \cup IncrementRequests(now),
                 op'[u] = o, need'[u] = StripesOf(o)
          PROVE  Ascending(u)'
      <3>1. Held(u)' = {}
        BY <2>0, <2>2, Zenon
      <3>2. need'[u] # {}
        BY <2>2, RequestsName, Zenon
      <3>. QED BY <3>1, <3>2, Zenon DEF Ascending
    <2>3. ASSUME NEW s \in need[u], \A r \in need[u] : s <= r, pc[u] = "lock", op'[u] = op[u],
                 need'[u] = need[u] \ {s}, need[u] # {s}
          PROVE  Ascending(u)'
      <3>1. Held(u) = StripesOf(op[u]) \ need[u] /\ need[u] \subseteq StripesOf(op[u])
            /\ need[u] \subseteq Stripes
        BY <2>3, Zenon DEF LocksHeld, TypeOK
      <3>2. Held(u)' \subseteq Held(u) \cup {s}
        BY <2>0, <2>3, <3>1, Zenon
      <3>3. ASSUME NEW r \in need'[u] PROVE r \in need[u] /\ s < r
        <4>1. r \in need[u] /\ r # s /\ s <= r
          BY <2>3, Zenon
        <4>2. r \in Nat /\ s \in Nat
          BY <3>1, <4>1, Zenon
        <4>. QED BY <4>1, <4>2
      <3>4. \A h \in Held(u) : \A r \in need[u] : h < r
        BY Zenon DEF Ascending
      <3>5. need'[u] # {}
        BY <2>3, Zenon
      <3>. QED BY <3>2, <3>3, <3>4, <3>5, Zenon DEF Ascending
    <2>. QED BY <1>2, <2>1, <2>2, <2>3, WaitStep, Zenon
  <1>. QED BY <1>1, <1>2, Zenon

\* A nonempty set of naturals has a least element.
LEMMA Least ==
  ASSUME NEW S \in SUBSET Nat, S # {}
  PROVE  \E n \in S : \A m \in S : n <= m
  <1> DEFINE R == OpToRel(<, Nat)
  <1>1. ASSUME NEW x \in Nat, NEW y \in Nat, x < y PROVE <<x, y>> \in R
    BY <1>1, Zenon DEF OpToRel
  <1>2. IsWellFoundedOn(R, Nat)
    BY NatLessThanWellFounded, Zenon
  <1> HIDE DEF R
  <1>3. PICK n \in S : \A m \in S : ~(<<m, n>> \in R)
    BY <1>2, WFMin, Zenon
  <1>4. ASSUME NEW m \in S PROVE n <= m
    <2>1. n \in Nat /\ m \in Nat
      BY Zenon
    <2>2. ~(m < n)
      BY <1>1, <1>3, <2>1, Zenon
    <2>. QED BY <2>1, <2>2
  <1>. QED BY <1>4, Zenon

\* A nonempty set of naturals that is bounded has a greatest.
LEMMA Greatest ==
  ASSUME NEW n \in Nat, NEW S \in SUBSET (0 .. n), S # {}
  PROVE  \E i \in S : \A j \in S : j <= i
  <1> DEFINE T == {n - i : i \in S}
  <1>1. \A i \in S : n - i \in Nat /\ i \in Nat
    OBVIOUS
  <1>2. T \in SUBSET Nat /\ T # {} /\ \A i \in S : n - i \in T
    <2>1. T \subseteq Nat
      BY <1>1
    <2>2. \A i \in S : n - i \in T
      OBVIOUS
    <2>. QED BY <2>1, <2>2, Zenon
  <1>3. PICK m \in T : \A x \in T : m <= x
    <2> HIDE DEF T
    <2>. QED BY <1>2, Least, Zenon
  <1>4. PICK i \in S : m = n - i
    BY Zenon
  <1>5. ASSUME NEW j \in S PROVE j <= i
    <2>1. n - i <= n - j
      BY <1>2, <1>3, <1>4, Zenon
    <2>. QED BY <1>1, <2>1
  <1>. QED BY <1>5, Zenon

\* The thread that waits for the highest stripe anybody waits for can go on:
\* who holds it wants a still higher one, or none.
LEMMA HighestWaiter ==
  ASSUME TypeOK, LocksHeld, \A t \in Threads : Ascending(t)
  PROVE  SomeoneCanRun
  <1> DEFINE Wants(t, s) == s \in need[t] /\ \A r \in need[t] : s <= r
             Wanted == {s \in Stripes : \E t \in Threads : pc[t] = "lock" /\ Wants(t, s)}
  <1>1. ASSUME NEW t \in Threads, pc[t] = "lock" PROVE \E s \in Wanted : Wants(t, s)
    <2>1. need[t] \in SUBSET Nat /\ need[t] # {} /\ need[t] \subseteq Stripes
      BY <1>1, Zenon DEF TypeOK, Ascending
    <2>2. PICK s \in need[t] : \A r \in need[t] : s <= r
      BY <2>1, Least, Zenon
    <2>. QED BY <1>1, <2>1, <2>2, Zenon
  <1> SUFFICES ASSUME NEW t0 \in Threads, pc[t0] = "lock", ~GcHoldsLock,
                      \A t \in Threads : pc[t] \notin {"read", "write"},
                      \A t \in Threads : pc[t] = "lock" => \A s \in need[t] : Wants(t, s) => holder[s] # Free
               PROVE  FALSE
    BY Zenon DEF SomeoneCanRun
  <1>2. PICK top \in Wanted : \A s \in Wanted : s <= top
    <2>1. PICK last \in Stripes : \A s \in Stripes : s <= last
      BY LastStripeAssumption, Zenon
    <2>a. Wanted # {} /\ Wanted \subseteq Stripes
      BY <1>1, Zenon
    <2>b. last \in Nat /\ \A s \in Stripes : s \in 0 .. last
      BY <2>1
    <2>2. last \in Nat /\ Wanted \in SUBSET (0 .. last) /\ Wanted # {}
      BY <2>a, <2>b, Zenon
    <2> HIDE DEF Wanted
    <2>. QED BY <2>2, Greatest, Zenon
  <1>3. PICK t \in Threads : pc[t] = "lock" /\ Wants(t, top)
    BY Zenon
  <1>4. top \in Stripes /\ holder[top] # Free /\ holder[top] \in Actors \cup {Free}
    BY <1>3, Zenon DEF TypeOK
  <1>5. holder[top] # Gc
    BY <1>4, Zenon DEF LocksHeld, Held
  <1>6. PICK u \in Threads : holder[top] = u
    BY <1>4, <1>5, Zenon DEF Actors
  <1>7. top \in Held(u)
    BY <1>4, <1>6, Zenon DEF Held
  <1>8. pc[u] = "lock"
    BY <1>7 DEF LocksHeld, TypeOK
  <1>9. PICK s \in Wanted : Wants(u, s)
    BY <1>1, <1>8, Zenon
  <1>10. top < s /\ s \in Nat /\ top \in Nat
    BY <1>4, <1>7, <1>9, Zenon DEF Ascending
  <1>. QED BY <1>2, <1>9, <1>10

\* Nobody waits for everybody (locks.rs lock_stripes_for_keys): whenever a
\* thread waits for a stripe, some holder or waiter can take its next step.
THEOREM DeadlockFree == Spec => []SomeoneCanRun
  <1> DEFINE Inv == TypeOK /\ LocksHeld /\ \A t \in Threads : Ascending(t)
  <1>1. Init => Inv
    <2> SUFFICES ASSUME Init PROVE Inv
      BY Zenon
    <2>1. TypeOK /\ LocksHeld
      BY DEF Init, TypeOK, NoIndexEntry, Cell, LocksHeld, Held, GcHoldsLock, Actors
    <2>2. \A t \in Threads : Ascending(t)
      BY Zenon DEF Init, Ascending
    <2>. QED BY <2>1, <2>2, Zenon
  <1>2. Inv /\ [Next]_vars => Inv'
    <2> SUFFICES ASSUME TypeOK, LocksHeld, \A t \in Threads : Ascending(t), [Next]_vars PROVE Inv'
      BY Zenon
    <2>1. TypeOK' /\ LocksHeld'
      BY TypeStep, LocksStep, Zenon
    <2>2. ASSUME NEW u \in Threads PROVE Ascending(u)'
      BY <2>1, AscendingStep, Zenon
    <2>. QED BY <2>1, <2>2, Zenon
  <1>3. Inv => SomeoneCanRun
    BY HighestWaiter, Zenon
  <1> HIDE DEF Inv
  <1>. QED BY <1>1, <1>2, <1>3, PTL DEF Spec

-----------------------------------------------------------------------------
(* The refinement *)

\* The two specifications are built from the same operators of KeyOps.
LEMMA SameExpiry ==
  ASSUME NEW c, NEW t
  PROVE  /\ Map!ExpiredAt(c, t) <=> ExpiredAt(c, t)
         /\ Map!CounterBase(c, t) = CounterBase(c, t)
  BY Zenon DEF Map!ExpiredAt, ExpiredAt, Map!ExpiryOf, ExpiryOf, Map!CounterBase, CounterBase

\* The same for the effect of a batch.
LEMMA SameOverlay ==
  ASSUME NEW d, NEW items
  PROVE  Map!Overlay(d, items) = Overlay(d, items)
  BY Zenon DEF Map!Overlay, Overlay, Map!LastOn, LastOn

\* The same for the requests.
LEMMA SameRequests ==
  ASSUME NEW t
  PROVE  /\ Map!SetRequests(t) = SetRequests(t)
         /\ Map!BatchRequests(t) = BatchRequests(t)
         /\ Map!DeleteRequests = DeleteRequests
         /\ Map!IncrementRequests(t) = IncrementRequests(t)
  <1>1. Map!NewEntries(t) = NewEntries(t)
    BY DEF Map!NewEntries, NewEntries, Map!ResolveTtl, ResolveTtl
  <1>2. Map!IncrementRequests(t) = IncrementRequests(t)
    BY DEF Map!IncrementRequests, IncrementRequests, Map!ResolveTtl, ResolveTtl
  <1>. QED
    BY <1>1, <1>2 DEF Map!SetRequests, SetRequests, Map!BatchRequests, BatchRequests,
                      Map!DeleteRequests, DeleteRequests

\* A batch of one item stores that item.
LEMMA OverlayOne ==
  ASSUME NEW d \in [Keys -> Cell], NEW k \in Keys, NEW c
  PROVE  Overlay(d, <<[key |-> k, entry |-> c]>>) = [d EXCEPT ![k] = c]
  <1> DEFINE items == <<[key |-> k, entry |-> c]>>
  <1>1. DOMAIN items = {1} /\ items[1].key = k /\ items[1].entry = c
    OBVIOUS
  <1> HIDE DEF items
  <1>2. \A j \in Keys : \A i \in DOMAIN items : LastOn(items, i, j) <=> i = 1 /\ j = k
    BY <1>1 DEF LastOn
  <1>3. ASSUME NEW j \in Keys, j # k PROVE Overlay(d, items)[j] = d[j]
    BY <1>2, <1>3, Zenon DEF Overlay
  <1>4. Overlay(d, items)[k] = c
    <2>1. \E i \in DOMAIN items : LastOn(items, i, k)
      BY <1>1, <1>2, Zenon
    <2>2. (CHOOSE i \in DOMAIN items : LastOn(items, i, k)) = 1
      BY <1>1, <1>2, <2>1, Zenon
    <2>. QED BY <1>1, <2>1, <2>2, Zenon DEF Overlay
  <1>5. Overlay(d, items) = [j \in Keys |-> Overlay(d, items)[j]]
    BY Zenon DEF Overlay
  <1>6. Overlay(d, items) = [d EXCEPT ![k] = c]
    BY <1>3, <1>4, <1>5, ZenonT(60)
  <1>. QED BY <1>6, Zenon DEF items

\* A request that ends without touching the data fails.
LEMMA FinishFails ==
  ASSUME TypeOK, NEW t \in Threads, Finish(t), UNCHANGED <<data, now>>
  PROVE  Map!Next
  <1>1. op' = [u \in Threads |-> IF u \in {t} THEN NoOp ELSE op[u]]
    BY ZenonT(60) DEF Finish, TypeOK
  <1>2. {t} \in SUBSET Threads
    BY Zenon
  <1>. QED BY <1>1, <1>2, ZenonT(60) DEF Map!Next, Map!Fail

\* Every step of the store is a step of the map, or invisible.
LEMMA StepSimulation == StoreInv /\ [Next]_vars => [Map!Next]_(Map!vars)
  <1> SUFFICES ASSUME StoreInv, [Next]_vars PROVE Map!Next \/ UNCHANGED <<data, now, op>>
    BY Zenon DEF Map!vars
  <1> USE DEF storage, locks, threadVars, gcVars, history
  <1>0. TypeOK /\ LocksHeld /\ ClockReadings /\ NoLostIncrement
    BY Zenon DEF StoreInv
  <1>1. CASE Tick
    BY <1>1, Zenon DEF Tick, Map!Next, Map!Tick
  <1>2. ASSUME NEW t \in Threads, Call(t) PROVE Map!Next
    <2>1. PICK o \in SetRequests(now) \cup BatchRequests(now)
                       \cup DeleteRequests \cup IncrementRequests(now) : Start(t, o)
      BY <1>2, Zenon DEF Call, Set, ApplyBatch, Delete, Increment
    <2>2. op[t] = NoOp /\ op' = [op EXCEPT ![t] = o] /\ UNCHANGED <<data, now>>
      BY <1>0, <2>1, Zenon DEF Start, TypeOK
    <2>3. Map!Request(t)
      BY <2>2, SameRequests, ZenonT(60) DEF Map!Request
    <2>. QED BY <2>3, Zenon DEF Map!Next
  <1>3. ASSUME NEW t \in Threads, Lock(t) \/ DeleteRead(t) \/ IncrementRead(t)
        PROVE  Map!Next \/ UNCHANGED <<data, now, op>>
    <2>1. UNCHANGED <<data, now>> /\ (Finish(t) \/ UNCHANGED op)
      BY <1>3, Zenon DEF Lock, DeleteRead, IncrementRead
    <2>. QED BY <1>0, <2>1, FinishFails, Zenon
  <1>4. ASSUME NEW t \in Threads, Commit(t) PROVE Map!Next
    <2>1. op[t] # NoOp /\ op[t].type = "apply" /\ op' = [op EXCEPT ![t] = NoOp]
          /\ data' = Overlay(data, op[t].items) /\ UNCHANGED now
      BY <1>0, <1>4, Zenon DEF Commit, Finish, TypeOK
    <2>2. Map!Apply(t)
      BY <2>1, SameOverlay, Zenon DEF Map!Apply
    <2>. QED BY <2>2, Zenon DEF Map!Next
  <1>5. ASSUME NEW t \in Threads, DeleteRemove(t) PROVE Map!Next
    <2>1. op[t] # NoOp /\ op[t].type = "delete" /\ op' = [op EXCEPT ![t] = NoOp]
          /\ data' = [data EXCEPT ![op[t].key] = Absent] /\ UNCHANGED now
      BY <1>0, <1>5, Zenon DEF DeleteRemove, Finish, TypeOK
    <2>2. Map!Apply(t)
      BY <2>1, Zenon DEF Map!Apply
    <2>. QED BY <2>2 DEF Map!Next
  <1>6. ASSUME NEW t \in Threads, IncrementWrite(t) PROVE Map!Next
    <2>1. op[t] # NoOp /\ op[t].type = "increment" /\ op' = [op EXCEPT ![t] = NoOp]
          /\ pc[t] = "write" /\ UNCHANGED now
      BY <1>0, <1>6, Zenon DEF IncrementWrite, Finish, TypeOK
    <2>2. op[t].key \in Keys
      BY <1>0, <2>1, BusyHasOp, OpKinds, Zenon DEF IncrOp
    <2>3. data' = Overlay(data, <<[key |-> op[t].key, entry |-> seen[t]]>>)
      BY <1>6, Zenon DEF IncrementWrite
    <2>4. data' = [data EXCEPT ![op[t].key] = seen[t]]
      <3>1. data \in [Keys -> Cell]
        BY <1>0, Zenon DEF TypeOK
      <3>2. Overlay(data, <<[key |-> op[t].key, entry |-> seen[t]]>>)
              = [data EXCEPT ![op[t].key] = seen[t]]
        BY <2>2, <3>1, OverlayOne, ZenonT(60)
      <3>. QED BY <2>3, <3>2, Zenon
    <2>5. PICK tm \in op[t].at..now :
            /\ CanIncrement(CounterBase(data[op[t].key], tm), op[t].delta)
            /\ seen[t] = [value   |-> CounterBase(data[op[t].key], tm) + op[t].delta,
                          expires |-> op[t].expires]
      BY <1>0, <2>1, Zenon DEF NoLostIncrement, IncrementCurrent
    <2>6. Map!CanIncrement(Map!CounterBase(data[op[t].key], tm), op[t].delta)
      BY <2>5, SameExpiry, Zenon DEF CanIncrement, Map!CanIncrement
    <2>7. data' = [data EXCEPT ![op[t].key] =
                     [value   |-> Map!CounterBase(data[op[t].key], tm) + op[t].delta,
                      expires |-> op[t].expires]]
      BY <2>4, <2>5, SameExpiry, ZenonT(60)
    <2>8. Map!Apply(t)
      BY <2>1, <2>6, <2>7, ZenonT(60) DEF Map!Apply
    <2>. QED BY <2>8, Zenon DEF Map!Next
  <1>7. CASE Sweep \/ GcLock
    <2>1. CASE GcRemove
      <3>1. GcKey \in Keys /\ ExpiredAt(data[GcKey], now)
        BY <1>0, <2>1, CellAssumption DEF GcRemove, ClockReadings, ExpiredAt, GcKey, TypeOK
      <3>2. Map!Forget
        BY <2>1, <3>1, SameExpiry, ZenonT(60) DEF GcRemove, Map!Forget
      <3>. QED BY <3>2, Zenon DEF Map!Next
    <2>2. CASE ~GcRemove
      BY <1>7, <2>2, Zenon DEF Sweep, GcStart, GcOpen, GcNext, GcUnindex, GcVerify, GcLock
    <2>. QED BY <2>1, <2>2, Zenon
  <1>8. CASE Failure
    <2>1. ASSUME NEW t \in Threads, IoError(t) \/ Panic(t) PROVE Map!Next
      BY <1>0, <2>1, FinishFails, Zenon DEF IoError, Panic
    <2>2. CASE GcIoError \/ GcPanic
      BY <2>2, Zenon DEF GcIoError, GcPanic
    <2>3. CASE Crash
      <3>1. op' = [u \in Threads |-> IF u \in Threads THEN NoOp ELSE op[u]]
        BY <2>3, Zenon DEF Crash
      <3>2. Threads \in SUBSET Threads /\ UNCHANGED <<data, now>>
        BY <2>3, Zenon DEF Crash
      <3>. QED BY <3>1, <3>2, Zenon DEF Map!Next, Map!Fail
    <2>. QED BY <1>8, <2>1, <2>2, <2>3, Zenon DEF Failure
  <1>9. CASE UNCHANGED vars
    BY <1>9, Zenon DEF vars
  <1>. QED
    BY <1>1, <1>2, <1>3, <1>4, <1>5, <1>6, <1>7, <1>8, <1>9, Zenon DEF Next, Work

\* The store implements the map of its callers: requests are atomic, a failed
\* one has no effect, and only expired entries vanish by themselves.
THEOREM ImplementsMap == Spec => MapSpec
  <1>1. Init => Map!Init
    BY Zenon DEF Init, Map!Init
  <1>. QED BY <1>1, StepSimulation, StoreInvariant, PTL DEF Spec, MapSpec, Map!Spec
=============================================================================

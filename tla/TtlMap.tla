------------------------------- MODULE TtlMap -------------------------------
(***************************************************************************)
(* What the key store promises its callers: a map of entries in which each *)
(* write request takes effect once, at one instant between its call and    *)
(* its return, or fails without any effect; and nothing but a request or   *)
(* the passing of its expiry makes an entry disappear.                     *)
(***************************************************************************)
EXTENDS KeyOps

CONSTANTS Threads, MaxTime

VARIABLES data, now, op

vars == <<data, now, op>>

Init ==
  /\ data = [k \in Keys |-> Absent]
  /\ now = 0
  /\ op = [t \in Threads |-> NoOp]

Tick == now < MaxTime /\ now' = now + 1 /\ UNCHANGED <<data, op>>

Request(t) ==
  /\ op[t] = NoOp
  /\ \E o \in SetRequests(now) \cup BatchRequests(now)
                \cup DeleteRequests \cup IncrementRequests(now) :
       op' = [op EXCEPT ![t] = o]
  /\ UNCHANGED <<data, now>>

\* The effect of a request.  An increment judges the expiry of its counter at
\* some instant since its call.
Apply(t) ==
  /\ op[t] # NoOp
  /\ op' = [op EXCEPT ![t] = NoOp]
  /\ \/ /\ op[t].type = "apply"
        /\ data' = Overlay(data, op[t].items)
     \/ /\ op[t].type = "delete"
        /\ data' = [data EXCEPT ![op[t].key] = Absent]
     \/ /\ op[t].type = "increment"
        /\ \E tm \in op[t].at..now :
             LET base == CounterBase(data[op[t].key], tm)
             IN /\ CanIncrement(base, op[t].delta)
                /\ data' = [data EXCEPT ![op[t].key] =
                              [value |-> base + op[t].delta, expires |-> op[t].expires]]
  /\ UNCHANGED now

\* Requests end without effect: a refused or failed one, or all at a crash.
Fail == /\ \E T \in SUBSET Threads :
             op' = [t \in Threads |-> IF t \in T THEN NoOp ELSE op[t]]
        /\ UNCHANGED <<data, now>>

\* An expired entry may be dropped at any time.
Forget == /\ \E k \in Keys : /\ ExpiredAt(data[k], now)
                             /\ data' = [data EXCEPT ![k] = Absent]
          /\ UNCHANGED <<now, op>>

Next == Tick \/ (\E t \in Threads : Request(t) \/ Apply(t)) \/ Fail \/ Forget

Spec == Init /\ [][Next]_vars
====

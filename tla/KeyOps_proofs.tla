----------------------------- MODULE KeyOps_proofs -----------------------------
(***************************************************************************)
(* What the operators on requests and batches return, for any keys, values *)
(* and TTLs.                                                               *)
(***************************************************************************)
EXTENDS KeyOps, TLAPS

USE KeysAssumption, CellAssumption, ValuesAssumption, SMTT(60), ZenonT(60)

\* The three kinds of request are told apart by their type.
LEMMA OpKinds ==
  ASSUME NEW o \in Ops
  PROVE  /\ o.type = "apply" <=> o \in WriteOp
         /\ o.type = "delete" <=> o \in DeleteOp
         /\ o.type = "increment" <=> o \in IncrOp
  BY DEF Ops, WriteOp, DeleteOp, IncrOp

\* The items of a batch are items, whatever the index.
LEMMA ItemsTyped ==
  ASSUME NEW o \in Ops, o.type = "apply", NEW i \in DOMAIN o.items
  PROVE  /\ o.items[i] \in Item
         /\ o.items[i].key \in Keys
         /\ o.items[i].entry \in Cell
  <1>1. o.items \in Seq(Item)
    BY OpKinds DEF WriteOp
  <1>2. o.items[i] \in Item
    BY <1>1
  <1>. QED BY <1>2 DEF Item

\* The expiry of a cell is a time or NoExpiry.
LEMMA ExpiryOfTyped ==
  ASSUME NEW c \in Cell
  PROVE  ExpiryOf(c) \in Expiry
  BY DEF ExpiryOf, Cell, Entry, Expiry

\* A batch changes only the cells of its own keys, and what it stores there is
\* the cell of one of its items.
LEMMA OverlayCell ==
  ASSUME NEW items, NEW d \in [Keys -> Cell], NEW k \in Keys
  PROVE  \/ Overlay(d, items)[k] = d[k]
         \/ \E i \in DOMAIN items : items[i].key = k /\ Overlay(d, items)[k] = items[i].entry
  <1>1. CASE \E i \in DOMAIN items : LastOn(items, i, k)
    <2> DEFINE i == CHOOSE i \in DOMAIN items : LastOn(items, i, k)
    <2>1. i \in DOMAIN items /\ LastOn(items, i, k)
      BY <1>1
    <2>2. Overlay(d, items)[k] = items[i].entry
      BY <1>1 DEF Overlay
    <2>. QED BY <2>1, <2>2, ZenonT(60) DEF LastOn
  <1>2. CASE ~\E i \in DOMAIN items : LastOn(items, i, k)
    BY <1>2 DEF Overlay
  <1>. QED BY <1>1, <1>2

\* A batch of well-typed items leaves a well-typed map.
LEMMA OverlayTyped ==
  ASSUME NEW items, NEW d \in [Keys -> Cell],
         \A i \in DOMAIN items : items[i].entry \in Cell
  PROVE  Overlay(d, items) \in [Keys -> Cell]
  <1>1. \A k \in Keys : Overlay(d, items)[k] \in Cell
    BY OverlayCell
  <1>2. Overlay(d, items) = [k \in Keys |-> Overlay(d, items)[k]]
    BY DEF Overlay
  <1>. QED BY <1>1, <1>2

\* What a batch inserts into the index is a set of index entries.
LEMMA IndexEntriesTyped ==
  ASSUME NEW items, \A i \in DOMAIN items : items[i].entry \in Cell /\ items[i].key \in Keys
  PROVE  IndexEntries(items) \subseteq Nat \X Keys
  <1>1. \A i \in DOMAIN items : ExpiryOf(items[i].entry) \in Expiry
    BY ExpiryOfTyped
  <1>. QED BY <1>1 DEF IndexEntries, Expiry

\* A new request is a request.
LEMMA RequestsTyped ==
  ASSUME NEW t \in Nat
  PROVE  SetRequests(t) \cup BatchRequests(t) \cup DeleteRequests \cup IncrementRequests(t)
           \subseteq Ops
  <1>1. \A ttl \in Ttls : ResolveTtl(ttl, t) \in Expiry
    BY DEF ResolveTtl, Expiry
  <1>2. NewEntries(t) \subseteq Entry
    BY <1>1 DEF NewEntries, Entry
  <1>3. [key : Keys, entry : NewEntries(t) \cup {Absent}] \subseteq Item
    BY <1>2 DEF Item, Cell
  <1>4. SetRequests(t) \subseteq WriteOp
    <2>1. ASSUME NEW k \in Keys, NEW e \in NewEntries(t)
          PROVE  [type |-> "apply", items |-> <<[key |-> k, entry |-> e]>>] \in WriteOp
      <3>1. [key |-> k, entry |-> e] \in Item
        BY <1>3
      <3>2. <<[key |-> k, entry |-> e]>> \in Seq(Item)
        BY <3>1
      <3>. QED BY <3>2 DEF WriteOp
    <2>. QED BY <2>1 DEF SetRequests
  <1>5. BatchRequests(t) \subseteq WriteOp
    <2>1. ASSUME NEW n \in 1..MaxBatch,
                 NEW s \in [1..n -> [key : Keys, entry : NewEntries(t) \cup {Absent}]]
          PROVE  s \in Seq(Item)
      BY <1>3
    <2>. QED BY <2>1 DEF BatchRequests, WriteOp
  <1>6. DeleteRequests \subseteq DeleteOp
    BY DEF DeleteRequests, DeleteOp
  <1>7. IncrementRequests(t) \subseteq IncrOp
    BY <1>1 DEF IncrementRequests, IncrOp
  <1>. QED BY <1>4, <1>5, <1>6, <1>7 DEF Ops
=============================================================================

------------------------- MODULE BucketPolicy_proofs -------------------------
(***************************************************************************)
(* Bucket policies, for any handlers, keys, forms, patches, grants and     *)
(* transactions.  What holds however updates overlap comes first; what     *)
(* holds only while at most one handler at a time changes the policy is    *)
(* stated with that assumption, OneWriter.                                 *)
(***************************************************************************)
EXTENDS BucketPolicy, WellFoundedInduction, TLAPS

USE NoneAssumption, PolicyAssumption, SMTT(60), ZenonT(60)

-----------------------------------------------------------------------------
(* The operators *)

\* A nonempty set of naturals has a least element.
LEMMA Least ==
  ASSUME NEW S \in SUBSET Nat, S # {}
  PROVE  \E n \in S : \A m \in S : n <= m
  <1> DEFINE R == OpToRel(<, Nat)
  <1>1. ASSUME NEW x \in Nat, NEW y \in Nat, x < y PROVE <<x, y>> \in R
    BY <1>1, Zenon DEF OpToRel
  <1>2. IsWellFoundedOn(R, Nat)
    BY NatLessThanWellFounded, Zenon
  <1> HIDE DEF R
  <1>3. PICK n \in S : \A m \in S : ~(<<m, n>> \in R)
    BY <1>2, WFMin, Zenon
  <1>4. ASSUME NEW m \in S PROVE n <= m
    <2>1. n \in Nat /\ m \in Nat
      BY Zenon
    <2>2. ~(m < n)
      BY <1>1, <1>3, <2>1, Zenon
    <2>. QED BY <2>1, <2>2
  <1>. QED BY <1>4, Zenon

\* A query of one parameter.
LEMMA FirstOfOne ==
  ASSUME NEW n, NEW v, NEW name
  PROVE  FirstDecoded(<<[name |-> n, value |-> v]>>, name) =
           IF n = name /\ v # Undecodable THEN v ELSE None
  <1> DEFINE q == <<[name |-> n, value |-> v]>>
             decoded == {i \in DOMAIN q : q[i].name = name /\ q[i].value # Undecodable}
  <1>1. DOMAIN q = {1} /\ q[1].name = n /\ q[1].value = v
    OBVIOUS
  <1>2. CASE n = name /\ v # Undecodable
    <2>1. decoded = {1}
      BY <1>1, <1>2, Zenon
    <2>2. (CHOOSE i \in decoded : \A j \in decoded : i <= j) = 1
      BY <2>1
    <2>. QED BY <1>1, <1>2, <2>1, <2>2, Zenon DEF FirstDecoded
  <1>3. CASE ~(n = name /\ v # Undecodable)
    <2>1. decoded = {}
      BY <1>1, <1>3, Zenon
    <2>. QED BY <1>3, <2>1, Zenon DEF FirstDecoded
  <1>. QED BY <1>2, <1>3, Zenon

\* A query of two parameters.
LEMMA FirstOfTwo ==
  ASSUME NEW m, NEW u, NEW n, NEW v, NEW name
  PROVE  FirstDecoded(<<[name |-> m, value |-> u], [name |-> n, value |-> v]>>, name) =
           IF m = name /\ u # Undecodable THEN u
           ELSE IF n = name /\ v # Undecodable THEN v ELSE None
  <1> DEFINE q == <<[name |-> m, value |-> u], [name |-> n, value |-> v]>>
             decoded == {i \in DOMAIN q : q[i].name = name /\ q[i].value # Undecodable}
             first == CHOOSE i \in decoded : \A j \in decoded : i <= j
  <1>1. /\ DOMAIN q = {1, 2} /\ q[1].name = m /\ q[1].value = u
        /\ q[2].name = n /\ q[2].value = v
    OBVIOUS
  <1>2. CASE m = name /\ u # Undecodable
    <2>1. decoded \in {{1}, {1, 2}}
      BY <1>1, <1>2
    <2>2. first = 1
      BY <2>1
    <2>. QED BY <1>1, <1>2, <2>1, <2>2, Zenon DEF FirstDecoded
  <1>3. CASE ~(m = name /\ u # Undecodable) /\ n = name /\ v # Undecodable
    <2>1. decoded = {2}
      BY <1>1, <1>3, Zenon
    <2>2. first = 2
      BY <2>1
    <2>. QED BY <1>1, <1>3, <2>1, <2>2, Zenon DEF FirstDecoded
  <1>4. CASE ~(m = name /\ u # Undecodable) /\ ~(n = name /\ v # Undecodable)
    <2>1. decoded = {}
      BY <1>1, <1>4, Zenon
    <2>. QED BY <1>4, <2>1, Zenon DEF FirstDecoded
  <1>. QED BY <1>2, <1>3, <1>4, Zenon

\* Every way to send a credential delivers it (auth.rs extract), whatever is
\* sent next to it.
LEMMA ExtractsMeant ==
  ASSUME NEW cred \in Secrets \cup Token \cup {None}, NEW wire \in Messages(cred)
  PROVE  Extract(wire) = cred
  <1>1. cred \notin {Empty, Undecodable}
    BY Zenon
  <1>2. CASE cred = None
    <2>1. CASE wire = [scheme |-> "none", text |-> Empty, query |-> <<>>]
      BY <1>2, <2>1 DEF Extract, ExtractFromQuery, FirstDecoded
    <2>2. CASE wire = [scheme |-> "Bearer", text |-> Empty, query |-> <<[name |-> "key", value |-> Empty]>>]
      BY <1>2, <2>2, FirstOfOne DEF Extract, ExtractFromQuery
    <2>. QED BY <1>2, <2>1, <2>2 DEF Messages
  <1>3. CASE cred # None
    <2>1. CASE wire.scheme \in {"Bearer", "Basic"} /\ wire.text = cred
      BY <1>1, <2>1, Zenon DEF Extract
    <2>2. ASSUME NEW decoy \in Secrets,
                 wire = [scheme |-> "Basic", text |-> Undecodable,
                         query |-> <<[name |-> "key", value |-> decoy],
                                     [name |-> "access_token", value |-> cred]>>]
          PROVE  Extract(wire) = cred
      <3>1. FirstDecoded(wire.query, "access_token") = cred
        BY <1>1, <2>2, FirstOfTwo
      <3>. QED BY <1>1, <1>3, <2>2, <3>1, Zenon DEF Extract, ExtractFromQuery
    <2>3. CASE wire = [scheme |-> "bearer", text |-> cred,
                       query |-> <<[name |-> "key", value |-> Undecodable],
                                   [name |-> "key", value |-> cred]>>]
      <3>1. FirstDecoded(wire.query, "access_token") = None /\ FirstDecoded(wire.query, "key") = cred
        BY <1>1, <2>3, FirstOfTwo
      <3>. QED BY <1>1, <2>3, <3>1, Zenon DEF Extract, ExtractFromQuery
    <2>. QED BY <1>3, <2>1, <2>2, <2>3 DEF Messages
  <1>. QED BY <1>2, <1>3, Zenon

\* A scoped identity is answered without a look at the policy.
LEMMA ScopedAnswers ==
  ASSUME NEW id, id.kind = "scoped", NEW p, NEW q, NEW steps \in Txns,
         TxnAnswer(steps, id, p) = "ok"
  PROVE  TxnAnswer(steps, id, q) = "ok"
  <1> DEFINE refused(r) == {i \in DOMAIN steps : StepAnswer(steps[i], id, r) # "ok"}
             first(r) == CHOOSE i \in refused(r) : \A j \in refused(r) : i <= j
  <1>0. DOMAIN steps \subseteq Nat /\ \A i \in DOMAIN steps : steps[i].action \in Capabilities
    <2> DEFINE TxnStep == [action : Capabilities, key : Seq(Letters), valid : BOOLEAN]
    <2>1. \A step \in TxnStep : step.action \in Capabilities
      BY Zenon
    <2>2. steps \in Seq(TxnStep)
      BY InputsAssumption, Zenon
    <2> HIDE DEF TxnStep
    <2>. QED BY <2>1, <2>2
  <1>1. \A i \in DOMAIN steps : StepAnswer(steps[i], id, p) = StepAnswer(steps[i], id, q)
    BY <1>0
    DEF StepAnswer, Require, RequireReadOn, RequireEnumerate, RequireWriteOn, RequireDeleteOn, Capabilities
  <1>2. refused(p) = refused(q)
    BY <1>1, Zenon
  <1>3. CASE refused(p) = {}
    BY <1>2, <1>3, Zenon DEF TxnAnswer
  <1>4. CASE refused(p) # {}
    <2>1. first(p) \in refused(p)
      <3>1. refused(p) \in SUBSET Nat
        BY <1>0, Zenon
      <3> HIDE DEF refused
      <3>. QED BY <1>4, <3>1, Least, Zenon
    <2>2. TxnAnswer(steps, id, p) = StepAnswer(steps[first(p)], id, p)
      BY <1>4, Zenon DEF TxnAnswer
    <2>. QED BY <2>1, <2>2, Zenon
  <1>. QED BY <1>3, <1>4, Zenon

\* A key, or no credential, is judged alike at all times.
LEMMA KeysAreTimeless ==
  ASSUME NEW r, NEW cred \in Secrets \cup {None}, NEW p, NEW t, NEW u, Admits(r, cred, p, t)
  PROVE  Admits(r, cred, p, u)
  BY Zenon DEF Admits, Resolve

\* A token is judged alike by two policies with the same signing key and
\* generation.
LEMMA TokensBySigningKey ==
  ASSUME NEW cred, cred \notin Secrets \cup {None}, NEW p, NEW q, NEW t, NEW r,
         r.kind = "keys" => r.arg \in Txns,
         p.signing = q.signing, p.generation = q.generation, Admits(r, cred, p, t)
  PROVE  Admits(r, cred, q, t)
  <1> DEFINE id == Scoped(cred.permissions, cred.prefix)
  <1>1. Verifies(cred, p, t) /\ Resolve(cred, p, t) = id
    BY Zenon DEF Admits, Resolve, Rejected
  <1>2. Resolve(cred, q, t) = id
    BY <1>1, Zenon DEF Resolve, Verifies
  <1>3. id.kind = "scoped"
    BY Zenon DEF Scoped
  <1>4. id # Rejected
    BY <1>3 DEF Rejected
  <1>5. r.kind = "keys"
    BY <1>1, <1>3, Zenon DEF Admits, RequireAdmin
  <1>6. TxnAnswer(r.arg, id, q) = "ok"
    <2> HIDE DEF id
    <2>. QED BY <1>1, <1>3, <1>5, ScopedAnswers DEF Admits
  <1>. QED BY <1>2, <1>4, <1>5, <1>6, Zenon DEF Admits

\* create_bucket makes a policy.
LEMMA PolicyOfTyped ==
  ASSUME NEW form \in Forms
  PROVE  PolicyOf(form) \in Policy
  <1>1. /\ form.secret \in Secrets \cup {None, Empty} /\ form.read \in Secrets \cup {None, Empty}
        /\ form.write \in Secrets \cup {None, Empty} /\ form.signing \in SigningKeys \cup {None, Empty}
        /\ form.ttl \in Ttls \cup {None}
    BY InputsAssumption, Zenon DEF FieldValues, Fields
  <1>2. \A s, r, w : AnonymousFromKeys(s, r, w) \subseteq Capabilities
    BY Zenon DEF AnonymousFromKeys, Capabilities
  <1>. QED BY <1>1, <1>2, Zenon DEF PolicyOf, NoneIfEmpty, Policy

\* A valid patch makes a policy of a policy, and leaves what it does not mention.
LEMMA ApplyPatchTyped ==
  ASSUME NEW p \in Policy, NEW patch \in Patches, ValidPatch(patch)
  PROVE  /\ ApplyPatch(p, patch) \in Policy
         /\ \A f \in Fields \ DOMAIN patch : ApplyPatch(p, patch)[f] = p[f]
         /\ p.secret # None => ApplyPatch(p, patch).secret # None
         /\ ApplyPatch(p, patch).generation =
              IF ApplyPatch(p, patch).signing # p.signing THEN p.generation + 1 ELSE p.generation
         /\ ApplyPatch(p, patch).anonymous =
              AnonymousFromKeys(ApplyPatch(p, patch).secret, ApplyPatch(p, patch).read,
                                ApplyPatch(p, patch).write)
  <1> DEFINE q == Merge(p, patch)
             r == ApplyPatch(p, patch)
  <1>1. DOMAIN p = Fields \cup {"generation", "anonymous"}
    BY Zenon DEF Policy, Fields
  <1>2. DOMAIN patch \subseteq Fields /\ \A f \in DOMAIN patch : patch[f] \in FieldValues(f) \ {Empty}
    BY InputsAssumption, Zenon DEF ValidPatch
  <1>3. DOMAIN q = DOMAIN p /\ \A f \in DOMAIN p : q[f] = IF f \in DOMAIN patch THEN patch[f] ELSE p[f]
    BY Zenon DEF Merge
  <1> HIDE DEF q
  <1>4. /\ q.secret \in Secrets \cup {None} /\ q.read \in Secrets \cup {None}
        /\ q.write \in Secrets \cup {None} /\ q.signing \in SigningKeys \cup {None}
        /\ q.ttl \in Nat \cup {None} /\ (p.secret # None => q.secret # None)
    <2>1. /\ {p["secret"], p["read"], p["write"]} \subseteq Secrets \cup {None}
          /\ p["signing"] \in SigningKeys \cup {None} /\ p["ttl"] \in Nat \cup {None}
      BY Zenon DEF Policy
    <2>2. /\ \A f \in {"secret", "read", "write"} : FieldValues(f) \ {Empty} \subseteq Secrets \cup {None}
          /\ FieldValues("signing") \ {Empty} \subseteq SigningKeys \cup {None}
          /\ FieldValues("ttl") \ {Empty} \subseteq Nat \cup {None}
      BY Zenon DEF FieldValues
    <2>3. \A f \in Fields : q[f] \in FieldValues(f) \ {Empty} \/ q[f] = p[f]
      BY <1>1, <1>2, <1>3, Zenon
    <2>4. q["secret"] \in Secrets \cup {None} /\ q["read"] \in Secrets \cup {None}
      BY <2>1, <2>2, <2>3, Zenon DEF Fields
    <2>5. q["write"] \in Secrets \cup {None} /\ q["signing"] \in SigningKeys \cup {None}
      BY <2>1, <2>2, <2>3, Zenon DEF Fields
    <2>6. q["ttl"] \in Nat \cup {None}
      BY <2>1, <2>2, <2>3, Zenon DEF Fields
    <2>7. p["secret"] # None => q["secret"] # None
      BY <1>1, <1>3, Zenon DEF ValidPatch, Fields
    <2>. QED BY <2>4, <2>5, <2>6, <2>7, Zenon
  <1>5. r = [q EXCEPT !.generation = NextGeneration(p, q.signing),
                      !.anonymous = RecomputeAnonymousAccess(q)]
    BY Zenon DEF ApplyPatch, q
  <1>6. /\ DOMAIN r = Fields \cup {"generation", "anonymous"}
        /\ \A f \in Fields : r[f] = q[f]
        /\ r.generation = NextGeneration(p, q.signing)
        /\ r.anonymous = AnonymousFromKeys(q.secret, q.read, q.write)
    BY <1>1, <1>3, <1>5, Zenon DEF Fields, RecomputeAnonymousAccess
  <1>7. r = [secret |-> q.secret, read |-> q.read, write |-> q.write, signing |-> q.signing,
             generation |-> NextGeneration(p, q.signing), ttl |-> q.ttl,
             anonymous |-> AnonymousFromKeys(q.secret, q.read, q.write)]
    BY <1>1, <1>3, <1>5, Zenon DEF Fields, RecomputeAnonymousAccess
  <1> HIDE DEF r
  <1>8. AnonymousFromKeys(q.secret, q.read, q.write) \subseteq Capabilities
    BY Zenon DEF AnonymousFromKeys, Capabilities
  <1>9. r \in Policy
    <2>1. NextGeneration(p, q.signing) \in Nat
      BY DEF Policy, NextGeneration
    <2>. QED BY <1>4, <1>7, <1>8, <2>1, Zenon DEF Policy
  <1>10. \A f \in Fields \ DOMAIN patch : r[f] = p[f]
    BY <1>1, <1>3, <1>6, Zenon
  <1>11. p.secret # None => r.secret # None
    BY <1>4, <1>7, Zenon
  <1>12. r.generation = IF r.signing # p.signing THEN p.generation + 1 ELSE p.generation
    BY <1>7, Zenon DEF NextGeneration
  <1>13. r.anonymous = AnonymousFromKeys(r.secret, r.read, r.write)
    BY <1>7, Zenon
  <1>. QED BY <1>9, <1>10, <1>11, <1>12, <1>13, Zenon DEF r

-----------------------------------------------------------------------------
(* Types *)

\* The handlers a step leaves alone.
Others(h) ==
  \A g \in Handlers \ {h} : pc'[g] = pc[g] /\ req'[g] = req[g] /\ draft'[g] = draft[g]

\* A handler that has returned.
Idle(h) == pc'[h] = "idle" /\ req'[h] = NoRequest /\ draft'[h] = NoBucket

\* What the variables of the handlers always are.
HandlersTyped ==
  /\ pc \in [Handlers -> {"idle", "auth", "read", "write", "act"}]
  /\ DOMAIN req = Handlers
  /\ draft \in [Handlers -> Policy \cup {NoBucket}]

\* A returning handler disturbs no other one.
LEMMA Returns ==
  ASSUME HandlersTyped, NEW h \in Handlers, Return(h)
  PROVE  HandlersTyped' /\ Others(h) /\ Idle(h)
  BY Zenon DEF HandlersTyped, Return, Others, Idle

\* A request that arrives, as BucketAuth sees it.
LEMMA Arrives ==
  ASSUME TypeOK, NEW h \in Handlers, Submit(h)
  PROVE  /\ pc[h] = "idle" /\ created
         /\ UNCHANGED <<policy, created, now, draft, tokens, revoked>>
         /\ HandlersTyped' /\ Others(h) /\ pc'[h] = "auth"
         /\ RequestOK(req'[h], tokens, now)
         /\ req'[h].cred = req'[h].meant /\ req'[h].now = now
         /\ req'[h].kind \in {"update", "delete"} => h \in Writers
  <1>1. PICK cred \in Secrets \cup tokens \cup {None} :
          \/ h \in Writers /\ \E patch \in Patches : Ask(h, "update", cred, patch)
          \/ h \in Writers /\ Ask(h, "delete", cred, None)
          \/ \E kind \in {"view", "head"} : Ask(h, kind, cred, None)
          \/ \E grant \in Grants : Ask(h, "mint", cred, grant)
          \/ \E steps \in Txns : Ask(h, "keys", cred, steps)
    BY Zenon DEF Submit
  <1>2. PICK kind, arg :
          /\ Ask(h, kind, cred, arg)
          /\ \/ kind = "update" /\ arg \in Patches
             \/ kind = "mint" /\ arg \in Grants
             \/ kind = "keys" /\ arg \in Txns
             \/ kind \in {"delete", "view", "head"} /\ arg = None
          /\ kind \in {"update", "delete"} => h \in Writers
    <2>1. CASE h \in Writers /\ \E patch \in Patches : Ask(h, "update", cred, patch)
      BY <2>1, Zenon
    <2>2. CASE h \in Writers /\ Ask(h, "delete", cred, None)
      BY <2>2, Zenon
    <2>3. CASE \E kind \in {"view", "head"} : Ask(h, kind, cred, None)
      BY <2>3, Zenon
    <2>4. CASE \E grant \in Grants : Ask(h, "mint", cred, grant)
      BY <2>4
    <2>5. CASE \E steps \in Txns : Ask(h, "keys", cred, steps)
      BY <2>5
    <2>. QED BY <1>1, <2>1, <2>2, <2>3, <2>4, <2>5, Zenon
  <1>3. PICK wire \in Messages(cred) :
          req' = [req EXCEPT ![h] = [kind |-> kind, cred |-> Extract(wire), meant |-> cred,
                                     arg |-> arg, now |-> now]]
    BY <1>2, Zenon DEF Ask
  <1>4. cred \in Secrets \cup Token \cup {None}
    BY <1>1, Zenon DEF TypeOK
  <1>5. Extract(wire) = cred
    BY <1>3, <1>4, ExtractsMeant, Zenon
  <1>6. req'[h] = [kind |-> kind, cred |-> cred, meant |-> cred, arg |-> arg, now |-> now]
    BY <1>3, <1>5, Zenon DEF TypeOK
  <1>7. now \in 0 .. now
    BY DEF TypeOK
  <1>8. RequestOK(req'[h], tokens, now)
    BY <1>2, <1>6, <1>7 DEF RequestOK
  <1>9. DOMAIN req' = Handlers /\ \A g \in Handlers \ {h} : req'[g] = req[g]
    BY <1>3, Zenon DEF TypeOK
  <1>10. /\ pc[h] = "idle" /\ created /\ UNCHANGED <<policy, created, now, draft, tokens, revoked>>
         /\ pc' = [pc EXCEPT ![h] = "auth"]
    BY Zenon DEF Submit
  <1>. QED BY <1>2, <1>6, <1>8, <1>9, <1>10 DEF TypeOK, HandlersTyped, Others

\* Requests stay well formed while tokens are added and time passes.
LEMMA RequestStays ==
  ASSUME NEW r, NEW known, NEW more, NEW t \in Nat, NEW u \in Nat,
         RequestOK(r, known, t), known \subseteq more, t <= u
  PROVE  RequestOK(r, more, u)
  BY DEF RequestOK

-----------------------------------------------------------------------------
(* What a step of a handler amounts to *)

stored == <<policy, created, now, tokens, revoked>>

Ended(h) == Idle(h) /\ UNCHANGED stored

Admitted(h) ==
  /\ pc[h] = "auth" /\ pc'[h] \in {"read", "act"} /\ UNCHANGED <<req, draft, stored>>
  /\ policy # NoBucket /\ Admits(req[h], req[h].cred, policy, req[h].now)

Drafted(h) ==
  /\ pc[h] = "read" /\ req[h].kind = "update" /\ pc'[h] = "write" /\ UNCHANGED <<req, stored>>
  /\ policy # NoBucket /\ ValidPatch(req[h].arg)
  /\ draft'[h] = ApplyPatch(policy, req[h].arg)

Written(h) ==
  /\ pc[h] = "write" /\ Idle(h) /\ policy' = draft[h] /\ UNCHANGED <<created, now, tokens>>
  /\ revoked' = IF policy # NoBucket /\ draft[h].signing # policy.signing
                THEN revoked \cup tokens ELSE revoked

Minted(h) ==
  /\ pc[h] = "read" /\ req[h].kind = "mint" /\ Idle(h) /\ UNCHANGED <<policy, created, now, revoked>>
  /\ policy # NoBucket /\ policy.signing # None
  /\ tokens' = tokens \cup {Mint(policy, req[h].arg)}

Deleted(h) ==
  /\ pc[h] = "act" /\ req[h].kind = "delete" /\ Idle(h) /\ policy' = NoBucket
  /\ UNCHANGED <<created, now, tokens, revoked>>

\* The steps of a handler, by what they leave behind.
LEMMA StepKinds ==
  ASSUME TypeOK, NEW h \in Handlers, Step(h)
  PROVE  /\ HandlersTyped' /\ Others(h)
         /\ \/ Submit(h) \/ Ended(h) \/ Admitted(h) \/ Drafted(h) \/ Written(h) \/ Minted(h) \/ Deleted(h)
  <1>0. HandlersTyped
    BY Zenon DEF HandlersTyped, TypeOK
  <1>1. CASE Submit(h)
    BY <1>1, Arrives, Zenon
  <1>2. CASE Return(h) /\ UNCHANGED stored
    BY <1>0, <1>2, Returns, Zenon DEF Ended
  <1>3. CASE Auth(h)
    <2>1. CASE policy # NoBucket /\ Admits(req[h], req[h].cred, policy, req[h].now)
      <3>1. /\ pc[h] = "auth" /\ UNCHANGED <<req, draft, stored>>
            /\ pc' = [pc EXCEPT ![h] = IF req[h].kind \in {"update", "mint", "view"} THEN "read" ELSE "act"]
        BY <1>3, <2>1, Zenon DEF Auth, stored
      <3>2. HandlersTyped' /\ Others(h) /\ pc'[h] \in {"read", "act"}
        BY <1>0, <3>1, Zenon DEF HandlersTyped, Others
      <3>. QED BY <2>1, <3>1, <3>2, Zenon DEF Admitted
    <2>2. CASE ~(policy # NoBucket /\ Admits(req[h], req[h].cred, policy, req[h].now))
      BY <1>2, <1>3, <2>2, Zenon DEF Auth, stored
    <2>. QED BY <2>1, <2>2, Zenon
  <1>4. CASE UpdateRead(h)
    <2>1. CASE policy # NoBucket /\ ValidPatch(req[h].arg)
      <3>1. /\ pc[h] = "read" /\ req[h].kind = "update" /\ UNCHANGED <<req, stored>>
            /\ pc' = [pc EXCEPT ![h] = "write"]
            /\ draft' = [draft EXCEPT ![h] = ApplyPatch(policy, req[h].arg)]
        BY <1>4, <2>1, Zenon DEF UpdateRead, stored
      <3>2. req[h].arg \in Patches
        BY <3>1, Zenon DEF TypeOK, RequestOK
      <3>3. ApplyPatch(policy, req[h].arg) \in Policy
        BY <2>1, <3>2, ApplyPatchTyped, Zenon DEF TypeOK
      <3>4. HandlersTyped' /\ Others(h) /\ pc'[h] = "write" /\ draft'[h] = ApplyPatch(policy, req[h].arg)
        BY <1>0, <3>1, <3>3, Zenon DEF HandlersTyped, Others
      <3>. QED BY <2>1, <3>1, <3>4, Zenon DEF Drafted
    <2>2. CASE ~(policy # NoBucket /\ ValidPatch(req[h].arg))
      BY <1>2, <1>4, <2>2, Zenon DEF UpdateRead, stored
    <2>. QED BY <2>1, <2>2, Zenon
  <1>5. CASE UpdateWrite(h)
    BY <1>0, <1>5, Returns, Zenon DEF UpdateWrite, Written
  <1>6. CASE CreateToken(h)
    <2>1. CASE policy # NoBucket /\ policy.signing # None /\ ValidGrant(req[h].arg)
      BY <1>0, <1>6, <2>1, Returns, Zenon DEF CreateToken, Minted
    <2>2. CASE ~(policy # NoBucket /\ policy.signing # None /\ ValidGrant(req[h].arg))
      BY <1>2, <1>6, <2>2, Zenon DEF CreateToken, stored
    <2>. QED BY <2>1, <2>2, Zenon
  <1>7. CASE DeleteBucket(h)
    BY <1>0, <1>7, Returns, Zenon DEF DeleteBucket, Deleted
  <1>8. CASE GetBucketPolicy(h) \/ HeadBucket(h) \/ ActOnKeys(h) \/ Abandon(h)
    BY <1>2, <1>8, Zenon DEF GetBucketPolicy, HeadBucket, ActOnKeys, Abandon, stored
  <1>. QED BY <1>1, <1>3, <1>4, <1>5, <1>6, <1>7, <1>8, Zenon DEF Step

\* Every step keeps the types.
THEOREM TypeStep == TypeOK /\ [Next]_vars => TypeOK'
  <1> SUFFICES ASSUME TypeOK, [Next]_vars PROVE TypeOK'
    BY Zenon
  <1>0. HandlersTyped
    BY Zenon DEF HandlersTyped, TypeOK
  <1>1. CASE UNCHANGED vars
    BY <1>1, Zenon DEF TypeOK, vars, handlerVars
  <1>2. ASSUME Next PROVE entitled' \subseteq Handlers
    BY <1>2, Zenon DEF Next, Observe
  <1>3. CASE Tick /\ Observe
    <2>1. now \in Nat /\ now' \in Nat /\ now <= now' /\ now' \in 0 .. MaxTime
      BY <1>3 DEF Tick, TypeOK
    <2>2. \A h \in Handlers : RequestOK(req[h], tokens, now) => RequestOK(req[h], tokens, now')
      BY <2>1, RequestStays, Zenon
    <2>3. UNCHANGED <<policy, created, handlerVars, tokens, revoked>> /\ entitled' \subseteq Handlers
      BY <1>3, Zenon DEF Tick, Observe
    <2>. QED BY <2>1, <2>2, <2>3, Zenon DEF TypeOK, handlerVars
  <1>4. CASE CreateBucket /\ Observe
    <2>1. PICK form \in Forms : policy' = PolicyOf(form)
      BY <1>4, Zenon DEF CreateBucket
    <2>2. policy' \in Policy
      BY <2>1, PolicyOfTyped, Zenon
    <2>3. UNCHANGED <<now, handlerVars, tokens, revoked>> /\ created' \in BOOLEAN /\ entitled' \subseteq Handlers
      BY <1>4, Zenon DEF CreateBucket, Observe
    <2>. QED BY <2>2, <2>3, Zenon DEF TypeOK, handlerVars
  <1>5. ASSUME NEW h \in Handlers, Step(h), Observe PROVE TypeOK'
    <2>1. HandlersTyped' /\ Others(h)
      BY <1>5, StepKinds, Zenon
    <2>2. /\ policy' \in Policy \cup {NoBucket} /\ created' \in BOOLEAN /\ now' = now
          /\ tokens \subseteq tokens' /\ tokens' \subseteq Token /\ revoked' \subseteq tokens'
      <3>1. CASE Submit(h) \/ Ended(h) \/ Admitted(h) \/ Drafted(h) \/ Deleted(h)
        BY <3>1, Zenon DEF Submit, Ended, Admitted, Drafted, Deleted, stored, TypeOK
      <3>2. CASE Written(h)
        BY <3>2, Zenon DEF Written, TypeOK
      <3>3. CASE Minted(h)
        <4>1. req[h].arg \in Grants
          BY <3>3, Zenon DEF Minted, TypeOK, RequestOK
        <4>2. Mint(policy, req[h].arg) \in Token
          <5>1. policy.signing \in SigningKeys /\ policy.generation \in Nat /\ now \in Nat
            BY <3>3 DEF Minted, TypeOK, Policy
          <5>2. /\ req[h].arg.ttl \in Nat /\ req[h].arg.prefix \in Seq(Letters)
                /\ req[h].arg.permissions \subseteq Capabilities
            BY <4>1, InputsAssumption, Zenon
          <5>. QED BY <5>1, <5>2 DEF Mint, Token
        <4>. QED BY <3>3, <4>2, Zenon DEF Minted, TypeOK
      <3>. QED BY <1>5, <3>1, <3>2, <3>3, StepKinds, Zenon
    <2>3. entitled' \subseteq Handlers
      BY <1>5, Zenon DEF Observe
    <2>4. ASSUME NEW g \in Handlers
          PROVE  IF pc'[g] = "idle" THEN req'[g] = NoRequest ELSE RequestOK(req'[g], tokens', now')
      <3>1. now \in Nat
        BY DEF TypeOK
      <3>2. CASE g # h
        <4>1. pc'[g] = pc[g] /\ req'[g] = req[g]
          BY <2>1, <3>2, Zenon DEF Others
        <4>. QED BY <2>2, <3>1, <4>1, RequestStays DEF TypeOK
      <3>3. CASE g = h /\ Submit(h)
        BY <2>2, <3>1, <3>3, Arrives, RequestStays, Zenon
      <3>4. CASE g = h /\ Idle(h)
        BY <3>4, Zenon DEF Idle
      <3>5. CASE g = h /\ (Admitted(h) \/ Drafted(h))
        <4>1. pc[g] # "idle" /\ pc'[g] # "idle" /\ req'[g] = req[g]
          BY <3>5, Zenon DEF Admitted, Drafted
        <4>. QED BY <2>2, <3>1, <4>1, RequestStays DEF TypeOK
      <3>. QED BY <1>5, <3>2, <3>3, <3>4, <3>5, StepKinds, Zenon DEF Ended, Written, Minted, Deleted
    <2>. QED BY <2>1, <2>2, <2>3, <2>4, Zenon DEF TypeOK, HandlersTyped
  <1>. QED BY <1>1, <1>3, <1>4, <1>5, Zenon DEF Next

-----------------------------------------------------------------------------
(* What holds however handlers overlap *)

Consistent(p) == p # NoBucket => p.anonymous = AnonymousFromKeys(p.secret, p.read, p.write)

HandlerInv(h) ==
  /\ pc[h] # "idle" => /\ created
                       /\ req[h].cred = req[h].meant
                       /\ req[h].kind \in {"update", "delete"} => h \in Writers
  /\ Consistent(draft[h])
  /\ draft[h] # NoBucket => draft[h].secret # None
  /\ pc[h] = "write" => draft[h] # NoBucket /\ req[h].kind = "update"
  /\ pc[h] = "read" /\ req[h].kind = "update" /\ policy # NoBucket => policy.secret # None

PolicyInv ==
  /\ TypeOK
  /\ ~created => policy = NoBucket /\ tokens = {}
  /\ Consistent(policy)
  /\ \A h \in Handlers : HandlerInv(h)

\* An update is admitted on the secret key, so there is one.
LEMMA AdminHasSecret ==
  ASSUME NEW r, r.kind = "update", NEW p \in Policy, NEW t, Admits(r, r.cred, p, t)
  PROVE  p.secret # None
  BY Zenon DEF Admits, RequireAdmin, Resolve, Anonymous, Scoped, Rejected

\* A store without the bucket satisfies the invariant.
LEMMA PolicyInit == Init => PolicyInv
  <1> SUFFICES ASSUME Init PROVE PolicyInv
    BY Zenon
  <1>1. /\ policy = NoBucket /\ tokens = {} /\ pc \in [Handlers -> {"idle"}]
        /\ draft \in [Handlers -> {NoBucket}] /\ \A h \in Handlers : req[h] = NoRequest
    BY Zenon DEF Init
  <1>2. TypeOK
    <2>1. now = 0 /\ DOMAIN req = Handlers /\ revoked = {} /\ created \in BOOLEAN /\ entitled = {}
      BY Zenon DEF Init
    <2>2. /\ pc \in [Handlers -> {"idle", "auth", "read", "write", "act"}]
          /\ draft \in [Handlers -> Policy \cup {NoBucket}]
      BY <1>1, Zenon
    <2>. QED BY <1>1, <2>1, <2>2 DEF TypeOK
  <1>3. \A h \in Handlers : HandlerInv(h)
    BY <1>1, Zenon DEF HandlerInv, Consistent
  <1>. QED BY <1>1, <1>2, <1>3, Zenon DEF PolicyInv, Consistent

\* Every handler's step keeps the invariant: by what it does to the policy.
LEMMA PolicyStep == PolicyInv /\ [Next]_vars => PolicyInv'
  <1> SUFFICES ASSUME PolicyInv, [Next]_vars PROVE PolicyInv'
    BY Zenon
  <1>0. TypeOK /\ TypeOK'
    BY TypeStep, Zenon DEF PolicyInv
  <1>1. CASE UNCHANGED vars
    BY <1>0, <1>1, Zenon DEF PolicyInv, Consistent, HandlerInv, vars, handlerVars
  <1>2. CASE Tick
    BY <1>0, <1>2, Zenon DEF Tick, PolicyInv, Consistent, HandlerInv, handlerVars
  <1>3. CASE CreateBucket
    <2>1. PICK form \in Forms : policy' = PolicyOf(form)
      BY <1>3, Zenon DEF CreateBucket
    <2>2. Consistent(policy')
      BY <2>1, Zenon DEF PolicyOf, Consistent
    <2>3. ~created /\ created' /\ UNCHANGED handlerVars
      BY <1>3, Zenon DEF CreateBucket
    <2>4. \A h \in Handlers : HandlerInv(h)'
      BY <2>3, Zenon DEF PolicyInv, HandlerInv, Consistent, handlerVars
    <2>. QED BY <1>0, <2>2, <2>3, <2>4, Zenon DEF PolicyInv, Consistent
  <1>4. ASSUME NEW h \in Handlers, Step(h) PROVE PolicyInv'
    <2>0. HandlerInv(h)
      BY Zenon DEF PolicyInv
    <2>1. /\ Others(h)
          /\ \/ Submit(h) \/ Ended(h) \/ Admitted(h) \/ Drafted(h) \/ Written(h) \/ Minted(h) \/ Deleted(h)
      BY <1>0, <1>4, StepKinds, Zenon
    <2>2. pc[h] # "idle" => created
      BY <2>0, Zenon DEF HandlerInv
    <2>3. created' = created /\ (policy' = policy \/ policy' = NoBucket \/ Written(h))
      BY <2>1, Zenon DEF Submit, Ended, Admitted, Drafted, Written, Minted, Deleted, stored
    <2>4. Consistent(policy') /\ (Written(h) => policy' # NoBucket /\ policy'.secret # None)
      <3>1. CASE Written(h)
        BY <2>0, <3>1, Zenon DEF Written, HandlerInv
      <3>. QED BY <2>3, <3>1, Zenon DEF PolicyInv, Consistent
    <2>5. ~created' => policy' = NoBucket /\ tokens' = {}
      BY <2>1, <2>2
      DEF PolicyInv, Submit, Ended, Admitted, Drafted, Written, Minted, Deleted, stored
    <2>6. ASSUME NEW g \in Handlers \ {h} PROVE HandlerInv(g)'
      <3>1. HandlerInv(g) /\ pc'[g] = pc[g] /\ req'[g] = req[g] /\ draft'[g] = draft[g]
        BY <2>1, Zenon DEF PolicyInv, Others
      <3>2. policy' # NoBucket => policy' = policy \/ policy'.secret # None
        BY <2>3, <2>4, Zenon
      <3>. QED BY <2>3, <3>1, <3>2, Zenon DEF HandlerInv, Consistent
    <2>7. HandlerInv(h)'
      <3>1. CASE Submit(h)
        <4>1. draft'[h] = draft[h] /\ pc'[h] = "auth" /\ created /\ req'[h].cred = req'[h].meant
          BY <1>0, <3>1, Arrives, Zenon
        <4>2. req'[h].kind \in {"update", "delete"} => h \in Writers
          BY <1>0, <3>1, Arrives, Zenon
        <4>. QED BY <2>0, <2>3, <4>1, <4>2, Zenon DEF HandlerInv, Consistent
      <3>2. CASE Idle(h)
        BY <3>2, Zenon DEF Idle, HandlerInv, Consistent
      <3>3. CASE Admitted(h)
        <4>1. req[h].kind = "update" => policy.secret # None
          BY <1>0, <3>3, AdminHasSecret, Zenon DEF Admitted, TypeOK
        <4>. QED BY <2>0, <2>3, <3>3, <4>1 DEF Admitted, HandlerInv, Consistent, stored
      <3>4. CASE Drafted(h)
        <4>1. req[h].arg \in Patches /\ policy \in Policy
          BY <1>0, <3>4, Zenon DEF Drafted, TypeOK, RequestOK
        <4>2. policy.secret # None
          BY <2>0, <3>4, Zenon DEF Drafted, HandlerInv
        <4>3. /\ draft'[h] \in Policy /\ draft'[h].secret # None
              /\ draft'[h].anonymous = AnonymousFromKeys(draft'[h].secret, draft'[h].read, draft'[h].write)
          <5>1. ValidPatch(req[h].arg) /\ draft'[h] = ApplyPatch(policy, req[h].arg)
            BY <3>4, Zenon DEF Drafted
          <5> DEFINE q == ApplyPatch(policy, req[h].arg)
          <5>2. /\ q \in Policy /\ (policy.secret # None => q.secret # None)
                /\ q.anonymous = AnonymousFromKeys(q.secret, q.read, q.write)
            BY <4>1, <5>1, ApplyPatchTyped
          <5> HIDE DEF q
          <5>. QED BY <4>2, <5>1, <5>2, Zenon DEF q
        <4>4. pc[h] = "read" /\ pc'[h] = "write" /\ req' = req /\ req[h].kind = "update"
          BY <3>4, Zenon DEF Drafted
        <4>. QED BY <2>0, <2>3, <4>3, <4>4, Zenon DEF HandlerInv, Consistent
      <3>. QED BY <2>1, <3>1, <3>2, <3>3, <3>4, Zenon DEF Ended, Written, Minted, Deleted
    <2>. QED BY <1>0, <2>4, <2>5, <2>6, <2>7, Zenon DEF PolicyInv, Consistent
  <1>. QED BY <1>1, <1>2, <1>3, <1>4, Zenon DEF Next

\* Types of the stored policies, requests and tokens, in every reachable state.
THEOREM PolicyInvariant == Spec => []PolicyInv
  BY PolicyInit, PolicyStep, PTL DEF Spec

\* Every reachable state is well typed: no empty string is ever stored, and
\* every request is judged on a credential that was sent with it.
THEOREM TypesHold == Spec => []TypeOK
  <1>1. PolicyInv => TypeOK
    BY Zenon DEF PolicyInv
  <1>. QED BY <1>1, PolicyInvariant, PTL

\* However updates overlap, the checks answer a request without credential as
\* the README's table says, and the policy view reports what they allow.
THEOREM AnonymousAsDocumented == Spec => []AnonymousMatrix
  <1>1. ASSUME PolicyInv, policy # NoBucket PROVE AnonymousMatrix
    <2>1. policy \in Policy /\ policy.anonymous = AnonymousFromKeys(policy.secret, policy.read, policy.write)
      BY <1>1, Zenon DEF PolicyInv, Consistent, TypeOK
    <2>2. Require("read", Anonymous, policy, <<>>) = IF policy.read = None THEN "ok" ELSE "unauthorized"
      BY Zenon DEF Require, RequireReadOn, Anonymous
    <2>3. Require("enumerate", Anonymous, policy, <<>>) = IF policy.read = None THEN "ok" ELSE "unauthorized"
      BY Zenon DEF Require, RequireEnumerate, Anonymous
    <2>4. Require("write", Anonymous, policy, <<>>) = IF policy.write = None THEN "ok" ELSE "unauthorized"
      BY <2>1, Zenon DEF Require, RequireWriteOn, Anonymous, AnonymousFromKeys
    <2>5. Require("delete", Anonymous, policy, <<>>) =
            IF {policy.secret, policy.read, policy.write} = {None} THEN "ok" ELSE "unauthorized"
      BY <2>1, Zenon DEF Require, RequireDeleteOn, Anonymous, AnonymousFromKeys
    <2>6. \A action \in Capabilities :
            Require(action, Anonymous, policy, <<>>) = DocumentedAnonymous(policy, action)
      BY Zenon, <2>2, <2>3, <2>4, <2>5 DEF DocumentedAnonymous, Capabilities
    <2>7. policy.anonymous = {action \in Capabilities : Require(action, Anonymous, policy, <<>>) = "ok"}
      <3>1. \A action : action \in policy.anonymous <=>
              action \in Capabilities /\ Require(action, Anonymous, policy, <<>>) = "ok"
        BY <2>1, <2>2, <2>3, <2>4, <2>5, Zenon DEF AnonymousFromKeys, Capabilities
      <3>. QED BY <3>1, Zenon
    <2>. QED BY <2>6, <2>7, Zenon DEF AnonymousMatrix, PublicPolicyView
  <1>2. PolicyInv => AnonymousMatrix
    BY <1>1, Zenon DEF AnonymousMatrix
  <1>. QED BY <1>2, PolicyInvariant, PTL

\* A bucket with a secret key keeps one until it is deleted, however updates
\* overlap: what update_policy writes always has one.
THEOREM SecretIsKept == Spec => SecretStays
  <1>1. PolicyInv /\ [Next]_vars => [KeepsSecret]_vars
    <2> SUFFICES ASSUME PolicyInv, Next PROVE KeepsSecret
      BY Zenon DEF KeepsSecret
    <2>1. CASE Tick
      BY <2>1, Zenon DEF Tick, KeepsSecret
    <2>2. CASE CreateBucket
      BY <2>2, Zenon DEF CreateBucket, KeepsSecret, PolicyInv
    <2>3. ASSUME NEW h \in Handlers, Step(h) PROVE KeepsSecret
      <3>1. policy' = policy \/ policy' = NoBucket \/ Written(h)
        BY <2>3, StepKinds, Zenon
        DEF PolicyInv, Submit, Ended, Admitted, Drafted, Written, Minted, Deleted, stored
      <3>2. Written(h) => policy'.secret # None
        BY Zenon DEF Written, PolicyInv, HandlerInv
      <3>. QED BY <3>1, <3>2, Zenon DEF KeepsSecret
    <2>. QED BY <2>1, <2>2, <2>3, Zenon DEF Next
  <1>. QED BY <1>1, PolicyInvariant, PTL DEF Spec, SecretStays

-----------------------------------------------------------------------------
(* What holds while one handler at a time changes the policy *)

\* At most one handler updates or deletes the bucket.  Two of them can write
\* over each other's policy, which brings a signing key back that was replaced.
OneWriter == \A g, h \in Writers : g = h

\* A handler that is admitted is entitled; so is one about to be.
Deserved(h) ==
  /\ pc[h] = "auth" /\ policy # NoBucket /\ Admits(req[h], req[h].cred, policy, req[h].now) => h \in entitled
  /\ pc[h] \in {"read", "write", "act"} => h \in entitled

\* The draft of an update was made from the policy that is still stored.
Fresh(h) ==
  pc[h] = "write" => /\ policy # NoBucket /\ ValidPatch(req[h].arg)
                     /\ draft[h] = ApplyPatch(policy, req[h].arg)

\* Generations only grow, past those of the tokens revoked.
Generations ==
  policy # NoBucket => /\ \A token \in tokens : token.generation <= policy.generation
                       /\ \A token \in revoked : token.generation < policy.generation

WriterInv == PolicyInv /\ Generations /\ \A h \in Handlers : Deserved(h) /\ Fresh(h)

\* Observe marks a request that the policy and clock of now permit.
LEMMA Marked ==
  ASSUME Observe, NEW h \in Handlers, pc'[h] # "idle",
         h \in entitled \/ (policy' # NoBucket /\ Admits(req'[h], req'[h].meant, policy', now'))
  PROVE  h \in entitled'
  BY Zenon DEF Observe

\* Nobody has been admitted, minted for or revoked.
LEMMA WriterInit == Init => WriterInv
  <1> SUFFICES ASSUME Init PROVE WriterInv
    OBVIOUS
  <1>1. policy = NoBucket /\ \A h \in Handlers : pc[h] = "idle"
    BY Zenon DEF Init
  <1>. QED BY <1>1, PolicyInit, Zenon DEF WriterInv, Generations, Deserved, Fresh

\* A policy written by an update that was drafted from the stored one.
LEMMA WriteAdvances ==
  ASSUME PolicyInv, NEW h \in Handlers, Fresh(h), Written(h)
  PROVE  /\ policy \in Policy /\ policy' \in Policy
         /\ policy'.generation = IF policy'.signing # policy.signing THEN policy.generation + 1
                                 ELSE policy.generation
         /\ revoked' = IF policy'.signing # policy.signing THEN revoked \cup tokens ELSE revoked
         /\ \A f \in Fields \ DOMAIN req[h].arg : policy'[f] = policy[f]
  <1>1. policy \in Policy /\ req[h].arg \in Patches
    BY Zenon DEF PolicyInv, HandlerInv, TypeOK, RequestOK, Written, Fresh
  <1> DEFINE q == ApplyPatch(policy, req[h].arg)
  <1>2. ValidPatch(req[h].arg) /\ policy' = q /\ policy # NoBucket
    BY Zenon DEF Fresh, Written
  <1>3. /\ q \in Policy /\ \A f \in Fields \ DOMAIN req[h].arg : q[f] = policy[f]
        /\ q.generation = IF q.signing # policy.signing THEN policy.generation + 1 ELSE policy.generation
    BY <1>1, <1>2, ApplyPatchTyped, Zenon
  <1>4. revoked' = IF draft[h].signing # policy.signing THEN revoked \cup tokens ELSE revoked
    BY <1>2, Zenon DEF Written
  <1>5. draft[h] = q
    BY Zenon DEF Fresh, Written
  <1> HIDE DEF q
  <1>. QED BY <1>1, <1>2, <1>3, <1>4, <1>5, Zenon

\* Every step keeps the stronger invariant, if one handler writes.
LEMMA WriterStep ==
  ASSUME OneWriter, WriterInv, [Next]_vars
  PROVE  WriterInv'
  <1>0. PolicyInv /\ PolicyInv' /\ TypeOK /\ TypeOK'
    BY PolicyStep, Zenon DEF WriterInv, PolicyInv
  <1>1. CASE UNCHANGED vars
    BY <1>0, <1>1, Zenon DEF WriterInv, Generations, Deserved, Fresh, vars, handlerVars
  <1>2. CASE Tick /\ Observe
    <2>1. UNCHANGED <<policy, handlerVars, tokens, revoked>>
      BY <1>2, Zenon DEF Tick
    <2>2. \A h \in Handlers : pc[h] # "idle" /\ h \in entitled => h \in entitled'
      BY <1>2, <2>1, Marked, Zenon DEF handlerVars
    <2>. QED BY <1>0, <2>1, <2>2, Zenon DEF WriterInv, Generations, Deserved, Fresh, handlerVars
  <1>3. CASE CreateBucket
    <2>1. ~created /\ UNCHANGED <<handlerVars, tokens, revoked>>
      BY <1>3, Zenon DEF CreateBucket
    <2>2. tokens = {} /\ revoked = {} /\ \A h \in Handlers : pc[h] = "idle"
      BY <1>0, <2>1 DEF PolicyInv, HandlerInv, TypeOK
    <2>. QED BY <1>0, <2>1, <2>2, Zenon DEF WriterInv, Generations, Deserved, Fresh, handlerVars
  <1>4. ASSUME NEW h \in Handlers, Step(h), Observe PROVE WriterInv'
    <2>0. HandlerInv(h) /\ Fresh(h) /\ Deserved(h) /\ Generations
      BY Zenon DEF WriterInv, PolicyInv
    <2>1. /\ Others(h)
          /\ \/ Submit(h) \/ Ended(h) \/ Admitted(h) \/ Drafted(h) \/ Written(h) \/ Minted(h) \/ Deleted(h)
      BY <1>0, <1>4, StepKinds, Zenon
    <2>2. now' = now /\ (policy' = policy \/ Written(h) \/ Deleted(h))
      BY <2>1, Zenon DEF Submit, Ended, Admitted, Drafted, Written, Minted, Deleted, stored
    <2>3. ASSUME NEW g \in Handlers, pc'[g] # "idle", g \in entitled PROVE g \in entitled'
      BY <1>4, <2>3, Marked, Zenon
    <2>4. Generations'
      <3>1. CASE Written(h)
        <4>1. /\ policy \in Policy /\ policy' \in Policy
              /\ policy'.generation = IF policy'.signing # policy.signing THEN policy.generation + 1
                                      ELSE policy.generation
              /\ revoked' = IF policy'.signing # policy.signing THEN revoked \cup tokens ELSE revoked
          BY <1>0, <2>0, <3>1, WriteAdvances, Zenon
        <4>2. tokens' = tokens /\ policy # NoBucket /\ policy.generation \in Nat
          BY <3>1, <4>1, Zenon DEF Written, Policy
        <4>3. \A token \in tokens : token.generation \in Nat /\ token.generation <= policy.generation
          BY <1>0, <2>0, <4>2, Zenon DEF TypeOK, Token, Generations
        <4>4. \A token \in revoked : token \in tokens /\ token.generation < policy.generation
          BY <1>0, <2>0, <4>2, Zenon DEF TypeOK, Generations
        <4>5. CASE policy'.signing # policy.signing
          BY <4>1, <4>2, <4>3, <4>4, <4>5 DEF Generations
        <4>6. CASE policy'.signing = policy.signing
          BY <4>1, <4>2, <4>3, <4>4, <4>6, Zenon DEF Generations
        <4>. QED BY <4>5, <4>6, Zenon
      <3>2. CASE Minted(h)
        <4>1. Mint(policy, req[h].arg).generation = policy.generation /\ policy.generation \in Nat
          BY <1>0, <3>2, Zenon DEF Mint, Minted, TypeOK, Policy
        <4>. QED BY <2>0, <3>2, <4>1 DEF Minted, Generations
      <3>3. CASE Deleted(h)
        BY <3>3, Zenon DEF Deleted, Generations
      <3>4. CASE Submit(h) \/ Ended(h) \/ Admitted(h) \/ Drafted(h)
        BY <2>0, <3>4, Zenon DEF Submit, Ended, Admitted, Drafted, Generations, stored
      <3>. QED BY <2>1, <3>1, <3>2, <3>3, <3>4, Zenon
    <2>5. ASSUME NEW g \in Handlers PROVE Fresh(g)'
      <3>1. Fresh(g) /\ HandlerInv(g)
        BY Zenon DEF WriterInv, PolicyInv
      <3>2. CASE g = h
        BY <1>0, <2>1, <3>1, <3>2, Arrives, Zenon
        DEF Fresh, Ended, Admitted, Drafted, Written, Minted, Deleted, Idle, stored
      <3>3. CASE g # h
        <4>1. pc'[g] = pc[g] /\ req'[g] = req[g] /\ draft'[g] = draft[g]
          BY <2>1, <3>3, Zenon DEF Others
        <4>2. pc[g] = "write" => g \in Writers
          BY <3>1, Zenon DEF HandlerInv
        <4>3. Written(h) \/ Deleted(h) => h \in Writers
          BY <2>0, Zenon DEF HandlerInv, Written, Deleted
        <4>4. pc[g] = "write" => policy' = policy
          BY <2>2, <3>3, <4>2, <4>3, OneWriter, Zenon DEF OneWriter
        <4>. QED BY <3>1, <4>1, <4>4, Zenon DEF Fresh
      <3>. QED BY <3>2, <3>3, Zenon
    <2>6. ASSUME NEW g \in Handlers, pc'[g] \in {"read", "write", "act"} PROVE g \in entitled'
      <3>1. CASE g # h
        BY <2>1, <2>3, <2>6, <3>1, Zenon DEF Others, WriterInv, Deserved
      <3>2. CASE g = h
        BY <1>0, <2>0, <2>1, <2>3, <2>6, <3>2, Arrives, Zenon
        DEF Ended, Admitted, Drafted, Written, Minted, Deleted, Idle, Deserved
      <3>. QED BY <3>1, <3>2, Zenon
    <2>7. ASSUME NEW g \in Handlers, pc'[g] = "auth", policy' # NoBucket,
                 Admits(req'[g], req'[g].cred, policy', req'[g].now)
          PROVE  g \in entitled'
      <3>0. req'[g].cred = req'[g].meant
        BY <1>0, <2>7, Zenon DEF PolicyInv, HandlerInv
      <3>1. CASE g = h
        <4>1. Submit(h)
          BY <2>1, <2>7, <3>1, Zenon DEF Ended, Admitted, Drafted, Written, Minted, Deleted, Idle
        <4>2. req'[g].now = now'
          BY <1>0, <2>2, <3>1, <4>1, Arrives, Zenon
        <4>. QED BY <1>4, <2>7, <3>0, <4>2, Marked, Zenon
      <3>2. CASE g # h
        <4>1. pc[g] = "auth" /\ req'[g] = req[g] /\ Deserved(g)
          BY <2>1, <2>7, <3>2, Zenon DEF Others, WriterInv
        <4>2. CASE req'[g].cred \in Secrets \cup {None}
          <5>1. Admits(req'[g], req'[g].meant, policy', now')
            BY <2>7, <3>0, <4>2, KeysAreTimeless, Zenon
          <5>. QED BY <1>4, <2>7, <5>1, Marked, Zenon
        <4>3. CASE req'[g].cred \notin Secrets \cup {None}
          <5>1. policy # NoBucket /\ Admits(req[g], req[g].cred, policy, req[g].now)
            <6>1. CASE Written(h)
              <7>1. req[g].cred \in tokens /\ (req[g].kind = "keys" => req[g].arg \in Txns)
                BY <1>0, <4>1, <4>3, Zenon DEF TypeOK, RequestOK
              <7>2. Verifies(req[g].cred, policy', req[g].now)
                BY <2>7, <4>1, <4>3, Zenon DEF Admits, Resolve
              <7>3. policy # NoBucket /\ req[g].cred.generation <= policy.generation
                BY <2>0, <6>1, <7>1, Zenon DEF Fresh, Written, Generations
              <7>4. policy'.signing = policy.signing /\ policy'.generation = policy.generation
                <8>1. policy'.generation = IF policy'.signing # policy.signing THEN policy.generation + 1
                                           ELSE policy.generation
                  BY <1>0, <2>0, <6>1, WriteAdvances, Zenon
                <8>2. policy.generation \in Nat /\ policy'.generation = req[g].cred.generation
                  BY <1>0, <7>2, <7>3, Zenon DEF TypeOK, Policy, Verifies
                <8>. QED BY <7>3, <8>1, <8>2
              <7>5. req[g].cred \notin Secrets \cup {None} /\ Admits(req[g], req[g].cred, policy', req[g].now)
                BY <2>7, <4>1, <4>3, Zenon
              <7>. QED BY <7>1, <7>3, <7>4, <7>5, TokensBySigningKey, Zenon
            <6>2. CASE ~Written(h)
              BY <2>2, <2>7, <4>1, <6>2, Zenon DEF Deleted
            <6>. QED BY <6>1, <6>2, Zenon
          <5>. QED BY <2>3, <2>7, <4>1, <5>1, Zenon DEF Deserved
        <4>. QED BY <4>2, <4>3, Zenon
      <3>. QED BY <3>1, <3>2, Zenon
    <2>. QED BY <1>0, <2>4, <2>5, <2>6, <2>7, Zenon DEF WriterInv, Deserved
  <1>. QED BY <1>1, <1>2, <1>3, <1>4, Zenon DEF Next

\* The stronger invariant holds while one handler writes policies.
LEMMA WriterInvariant ==
  ASSUME OneWriter
  PROVE  Spec => []WriterInv
  <1>1. WriterInv /\ [Next]_vars => WriterInv'
    BY OneWriter, WriterStep, Zenon
  <1>. QED BY <1>1, WriterInit, PTL DEF Spec

\* With one writer at a time, a token outstanding when the signing key was
\* changed is never accepted again, even after the old key comes back.
THEOREM RevokedForGood ==
  ASSUME OneWriter
  PROVE  Spec => []RevokedStaysRevoked
  <1>1. WriterInv => RevokedStaysRevoked
    <2> SUFFICES ASSUME WriterInv, policy # NoBucket, NEW token \in revoked,
                        Verifies(token, policy, now)
                 PROVE  FALSE
      BY Zenon DEF RevokedStaysRevoked
    <2>1. token.generation < policy.generation /\ policy.generation \in Nat
      BY Zenon DEF WriterInv, Generations, PolicyInv, TypeOK, Policy
    <2>. QED BY <2>1 DEF Verifies
  <1>. QED BY <1>1, WriterInvariant, OneWriter, PTL

\* With one writer at a time, a request acts only if the policy and the clock
\* permitted it at one instant of its life, although BucketAuth reads the
\* clock before the policy and handlers act after a further await.
THEOREM ActsWhileEntitled ==
  ASSUME OneWriter
  PROVE  Spec => []AdmittedWhileEntitled
  <1>1. WriterInv => AdmittedWhileEntitled
    BY Zenon DEF WriterInv, Deserved, AdmittedWhileEntitled
  <1>. QED BY <1>1, WriterInvariant, OneWriter, PTL

\* With one writer at a time, update_policy leaves every field that its patch
\* does not mention as it is stored when it writes.
THEOREM UpdatesKeepTheRest ==
  ASSUME OneWriter
  PROVE  Spec => AbsentFieldsLeftAlone
  <1>1. WriterInv /\ [Next]_vars => [KeepsAbsentFields]_vars
    <2> SUFFICES ASSUME WriterInv, Next, NEW g \in Handlers, pc[g] = "write",
                        policy # NoBucket, policy' # NoBucket, pc'[g] = "idle",
                        NEW f \in Fields \ DOMAIN req[g].arg
                 PROVE  policy'[f] = policy[f]
      BY Zenon DEF KeepsAbsentFields
    <2>1. PolicyInv /\ TypeOK /\ Fresh(g)
      BY Zenon DEF WriterInv, PolicyInv
    <2>2. CASE Tick \/ CreateBucket
      BY <2>1, <2>2, Zenon DEF Tick, CreateBucket, handlerVars
    <2>3. ASSUME NEW h \in Handlers, Step(h) PROVE policy'[f] = policy[f]
      <3>1. h = g
        BY <2>1, <2>3, StepKinds, Zenon DEF Others
      <3>2. CASE Written(g)
        BY <2>1, <3>2, WriteAdvances, Zenon
      <3>3. CASE ~Written(g)
        BY <2>1, <2>3, <3>1, <3>3, StepKinds, Zenon
        DEF Submit, Ended, Admitted, Drafted, Minted, Deleted, stored
      <3>. QED BY <3>2, <3>3, Zenon
    <2>. QED BY <2>2, <2>3, Zenon DEF Next
  <1>. QED BY <1>1, WriterInvariant, OneWriter, PTL DEF Spec, AbsentFieldsLeftAlone
=============================================================================

----------------------------- MODULE BucketPolicy -----------------------------
(***************************************************************************)
(* The life of one bucket's policy in the `meta` keyspace (keydock-http    *)
(* routes buckets.rs and tokens.rs over keydock-fjall store.rs): creation, *)
(* policy updates, token minting, deletion, and requests that present      *)
(* credentials.  Each handler awaits the blocking pool between its reads   *)
(* and its write of the policy, so handlers interleave; `meta` has no      *)
(* lock.                                                                   *)
(***************************************************************************)
EXTENDS Access, FiniteSets

CONSTANTS
  Handlers,    \* requests under way at the same time
  Writers,     \* bound: the handlers that may update or delete the policy
  NoBucket,    \* no policy is stored under the bucket's id
  NoRequest,
  Ttls,        \* default TTLs a client may send
  DefaultTtl,  \* DEFAULT_BUCKET_TTL_SECS
  Forms,       \* bound: the creation forms tried
  Patches,     \* bound: the patches tried
  Grants,      \* bound: the token forms tried
  Txns,        \* bound: the transactions on keys tried
  MaxTime,     \* bound: the clock stops here
  MaxTokens,   \* bound: tokens minted
  MaxGeneration \* bound: signing key rotations

Fields == {"secret", "read", "write", "signing", "ttl"}

ASSUME PolicyAssumption ==
  /\ NoBucket \notin Policy
  /\ Ttls \subseteq Nat /\ DefaultTtl \in Nat
  /\ Writers \subseteq Handlers
  /\ MaxTime \in Nat /\ MaxTokens \in Nat /\ MaxGeneration \in Nat

\* What serde lets through: a missing, null or empty field, or one of its type.
FieldValues(f) ==
  {None, Empty} \cup (IF f = "ttl" THEN Ttls ELSE IF f = "signing" THEN SigningKeys ELSE Secrets)

ASSUME InputsAssumption ==
  /\ \A form \in Forms : \A f \in Fields : form[f] \in FieldValues(f) /\ (f = "ttl" => form[f] # Empty)
  /\ \A patch \in Patches :
       DOMAIN patch \subseteq Fields /\ \A f \in DOMAIN patch : patch[f] \in FieldValues(f)
  /\ \A grant \in Grants : /\ grant.ttl \in Nat /\ grant.prefix \in Seq(Letters)
                           /\ grant.permissions \subseteq Capabilities
  /\ Txns \subseteq Seq([action : Capabilities, key : Seq(Letters), valid : BOOLEAN])

VARIABLES
  policy,   \* the stored policy, or NoBucket
  created,  \* create_bucket has run (ids are fresh: it runs once)
  now,      \* system clock
  req,      \* the request of each handler: [kind, cred, meant, arg, now], or NoRequest
  pc,       \* its control state
  draft,    \* the policy an update is about to write
  tokens,   \* the tokens minted so far
  revoked,  \* history: tokens that were outstanding at a signing key rotation
  entitled  \* history: handlers whose request was permitted at an instant of its life

handlerVars == <<req, pc, draft>>
vars == <<policy, created, now, handlerVars, tokens, revoked, entitled>>

-----------------------------------------------------------------------------
(* Pure parts of the handlers *)

\* is_minimally_valid_email on a sequence of characters.
IsMinimallyValidEmail(raw) ==
  \E i \in DOMAIN raw :
    LET domain == SubSeq(raw, i + 1, Len(raw))
    IN /\ raw[i] = "@" /\ i > 1
       /\ \A j \in DOMAIN raw \ {i} : raw[j] # "@"
       /\ \E j \in DOMAIN domain : domain[j] = "."
       /\ domain[1] # "." /\ domain[Len(domain)] # "."

NoneIfEmpty(v) == IF v = Empty THEN None ELSE v

\* create_bucket: the policy made from a form.
PolicyOf(form) ==
  LET secret == NoneIfEmpty(form.secret)
      read   == NoneIfEmpty(form.read)
      write  == NoneIfEmpty(form.write)
  IN [secret |-> secret, read |-> read, write |-> write,
      signing |-> NoneIfEmpty(form.signing), generation |-> 0,
      ttl |-> IF form.ttl = None THEN DefaultTtl ELSE form.ttl,
      anonymous |-> AnonymousFromKeys(secret, read, write)]

\* Mutant: an empty string is stored.
ValidPatchLax(patch) == "secret" \in DOMAIN patch => patch["secret"] # None

\* Mutant: `null` clears the secret key like any other.
ValidPatchClears(patch) == \A f \in DOMAIN patch : patch[f] # Empty

\* apply_policy_patch refuses empty strings and a cleared secret key.
ValidPatch(patch) ==
  /\ \A f \in DOMAIN patch : patch[f] # Empty
  /\ "secret" \in DOMAIN patch => patch["secret"] # None

\* Mutant: clearing the signing key and setting it again is no rotation.
NextGenerationLazy(p, signing) ==
  IF p.signing # None /\ signing \notin {None, p.signing} THEN p.generation + 1 ELSE p.generation

\* The generation moves on only when the signing key material changes.
NextGeneration(p, signing) == IF signing # p.signing THEN p.generation + 1 ELSE p.generation

\* Mutant: the stored value is kept.
RecomputeAnonymousAccessNever(p) == p.anonymous

RecomputeAnonymousAccess(p) == AnonymousFromKeys(p.secret, p.read, p.write)

\* Mutant: a missing field clears the default TTL.
MergeClearsTtl(p, patch) ==
  [f \in DOMAIN p |-> IF f \in DOMAIN patch THEN patch[f] ELSE IF f = "ttl" THEN None ELSE p[f]]

\* A missing field leaves the policy's field as it is, None clears it.
Merge(p, patch) == [f \in DOMAIN p |-> IF f \in DOMAIN patch THEN patch[f] ELSE p[f]]

\* apply_policy_patch, then recompute_anonymous_access.
ApplyPatch(p, patch) ==
  LET q == Merge(p, patch)
  IN [q EXCEPT !.generation = NextGeneration(p, q.signing),
               !.anonymous = RecomputeAnonymousAccess(q)]

\* public_policy_view: what an administrator is shown of a policy.
PublicPolicyView(p) ==
  [default_ttl |-> p.ttl, has |-> {f \in {"secret", "read", "write", "signing"} : p[f] # None},
   generation |-> p.generation, anonymous |-> p.anonymous]

\* create_token refuses a token that could not be used.
ValidGrant(grant) == grant.ttl > 0 /\ grant.prefix # <<>> /\ grant.permissions # {}

\* The claims of create_token, signed with the bucket's key.
Mint(p, grant) ==
  [signedWith |-> p.signing, bucket |-> "this", generation |-> p.generation,
   prefix |-> grant.prefix, permissions |-> grant.permissions, exp |-> now + grant.ttl]

-----------------------------------------------------------------------------
Init ==
  /\ policy = NoBucket
  /\ created = FALSE
  /\ now = 0
  /\ req = [h \in Handlers |-> NoRequest]
  /\ pc = [h \in Handlers |-> "idle"]
  /\ draft = [h \in Handlers |-> NoBucket]
  /\ tokens = {}
  /\ revoked = {}
  /\ entitled = {}

Tick ==
  /\ now < MaxTime
  /\ now' = now + 1
  /\ UNCHANGED <<policy, created, handlerVars, tokens, revoked>>

\* create_bucket under a fresh id; its one write is atomic.
CreateBucket ==
  /\ ~created
  /\ created' = TRUE
  /\ \E form \in Forms : IsMinimallyValidEmail(form.email) /\ policy' = PolicyOf(form)
  /\ UNCHANGED <<now, handlerVars, tokens, revoked>>

\* The ways to send a credential that the README names, by itself or next to
\* another one of lower priority, or to send none.
Messages(cred) ==
  LET Param(name, value)          == [name |-> name, value |-> value]
      Message(scheme, text, query) == [scheme |-> scheme, text |-> text, query |-> query]
  IN IF cred = None
     THEN {Message("none", Empty, <<>>), Message("Bearer", Empty, <<Param("key", Empty)>>)}
     ELSE {Message(scheme, cred, <<Param(name, decoy)>>) :
             scheme \in {"Bearer", "Basic"}, name \in {"access_token", "key"}, decoy \in Secrets}
          \cup {Message("Basic", Undecodable, <<Param("key", decoy), Param("access_token", cred)>>) :
                  decoy \in Secrets}
          \cup {Message("bearer", cred, <<Param("key", Undecodable), Param("key", cred)>>)}

\* BucketAuth takes the credential and reads the clock.  History: meant.
Ask(h, kind, cred, arg) ==
  \E wire \in Messages(cred) :
    req' = [req EXCEPT ![h] =
      [kind |-> kind, cred |-> Extract(wire), meant |-> cred, arg |-> arg, now |-> now]]

\* A request arrives: BucketAuth reads the clock before it fetches the policy.
Submit(h) ==
  /\ pc[h] = "idle" /\ created
  /\ \E cred \in Secrets \cup tokens \cup {None} :
       \/ /\ h \in Writers
          /\ \E patch \in Patches : Ask(h, "update", cred, patch)
       \/ h \in Writers /\ Ask(h, "delete", cred, None)
       \/ \E kind \in {"view", "head"} : Ask(h, kind, cred, None)
       \/ \E grant \in Grants : Ask(h, "mint", cred, grant)
       \/ \E steps \in Txns : Ask(h, "keys", cred, steps)
  /\ pc' = [pc EXCEPT ![h] = "auth"]
  /\ UNCHANGED <<policy, created, now, draft, tokens, revoked>>

\* The handler returns, with success or an error.
Return(h) ==
  /\ req' = [req EXCEPT ![h] = NoRequest]
  /\ pc' = [pc EXCEPT ![h] = "idle"]
  /\ draft' = [draft EXCEPT ![h] = NoBucket]

\* The check a handler makes on the identity BucketAuth resolved.
Admits(r, cred, p, t) ==
  LET id == Resolve(cred, p, t)
  IN /\ id # Rejected
     /\ IF r.kind = "keys" THEN TxnAnswer(r.arg, id, p) = "ok" ELSE RequireAdmin(id) = "ok"

\* BucketAuth::from_request_parts, then the handler's check, on one policy.
Auth(h) ==
  /\ pc[h] = "auth"
  /\ IF policy # NoBucket /\ Admits(req[h], req[h].cred, policy, req[h].now)
     THEN /\ pc' = [pc EXCEPT ![h] =
                      IF req[h].kind \in {"update", "mint", "view"} THEN "read" ELSE "act"]
          /\ UNCHANGED <<req, draft>>
     ELSE Return(h)
  /\ UNCHANGED <<policy, created, now, tokens, revoked>>

\* update_policy fetches the policy again and patches the copy.
UpdateRead(h) ==
  /\ pc[h] = "read" /\ req[h].kind = "update"
  /\ IF policy # NoBucket /\ ValidPatch(req[h].arg)
     THEN /\ draft' = [draft EXCEPT ![h] = ApplyPatch(policy, req[h].arg)]
          /\ draft'[h].generation <= MaxGeneration
          /\ pc' = [pc EXCEPT ![h] = "write"]
          /\ UNCHANGED req
     ELSE Return(h)
  /\ UNCHANGED <<policy, created, now, tokens, revoked>>

\* update_policy stores the copy with create_bucket, which overwrites.  Tokens
\* outstanding when a new signing key is stored are revoked by it.
UpdateWrite(h) ==
  /\ pc[h] = "write"
  /\ policy' = draft[h]
  /\ revoked' = IF policy # NoBucket /\ draft[h].signing # policy.signing
                THEN revoked \cup tokens ELSE revoked
  /\ Return(h)
  /\ UNCHANGED <<created, now, tokens>>

\* create_token fetches the policy again and signs with its key.
CreateToken(h) ==
  /\ pc[h] = "read" /\ req[h].kind = "mint"
  /\ IF policy # NoBucket /\ policy.signing # None /\ ValidGrant(req[h].arg)
     THEN /\ Cardinality(tokens) < MaxTokens
          /\ tokens' = tokens \cup {Mint(policy, req[h].arg)}
     ELSE UNCHANGED tokens
  /\ Return(h)
  /\ UNCHANGED <<policy, created, now, revoked>>

\* get_bucket_policy fetches the policy again and shows its PublicPolicyView.
GetBucketPolicy(h) ==
  /\ pc[h] = "read" /\ req[h].kind = "view"
  /\ Return(h)
  /\ UNCHANGED <<policy, created, now, tokens, revoked>>

\* head_bucket answers without another look at the policy.
HeadBucket(h) ==
  /\ pc[h] = "act" /\ req[h].kind = "head"
  /\ Return(h)
  /\ UNCHANGED <<policy, created, now, tokens, revoked>>

\* delete_bucket removes the policy; the keys of the bucket stay in `data`.
DeleteBucket(h) ==
  /\ pc[h] = "act" /\ req[h].kind = "delete"
  /\ policy' = NoBucket
  /\ Return(h)
  /\ UNCHANGED <<created, now, tokens, revoked>>

\* The key handlers hand their operations to the store (FjallStore).
ActOnKeys(h) ==
  /\ pc[h] = "act" /\ req[h].kind = "keys"
  /\ Return(h)
  /\ UNCHANGED <<policy, created, now, tokens, revoked>>

\* A storage error, a dropped connection at an await or the end of the process
\* ends a handler before its write.
Abandon(h) ==
  /\ pc[h] # "idle"
  /\ Return(h)
  /\ UNCHANGED <<policy, created, now, tokens, revoked>>

\* History: the requests under way that the policy and clock of now permit.
Observe ==
  entitled' = {h \in Handlers :
                 /\ pc'[h] # "idle"
                 /\ \/ h \in entitled
                    \/ policy' # NoBucket /\ Admits(req'[h], req'[h].meant, policy', now')}

Step(h) == \/ Submit(h) \/ Auth(h) \/ UpdateRead(h) \/ UpdateWrite(h) \/ CreateToken(h)
           \/ GetBucketPolicy(h) \/ HeadBucket(h) \/ DeleteBucket(h) \/ ActOnKeys(h) \/ Abandon(h)

Next == (Tick \/ CreateBucket \/ \E h \in Handlers : Step(h)) /\ Observe

Spec == Init /\ [][Next]_vars

-----------------------------------------------------------------------------
RequestOK(r, known, t) ==
  /\ \/ r.kind = "update" /\ r.arg \in Patches
     \/ r.kind = "mint" /\ r.arg \in Grants
     \/ r.kind = "keys" /\ r.arg \in Txns
     \/ r.kind \in {"delete", "view", "head"} /\ r.arg = None
  /\ {r.cred, r.meant} \subseteq Secrets \cup known \cup {None}
  /\ r.now \in 0 .. t

\* Types.  Every stored policy is well formed: no empty string is ever stored,
\* and the keys of None are only those the form or a patch left unset.
TypeOK ==
  /\ policy \in Policy \cup {NoBucket}
  /\ created \in BOOLEAN
  /\ now \in 0 .. MaxTime
  /\ pc \in [Handlers -> {"idle", "auth", "read", "write", "act"}]
  /\ DOMAIN req = Handlers
  /\ \A h \in Handlers : IF pc[h] = "idle" THEN req[h] = NoRequest
                         ELSE RequestOK(req[h], tokens, now)
  /\ draft \in [Handlers -> Policy \cup {NoBucket}]
  /\ tokens \subseteq Token
  /\ revoked \subseteq tokens
  /\ entitled \subseteq Handlers

\* The README's table of what a request without credential may do, as a
\* function of the keys configured.
DocumentedAnonymous(p, action) ==
  CASE action \in {"read", "enumerate"} -> IF p.read = None THEN "ok" ELSE "unauthorized"
    [] action = "write" -> IF p.write = None THEN "ok" ELSE "unauthorized"
    [] action = "delete" -> IF {p.secret, p.read, p.write} = {None} THEN "ok" ELSE "unauthorized"

\* Whatever sequence of updates a policy went through, the checks answer a
\* request without credential as the README's table says, and the policy view
\* reports exactly what they allow: the stored anonymous_access never
\* contradicts the keys stored beside it, which some of the checks go by.
AnonymousMatrix ==
  policy # NoBucket =>
    /\ \A action \in Capabilities :
         Require(action, Anonymous, policy, <<>>) = DocumentedAnonymous(policy, action)
    /\ PublicPolicyView(policy).anonymous =
         {action \in Capabilities : Require(action, Anonymous, policy, <<>>) = "ok"}

\* A token outstanding when the signing key was changed is never accepted
\* again, even after the old key comes back: policy.rs bumps
\* signing_key_generation for that.
RevokedStaysRevoked ==
  policy # NoBucket => \A token \in revoked : ~Verifies(token, policy, now)

\* A request acts only if at one instant between its arrival and its action
\* the stored policy and the clock permitted it to the credential of highest
\* priority among those sent, although the clock is read before the policy and
\* both before the action, and other credentials may come with it.
AdmittedWhileEntitled == \A h \in Handlers : pc[h] \in {"read", "write", "act"} => h \in entitled

\* An update leaves every field that its patch does not mention as it is
\* stored at the moment of the write (update_policy).
KeepsAbsentFields ==
  \A h \in Handlers :
    pc[h] = "write" /\ policy # NoBucket /\ policy' # NoBucket /\ pc'[h] = "idle" =>
      \A f \in Fields \ DOMAIN req[h].arg : policy'[f] = policy[f]

AbsentFieldsLeftAlone == [][KeepsAbsentFields]_vars

\* A bucket with a secret key keeps one until it is deleted: no update, and
\* no update written over a concurrent one, leaves it without administrator.
KeepsSecret ==
  policy # NoBucket /\ policy.secret # None /\ policy' # NoBucket => policy'.secret # None

SecretStays == [][KeepsSecret]_vars
=============================================================================

------------------------------- MODULE Access -------------------------------
(***************************************************************************)
(* Who may do what in a bucket: bucket policies, the credentials a request *)
(* presents, their resolution to an identity (keydock-usecase auth.rs and  *)
(* tokens.rs) and the permission checks of the handlers (keydock-http      *)
(* extract.rs).  Hashing and signing are taken to be injective: a stored   *)
(* hash is the credential it was made from, a signature the key and claims *)
(* it covers.  Keys and prefixes are sequences of letters.                 *)
(***************************************************************************)
EXTENDS Naturals, Sequences

CONSTANTS
  None,         \* a field that is not set, or a request without credential
  Empty,        \* the empty string in a form, a patch, a header or a query
  Undecodable,  \* header or query text that does not decode to UTF-8
  Secrets,      \* credential strings: secret, read and write keys
  SigningKeys,  \* signing key material
  Letters       \* letters of keys and prefixes

Capabilities == {"read", "write", "enumerate", "delete"}

\* BucketPolicy.  Permissions are sets of capabilities.
Policy == [secret : Secrets \cup {None}, read : Secrets \cup {None},
           write : Secrets \cup {None}, signing : SigningKeys \cup {None},
           generation : Nat, ttl : Nat \cup {None}, anonymous : SUBSET Capabilities]

\* TemporaryTokenClaims with the key that signed them.
Token == [signedWith : SigningKeys, bucket : {"this", "other"}, generation : Nat,
          prefix : Seq(Letters), permissions : SUBSET Capabilities, exp : Nat]

ASSUME NoneAssumption ==
  /\ None \notin Secrets /\ None \notin SigningKeys /\ None \notin Nat
  /\ Secrets \cap Token = {}
  /\ {Empty, Undecodable} \cap (Secrets \cup SigningKeys \cup Nat \cup Token \cup {None}) = {}

-----------------------------------------------------------------------------
\* Permission::anonymous_from_keys: a capability whose key is absent is open.
AnonymousFromKeys(secret, read, write) ==
  (IF read = None THEN {"read", "enumerate"} ELSE {})
    \cup (IF write = None THEN {"write"} ELSE {})
    \cup (IF {secret, read, write} = {None} THEN {"delete"} ELSE {})

-----------------------------------------------------------------------------
(* Credentials on the wire: [scheme, text, query], where scheme and text are *)
(* those of the Authorization header and query is a sequence of pairs        *)
(* [name, value].                                                            *)

\* extract_from_query keeps the first value of a parameter that decodes.
FirstDecoded(query, name) ==
  LET decoded == {i \in DOMAIN query : query[i].name = name /\ query[i].value # Undecodable}
  IN IF decoded = {} THEN None
     ELSE query[CHOOSE i \in decoded : \A j \in decoded : i <= j].value

\* extract_from_query: access_token before key; the one chosen may be empty.
ExtractFromQuery(query) ==
  LET token == FirstDecoded(query, "access_token")
      value == IF token # None THEN token ELSE FirstDecoded(query, "key")
  IN IF value = Empty THEN None ELSE value

\* Mutant: a query parameter wins over the header.
ExtractQueryFirst(wire) ==
  IF ExtractFromQuery(wire.query) # None THEN ExtractFromQuery(wire.query)
  ELSE IF wire.scheme \in {"Bearer", "Basic"} /\ wire.text \notin {Empty, Undecodable} THEN wire.text
  ELSE None

\* auth::extract: a header that holds no usable credential is passed over.
\* For Basic, text is the decoded user name.
Extract(wire) ==
  IF wire.scheme \in {"Bearer", "Basic"} /\ wire.text \notin {Empty, Undecodable}
  THEN wire.text ELSE ExtractFromQuery(wire.query)

-----------------------------------------------------------------------------
(* Credentials to identities *)

Anonymous == [kind |-> "anonymous", permissions |-> {}, prefix |-> <<>>]
Admin     == [kind |-> "admin", permissions |-> Capabilities, prefix |-> <<>>]
Rejected  == [kind |-> "rejected", permissions |-> {}, prefix |-> <<>>]
Scoped(permissions, prefix) == [kind |-> "scoped", permissions |-> permissions, prefix |-> prefix]

\* tokens::verify: signature, expiry, bucket and generation.
Verifies(token, p, t) ==
  /\ p.signing # None
  /\ token.signedWith = p.signing
  /\ ~(token.exp <= t)
  /\ token.bucket = "this"
  /\ token.generation = p.generation

\* auth::resolve: secret, write, read key, then token.
Resolve(cred, p, t) ==
  IF cred = None THEN Anonymous
  ELSE IF cred \in Secrets
       THEN IF cred = p.secret THEN Admin
            ELSE IF cred = p.write THEN Scoped({"write"}, <<>>)
            ELSE IF cred = p.read THEN Scoped({"read", "enumerate"}, <<>>)
            ELSE Rejected
       ELSE IF Verifies(cred, p, t) THEN Scoped(cred.permissions, cred.prefix) ELSE Rejected

-----------------------------------------------------------------------------
(* Permission checks *)

StartsWith(key, prefix) ==
  Len(prefix) <= Len(key) /\ SubSeq(key, 1, Len(prefix)) = prefix

\* What a check answers a scoped identity.
ScopedAnswer(id, action, key) ==
  IF action \in id.permissions /\ StartsWith(key, id.prefix) THEN "ok" ELSE "forbidden"

RequireAdmin(id) == IF id.kind = "admin" THEN "ok" ELSE "forbidden"

RequireReadOn(id, p, key) ==
  CASE id.kind = "admin" -> "ok"
    [] id.kind = "scoped" -> ScopedAnswer(id, "read", key)
    [] OTHER -> IF p.read # None THEN "unauthorized" ELSE "ok"

\* Listing checks no prefix: the scan is narrowed to it instead.
RequireEnumerate(id, p) ==
  CASE id.kind = "admin" -> "ok"
    [] id.kind = "scoped" -> IF "enumerate" \in id.permissions THEN "ok" ELSE "forbidden"
    [] OTHER -> IF p.read # None THEN "unauthorized" ELSE "ok"

RequireWriteOn(id, p, key) ==
  CASE id.kind = "admin" -> "ok"
    [] id.kind = "scoped" -> ScopedAnswer(id, "write", key)
    [] OTHER -> IF p.write # None THEN "unauthorized"
                ELSE IF "write" \in p.anonymous THEN "ok" ELSE "forbidden"

RequireDeleteOn(id, p, key) ==
  CASE id.kind = "admin" -> "ok"
    [] id.kind = "scoped" -> ScopedAnswer(id, "delete", key)
    [] OTHER -> IF {p.secret, p.read, p.write} # {None} THEN "unauthorized"
                ELSE IF "delete" \in p.anonymous THEN "ok" ELSE "forbidden"

\* The check the handler of an action makes on a key.
Require(action, id, p, key) ==
  CASE action = "read" -> RequireReadOn(id, p, key)
    [] action = "enumerate" -> RequireEnumerate(id, p)
    [] action = "write" -> RequireWriteOn(id, p, key)
    [] action = "delete" -> RequireDeleteOn(id, p, key)

\* One operation of execute_txn: the check, then the conversion of its value
\* and TTL, which fails for an item that is not valid.
StepAnswer(step, id, p) ==
  LET a == Require(step.action, id, p, step.key)
  IN IF a = "ok" /\ ~step.valid THEN "bad_request" ELSE a

\* execute_txn: the first operation that is refused refuses the transaction.
TxnAnswer(steps, id, p) ==
  LET refused == {i \in DOMAIN steps : StepAnswer(steps[i], id, p) # "ok"}
  IN IF steps = <<>> THEN "bad_request"
     ELSE IF refused = {} THEN "ok"
     ELSE StepAnswer(steps[CHOOSE i \in refused : \A j \in refused : i <= j], id, p)
====

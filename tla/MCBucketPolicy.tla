--------------------------- MODULE MCBucketPolicy ---------------------------
(* TLC instances of BucketPolicy: one bucket, an administrator key and a    *)
(* write key, two signing keys, two requests at a time.                    *)
EXTENDS BucketPolicy, TLC

CONSTANTS h1, h2, admin, writer, s1, s2, x, y

Email == <<"a", "@", "b", ".", "c">>

MCForms ==
  {[email |-> Email, secret |-> admin, read |-> Empty, write |-> writer, signing |-> s1, ttl |-> None],
   [email |-> Email, secret |-> Empty, read |-> None, write |-> None, signing |-> None, ttl |-> 0],
   [email |-> <<"a", "@", ".", "c">>, secret |-> None, read |-> None, write |-> None, signing |-> None,
    ttl |-> None]}

\* Patches of the signing key.
Rotations == {"signing" :> s1, "signing" :> s2, "signing" :> None}

\* Patches of the other fields, the refused ones among them.
Settings ==
  {"secret" :> None, "read" :> Empty, "write" :> None, "secret" :> writer @@ "ttl" :> None}

AllPatches == Rotations \cup Settings

MCGrants == {[ttl |-> ttl, prefix |-> <<x>>, permissions |-> {"write"}] : ttl \in {0, 1}}

TxnStep(action, key, valid) == [action |-> action, key |-> key, valid |-> valid]

MCTxns ==
  {<<TxnStep("write", <<x, y>>, TRUE)>>,
   <<TxnStep("write", <<x>>, TRUE), TxnStep("delete", <<x>>, FALSE)>>}

HandlerSymmetry == Permutations(Handlers)
=============================================================================

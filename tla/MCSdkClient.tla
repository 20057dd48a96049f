----------------------------- MODULE MCSdkClient -----------------------------
(* Instances of SdkClient for TLC. *)
EXTENDS SdkClient

CONSTANTS c1, c2, t1, t2

\* Keys without a literal escape, and the empty key.
PlainNames == {<<"/", "a">>, <<>>}
PlainKeys == {PathKey(n) : n \in PlainNames} \cup {BodyKey(n) : n \in PlainNames}

\* A key that contains an escape, and the key it decodes to.
EscapedNames == {<<"%", "25">>, <<"%">>}
EscapedKeys == {PathKey(n) : n \in EscapedNames} \cup {BodyKey(n) : n \in EscapedNames}

\* The plain names mean one key each; the others do not.
ASSUME NamesAssumption == Faithful(PlainNames) /\ ~Faithful(EscapedNames)
=============================================================================

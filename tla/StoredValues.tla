----------------------------- MODULE StoredValues -----------------------------
(***************************************************************************)
(* What a stored value is: the kind a write infers (keydock-usecase        *)
(* keys.rs), integer and float counters (keydock-domain counter.rs), the   *)
(* expiry an entry keeps in whole seconds and the ordered expiry index     *)
(* (keydock-fjall repos.rs), and how listings render a value (keydock-http *)
(* buckets.rs).  One operation at a time: how operations interleave is     *)
(* FjallStore's subject.                                                   *)
(*                                                                         *)
(* Numbers are counted in halves, so that 3 is the integer 6 \div 2 and 7  *)
(* is the float 3.5.  Time is counted in ticks, several to the second.     *)
(***************************************************************************)
EXTENDS Integers, Sequences

CONSTANTS
  Keys,        \* storage keys: sequences of bytes
  Absent,      \* no entry, no expiry instant, no TTL given
  Bad,         \* the result of a parse or a sum that fails
  MinInt, MaxInt,  \* i64, in halves
  FloatExact,  \* up to it floats hold every half; above, one bit less each time it doubles
  MaxFloat,    \* the largest finite float, in halves
  Bodies,      \* bound: bodies of writes and of counter deltas
  ContentTypes, \* "json", "text", Absent: neither, or no header
  Ttls,        \* bound: ?ttl= of a write, Absent when missing
  DefaultTtls, \* bound: the bucket's default_ttl
  MaxTtl,      \* the largest number of seconds an i64 holds
  MaxInstant,  \* the largest second an OffsetDateTime holds
  Ticks,       \* ticks of a second
  Radix,       \* the values a byte has; an expiry takes two bytes
  Separator,   \* EXPIRY_KEY_SEPARATOR
  Start, End   \* bound: the first and the last tick of the clock

Kinds == {"Raw", "Utf8", "Int64", "Float64", "Json"}
Byte  == 0 .. Radix - 1

\* The sign bit of an expiry.
SignBit == Radix * (Radix \div 2)

\* A text as its parsers see it.  form: what Rust's number parsers make of it;
\* n: the number, in halves; json: serde_json accepts it; sign: it starts with
\* + or -, all three after `trim`.  plain: trim removed nothing that JSON does
\* not count as white space; fits: it is no longer than MAX_VALUE_BYTES.
Body == [form : {"int", "float", "infinite", "text", "bytes"}, n : Int,
         json : BOOLEAN, sign : BOOLEAN, plain : BOOLEAN, fits : BOOLEAN]

Value == [payload : Body, kind : Kinds]
Entry == [value : Value, expires : Int \cup {Absent}]

\* History of a key: the exact sum of an integer counter, whether a float took
\* part, whether the writer declared JSON, the instant the value is meant to
\* live to.
History == [exact : Int, float : BOOLEAN, declared : BOOLEAN, due : Int \cup {Absent}]

Counters == [type : {"Int", "Float"}, n : Int]

ASSUME ValuesAssumption ==
  /\ Bodies \subseteq Body
  /\ \A b \in Bodies : b.form = "int" => b.n % 2 = 0
  /\ Ticks \in Nat \ {0}
  /\ MinInt \in Int /\ MaxInt \in Int /\ FloatExact \in Nat /\ MaxFloat \in Nat
  /\ Ttls \subseteq Nat \cup {Absent} /\ DefaultTtls \subseteq Nat \cup {Absent}
  /\ ContentTypes \subseteq {"json", "text", Absent}
  /\ MaxTtl \in Nat /\ MaxInstant \in Int /\ Start \in Int /\ End \in Int

\* Bytes have an even number of values, and an OffsetDateTime fits an i64.
ASSUME IndexAssumption ==
  /\ Radix \in Nat \ {0} /\ Radix % 2 = 0 /\ Separator \in Byte
  /\ Keys \subseteq Seq(Byte) \ {<<>>}
  /\ Start <= End /\ -(SignBit * Ticks) <= Start /\ MaxInstant < SignBit

ASSUME AbsentAssumption ==
  /\ Absent \notin Int \cup Entry \cup History \cup {"text", "json", "jsonl"}
  /\ Bad \notin Int \cup Value \cup Counters \cup {Absent, "text", "json", "jsonl"}

VARIABLES
  now,      \* the clock
  data,     \* the entry of each key
  index,    \* the expiry index: a set of encoded keys
  hist      \* history of each key: [exact, float, declared, due], or Absent

vars == <<now, data, index, hist>>

-----------------------------------------------------------------------------
(* Floats and texts *)

\* The distance between floats near x: of the binades above FloatExact two
\* are told apart.
Spacing(x) ==
  IF x \in -FloatExact .. FloatExact THEN 1
  ELSE IF x \in -2 * FloatExact .. 2 * FloatExact THEN 2 ELSE 4

\* The float nearest to x, ties to even.
Round(x) ==
  LET s == Spacing(x)
      q == x \div s
      r == x % s
  IN s * (IF 2 * r < s \/ (2 * r = s /\ q % 2 = 0) THEN q ELSE q + 1)

Finite(x) == x \in -MaxFloat .. MaxFloat

IsUtf8(b)     == b.form # "bytes"
ParsesInt(b)  == b.form = "int" /\ b.n \in MinInt .. MaxInt
ParsesFinite(b) == b.form \in {"int", "float"} /\ Finite(Round(b.n))

\* Formatting an integer, and a float, which prints 3.0 as "3".
Numeral(n) ==
  [form |-> IF n % 2 = 0 THEN "int" ELSE "float", n |-> n, json |-> TRUE, sign |-> n < 0,
   plain |-> TRUE, fits |-> TRUE]

-----------------------------------------------------------------------------
(* Values *)

\* Mutant: whatever parses as a float is one, infinities included.
InferValueKindInfinite(b, contentType) ==
  CASE contentType = "json" -> "Json"
    [] contentType = "text" -> IF IsUtf8(b) THEN "Utf8" ELSE "Raw"
    [] OTHER -> IF ~IsUtf8(b) THEN "Raw"
                ELSE IF ParsesInt(b) THEN "Int64"
                ELSE IF b.form \in {"int", "float", "infinite"} THEN "Float64"
                ELSE IF b.json THEN "Json" ELSE "Utf8"

\* infer_value_kind: the content type first, then what the text parses as.
InferValueKind(b, contentType) ==
  CASE contentType = "json" -> "Json"
    [] contentType = "text" -> IF IsUtf8(b) THEN "Utf8" ELSE "Raw"
    [] OTHER -> IF ~IsUtf8(b) THEN "Raw"
                ELSE IF ParsesInt(b) THEN "Int64"
                ELSE IF ParsesFinite(b) THEN "Float64"
                ELSE IF b.json THEN "Json" ELSE "Utf8"

\* infer_stored_value: StoredValue::new refuses a payload that is too long.
InferStoredValue(b, contentType) ==
  IF b.fits THEN [payload |-> b, kind |-> InferValueKind(b, contentType)] ELSE Bad

\* json_value_to_body: a JSON string is written like a body without content
\* type, any other JSON value as its own text, null not at all.
JsonKinds == {"null", "string", "other"}
TxnValue(jsonKind, b) ==
  CASE jsonKind = "null" -> Bad
    [] jsonKind = "string" -> InferStoredValue(b, Absent)
    [] jsonKind = "other" -> InferStoredValue(b, "json")

\* stored_value_to_json: whether a listing can show the value.
RendersAsJson(v) ==
  CASE v.kind = "Json" -> v.payload.json /\ v.payload.plain
    [] v.kind = "Int64" -> ParsesInt(v.payload)
    [] v.kind = "Float64" -> ParsesFinite(v.payload)
    [] v.kind = "Utf8" -> IsUtf8(v.payload)
    [] v.kind = "Raw" -> TRUE

\* content_type_for_kind, as put_key would read it: an octet stream says nothing.
ContentTypeForKind(kind) ==
  CASE kind = "Json" -> "json"
    [] kind \in {"Int64", "Float64", "Utf8"} -> "text"
    [] kind = "Raw" -> Absent

\* resolve_list_format: ?format= decides, else the types Accept mentions.
ResolveListFormat(format, accept) ==
  IF format # Absent THEN IF format \in {"text", "json", "jsonl"} THEN format ELSE Bad
  ELSE IF "json" \in accept THEN "json"
  ELSE IF "ndjson" \in accept THEN "jsonl" ELSE "text"

\* render_list_body: one value that cannot be shown fails the whole listing.
RenderListBody(fmt, values, includeValues) ==
  IF includeValues /\ fmt \in {"json", "jsonl"} /\ \E v \in values : ~RendersAsJson(v)
  THEN 500 ELSE 200

-----------------------------------------------------------------------------
(* Counters *)

Counter(type, n) == [type |-> type, n |-> n]

\* CounterOp::parse.
ParseOp(b) ==
  IF ~IsUtf8(b) \/ ~b.sign THEN Bad
  ELSE IF ParsesInt(b) THEN Counter("Int", b.n)
  ELSE IF ParsesFinite(b) THEN Counter("Float", Round(b.n)) ELSE Bad

FloatResult(x) == IF Finite(x) THEN Counter("Float", x) ELSE Bad

\* CounterOp::apply: two integers add up exactly or not at all; an integer
\* next to a float is converted to one.
Apply(op, current) ==
  IF op.type = "Int" /\ current.type = "Int"
  THEN IF op.n + current.n \in MinInt .. MaxInt THEN Counter("Int", op.n + current.n) ELSE Bad
  ELSE FloatResult(Round(Round(op.n) + Round(current.n)))

\* CounterValue::from_stored.
FromStored(v) ==
  CASE v.kind = "Int64" -> IF ParsesInt(v.payload) THEN Counter("Int", v.payload.n) ELSE Bad
    [] v.kind = "Float64" -> IF ParsesFinite(v.payload) THEN Counter("Float", Round(v.payload.n)) ELSE Bad
    [] OTHER -> Bad

\* Mutant: the kind is inferred from the text again.
IntoStoredInferred(c) == [payload |-> Numeral(c.n), kind |-> InferValueKind(Numeral(c.n), Absent)]

\* CounterValue::into_stored.
IntoStored(c) == [payload |-> Numeral(c.n), kind |-> IF c.type = "Int" THEN "Int64" ELSE "Float64"]

-----------------------------------------------------------------------------
(* Expiry *)

\* Mutant: the range of the resulting instant is not checked.
ResolveTtlUnchecked(ttl, default) ==
  LET effective == IF ttl = Absent THEN default ELSE ttl
  IN IF effective \in {Absent, 0} THEN Absent
     ELSE IF effective > MaxTtl THEN Bad
     ELSE now + effective * Ticks

\* resolve_ttl: an instant, Absent for none, Bad when it is out of range.
ResolveTtl(ttl, default) ==
  LET effective == IF ttl = Absent THEN default ELSE ttl
  IN IF effective \in {Absent, 0} THEN Absent
     ELSE IF effective > MaxTtl \/ now + effective * Ticks >= (MaxInstant + 1) * Ticks THEN Bad
     ELSE now + effective * Ticks

\* Mutant: the expiry is rounded up.
UnixOfCeiling(instant) == IF instant = Absent THEN Absent ELSE (instant + Ticks - 1) \div Ticks

\* encode_entry keeps whole seconds, rounded down.
UnixOf(instant) == IF instant = Absent THEN Absent ELSE instant \div Ticks

\* The test of get, list, increment and the sweeper: `exp <= now`.
Expired(e) == e.expires # Absent /\ e.expires * Ticks <= now

Live(k) == data[k] # Absent /\ ~Expired(data[k])

\* list_bucket: the status of a listing.
ListStatus(format, accept, includeValues) ==
  LET fmt == ResolveListFormat(format, accept)
  IN IF fmt = Bad THEN 406
     ELSE RenderListBody(fmt, {data[k].value : k \in {x \in Keys : Live(x)}}, includeValues)

\* Mutant: the sign bit is not flipped.
EncodeOrderedPlain(ts) ==
  LET bits == ts % (Radix * Radix) IN <<bits \div Radix, bits % Radix>>

\* encode_ordered_i64: two's complement with the sign bit flipped, high byte first.
EncodeOrdered(ts) ==
  LET bits == (ts + SignBit) % (Radix * Radix)
  IN <<bits \div Radix, bits % Radix>>

\* decode_ordered_i64.
DecodeOrdered(bytes) == bytes[1] * Radix + bytes[2] - SignBit

\* expiry_index_key and parse_expiry_index_key.
ExpiryIndexKey(ts, k) == EncodeOrdered(ts) \o <<Separator>> \o k
ExpiryOf(key)         == DecodeOrdered(SubSeq(key, 1, 2))
StorageKeyOf(key)     == SubSeq(key, 4, Len(key))

\* The order in which a keyspace is iterated.
Precedes(s, t) ==
  \/ Len(s) < Len(t) /\ SubSeq(t, 1, Len(s)) = s
  \/ \E i \in 1 .. Len(s) : /\ i <= Len(t) /\ s[i] < t[i]
                            /\ SubSeq(s, 1, i - 1) = SubSeq(t, 1, i - 1)

-----------------------------------------------------------------------------
Init ==
  /\ now = Start
  /\ data = [k \in Keys |-> Absent]
  /\ index = {}
  /\ hist = [k \in Keys |-> Absent]

Tick ==
  /\ now < End
  /\ now' = now + 1
  /\ UNCHANGED <<data, index, hist>>

\* The instant a write made now with these TTLs is meant to live to.
Due(ttl, default) ==
  LET effective == IF ttl = Absent THEN default ELSE ttl
  IN IF effective \in {Absent, 0} THEN Absent ELSE now + effective * Ticks

\* FjallStore::set: the entry, and its index entry when it expires.
Store(k, v, instant) ==
  /\ data' = [data EXCEPT ![k] = [value |-> v, expires |-> UnixOf(instant)]]
  /\ index' = IF instant = Absent THEN index
              ELSE index \cup {ExpiryIndexKey(UnixOf(instant), k)}
  /\ UNCHANGED now

\* KeyService::set after value v was made of the body; either check may
\* refuse the write, the value's first.
SetValue(k, v, declared, ttl, default) ==
  /\ v # Bad /\ ResolveTtl(ttl, default) # Bad
  /\ Store(k, v, ResolveTtl(ttl, default))
  /\ hist' = [hist EXCEPT ![k] =
       [exact |-> IF v.kind = "Int64" THEN v.payload.n ELSE 0, float |-> v.kind = "Float64",
        declared |-> declared, due |-> Due(ttl, default)]]

\* put_key
Put(k) ==
  \E b \in Bodies, ct \in ContentTypes, ttl \in Ttls, default \in DefaultTtls :
    SetValue(k, InferStoredValue(b, ct), ct = "json", ttl, default)

\* get_key, and put_key with the content type get_key answered.
PutBack(k) ==
  \E ttl \in Ttls, default \in DefaultTtls :
    /\ Live(k)
    /\ LET v == data[k].value
       IN SetValue(k, InferStoredValue(v.payload, ContentTypeForKind(v.kind)), hist[k].declared, ttl, default)

\* execute_txn with one set; "other" JSON values are serialised by the server.
TxnSet(k) ==
  \E b \in Bodies, j \in JsonKinds, ttl \in Ttls, default \in DefaultTtls :
    /\ j = "other" => b.json /\ b.plain
    /\ SetValue(k, TxnValue(j, b), FALSE, ttl, default)

\* patch_key, KeyService::increment and FjallStore::increment: an entry that
\* is missing or expired counts from the integer 0.
Increment(k) ==
  \E b \in Bodies, ttl \in Ttls, default \in DefaultTtls :
    LET op      == ParseOp(b)
        current == IF Live(k) THEN FromStored(data[k].value) ELSE Counter("Int", 0)
        past    == IF Live(k) THEN hist[k] ELSE [exact |-> 0, float |-> FALSE]
        float   == past.float \/ op.type = "Float"
    IN /\ op # Bad /\ ResolveTtl(ttl, default) # Bad /\ current # Bad
       /\ Apply(op, current) # Bad
       /\ Store(k, IntoStored(Apply(op, current)), ResolveTtl(ttl, default))
       /\ hist' = [hist EXCEPT ![k] =
            [exact |-> IF float THEN 0 ELSE past.exact + op.n, float |-> float,
             declared |-> FALSE, due |-> Due(ttl, default)]]

\* delete_key
Delete(k) ==
  /\ data[k] # Absent
  /\ data' = [data EXCEPT ![k] = Absent]
  /\ hist' = [hist EXCEPT ![k] = Absent]
  /\ UNCHANGED <<now, index>>

\* The index entries a sweep handles before it meets one that is not due.
Swept ==
  {x \in index : \A y \in index : y = x \/ Precedes(y, x) => ExpiryOf(y) <= UnixOf(now)}

\* sweep_keyspace, run to its end.
Sweep ==
  /\ UNCHANGED <<now, hist>>
  /\ index' = index \ Swept
  /\ data' = [k \in Keys |->
       IF /\ data[k] # Absent /\ Expired(data[k])
          /\ \E x \in Swept : StorageKeyOf(x) = k /\ ExpiryOf(x) = data[k].expires
       THEN Absent ELSE data[k]]

Next ==
  \/ Tick \/ Sweep
  \/ \E k \in Keys : Put(k) \/ PutBack(k) \/ TxnSet(k) \/ Increment(k) \/ Delete(k)

Spec == Init /\ [][Next]_vars

-----------------------------------------------------------------------------
(* Properties *)

\* Types; an expiry that is stored decodes to an instant (expires_at_from_unix
\* never fails on what encode_entry wrote) and fits the index's bytes.
TypeOK ==
  /\ now \in Start .. End
  /\ \A k \in Keys :
       /\ data[k] # Absent =>
            /\ data[k].value \in Value
            /\ data[k].expires # Absent =>
                 /\ data[k].expires <= MaxInstant
                 /\ DecodeOrdered(EncodeOrdered(data[k].expires)) = data[k].expires
       /\ hist[k] \in History \cup {Absent}
  /\ \A x \in index : ExpiryOf(x) \in Int /\ StorageKeyOf(x) \in Keys

\* A kind the server chose is one it can read back: numbers parse as counters,
\* a listing without values or in text never fails, and one with values as
\* JSON (stored_value_to_json) fails only because of a value that its writer
\* declared to be JSON, which nothing validates, or of JSON surrounded by white
\* space that only the inference trims; reading a value and writing it back
\* with the content type it was served with does not change that.
KindsReadBack ==
  /\ \A k \in Keys : data[k] # Absent /\ data[k].value.kind \in {"Int64", "Float64"} =>
       FromStored(data[k].value) # Bad
  /\ \A format \in {Absent, "text", "json", "jsonl"}, accept \in SUBSET {"json", "ndjson", "text"} :
       /\ ListStatus(format, accept, FALSE) = 200
       /\ ListStatus(format, accept, TRUE) # 200 =>
            /\ format # "text" /\ (format = Absent => accept \cap {"json", "ndjson"} # {})
            /\ \E k \in Keys :
                 /\ Live(k) /\ data[k].value.kind = "Json"
                 /\ hist[k].declared \/ ~data[k].value.payload.plain

\* A counter built from integers holds exactly the sum of what was accepted
\* since its key was last set or expired, and stays an integer; once a float
\* took part it stays a float, though its text may be that of an integer.
CountersFaithful ==
  \A k \in Keys : Live(k) /\ data[k].value.kind \in {"Int64", "Float64"} =>
    LET v == data[k].value
    IN IF hist[k].float THEN v.kind = "Float64"
       ELSE v.kind = "Int64" /\ v.payload.n = hist[k].exact

\* What was written is served until its TTL ends: never at or after the end,
\* and never gone a whole second before it, whatever the truncation to
\* seconds, a TTL of zero, the bucket's default and the sweeper do.
LifetimeHonoured ==
  \A k \in Keys :
    /\ Live(k) => hist[k] # Absent /\ (hist[k].due = Absent \/ now < hist[k].due)
    /\ hist[k] # Absent /\ ~Live(k) => hist[k].due # Absent /\ hist[k].due - Ticks < now

\* A sweep removes every expired entry and no other, and leaves nothing due in
\* the index: it may stop at the first entry that is not due only because the
\* byte order of the index is the order of time, before 1970 too.
SweepExact ==
  [][Sweep => /\ \A k \in Keys : data[k] # Absent =>
                   (data'[k] = Absent <=> Expired(data[k]))
              /\ \A x \in index' : ExpiryOf(x) > UnixOf(now)]_vars
=============================================================================

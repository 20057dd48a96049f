-------------------------- MODULE StoredValues_proofs -------------------------
(***************************************************************************)
(* What StoredValues promises, for every clock resolution, range of        *)
(* integers and floats, set of keys, bodies and TTLs: lifetimes are        *)
(* honoured, integer counters are exact, kinds read back, and a sweep of   *)
(* the ordered expiry index removes exactly what has expired.              *)
(***************************************************************************)
EXTENDS StoredValues, SequenceTheorems, TLAPS

USE SMTT(60), ZenonT(60)

-----------------------------------------------------------------------------
(* The keys of the ordered index *)

\* Rounding down to whole seconds loses less than a second (encode_entry).
LEMMA DivBounds ==
  ASSUME NEW a \in Int, NEW b \in Nat \ {0}
  PROVE  /\ a \div b \in Int
         /\ (a \div b) * b <= a
         /\ a < (a \div b) * b + b
  BY Z3

\* A number is its quotient's multiple and its remainder.
LEMMA DivMod ==
  ASSUME NEW a \in Int, NEW b \in Int, b > 0, NEW q, NEW r, q = a \div b, r = a % b
  PROVE  q \in Int /\ r \in 0 .. b - 1 /\ a = q * b + r
  <1>1. q \in Int /\ r \in 0 .. b - 1
    BY Z3
  <1>2. r = a - q * b
    BY <1>1
  <1>3. q * b \in Int
    BY <1>1
  <1>. QED BY <1>1, <1>2, <1>3

\* Multiplying by a natural number keeps the order.
LEMMA Products ==
  ASSUME NEW a \in Int, NEW b \in Int, NEW c \in Nat, a <= b
  PROVE  a * c \in Int /\ b * c \in Int /\ a * c <= b * c
  BY Z3

\* A quotient stays below what the dividend stays below a multiple of.
LEMMA QuotientBelow ==
  ASSUME NEW a \in Int, NEW b \in Nat \ {0}, NEW n \in Int
  PROVE  /\ a < n * b <=> a \div b < n
         /\ n * b <= a <=> n <= a \div b
  <1>1. a \div b \in Int /\ (a \div b) * b <= a /\ a < (a \div b) * b + b
    BY DivBounds, Zenon
  <1>. DEFINE q == a \div b
  <1>. HIDE DEF q
  <1>2. q \in Int /\ q * b \in Int /\ n * b \in Int /\ (q + 1) * b = q * b + b
    BY <1>1 DEF q
  <1>3. CASE n <= q
    <2>1. n * b <= q * b
      BY <1>2, <1>3, Products, Zenon
    <2>. QED BY <1>1, <1>2, <1>3, <2>1 DEF q
  <1>4. CASE q < n
    <2>1. (q + 1) * b <= n * b
      <3>1. q + 1 \in Int /\ q + 1 <= n
        BY <1>2, <1>4
      <3>. QED BY <3>1, Products, Zenon
    <2>. QED BY <1>1, <1>2, <1>4, <2>1 DEF q
  <1>. QED BY <1>2, <1>3, <1>4

\* The instants the index can hold.
Instants == -SignBit .. SignBit - 1

\* Two bytes tell twice as many instants apart as the sign bit counts.
LEMMA SignBitHalf ==
  SignBit \in Nat /\ Radix * Radix = 2 * SignBit /\ Radix * Radix \in Nat \ {0}
  <1>. DEFINE h == Radix \div 2
  <1>1. h \in Nat /\ Radix = 2 * h /\ Radix \in Nat \ {0}
    BY IndexAssumption
  <1>2. SignBit = Radix * h
    BY Zenon DEF SignBit
  <1>. HIDE DEF h
  <1>3. SignBit = 2 * (h * h) /\ Radix * Radix = 4 * (h * h) /\ h * h \in Nat /\ h # 0
    BY <1>1, <1>2
  <1>4. h * h # 0
    BY <1>1, <1>3
  <1>. QED BY <1>3, <1>4

\* The two bytes of an instant are bytes, and decoding gives the instant.
LEMMA OrderedRoundTrip ==
  ASSUME NEW ts \in Instants
  PROVE  /\ EncodeOrdered(ts) \in Seq(Byte) /\ Len(EncodeOrdered(ts)) = 2
         /\ EncodeOrdered(ts)[1] \in Byte /\ EncodeOrdered(ts)[2] \in Byte
         /\ EncodeOrdered(ts)[1] * Radix + EncodeOrdered(ts)[2] - SignBit = ts
  <1>1. SignBit \in Nat /\ Radix * Radix = 2 * SignBit /\ Radix * Radix \in Nat \ {0}
        /\ Radix \in Nat \ {0}
    BY SignBitHalf, IndexAssumption, Zenon
  <1>. DEFINE b  == ts + SignBit
              hi == b \div Radix
              lo == b % Radix
  <1>2. ts \in Int /\ b \in Int /\ 0 <= b /\ b < Radix * Radix
    BY <1>1 DEF Instants
  <1>3. b % (Radix * Radix) = b
    BY <1>1, <1>2
  <1>4. EncodeOrdered(ts) = <<hi, lo>>
    BY <1>3, Zenon DEF EncodeOrdered
  <1>5. hi \in Int /\ lo \in 0 .. Radix - 1 /\ b = hi * Radix + lo
    BY <1>1, <1>2, DivMod
  <1>6. 0 <= hi /\ hi < Radix
    BY <1>1, <1>2, QuotientBelow
  <1>. HIDE DEF hi, lo
  <1>7. hi \in Byte /\ lo \in Byte
    BY <1>1, <1>5, <1>6 DEF Byte
  <1>8. hi * Radix + lo - SignBit = ts
    BY <1>1, <1>2, <1>5
  <1>. QED BY <1>4, <1>7, <1>8

\* parse_expiry_index_key gives back what expiry_index_key was given.
LEMMA IndexKeyParts ==
  ASSUME NEW ts \in Instants, NEW k \in Keys
  PROVE  LET x == ExpiryIndexKey(ts, k)
         IN /\ x \in Seq(Byte) /\ Len(x) = 3 + Len(k) /\ Len(x) > 2
            /\ x[1] \in Byte /\ x[2] \in Byte
            /\ x[1] * Radix + x[2] - SignBit = ts
            /\ ExpiryOf(x) = ts /\ StorageKeyOf(x) = k
  <1>. DEFINE e == EncodeOrdered(ts)
              x == ExpiryIndexKey(ts, k)
  <1>1. /\ e \in Seq(Byte) /\ Len(e) = 2 /\ e[1] \in Byte /\ e[2] \in Byte
        /\ e[1] * Radix + e[2] - SignBit = ts
    BY OrderedRoundTrip, Zenon
  <1>2. x = (e \o <<Separator>>) \o k
    BY Zenon DEF ExpiryIndexKey
  <1>3. k \in Seq(Byte) /\ Separator \in Byte /\ Len(k) \in Nat
    BY IndexAssumption
  <1>. HIDE DEF e, x
  <1>. DEFINE p == e \o <<Separator>>
  <1>4. /\ p \in Seq(Byte) /\ Len(p) = 3 /\ p[1] = e[1] /\ p[2] = e[2]
    <2>. DEFINE sep == <<Separator>>
    <2>1. sep \in Seq(Byte) /\ Len(sep) = 1
      BY <1>3
    <2>2. p = e \o sep
      BY Zenon
    <2>. HIDE DEF sep, p
    <2>3. p \in Seq(Byte) /\ Len(p) = Len(e) + Len(sep)
      BY <1>1, <2>1, <2>2, ConcatProperties, Zenon
    <2>4. \A i \in 1 .. Len(e) + Len(sep) : (e \o sep)[i] = IF i <= Len(e) THEN e[i] ELSE sep[i - Len(e)]
      BY <1>1, <2>1, ConcatProperties, Zenon
    <2>5. Len(e) + Len(sep) = 3 /\ 1 <= Len(e) /\ 2 <= Len(e)
      BY <1>1, <2>1
    <2>6. 1 \in 1 .. 3 /\ 2 \in 1 .. 3
      OBVIOUS
    <2>. QED BY <2>2, <2>3, <2>4, <2>5, <2>6, Zenon
  <1>. HIDE DEF p
  <1>5. /\ x \in Seq(Byte) /\ Len(x) = 3 + Len(k) /\ x[1] = p[1] /\ x[2] = p[2]
        /\ \A i \in 1 .. Len(k) : x[3 + i] = k[i]
    BY <1>2, <1>3, <1>4 DEF p
  <1>6. ExpiryOf(x) = ts
    <2>1. /\ SubSeq(x, 1, 2)[1] = x[1] /\ SubSeq(x, 1, 2)[2] = x[2]
      BY <1>3, <1>5
    <2>. QED BY <2>1, <1>1, <1>4, <1>5, Zenon DEF ExpiryOf, DecodeOrdered
  <1>7. StorageKeyOf(x) = k
    <2>. DEFINE t == SubSeq(x, 4, Len(x))
    <2>1. t \in Seq(Byte) /\ Len(t) = Len(k) /\ \A i \in 1 .. Len(k) : t[i] = x[3 + i]
      BY <1>3, <1>5
    <2>. HIDE DEF t
    <2>2. t = k
      BY <1>3, <1>5, <2>1, SeqEqual, Zenon
    <2>. QED BY <2>2, Zenon DEF t, StorageKeyOf
  <1>. QED BY <1>1, <1>3, <1>4, <1>5, <1>6, <1>7 DEF x

\* The byte order of the index is the order of time.
LEMMA IndexOrder ==
  ASSUME NEW s \in Instants, NEW j \in Keys, NEW t \in Instants, NEW k \in Keys,
         Precedes(ExpiryIndexKey(s, j), ExpiryIndexKey(t, k))
  PROVE  s <= t
  <1>. DEFINE y == ExpiryIndexKey(s, j)
              x == ExpiryIndexKey(t, k)
  <1>1. /\ y \in Seq(Byte) /\ Len(y) > 2 /\ y[1] \in Byte /\ y[2] \in Byte
        /\ y[1] * Radix + y[2] - SignBit = s
    BY IndexKeyParts, Zenon
  <1>2. /\ x \in Seq(Byte) /\ Len(x) > 2 /\ x[1] \in Byte /\ x[2] \in Byte
        /\ x[1] * Radix + x[2] - SignBit = t
    BY IndexKeyParts, Zenon
  <1>. HIDE DEF x, y
  <1>3. Precedes(y, x)
    BY Zenon DEF x, y
  <1>4. Len(x) \in Nat /\ Len(y) \in Nat
    BY <1>1, <1>2
  <1>5. \/ y[1] < x[1]
        \/ y[1] = x[1] /\ y[2] <= x[2]
    <2>1. CASE Len(y) < Len(x) /\ SubSeq(x, 1, Len(y)) = y
      <3>1. SubSeq(x, 1, Len(y))[1] = x[1] /\ SubSeq(x, 1, Len(y))[2] = x[2]
        BY <1>1, <1>2, <1>4, <2>1
      <3>. QED BY <2>1, <3>1, <1>1, <1>2 DEF Byte
    <2>2. ASSUME NEW i \in 1 .. Len(y), i <= Len(x), y[i] < x[i],
                 SubSeq(y, 1, i - 1) = SubSeq(x, 1, i - 1)
          PROVE  \/ y[1] < x[1]
                 \/ y[1] = x[1] /\ y[2] <= x[2]
      <3>1. CASE i = 1
        BY <2>2, <3>1, Zenon
      <3>2. CASE i = 2
        <4>1. SubSeq(y, 1, 1)[1] = y[1] /\ SubSeq(x, 1, 1)[1] = x[1]
          BY <1>1, <1>2, <1>4
        <4>2. y[1] = x[1]
          BY <4>1, <2>2, <3>2
        <4>. QED BY <4>2, <2>2, <3>2, <1>1, <1>2 DEF Byte
      <3>3. CASE i > 2
        <4>1. /\ SubSeq(y, 1, i - 1)[1] = y[1] /\ SubSeq(x, 1, i - 1)[1] = x[1]
              /\ SubSeq(y, 1, i - 1)[2] = y[2] /\ SubSeq(x, 1, i - 1)[2] = x[2]
          BY <1>1, <1>2, <1>4, <2>2, <3>3
        <4>. QED BY <4>1, <2>2, <1>1, <1>2 DEF Byte
      <3>. QED BY <3>1, <3>2, <3>3, <1>4
    <2>. QED BY <1>3, <2>1, <2>2, Zenon DEF Precedes
  <1>6. CASE y[1] = x[1] /\ y[2] <= x[2]
    <2>1. /\ y[1] * Radix \in Int /\ SignBit \in Int /\ y[2] \in Int /\ x[2] \in Int
          /\ x[1] * Radix = y[1] * Radix
      <3>1. y[1] \in Int /\ Radix \in Int
        BY <1>1, IndexAssumption DEF Byte
      <3>. QED BY <1>1, <1>2, <1>6, <3>1, SignBitHalf DEF Byte
    <2>. QED BY <1>1, <1>2, <1>6, <2>1
  <1>7. CASE y[1] < x[1]
    <2>1. /\ x[1] \in Int /\ y[1] \in Int /\ Radix \in Nat /\ y[2] < Radix /\ 0 <= x[2]
          /\ y[2] \in Int /\ x[2] \in Int /\ SignBit \in Nat
      <3>1. Radix \in Nat /\ SignBit \in Nat
        BY SignBitHalf, IndexAssumption, Zenon
      <3>. DEFINE a == x[1]
                  b == x[2]
                  c == y[1]
                  d == y[2]
      <3>2. a \in Byte /\ b \in Byte /\ c \in Byte /\ d \in Byte
        BY <1>1, <1>2, Zenon
      <3>. HIDE DEF a, b, c, d
      <3>3. a \in Int /\ c \in Int /\ d < Radix /\ 0 <= b /\ d \in Int /\ b \in Int
        BY <3>1, <3>2 DEF Byte
      <3>. QED BY <3>1, <3>3, Zenon DEF a, b, c, d
    <2>2. (y[1] + 1) * Radix <= x[1] * Radix
      <3>1. y[1] + 1 \in Int /\ y[1] + 1 <= x[1]
        BY <2>1, <1>7
      <3>. QED BY <3>1, <2>1, Products, Zenon
    <2>3. (y[1] + 1) * Radix = y[1] * Radix + Radix /\ y[1] * Radix \in Int /\ x[1] * Radix \in Int
      BY <2>1
    <2>. QED BY <1>1, <1>2, <2>1, <2>2, <2>3
  <1>. QED BY <1>5, <1>6, <1>7, Zenon

-----------------------------------------------------------------------------
(* The inductive invariant of the entries *)

USE ValuesAssumption, AbsentAssumption

\* An entry carries the expiry of its meant lifetime, in whole seconds; one
\* that is gone without a delete was due.
Aged(e, h, t) ==
  /\ e # Absent => h # Absent /\ e.expires = UnixOf(h.due)
  /\ e = Absent /\ h # Absent => h.due # Absent /\ UnixOf(h.due) * Ticks <= t

\* The kind of an entry agrees with its text and with its history.
Sound(e, h) ==
  e # Absent =>
    /\ e.value.payload.form = "int" => e.value.payload.n % 2 = 0
    /\ e.value.kind = "Int64" => /\ ParsesInt(e.value.payload)
                                 /\ h.float = FALSE /\ e.value.payload.n = h.exact
    /\ e.value.kind = "Float64" => ParsesFinite(e.value.payload) /\ h.float = TRUE
    /\ e.value.kind = "Utf8" => IsUtf8(e.value.payload)
    /\ e.value.kind = "Json" => h.declared = TRUE \/ e.value.payload.json = TRUE

\* The kind of a value agrees with its text, or its writer declared it.
Agrees(v, declared) ==
  /\ v.payload.form = "int" => v.payload.n % 2 = 0
  /\ v.kind = "Int64" => ParsesInt(v.payload)
  /\ v.kind = "Float64" => ParsesFinite(v.payload)
  /\ v.kind = "Utf8" => IsUtf8(v.payload)
  /\ v.kind = "Json" => declared = TRUE \/ v.payload.json = TRUE

ValuesInv ==
  /\ now \in Int
  /\ data \in [Keys -> Entry \cup {Absent}]
  /\ hist \in [Keys -> History \cup {Absent}]
  /\ \A k \in Keys : Aged(data[k], hist[k], now) /\ Sound(data[k], hist[k])

-----------------------------------------------------------------------------
(* Arithmetic *)

\* A multiple of a spacing no finer than its own is a float already.
LEMMA MultiplesExact ==
  ASSUME NEW a \in Int, NEW s \in {1, 2, 4}, a % s = 0, Spacing(a) <= s
  PROVE  Round(a) = a
  <1>1. Spacing(a) \in {1, 2, 4}
    BY Zenon DEF Spacing
  <1>2. CASE Spacing(a) = 1
    BY <1>2 DEF Round
  <1>3. CASE Spacing(a) = 2
    <2>1. a % 2 = 0
      BY <1>3
    <2>. QED BY <1>3, <2>1 DEF Round
  <1>4. CASE Spacing(a) = 4
    <2>1. a % 4 = 0
      BY <1>4
    <2>. QED BY <1>4, <2>1 DEF Round
  <1>. QED BY <1>1, <1>2, <1>3, <1>4, Zenon

\* Rounding gives a number, and leaves alone what is rounded.
LEMMA RoundRounded ==
  ASSUME NEW a \in Int
  PROVE  Round(a) \in Int /\ Round(Round(a)) = Round(a)
  <1>1. CASE Spacing(a) = 1
    BY <1>1 DEF Round
  <1>2. CASE Spacing(a) = 2
    <2>1. Round(a) \in Int /\ Round(a) % 2 = 0 /\ a - 1 <= Round(a) /\ Round(a) <= a + 1
      BY <1>2 DEF Round
    <2>2. a \in -2 * FloatExact .. 2 * FloatExact
      BY <1>2 DEF Spacing
    <2>3. Round(a) \in -2 * FloatExact .. 2 * FloatExact
      BY <2>1, <2>2
    <2>4. Spacing(Round(a)) <= 2
      BY <2>3 DEF Spacing
    <2>. QED BY <2>1, <2>4, MultiplesExact, Zenon
  <1>3. CASE Spacing(a) = 4
    <2>1. Round(a) \in Int /\ Round(a) % 4 = 0
      BY <1>3 DEF Round
    <2>2. Spacing(Round(a)) <= 4
      BY DEF Spacing
    <2>. QED BY <2>1, <2>2, MultiplesExact, Zenon
  <1>. QED BY <1>1, <1>2, <1>3, Zenon DEF Spacing

\* The seconds of an instant are an integer.
LEMMA UnixTyped ==
  ASSUME NEW i \in Int \cup {Absent}
  PROVE  UnixOf(i) \in Int \cup {Absent} /\ (UnixOf(i) = Absent <=> i = Absent)
  BY DivBounds DEF UnixOf

\* resolve_ttl gives the instant that is meant, unless it is out of range.
LEMMA ResolveDue ==
  ASSUME now \in Int, NEW ttl \in Ttls, NEW default \in DefaultTtls,
         ResolveTtl(ttl, default) # Bad
  PROVE  /\ ResolveTtl(ttl, default) = Due(ttl, default)
         /\ Due(ttl, default) \in Int \cup {Absent}
  BY DEF ResolveTtl, Due

-----------------------------------------------------------------------------
(* Values *)

\* The kind that infer_value_kind gives a body says what the body is.
LEMMA Inferred ==
  ASSUME NEW b \in Body, NEW ct \in {"json", "text", Absent},
         InferStoredValue(b, ct) # Bad
  PROVE  LET v == InferStoredValue(b, ct)
         IN /\ v \in Value /\ v.payload = b
            /\ v.kind = "Int64" => ParsesInt(b)
            /\ v.kind = "Float64" => ParsesFinite(b)
            /\ v.kind = "Utf8" => IsUtf8(b)
            /\ v.kind = "Json" => ct = "json" \/ b.json = TRUE
  <1>1. InferValueKind(b, ct) \in Kinds
    BY Zenon DEF InferValueKind, Kinds
  <1>2. InferStoredValue(b, ct) = [payload |-> b, kind |-> InferValueKind(b, ct)]
    BY Zenon DEF InferStoredValue
  <1>3. b.json \in BOOLEAN
    BY Zenon DEF Body
  <1>4. /\ InferValueKind(b, ct) = "Int64" => ParsesInt(b)
        /\ InferValueKind(b, ct) = "Float64" => ParsesFinite(b)
        /\ InferValueKind(b, ct) = "Utf8" => IsUtf8(b)
        /\ InferValueKind(b, ct) = "Json" => ct = "json" \/ b.json = TRUE
    BY <1>3, Zenon DEF InferValueKind
  <1>. QED BY <1>1, <1>2, <1>4 DEF Value

\* A write of a value that is sound with its new history keeps the invariant.
LEMMA StoreKeeps ==
  ASSUME ValuesInv, NEW k \in Keys, NEW v \in Value, NEW h \in History,
         Store(k, v, h.due), hist' = [hist EXCEPT ![k] = h],
         Sound([value |-> v, expires |-> UnixOf(h.due)], h)
  PROVE  ValuesInv'
  <1> DEFINE e == [value |-> v, expires |-> UnixOf(h.due)]
  <1>1. e \in Entry /\ e # Absent /\ h # Absent
    <2>1. h.due \in Int \cup {Absent}
      BY Zenon DEF History
    <2>2. UnixOf(h.due) \in Int \cup {Absent}
      BY <2>1, UnixTyped, Zenon
    <2>3. e \in Entry
      BY <2>2, Zenon DEF Entry
    <2>. QED BY <2>3, Zenon
  <1>2. data' = [data EXCEPT ![k] = e] /\ now' = now
    BY Zenon DEF Store
  <1>3. /\ now' \in Int
        /\ data' \in [Keys -> Entry \cup {Absent}]
        /\ hist' \in [Keys -> History \cup {Absent}]
    BY <1>1, <1>2, Zenon DEF ValuesInv
  <1>4. Aged(e, h, now) /\ Sound(e, h)
    BY <1>1, Zenon DEF Aged
  <1>5. ASSUME NEW j \in Keys PROVE Aged(data'[j], hist'[j], now') /\ Sound(data'[j], hist'[j])
    <2>1. CASE j = k
      <3>1. data'[j] = e /\ hist'[j] = h
        BY <1>2, <2>1, Zenon DEF ValuesInv
      <3>. QED BY <1>2, <1>4, <3>1, Zenon
    <2>2. CASE j # k
      <3>1. data'[j] = data[j] /\ hist'[j] = hist[j]
        BY <1>2, <2>2, Zenon DEF ValuesInv
      <3>. QED BY <1>2, <3>1, Zenon DEF ValuesInv
    <2>. QED BY <2>1, <2>2, Zenon
  <1>. QED BY <1>3, <1>5, Zenon DEF ValuesInv

\* KeyService::set with a value whose kind says what its text is.
LEMMA SetKeeps ==
  ASSUME ValuesInv, NEW k \in Keys, NEW v \in Value, NEW declared \in BOOLEAN,
         NEW ttl \in Ttls, NEW default \in DefaultTtls,
         SetValue(k, v, declared, ttl, default), Agrees(v, declared)
  PROVE  ValuesInv'
  <1> DEFINE h == [exact |-> IF v.kind = "Int64" THEN v.payload.n ELSE 0,
                   float |-> v.kind = "Float64", declared |-> declared,
                   due |-> Due(ttl, default)]
  <1>1. now \in Int
    BY Zenon DEF ValuesInv
  <1>2. ResolveTtl(ttl, default) = Due(ttl, default) /\ Due(ttl, default) \in Int \cup {Absent}
    BY <1>1, ResolveDue, Zenon DEF SetValue
  <1>3. v.payload.n \in Int
    BY Zenon DEF Value, Body
  <1>4. h \in History
    BY <1>2, <1>3 DEF History
  <1>5. Store(k, v, h.due) /\ hist' = [hist EXCEPT ![k] = h]
    BY <1>2, Zenon DEF SetValue
  <1>6. Sound([value |-> v, expires |-> UnixOf(h.due)], h)
    BY Zenon DEF Sound, Agrees
  <1>. QED BY <1>4, <1>5, <1>6, StoreKeeps, Zenon

-----------------------------------------------------------------------------
(* Counters *)

\* What a PATCH body or a stored value gives is a counter, its integers whole.
LEMMA ParsedCounter ==
  ASSUME NEW b \in Body, b.form = "int" => b.n % 2 = 0, ParseOp(b) # Bad
  PROVE  /\ ParseOp(b) \in Counters
         /\ ParseOp(b).type = "Int" => ParseOp(b).n % 2 = 0
  <1>1. b.n \in Int /\ Round(b.n) \in Int
    BY RoundRounded, Zenon DEF Body
  <1>2. ParsesInt(b) => b.n % 2 = 0
    BY Zenon DEF ParsesInt
  <1>. QED BY <1>1, <1>2, Zenon DEF ParseOp, Counter, Counters

\* A stored number is read as the counter it was.
LEMMA StoredCounter ==
  ASSUME NEW v \in Value, v.payload.form = "int" => v.payload.n % 2 = 0, FromStored(v) # Bad
  PROVE  /\ FromStored(v) \in Counters
         /\ FromStored(v).type = "Int" =>
              v.kind = "Int64" /\ FromStored(v).n = v.payload.n /\ v.payload.n % 2 = 0
         /\ FromStored(v).type = "Float" => v.kind = "Float64"
  <1>1. v.payload.n \in Int /\ Round(v.payload.n) \in Int
    BY RoundRounded, Zenon DEF Value, Body
  <1>2. ParsesInt(v.payload) => v.payload.n % 2 = 0
    BY Zenon DEF ParsesInt
  <1>. QED BY <1>1, <1>2, Zenon DEF FromStored, Counter, Counters

\* A sum is exact, or a finite float that rounding leaves alone.
LEMMA AppliedCounter ==
  ASSUME NEW a \in Counters, NEW c \in Counters, Apply(a, c) # Bad,
         a.type = "Int" => a.n % 2 = 0, c.type = "Int" => c.n % 2 = 0
  PROVE  /\ Apply(a, c) \in Counters
         /\ IF a.type = "Int" /\ c.type = "Int"
            THEN /\ Apply(a, c).type = "Int" /\ Apply(a, c).n = a.n + c.n
                 /\ a.n + c.n \in MinInt .. MaxInt /\ (a.n + c.n) % 2 = 0
            ELSE /\ Apply(a, c).type = "Float" /\ Finite(Apply(a, c).n)
                 /\ Round(Apply(a, c).n) = Apply(a, c).n
  <1>1. a.n \in Int /\ c.n \in Int /\ a.type \in {"Int", "Float"} /\ c.type \in {"Int", "Float"}
    BY Zenon DEF Counters
  <1>2. CASE a.type = "Int" /\ c.type = "Int"
    <2>1. (a.n + c.n) % 2 = 0
      BY <1>1, <1>2
    <2>. QED BY <1>1, <1>2, <2>1 DEF Apply, Counter, Counters
  <1>3. CASE ~(a.type = "Int" /\ c.type = "Int")
    <2> DEFINE x == Round(Round(a.n) + Round(c.n))
    <2>1. Round(a.n) + Round(c.n) \in Int
      BY <1>1, RoundRounded
    <2>2. x \in Int /\ Round(x) = x
      BY <2>1, RoundRounded, Zenon
    <2>3. Apply(a, c) = FloatResult(x)
      BY <1>3, Zenon DEF Apply
    <2>. HIDE DEF x
    <2>4. Finite(x) /\ Apply(a, c) = Counter("Float", x)
      BY <2>3, Zenon DEF FloatResult
    <2>. QED BY <1>3, <2>2, <2>4 DEF Counter, Counters
  <1>. QED BY <1>2, <1>3, Zenon

\* The stored form of a counter is a value that parses back to it.
LEMMA StoredForm ==
  ASSUME NEW c \in Counters,
         c.type = "Int" => c.n \in MinInt .. MaxInt /\ c.n % 2 = 0,
         c.type = "Float" => Finite(c.n) /\ Round(c.n) = c.n
  PROVE  LET v == IntoStored(c)
         IN /\ v \in Value
            /\ v.payload.form = "int" => v.payload.n % 2 = 0
            /\ v.payload.n = c.n
            /\ v.kind = IF c.type = "Int" THEN "Int64" ELSE "Float64"
            /\ IF c.type = "Int" THEN ParsesInt(v.payload) ELSE ParsesFinite(v.payload)
  <1>1. c.n \in Int /\ c.type \in {"Int", "Float"}
    BY Zenon DEF Counters
  <1>2. Numeral(c.n) \in Body
    BY <1>1 DEF Numeral, Body
  <1>3. /\ Numeral(c.n).n = c.n
        /\ Numeral(c.n).form \in {"int", "float"}
        /\ Numeral(c.n).form = "int" <=> c.n % 2 = 0
    BY Zenon DEF Numeral
  <1>4. /\ IntoStored(c).payload = Numeral(c.n)
        /\ IntoStored(c).kind = IF c.type = "Int" THEN "Int64" ELSE "Float64"
        /\ IntoStored(c) \in Value
    BY <1>2, Zenon DEF IntoStored, Value, Kinds
  <1>. QED BY <1>1, <1>3, <1>4, Zenon DEF ParsesInt, ParsesFinite

-----------------------------------------------------------------------------
(* Every step keeps the invariant *)

\* FjallStore::increment: the new entry is sound with the history it extends.
LEMMA IncrementKeeps ==
  ASSUME ValuesInv, NEW k \in Keys, Increment(k)
  PROVE  ValuesInv'
  <1> DEFINE current == IF Live(k) THEN FromStored(data[k].value) ELSE Counter("Int", 0)
             past    == IF Live(k) THEN hist[k] ELSE [exact |-> 0, float |-> FALSE]
  <1>1. PICK b \in Bodies, ttl \in Ttls, default \in DefaultTtls :
          /\ ParseOp(b) # Bad /\ ResolveTtl(ttl, default) # Bad /\ current # Bad
          /\ Apply(ParseOp(b), current) # Bad
          /\ Store(k, IntoStored(Apply(ParseOp(b), current)), ResolveTtl(ttl, default))
          /\ hist' = [hist EXCEPT ![k] =
               [exact |-> IF past.float \/ ParseOp(b).type = "Float" THEN 0
                          ELSE past.exact + ParseOp(b).n,
                float |-> past.float \/ ParseOp(b).type = "Float",
                declared |-> FALSE, due |-> Due(ttl, default)]]
    BY Zenon DEF Increment
  <1> DEFINE op  == ParseOp(b)
             new == Apply(op, current)
             h   == [exact |-> IF past.float \/ op.type = "Float" THEN 0 ELSE past.exact + op.n,
                     float |-> past.float \/ op.type = "Float",
                     declared |-> FALSE, due |-> Due(ttl, default)]
  <1>2. op \in Counters /\ (op.type = "Int" => op.n % 2 = 0)
    BY <1>1, ParsedCounter, Zenon
  <1>3. /\ current \in Counters
        /\ current.type = "Int" => current.n % 2 = 0 /\ past.float = FALSE /\ current.n = past.exact
        /\ current.type = "Float" => past.float = TRUE
    <2>1. CASE Live(k)
      <3>1. data[k] # Absent /\ data[k] \in Entry \cup {Absent} /\ Sound(data[k], hist[k])
        BY <2>1, Zenon DEF ValuesInv, Live
      <3>2. data[k].value \in Value
        BY <3>1, Zenon DEF Entry
      <3>3. current = FromStored(data[k].value) /\ past = hist[k] /\ FromStored(data[k].value) # Bad
        BY <1>1, <2>1, Zenon
      <3>4. data[k].value.payload.form = "int" => data[k].value.payload.n % 2 = 0
        BY <3>1, Zenon DEF Sound
      <3>. HIDE DEF current, past
      <3>5. /\ current \in Counters
            /\ current.type = "Int" => /\ data[k].value.kind = "Int64" /\ current.n % 2 = 0
                                       /\ current.n = data[k].value.payload.n
            /\ current.type = "Float" => data[k].value.kind = "Float64"
        BY <3>2, <3>3, <3>4, StoredCounter, Zenon
      <3>6. /\ data[k].value.kind = "Int64" => past.float = FALSE /\ data[k].value.payload.n = past.exact
            /\ data[k].value.kind = "Float64" => past.float = TRUE
        BY <3>1, <3>3, Zenon DEF Sound
      <3>. QED BY <3>5, <3>6, Zenon
    <2>2. CASE ~Live(k)
      BY <2>2 DEF Counter, Counters
    <2>. QED BY <2>1, <2>2, Zenon
  <1>. HIDE DEF current, past
  <1>4. ParseOp(b) # Bad /\ Apply(ParseOp(b), current) # Bad
    BY <1>1, Zenon
  <1>. HIDE DEF op
  <1>5. /\ new \in Counters
        /\ IF op.type = "Int" /\ current.type = "Int"
           THEN /\ new.type = "Int" /\ new.n = op.n + current.n
                /\ op.n + current.n \in MinInt .. MaxInt /\ (op.n + current.n) % 2 = 0
           ELSE new.type = "Float" /\ Finite(new.n) /\ Round(new.n) = new.n
    BY <1>2, <1>3, <1>4, AppliedCounter, Zenon DEF op
  <1>. HIDE DEF new
  <1>6. /\ op.type \in {"Int", "Float"} /\ current.type \in {"Int", "Float"}
        /\ op.n \in Int /\ current.n \in Int
    BY <1>2, <1>3, Zenon DEF Counters
  <1>7. /\ new.type = "Int" => new.n \in MinInt .. MaxInt /\ new.n % 2 = 0
        /\ new.type = "Float" => Finite(new.n) /\ Round(new.n) = new.n
    BY <1>5, <1>6, Zenon
  <1>8. /\ IntoStored(new) \in Value
        /\ IntoStored(new).payload.form = "int" => IntoStored(new).payload.n % 2 = 0
        /\ IntoStored(new).payload.n = new.n
        /\ IntoStored(new).kind = IF new.type = "Int" THEN "Int64" ELSE "Float64"
        /\ IF new.type = "Int" THEN ParsesInt(IntoStored(new).payload)
           ELSE ParsesFinite(IntoStored(new).payload)
    BY <1>5, <1>7, StoredForm, Zenon
  <1>9. now \in Int
    BY Zenon DEF ValuesInv
  <1>10. ResolveTtl(ttl, default) = Due(ttl, default) /\ Due(ttl, default) \in Int \cup {Absent}
    BY <1>1, <1>9, ResolveDue, Zenon
  <1>11. /\ h.exact \in Int /\ h.float \in BOOLEAN
         /\ new.type = "Int" => h.float = FALSE /\ new.n = h.exact
         /\ new.type = "Float" => h.float = TRUE
    <2>1. CASE op.type = "Int" /\ current.type = "Int"
      <3>1. past.float = FALSE /\ current.n = past.exact
        BY <1>3, <2>1, Zenon
      <3>2. h.float = FALSE /\ h.exact = past.exact + op.n
        BY <2>1, <3>1, Zenon
      <3>3. new.type = "Int" /\ new.n = op.n + current.n
        BY <1>5, <2>1, Zenon
      <3>. HIDE DEF h
      <3>4. h.float \in BOOLEAN
        BY <3>2, Zenon
      <3>5. h.exact \in Int /\ new.n = h.exact
        BY <1>6, <3>1, <3>2, <3>3
      <3>6. new.type # "Float"
        BY <3>3, Zenon
      <3>. QED BY <3>2, <3>4, <3>5, <3>6, Zenon
    <2>2. CASE ~(op.type = "Int" /\ current.type = "Int")
      <3>1. op.type = "Float" \/ past.float = TRUE
        BY <1>3, <1>6, <2>2, Zenon
      <3>2. h.float = TRUE /\ h.exact = 0
        BY <3>1, Zenon
      <3>3. new.type = "Float"
        BY <1>5, <2>2, Zenon
      <3>. HIDE DEF h
      <3>4. h.float \in BOOLEAN
        BY <3>2, Zenon
      <3>5. h.exact \in Int
        BY <3>2
      <3>6. new.type # "Int"
        BY <3>3, Zenon
      <3>. QED BY <3>2, <3>4, <3>5, <3>6, Zenon
    <2>. QED BY <2>1, <2>2, Zenon
  <1>12. h \in History
    BY <1>10, <1>11, Zenon DEF History
  <1>13. Store(k, IntoStored(new), h.due) /\ hist' = [hist EXCEPT ![k] = h]
    BY <1>1, <1>10, Zenon DEF new, op
  <1>. HIDE DEF h
  <1>14. new.type \in {"Int", "Float"}
    BY <1>5, <1>6, Zenon
  <1>15. Sound([value |-> IntoStored(new), expires |-> UnixOf(h.due)], h)
    BY <1>8, <1>11, <1>14, Zenon DEF Sound
  <1>. QED BY <1>8, <1>12, <1>13, <1>15, StoreKeeps, Zenon

\* There are no entries.
LEMMA InitEstablishes == Init => ValuesInv
  BY Zenon DEF Init, ValuesInv, Aged, Sound

\* Reading what was stored and storing it again.
LEMMA PutBackKeeps ==
  ASSUME ValuesInv, NEW k \in Keys, PutBack(k)
  PROVE  ValuesInv'
  <1>1. PICK ttl \in Ttls, default \in DefaultTtls :
          /\ Live(k)
          /\ SetValue(k, InferStoredValue(data[k].value.payload, ContentTypeForKind(data[k].value.kind)),
                      hist[k].declared, ttl, default)
    BY Zenon DEF PutBack
  <1> DEFINE old == data[k].value
             ct  == ContentTypeForKind(old.kind)
             v   == InferStoredValue(old.payload, ct)
  <1>2. /\ data[k] # Absent /\ data[k] \in Entry /\ hist[k] # Absent /\ hist[k] \in History
        /\ Sound(data[k], hist[k])
    BY <1>1, Zenon DEF ValuesInv, Live, Aged
  <1>3. old \in Value
    BY <1>2, Zenon DEF Entry
  <1>4. old.payload \in Body /\ old.kind \in Kinds
    BY <1>3, Zenon DEF Value
  <1>5. ct \in {"json", "text", Absent} /\ (ct = "json" <=> old.kind = "Json")
    BY <1>4, Zenon DEF ContentTypeForKind, Kinds
  <1>6. hist[k].declared \in BOOLEAN
    BY <1>2, Zenon DEF History
  <1>7. /\ old.payload.form = "int" => old.payload.n % 2 = 0
        /\ old.kind = "Json" => hist[k].declared = TRUE \/ old.payload.json = TRUE
    BY <1>2, Zenon DEF Sound
  <1>8. v # Bad /\ SetValue(k, v, hist[k].declared, ttl, default)
    BY <1>1, Zenon DEF SetValue
  <1>. HIDE DEF old, ct
  <1>9. /\ v \in Value /\ v.payload = old.payload
        /\ v.kind = "Int64" => ParsesInt(old.payload)
        /\ v.kind = "Float64" => ParsesFinite(old.payload)
        /\ v.kind = "Utf8" => IsUtf8(old.payload)
        /\ v.kind = "Json" => ct = "json" \/ old.payload.json = TRUE
    BY <1>4, <1>5, <1>8, Inferred, Zenon
  <1>. HIDE DEF v
  <1>10. Agrees(v, hist[k].declared)
    BY <1>5, <1>7, <1>9, Zenon DEF Agrees
  <1>11. v \in Value /\ SetValue(k, v, hist[k].declared, ttl, default)
    BY <1>8, <1>9, Zenon
  <1>12. PICK w \in Value, d \in BOOLEAN : SetValue(k, w, d, ttl, default) /\ Agrees(w, d)
    BY <1>6, <1>10, <1>11, Zenon
  <1>. QED BY <1>12, SetKeeps

\* put_key
LEMMA PutKeeps ==
  ASSUME ValuesInv, NEW k \in Keys, Put(k)
  PROVE  ValuesInv'
  <1>1. PICK b \in Bodies, ct \in ContentTypes, ttl \in Ttls, default \in DefaultTtls :
          SetValue(k, InferStoredValue(b, ct), ct = "json", ttl, default)
    BY Zenon DEF Put
  <1> DEFINE v == InferStoredValue(b, ct)
  <1>2. b \in Body /\ ct \in {"json", "text", Absent} /\ (b.form = "int" => b.n % 2 = 0)
    BY Zenon
  <1>3. v # Bad /\ SetValue(k, v, ct = "json", ttl, default)
    BY <1>1, Zenon DEF SetValue
  <1>4. /\ v \in Value /\ v.payload = b
        /\ v.kind = "Int64" => ParsesInt(b)
        /\ v.kind = "Float64" => ParsesFinite(b)
        /\ v.kind = "Utf8" => IsUtf8(b)
        /\ v.kind = "Json" => ct = "json" \/ b.json = TRUE
    BY <1>2, <1>3, Inferred, Zenon
  <1>. HIDE DEF v
  <1>5. Agrees(v, ct = "json")
    BY <1>2, <1>4, Zenon DEF Agrees
  <1>6. (ct = "json") \in BOOLEAN
    BY Zenon
  <1>. QED BY <1>3, <1>4, <1>5, <1>6, SetKeeps, Zenon

\* execute_txn with one set
LEMMA TxnSetKeeps ==
  ASSUME ValuesInv, NEW k \in Keys, TxnSet(k)
  PROVE  ValuesInv'
  <1>1. PICK b \in Bodies, j \in JsonKinds, ttl \in Ttls, default \in DefaultTtls :
          /\ j = "other" => b.json /\ b.plain
          /\ SetValue(k, TxnValue(j, b), FALSE, ttl, default)
    BY Zenon DEF TxnSet
  <1> DEFINE ct == IF j = "string" THEN Absent ELSE "json"
             v  == InferStoredValue(b, ct)
  <1>2. b \in Body /\ ct \in {"json", "text", Absent} /\ (b.form = "int" => b.n % 2 = 0)
    BY Zenon
  <1>3. TxnValue(j, b) # Bad
    BY <1>1, Zenon DEF SetValue
  <1>4. TxnValue(j, b) = v /\ (ct = "json" => j = "other")
    BY <1>3, Zenon DEF TxnValue, JsonKinds
  <1>5. b.json \in BOOLEAN
    BY <1>2, Zenon DEF Body
  <1>6. ct = "json" => b.json = TRUE
    BY <1>1, <1>4, <1>5, Zenon
  <1>. HIDE DEF ct, v
  <1>7. v # Bad /\ SetValue(k, v, FALSE, ttl, default)
    BY <1>1, <1>3, <1>4, Zenon
  <1>8. /\ v \in Value /\ v.payload = b
        /\ v.kind = "Int64" => ParsesInt(b)
        /\ v.kind = "Float64" => ParsesFinite(b)
        /\ v.kind = "Utf8" => IsUtf8(b)
        /\ v.kind = "Json" => ct = "json" \/ b.json = TRUE
    BY <1>2, <1>7, Inferred, Zenon DEF v
  <1>9. Agrees(v, FALSE)
    BY <1>2, <1>6, <1>8, Zenon DEF Agrees
  <1>. QED BY <1>7, <1>8, <1>9, SetKeeps, Zenon

\* Time only makes more of what is gone due.
LEMMA TickKeeps ==
  ASSUME ValuesInv, Tick
  PROVE  ValuesInv'
  <1>1. now \in Int /\ now' = now + 1 /\ data' = data /\ hist' = hist
    BY Zenon DEF ValuesInv, Tick
  <1>2. ASSUME NEW k \in Keys PROVE Aged(data[k], hist[k], now + 1)
    <2>1. Aged(data[k], hist[k], now) /\ hist[k] \in History \cup {Absent}
      BY Zenon DEF ValuesInv
    <2>2. CASE data[k] = Absent /\ hist[k] # Absent
      <3>1. hist[k].due # Absent /\ UnixOf(hist[k].due) * Ticks <= now
        BY <2>1, <2>2, Zenon DEF Aged
      <3>2. hist[k].due \in Int
        BY <2>1, <2>2, <3>1, Zenon DEF History
      <3>3. UnixOf(hist[k].due) \in Int
        BY <3>2, DivBounds, Zenon DEF UnixOf
      <3>4. UnixOf(hist[k].due) * Ticks \in Int
        BY <3>3
      <3>5. UnixOf(hist[k].due) * Ticks <= now + 1
        BY <1>1, <3>1, <3>4
      <3>. QED BY <2>2, <3>1, <3>5, Zenon DEF Aged
    <2>3. CASE ~(data[k] = Absent /\ hist[k] # Absent)
      BY <2>1, <2>3, Zenon DEF Aged
    <2>. QED BY <2>2, <2>3, Zenon
  <1>. QED BY <1>1, <1>2 DEF ValuesInv

\* delete_key forgets the value and its history.
LEMMA DeleteKeeps ==
  ASSUME ValuesInv, NEW k \in Keys, Delete(k)
  PROVE  ValuesInv'
  <1>1. ASSUME NEW j \in Keys PROVE Aged(data'[j], hist'[j], now') /\ Sound(data'[j], hist'[j])
    <2>1. CASE j = k
      <3>1. data'[j] = Absent /\ hist'[j] = Absent
        BY <2>1, Zenon DEF ValuesInv, Delete
      <3>. QED BY <3>1, Zenon DEF Aged, Sound
    <2>2. CASE j # k
      <3>1. data'[j] = data[j] /\ hist'[j] = hist[j] /\ now' = now
        BY <2>2, Zenon DEF ValuesInv, Delete
      <3>. QED BY <3>1, Zenon DEF ValuesInv
    <2>. QED BY <2>1, <2>2, Zenon
  <1>. QED BY <1>1, Zenon DEF ValuesInv, Delete

\* sweep_keyspace removes only what has expired.
LEMMA SweepKeeps ==
  ASSUME ValuesInv, Sweep
  PROVE  ValuesInv'
  <1>1. now' = now /\ hist' = hist
    BY Zenon DEF Sweep
  <1>2. ASSUME NEW k \in Keys
        PROVE  data'[k] = data[k] \/ (data'[k] = Absent /\ data[k] # Absent /\ Expired(data[k]))
    BY Zenon DEF Sweep
  <1>3. data' \in [Keys -> Entry \cup {Absent}]
    <2>1. DOMAIN data' = Keys /\ data' = [k \in Keys |-> data'[k]]
      BY Zenon DEF Sweep
    <2>2. \A k \in Keys : data'[k] \in Entry \cup {Absent}
      BY <1>2, Zenon DEF ValuesInv
    <2>. QED BY <2>1, <2>2, Zenon
  <1>4. ASSUME NEW k \in Keys PROVE Aged(data'[k], hist'[k], now') /\ Sound(data'[k], hist'[k])
    <2>1. Aged(data[k], hist[k], now) /\ Sound(data[k], hist[k])
      BY Zenon DEF ValuesInv
    <2>2. CASE data'[k] = data[k]
      BY <1>1, <2>1, <2>2, Zenon
    <2>3. CASE data'[k] = Absent /\ data[k] # Absent /\ Expired(data[k])
      <3>1. /\ hist[k] # Absent /\ data[k].expires = UnixOf(hist[k].due)
            /\ data[k].expires # Absent /\ data[k].expires * Ticks <= now
        BY <2>1, <2>3, Zenon DEF Aged, Expired
      <3>2. hist[k].due # Absent
        BY <3>1, Zenon DEF UnixOf
      <3>. QED BY <1>1, <2>3, <3>1, <3>2, Zenon DEF Aged, Sound
    <2>. QED BY <1>2, <2>2, <2>3, Zenon
  <1>. QED BY <1>1, <1>3, <1>4, Zenon DEF ValuesInv

\* The invariant holds throughout: entries carry the expiry that was meant for
\* them, and kinds, texts and histories agree.
THEOREM ValuesInvariant == Spec => []ValuesInv
  <1>1. ValuesInv /\ [Next]_vars => ValuesInv'
    <2>. SUFFICES ASSUME ValuesInv, [Next]_vars PROVE ValuesInv'
      BY Zenon
    <2>1. CASE Tick
      BY <2>1, TickKeeps, Zenon
    <2>2. CASE Sweep
      BY <2>2, SweepKeeps, Zenon
    <2>3. ASSUME NEW k \in Keys, Put(k) PROVE ValuesInv'
      BY <2>3, PutKeeps, Zenon
    <2>4. ASSUME NEW k \in Keys, PutBack(k) PROVE ValuesInv'
      BY <2>4, PutBackKeeps, Zenon
    <2>5. ASSUME NEW k \in Keys, TxnSet(k) PROVE ValuesInv'
      BY <2>5, TxnSetKeeps
    <2>6. ASSUME NEW k \in Keys, Increment(k) PROVE ValuesInv'
      BY <2>6, IncrementKeeps
    <2>7. ASSUME NEW k \in Keys, Delete(k) PROVE ValuesInv'
      BY <2>7, DeleteKeeps
    <2>8. CASE UNCHANGED vars
      BY <2>8, Zenon DEF ValuesInv, vars
    <2>. QED BY <2>1, <2>2, <2>3, <2>4, <2>5, <2>6, <2>7, <2>8, Zenon DEF Next
  <1>. QED BY <1>1, InitEstablishes, PTL DEF Spec

-----------------------------------------------------------------------------
(* What follows from it *)

\* No entry is served at or after the end of its TTL, and none is gone a whole
\* second before, whatever resolve_ttl, encode_entry and the sweeper do.
THEOREM LifetimesHonoured == Spec => []LifetimeHonoured
  <1>1. ValuesInv => LifetimeHonoured
    <2>. SUFFICES ASSUME ValuesInv, NEW k \in Keys
                  PROVE  /\ Live(k) => hist[k] # Absent /\ (hist[k].due = Absent \/ now < hist[k].due)
                         /\ hist[k] # Absent /\ ~Live(k) => hist[k].due # Absent /\ hist[k].due - Ticks < now
      BY Zenon DEF LifetimeHonoured
    <2>1. /\ now \in Int /\ Aged(data[k], hist[k], now)
          /\ hist[k] \in History \cup {Absent}
      BY Zenon DEF ValuesInv
    <2>2. hist[k] # Absent => hist[k].due \in Int \cup {Absent}
      BY <2>1, Zenon DEF History
    <2> DEFINE secs == hist[k].due \div Ticks
    <2>3. ASSUME hist[k].due \in Int
          PROVE  /\ UnixOf(hist[k].due) = secs /\ secs * Ticks \in Int
                 /\ secs # Absent
                 /\ secs * Ticks <= hist[k].due /\ hist[k].due - Ticks < secs * Ticks
      <3>1. /\ secs \in Int /\ secs * Ticks <= hist[k].due
            /\ hist[k].due < secs * Ticks + Ticks
        BY <2>3, DivBounds, Zenon
      <3>2. UnixOf(hist[k].due) = secs
        BY <2>3, Zenon DEF UnixOf
      <3>. HIDE DEF secs
      <3>3. secs * Ticks \in Int
        BY <3>1
      <3>. QED BY <2>3, <3>1, <3>2, <3>3
    <2>. HIDE DEF secs
    <2>4. CASE Live(k)
      <3>1. /\ hist[k] # Absent /\ data[k].expires = UnixOf(hist[k].due)
            /\ data[k].expires = Absent \/ ~(data[k].expires * Ticks <= now)
        BY <2>1, <2>4, Zenon DEF Aged, Live, Expired
      <3>2. CASE hist[k].due = Absent
        BY <2>4, <3>1, <3>2, Zenon
      <3>3. CASE hist[k].due \in Int
        <4>1. ~(secs * Ticks <= now)
          BY <2>3, <3>1, <3>3, Zenon
        <4>2. now < hist[k].due
          BY <2>1, <2>3, <3>3, <4>1
        <4>. QED BY <2>4, <3>1, <4>2, Zenon
      <3>. QED BY <2>2, <3>1, <3>2, <3>3, Zenon
    <2>5. CASE hist[k] # Absent /\ ~Live(k)
      <3>1. hist[k].due # Absent /\ UnixOf(hist[k].due) * Ticks <= now
        BY <2>1, <2>5, Zenon DEF Aged, Live, Expired, UnixOf
      <3>2. hist[k].due \in Int
        BY <2>2, <2>5, <3>1, Zenon
      <3>3. hist[k].due - Ticks < now
        BY <2>1, <2>3, <3>1, <3>2
      <3>. QED BY <2>5, <3>1, <3>3, Zenon
    <2>. QED BY <2>4, <2>5, Zenon
  <1>. QED BY <1>1, ValuesInvariant, PTL

\* An integer counter is the exact sum of the deltas accepted since its key was
\* last set or expired, and a counter that met a float stays a float.
THEOREM CountersAreFaithful == Spec => []CountersFaithful
  <1>1. ValuesInv => CountersFaithful
    <2>. SUFFICES ASSUME ValuesInv, NEW k \in Keys, Live(k),
                         data[k].value.kind \in {"Int64", "Float64"}
                  PROVE  IF hist[k].float THEN data[k].value.kind = "Float64"
                         ELSE data[k].value.kind = "Int64" /\ data[k].value.payload.n = hist[k].exact
      BY Zenon DEF CountersFaithful
    <2>1. Sound(data[k], hist[k]) /\ data[k] # Absent
      BY Zenon DEF ValuesInv, Live
    <2>2. CASE data[k].value.kind = "Int64"
      <3>1. hist[k].float = FALSE /\ data[k].value.payload.n = hist[k].exact
        BY <2>1, <2>2, Zenon DEF Sound
      <3>. QED BY <2>2, <3>1, Zenon
    <2>3. CASE data[k].value.kind = "Float64"
      <3>1. hist[k].float = TRUE
        BY <2>1, <2>3, Zenon DEF Sound
      <3>. QED BY <2>3, <3>1, Zenon
    <2>. QED BY <2>2, <2>3, Zenon
  <1>. QED BY <1>1, ValuesInvariant, PTL

\* Every kind the server infers is one it can read back: only JSON that its
\* writer declared, or that white space surrounds, can fail a listing.
THEOREM KindsAreReadBack == Spec => []KindsReadBack
  <1>1. ASSUME ValuesInv, NEW k \in Keys, data[k] # Absent
        PROVE  /\ data[k].value.kind \in {"Int64", "Float64"} => FromStored(data[k].value) # Bad
               /\ ~RendersAsJson(data[k].value) =>
                    /\ data[k].value.kind = "Json"
                    /\ hist[k].declared \/ ~data[k].value.payload.plain
    <2>1. Sound(data[k], hist[k]) /\ data[k] \in Entry
      BY <1>1, Zenon DEF ValuesInv
    <2> DEFINE v == data[k].value
    <2>2. v \in Value
      BY <2>1, Zenon DEF Entry
    <2>3. v.payload.n \in Int /\ Round(v.payload.n) \in Int /\ v.kind \in Kinds
      BY <2>2, RoundRounded, Zenon DEF Value, Body
    <2>4. /\ v.kind = "Int64" => ParsesInt(v.payload)
          /\ v.kind = "Float64" => ParsesFinite(v.payload)
          /\ v.kind = "Utf8" => IsUtf8(v.payload)
          /\ v.kind = "Json" => hist[k].declared = TRUE \/ v.payload.json = TRUE
      BY <1>1, <2>1, Zenon DEF Sound
    <2>. HIDE DEF v
    <2>5. v.kind \in {"Int64", "Float64"} => FromStored(v) # Bad
      <3>1. ASSUME NEW t \in {"Int", "Float"}, NEW n \in Int PROVE Counter(t, n) # Bad
        <4>1. Counter(t, n) \in Counters
          BY Zenon DEF Counter, Counters
        <4>. QED BY <4>1, Zenon
      <3>. QED BY <2>3, <2>4, <3>1, Zenon DEF FromStored
    <2>6. v.kind # "Json" => RendersAsJson(v)
      BY <2>3, <2>4, Zenon DEF RendersAsJson, Kinds
    <2>7. v.kind = "Json" /\ ~RendersAsJson(v) => hist[k].declared \/ ~v.payload.plain
      <3>1. v.kind = "Json" => (RendersAsJson(v) <=> (v.payload.json /\ v.payload.plain))
        BY Zenon DEF RendersAsJson
      <3>. QED BY <2>4, <3>1, Zenon
    <2>. QED BY <2>5, <2>6, <2>7, Zenon DEF v
  <1>2. ASSUME NEW format \in {Absent, "text", "json", "jsonl"},
               NEW accept \in SUBSET {"json", "ndjson", "text"}
        PROVE  LET fmt == ResolveListFormat(format, accept)
               IN /\ fmt \in {"text", "json", "jsonl"}
                  /\ fmt # "text" =>
                       format # "text" /\ (format = Absent => accept \cap {"json", "ndjson"} # {})
    BY Zenon DEF ResolveListFormat
  <1>3. ASSUME ValuesInv, NEW format \in {Absent, "text", "json", "jsonl"},
               NEW accept \in SUBSET {"json", "ndjson", "text"}
        PROVE  /\ ListStatus(format, accept, FALSE) = 200
               /\ ListStatus(format, accept, TRUE) # 200 =>
                    /\ format # "text" /\ (format = Absent => accept \cap {"json", "ndjson"} # {})
                    /\ \E k \in Keys :
                         /\ Live(k) /\ data[k].value.kind = "Json"
                         /\ hist[k].declared \/ ~data[k].value.payload.plain
    <2> DEFINE fmt == ResolveListFormat(format, accept)
               values == {data[k].value : k \in {x \in Keys : Live(x)}}
    <2>1. /\ fmt \in {"text", "json", "jsonl"}
          /\ fmt # "text" =>
               format # "text" /\ (format = Absent => accept \cap {"json", "ndjson"} # {})
      BY <1>2, Zenon
    <2>2. \A b \in BOOLEAN : ListStatus(format, accept, b) = RenderListBody(fmt, values, b)
      BY <2>1, Zenon DEF ListStatus
    <2>. HIDE DEF fmt
    <2>3. ListStatus(format, accept, FALSE) = 200
      BY <2>2, Zenon DEF RenderListBody
    <2>4. ASSUME ListStatus(format, accept, TRUE) # 200
          PROVE  fmt # "text" /\ \E v \in values : ~RendersAsJson(v)
      BY <2>2, <2>4, Zenon DEF RenderListBody
    <2>5. ASSUME \E v \in values : ~RendersAsJson(v)
          PROVE  \E k \in Keys : /\ Live(k) /\ data[k].value.kind = "Json"
                                 /\ hist[k].declared \/ ~data[k].value.payload.plain
      <3>1. PICK k \in Keys : Live(k) /\ ~RendersAsJson(data[k].value)
        BY <2>5, Zenon
      <3>2. data[k] # Absent
        BY <3>1, Zenon DEF Live
      <3>3. data[k].value.kind = "Json" /\ (hist[k].declared \/ ~data[k].value.payload.plain)
        BY <1>1, <1>3, <3>1, <3>2, Zenon
      <3>. QED BY <3>1, <3>3, Zenon
    <2>. QED BY <2>1, <2>3, <2>4, <2>5, Zenon
  <1>4. ValuesInv => KindsReadBack
    BY <1>1, <1>3, Zenon DEF KindsReadBack
  <1>. QED BY <1>4, ValuesInvariant, PTL

-----------------------------------------------------------------------------
(* The expiry index *)

\* The clock keeps its bounds; the index holds keys that expiry_index_key made,
\* and one for every entry that expires.
IndexInv ==
  /\ now \in Start .. End
  /\ \A x \in index : \E ts \in Instants, k \in Keys : x = ExpiryIndexKey(ts, k)
  /\ \A k \in Keys : data[k] # Absent /\ data[k].expires # Absent =>
       /\ data[k].expires \in Instants /\ data[k].expires <= MaxInstant
       /\ ExpiryIndexKey(data[k].expires, k) \in index

\* resolve_ttl keeps an expiry within what the index can hold.
LEMMA DueInRange ==
  ASSUME now \in Start .. End, NEW ttl \in Ttls, NEW default \in DefaultTtls,
         ResolveTtl(ttl, default) \notin {Bad, Absent}
  PROVE  LET s == UnixOf(ResolveTtl(ttl, default)) IN s \in Instants /\ s <= MaxInstant
  <1>. DEFINE i == ResolveTtl(ttl, default)
  <1>1. now \in Int /\ Start <= now /\ Start \in Int
    OBVIOUS
  <1>2. PICK effective \in Nat : i = now + effective * Ticks /\ i < (MaxInstant + 1) * Ticks
    <2>1. PICK e \in Nat \cup {Absent} :
            i = IF e \in {Absent, 0} THEN Absent
                ELSE IF e > MaxTtl \/ now + e * Ticks >= (MaxInstant + 1) * Ticks THEN Bad
                ELSE now + e * Ticks
      BY Zenon DEF ResolveTtl
    <2>2. e \in Nat /\ ~(now + e * Ticks >= (MaxInstant + 1) * Ticks) /\ i = now + e * Ticks
      BY <2>1, Zenon
    <2>. QED BY <2>2, <1>1
  <1>. HIDE DEF i
  <1>3. i \in Int /\ Start <= i
    BY <1>1, <1>2
  <1>4. SignBit \in Int /\ Ticks \in Nat \ {0} /\ MaxInstant < SignBit /\ (-SignBit) * Ticks <= Start
        /\ (-SignBit) * Ticks \in Int
    BY SignBitHalf, IndexAssumption
  <1>5. UnixOf(i) = i \div Ticks
    BY <1>3, Zenon DEF UnixOf
  <1>6. i \div Ticks \in Int /\ i \div Ticks < MaxInstant + 1
    <2>1. MaxInstant + 1 \in Int
      OBVIOUS
    <2>. QED BY <1>2, <1>3, <1>4, <2>1, DivBounds, QuotientBelow, Zenon
  <1>7. -SignBit <= i \div Ticks
    <2>1. -SignBit \in Int /\ (-SignBit) * Ticks <= i
      BY <1>1, <1>3, <1>4
    <2>. QED BY <1>3, <1>4, <2>1, QuotientBelow, Zenon
  <1>8. UnixOf(i) \in Instants /\ UnixOf(i) <= MaxInstant
    BY <1>4, <1>5, <1>6, <1>7 DEF Instants
  <1>. QED BY <1>8, Zenon DEF i

\* A write indexes the expiry it stores.
LEMMA StoreIndexes ==
  ASSUME IndexInv, data \in [Keys -> Entry \cup {Absent}], NEW k \in Keys, NEW v, NEW i,
         i # Absent => UnixOf(i) \in Instants /\ UnixOf(i) <= MaxInstant,
         Store(k, v, i)
  PROVE  IndexInv'
  <1>1. now' = now /\ now \in Start .. End
    BY Zenon DEF Store, IndexInv
  <1>2. \A x \in index' : \E ts \in Instants, j \in Keys : x = ExpiryIndexKey(ts, j)
    BY Zenon DEF Store, IndexInv
  <1>3. ASSUME NEW j \in Keys, data'[j] # Absent, data'[j].expires # Absent
        PROVE  /\ data'[j].expires \in Instants /\ data'[j].expires <= MaxInstant
               /\ ExpiryIndexKey(data'[j].expires, j) \in index'
    <2>1. CASE j = k
      <3>1. data'[j].expires = UnixOf(i)
        BY <2>1, Zenon DEF Store
      <3>2. i # Absent
        BY <1>3, <3>1, Zenon DEF UnixOf
      <3>3. ExpiryIndexKey(UnixOf(i), k) \in index'
        BY <3>2, Zenon DEF Store
      <3>. QED BY <2>1, <3>1, <3>2, <3>3, Zenon
    <2>2. CASE j # k
      <3>1. data'[j] = data[j]
        BY <2>2, Zenon DEF Store
      <3>2. index \subseteq index'
        BY Zenon DEF Store
      <3>. QED BY <1>3, <3>1, <3>2, Zenon DEF IndexInv
    <2>. QED BY <2>1, <2>2, Zenon
  <1>. QED BY <1>1, <1>2, <1>3, Zenon DEF IndexInv

\* An entry has expired when the second it expires in has begun.
LEMMA ExpiredDue ==
  ASSUME now \in Int, NEW s \in Int
  PROVE  /\ UnixOf(now) \in Int
         /\ s * Ticks <= now <=> s <= UnixOf(now)
  <1>1. UnixOf(now) = now \div Ticks /\ now \div Ticks \in Int
    BY DivBounds, Zenon DEF UnixOf
  <1>. QED BY <1>1, QuotientBelow

\* The sweep stops early but misses nothing: it handles what is due.
LEMMA SweptIsDue ==
  ASSUME IndexInv
  PROVE  Swept = {x \in index : ExpiryOf(x) <= UnixOf(now)}
  <1>1. now \in Int /\ UnixOf(now) \in Int
    <2>1. now \in Int
      BY DEF IndexInv
    <2>. QED BY <2>1, UnixTyped, Zenon DEF UnixOf
  <1>2. ASSUME NEW x \in index, ExpiryOf(x) <= UnixOf(now), NEW y \in index, Precedes(y, x)
        PROVE  ExpiryOf(y) <= UnixOf(now)
    <2>1. PICK t \in Instants, k \in Keys : x = ExpiryIndexKey(t, k)
      BY Zenon DEF IndexInv
    <2>2. PICK s \in Instants, j \in Keys : y = ExpiryIndexKey(s, j)
      BY Zenon DEF IndexInv
    <2>3. s <= t
      BY <1>2, <2>1, <2>2, IndexOrder, Zenon
    <2>4. ExpiryOf(x) = t /\ ExpiryOf(y) = s
      BY <2>1, <2>2, IndexKeyParts, Zenon
    <2>. HIDE DEF Instants
    <2>5. s \in Int /\ t \in Int
      BY SignBitHalf DEF Instants
    <2>. QED BY <1>1, <1>2, <2>3, <2>4, <2>5
  <1>. QED BY <1>2, Zenon DEF Swept

\* Whatever writes an entry writes it with the expiry that resolve_ttl allows.
LEMMA WritesIndex ==
  ASSUME IndexInv, ValuesInv, NEW k \in Keys,
         Put(k) \/ PutBack(k) \/ TxnSet(k) \/ Increment(k)
  PROVE  IndexInv'
  <1>1. PICK ttl \in Ttls : \E default \in DefaultTtls : \E v :
          ResolveTtl(ttl, default) # Bad /\ Store(k, v, ResolveTtl(ttl, default))
    <2>1. CASE Put(k)
      BY <2>1, Zenon DEF Put, SetValue
    <2>2. CASE PutBack(k)
      BY <2>2, Zenon DEF PutBack, SetValue
    <2>3. CASE TxnSet(k)
      BY <2>3, Zenon DEF TxnSet, SetValue
    <2>4. CASE Increment(k)
      BY <2>4, Zenon DEF Increment
    <2>. QED BY <2>1, <2>2, <2>3, <2>4, Zenon
  <1>2. PICK default \in DefaultTtls : \E v :
          ResolveTtl(ttl, default) # Bad /\ Store(k, v, ResolveTtl(ttl, default))
    BY <1>1, Zenon
  <1>3. PICK v : ResolveTtl(ttl, default) # Bad /\ Store(k, v, ResolveTtl(ttl, default))
    BY <1>2, Zenon
  <1>4. PICK i : i = ResolveTtl(ttl, default)
    BY Zenon
  <1>5. i # Absent => UnixOf(i) \in Instants /\ UnixOf(i) <= MaxInstant
    BY <1>3, <1>4, DueInRange, Zenon DEF IndexInv
  <1>6. data \in [Keys -> Entry \cup {Absent}] /\ Store(k, v, i)
    BY <1>3, <1>4, Zenon DEF ValuesInv
  <1>. QED BY <1>5, <1>6, StoreIndexes, Zenon

\* An entry a sweep leaves has not expired, nor has its index entry gone.
LEMMA SweepIndexed ==
  ASSUME IndexInv, ValuesInv, Sweep
  PROVE  /\ IndexInv'
         /\ \A k \in Keys : data[k] # Absent => (data'[k] = Absent <=> Expired(data[k]))
         /\ \A x \in index' : ExpiryOf(x) > UnixOf(now)
  <1>1. /\ index' = index \ Swept /\ now' = now
        /\ Swept = {x \in index : ExpiryOf(x) <= UnixOf(now)}
    BY SweptIsDue, Zenon DEF Sweep
  <1>2. now \in Int /\ UnixOf(now) \in Int
    <2>1. now \in Int
      BY Zenon DEF ValuesInv
    <2>. QED BY <2>1, ExpiredDue, Zenon
  <1>3. ASSUME NEW k \in Keys, data[k] # Absent
        PROVE  /\ data'[k] = Absent <=> Expired(data[k])
               /\ data'[k] # Absent => data'[k] = data[k]
    <2>1. data'[k] = IF /\ data[k] # Absent /\ Expired(data[k])
                        /\ \E x \in Swept : StorageKeyOf(x) = k /\ ExpiryOf(x) = data[k].expires
                     THEN Absent ELSE data[k]
      BY Zenon DEF Sweep
    <2>2. ASSUME Expired(data[k])
          PROVE  \E x \in Swept : StorageKeyOf(x) = k /\ ExpiryOf(x) = data[k].expires
      <3>. DEFINE s == data[k].expires
      <3>1. s # Absent /\ s * Ticks <= now
        BY <2>2, Zenon DEF Expired
      <3>2. s \in Instants /\ ExpiryIndexKey(s, k) \in index
        BY <1>3, <3>1, Zenon DEF IndexInv
      <3>. HIDE DEF s
      <3>3. s \in Int
        BY <3>2, SignBitHalf DEF Instants
      <3>4. s <= UnixOf(now)
        BY <1>2, <3>1, <3>3, ExpiredDue, Zenon
      <3>5. ExpiryOf(ExpiryIndexKey(s, k)) = s /\ StorageKeyOf(ExpiryIndexKey(s, k)) = k
        BY <3>2, IndexKeyParts, Zenon
      <3>6. ExpiryIndexKey(s, k) \in Swept
        BY <1>1, <3>2, <3>4, <3>5, Zenon
      <3>. QED BY <3>5, <3>6, Zenon DEF s
    <2>. QED BY <1>3, <2>1, <2>2, Zenon
  <1>4. ASSUME NEW k \in Keys, data'[k] # Absent, data'[k].expires # Absent
        PROVE  /\ data'[k].expires \in Instants /\ data'[k].expires <= MaxInstant
               /\ ExpiryIndexKey(data'[k].expires, k) \in index'
    <2>1. data[k] # Absent
      BY <1>4, Zenon DEF Sweep
    <2>2. data'[k] = data[k] /\ ~Expired(data[k])
      BY <1>3, <1>4, <2>1, Zenon
    <2>. DEFINE s == data[k].expires
    <2>3. s # Absent /\ ~(s * Ticks <= now)
      BY <1>4, <2>2, Zenon DEF Expired
    <2>4. s \in Instants /\ s <= MaxInstant /\ ExpiryIndexKey(s, k) \in index
      BY <2>1, <2>3, Zenon DEF IndexInv
    <2>. HIDE DEF s
    <2>5. s \in Int
      BY <2>4, SignBitHalf DEF Instants
    <2>6. ~(s <= UnixOf(now))
      BY <1>2, <2>3, <2>5, ExpiredDue, Zenon
    <2>7. ExpiryOf(ExpiryIndexKey(s, k)) = s
      BY <2>4, IndexKeyParts, Zenon
    <2>8. ExpiryIndexKey(s, k) \in index'
      BY <1>1, <2>4, <2>6, <2>7, Zenon
    <2>. QED BY <2>2, <2>4, <2>8, Zenon DEF s
  <1>5. ASSUME NEW x \in index'
        PROVE  ExpiryOf(x) > UnixOf(now)
    <2>1. x \in index /\ ~(ExpiryOf(x) <= UnixOf(now))
      BY <1>1, Zenon
    <2>2. PICK t \in Instants, k \in Keys : x = ExpiryIndexKey(t, k)
      BY <2>1, Zenon DEF IndexInv
    <2>3. ExpiryOf(x) = t /\ t \in Int
      <3>1. t \in Int
        BY SignBitHalf DEF Instants
      <3>. QED BY <2>2, <3>1, IndexKeyParts, Zenon
    <2>. QED BY <1>2, <2>1, <2>3
  <1>6. IndexInv'
    <2>1. now' \in Start .. End
      BY <1>1, Zenon DEF IndexInv
    <2>2. \A x \in index' : \E ts \in Instants, k \in Keys : x = ExpiryIndexKey(ts, k)
      BY <1>1, Zenon DEF IndexInv
    <2>. QED BY <1>4, <2>1, <2>2, Zenon DEF IndexInv
  <1>. QED BY <1>3, <1>5, <1>6, Zenon

\* Every step keeps the index: sets and deltas add to it, a delete leaves its
\* entry behind, and the sweeper takes away what is due.
LEMMA IndexInvariant == Spec => [](IndexInv /\ ValuesInv)
  <1>1. Init => IndexInv
    BY IndexAssumption DEF Init, IndexInv
  <1>2. IndexInv /\ ValuesInv /\ [Next]_vars => IndexInv'
    <2>. SUFFICES ASSUME IndexInv, ValuesInv, [Next]_vars PROVE IndexInv'
      BY Zenon
    <2>1. CASE Tick
      <3>1. now' \in Start .. End /\ data' = data /\ index' = index
        BY <2>1 DEF Tick, IndexInv
      <3>. QED BY <3>1, Zenon DEF IndexInv
    <2>2. CASE Sweep
      BY <2>2, SweepIndexed, Zenon
    <2>3. ASSUME NEW k \in Keys, Put(k) \/ PutBack(k) \/ TxnSet(k) \/ Increment(k)
          PROVE  IndexInv'
      BY <2>3, WritesIndex, Zenon
    <2>4. ASSUME NEW k \in Keys, Delete(k) PROVE IndexInv'
      <3>1. now' = now /\ index' = index /\ data' = [data EXCEPT ![k] = Absent]
            /\ data \in [Keys -> Entry \cup {Absent}]
        BY <2>4, Zenon DEF Delete, ValuesInv
      <3>2. \A j \in Keys : data'[j] # Absent => data'[j] = data[j]
        BY <3>1, Zenon
      <3>. QED BY <3>1, <3>2, Zenon DEF IndexInv
    <2>5. CASE UNCHANGED vars
      BY <2>5, Zenon DEF IndexInv, vars
    <2>. QED BY <2>1, <2>2, <2>3, <2>4, <2>5, Zenon DEF Next
  <1>. QED BY <1>1, <1>2, ValuesInvariant, PTL DEF Spec

\* Types are kept, and every expiry an entry stores is an instant that the
\* index's bytes hold and decode_ordered_i64 gives back.
THEOREM TypesHold == Spec => []TypeOK
  <1>1. IndexInv /\ ValuesInv => TypeOK
    <2>. SUFFICES ASSUME IndexInv, ValuesInv PROVE TypeOK
      BY Zenon
    <2>1. ASSUME NEW k \in Keys, data[k] # Absent PROVE data[k].value \in Value
      BY <2>1, Zenon DEF ValuesInv, Entry
    <2>2. ASSUME NEW k \in Keys, data[k] # Absent, data[k].expires # Absent
          PROVE  /\ data[k].expires <= MaxInstant
                 /\ DecodeOrdered(EncodeOrdered(data[k].expires)) = data[k].expires
      <3>1. data[k].expires \in Instants /\ data[k].expires <= MaxInstant
        BY <2>2, Zenon DEF IndexInv
      <3>. QED BY <3>1, OrderedRoundTrip, Zenon DEF DecodeOrdered
    <2>3. ASSUME NEW x \in index PROVE ExpiryOf(x) \in Int /\ StorageKeyOf(x) \in Keys
      <3>1. PICK t \in Instants, k \in Keys : x = ExpiryIndexKey(t, k)
        BY Zenon DEF IndexInv
      <3>2. t \in Int
        BY SignBitHalf DEF Instants
      <3>. QED BY <3>1, <3>2, IndexKeyParts
    <2>4. now \in Start .. End /\ \A k \in Keys : hist[k] \in History \cup {Absent}
      BY Zenon DEF IndexInv, ValuesInv
    <2>. QED BY <2>1, <2>2, <2>3, <2>4, Zenon DEF TypeOK
  <1>. QED BY <1>1, IndexInvariant, PTL

\* A sweep removes exactly the expired entries and leaves nothing due in the
\* index, though sweep_keyspace stops at the first entry that is not due.
THEOREM SweepsExactly == Spec => SweepExact
  <1>1. IndexInv /\ ValuesInv /\ [Next]_vars =>
          [Sweep => /\ \A k \in Keys : data[k] # Absent =>
                         (data'[k] = Absent <=> Expired(data[k]))
                    /\ \A x \in index' : ExpiryOf(x) > UnixOf(now)]_vars
    BY SweepIndexed, Zenon
  <1>. QED BY <1>1, IndexInvariant, PTL DEF Spec, SweepExact
=============================================================================

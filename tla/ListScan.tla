------------------------------ MODULE ListScan ------------------------------
(***************************************************************************)
(* Listing a bucket: the list handler narrows the requested prefix to the  *)
(* scope of the token (keydock-http buckets.rs), and list_inner scans the  *)
(* `data` keyspace (keydock-fjall store.rs, keys laid out by repos.rs).    *)
(* Bytes are numbers and keys sequences of them; the keyspace holds the    *)
(* keys of several buckets.  The scan reads a snapshot, so one listing     *)
(* runs alone here; KeyReads has its races with writers.                   *)
(*                                                                         *)
(* Listings with and without values decode an entry differently but keep   *)
(* the same keys: expiries are whole seconds, so comparing one with the    *)
(* clock or with the clock's second is the same.  A key that does not      *)
(* parse is skipped by the code; none can be written.                      *)
(***************************************************************************)
EXTENDS Sequences, FiniteSets, Functions

CONSTANTS
  Colon,        \* the separator byte
  Bucket,       \* id of the bucket listed
  Buckets,      \* ids of all the buckets of the store
  UserKeys,     \* keys the buckets may hold
  AskedPrefixes, \* bound: prefixes asked for
  Scopes,       \* bound: key prefixes of tokens; <<>> for every other identity
  Limits,       \* bound: limits asked for
  Skips,        \* bound: skips asked for
  MaxUsize,     \* largest usize
  MaxCapacity,  \* entries a VecDeque can have room for
  None, ReadError, Panicked

ASSUME ListAssumption ==
  /\ Bucket \in Buckets /\ IsFiniteSet(Buckets) /\ IsFiniteSet(UserKeys)
  /\ Colon \in Nat /\ Buckets \cup UserKeys \cup AskedPrefixes \cup Scopes \subseteq Seq(Nat)
  /\ None \notin AskedPrefixes \cup Scopes
  /\ \A b \in Buckets : Colon \notin Range(b)
  /\ <<>> \notin UserKeys
  /\ Limits \cup Skips \subseteq 0 .. MaxUsize
  /\ MaxUsize \in Nat /\ MaxCapacity \in 0 .. MaxUsize - 1

VARIABLES
  data,     \* <<bucket, key>> -> "live" or "expired" (at the listing's cutoff)
  opts,     \* the request: [scope, prefix, limit, skip, reverse]
  pc,
  scan,     \* storage keys the iterator has yet to yield
  skipLeft, \* skip_remaining
  out,      \* `out` of a forward scan, `deque` of a reverse one
  answer    \* the user keys returned, ReadError or Panicked

vars == <<data, opts, pc, scan, skipLeft, out, answer>>

-----------------------------------------------------------------------------
(* Key layout *)

StartsWith(key, prefix) == Len(prefix) <= Len(key) /\ SubSeq(key, 1, Len(prefix)) = prefix

\* data_storage_key, and data_key_prefix for a prefix of user keys.
DataStorageKey(bucket, key) == bucket \o <<Colon>> \o key

\* user_key_from_storage_key.
UserKeyOf(storageKey, bucket) == SubSeq(storageKey, Len(bucket) + 2, Len(storageKey))

\* Byte order, the order of fjall's iterators.
Before(a, b) ==
  \E n \in 0 .. Len(a) :
    /\ n < Len(b) /\ SubSeq(a, 1, n) = SubSeq(b, 1, n)
    /\ n < Len(a) => a[n + 1] < b[n + 1]

InOrder(keys) ==
  CHOOSE s \in [1 .. Cardinality(keys) -> keys] :
    \A i, j \in DOMAIN s : i < j => Before(s[i], s[j])

\* Keyspace::prefix: the storage keys with a prefix, in byte order.
PrefixScan(prefix) ==
  InOrder({sk \in {DataStorageKey(bk[1], bk[2]) : bk \in DOMAIN data} : StartsWith(sk, prefix)})

Status(storageKey) ==
  data[CHOOSE bk \in DOMAIN data : DataStorageKey(bk[1], bk[2]) = storageKey]

-----------------------------------------------------------------------------
(* Prefix and window *)

\* Mutant: the requested prefix alone is scanned.
CombineScopedPrefixWide(scope, requested) == IF requested = None THEN scope ELSE requested

\* combine_scoped_prefix, None when no key has both prefixes; the handler
\* uses it for tokens only.
CombineScopedPrefix(scope, requested) ==
  IF requested = None THEN scope
  ELSE IF StartsWith(requested, scope) THEN requested
  ELSE IF StartsWith(scope, requested) THEN scope
  ELSE None

\* skip.saturating_add(limit)
Window(o) == IF o.skip + o.limit > MaxUsize THEN MaxUsize ELSE o.skip + o.limit

Reverse(s) == [i \in 1 .. Len(s) |-> s[(Len(s) - i) + 1]]

Page(s, skip, limit) == SubSeq(s, skip + 1, IF skip + limit > Len(s) THEN Len(s) ELSE skip + limit)

-----------------------------------------------------------------------------
Requests == [scope : Scopes, prefix : AskedPrefixes \cup {None}, limit : Limits, skip : Skips,
             reverse : BOOLEAN]

Init ==
  /\ \E stored \in SUBSET (Buckets \X UserKeys) : data \in [stored -> {"live", "expired"}]
  /\ opts \in Requests
  /\ pc = "start"
  /\ scan = <<>>
  /\ skipLeft = 0
  /\ out = <<>>
  /\ answer = None

Answer(a) == answer' = a /\ pc' = "done"

\* list_bucket up to the scan: a prefix outside the token's scope and a limit
\* of zero answer an empty list; a reverse listing allocates its window.
Start ==
  /\ pc = "start"
  /\ LET prefix == CombineScopedPrefix(opts.scope, opts.prefix)
     IN IF prefix = None \/ opts.limit = 0 THEN Answer(<<>>) /\ UNCHANGED <<scan, skipLeft>>
        ELSE IF opts.reverse /\ Window(opts) > MaxCapacity
             THEN Answer(Panicked) /\ UNCHANGED <<scan, skipLeft>>
        ELSE /\ pc' = IF opts.reverse THEN "reverse" ELSE "forward"
             /\ scan' = PrefixScan(DataStorageKey(Bucket, prefix))
             /\ skipLeft' = opts.skip
             /\ UNCHANGED answer
  /\ UNCHANGED <<data, opts, out>>

\* Mutant: nothing is dropped before the end of the scan.
ReverseNextUnbounded ==
  /\ pc = "reverse" /\ scan # <<>>
  /\ out' = IF Status(Head(scan)) = "expired" THEN out ELSE Append(out, UserKeyOf(Head(scan), Bucket))
  /\ scan' = Tail(scan)
  /\ UNCHANGED <<data, opts, pc, skipLeft, answer>>

\* One entry of a reverse scan: push it, drop the oldest beyond the window.
ReverseNext ==
  /\ pc = "reverse" /\ scan # <<>>
  /\ LET pushed == Append(out, UserKeyOf(Head(scan), Bucket))
     IN out' = IF Status(Head(scan)) = "expired" THEN out
               ELSE IF Len(pushed) > Window(opts) THEN Tail(pushed) ELSE pushed
  /\ scan' = Tail(scan)
  /\ UNCHANGED <<data, opts, pc, skipLeft, answer>>

ReverseEnd ==
  /\ pc = "reverse" /\ scan = <<>>
  /\ Answer(Page(Reverse(out), opts.skip, opts.limit))
  /\ UNCHANGED <<data, opts, scan, skipLeft, out>>

\* One entry of a forward scan, unless the page is full.
ForwardNext ==
  /\ pc = "forward" /\ scan # <<>> /\ Len(out) < opts.limit
  /\ IF Status(Head(scan)) = "expired" THEN UNCHANGED <<skipLeft, out>>
     ELSE IF skipLeft > 0 THEN skipLeft' = skipLeft - 1 /\ UNCHANGED out
     ELSE out' = Append(out, UserKeyOf(Head(scan), Bucket)) /\ UNCHANGED skipLeft
  /\ scan' = Tail(scan)
  /\ UNCHANGED <<data, opts, pc, answer>>

ForwardEnd ==
  /\ pc = "forward" /\ (scan = <<>> \/ Len(out) >= opts.limit)
  /\ Answer(out)
  /\ UNCHANGED <<data, opts, scan, skipLeft, out>>

\* The iterator or the codec fails on an entry.
ScanError ==
  /\ pc \in {"forward", "reverse"} /\ scan # <<>>
  /\ pc = "forward" => Len(out) < opts.limit
  /\ Answer(ReadError)
  /\ UNCHANGED <<data, opts, scan, skipLeft, out>>

Next == Start \/ ReverseNext \/ ReverseEnd \/ ForwardNext \/ ForwardEnd \/ ScanError

Spec == Init /\ [][Next]_vars

-----------------------------------------------------------------------------
\* What the README promises of a listing: the live keys of this bucket that
\* have the requested prefix and lie in the token's scope, in byte order or
\* its reverse, without the first `skip`, at most `limit` of them.
Promised ==
  LET visible == {k \in UserKeys : /\ <<Bucket, k>> \in DOMAIN data
                                   /\ data[<<Bucket, k>>] = "live"
                                   /\ opts.prefix # None => StartsWith(k, opts.prefix)
                                   /\ StartsWith(k, opts.scope)}
      ordered == IF opts.reverse THEN Reverse(InOrder(visible)) ELSE InOrder(visible)
  IN Page(ordered, opts.skip, opts.limit)

\* A listing that answers answers what is promised: list_inner's two loops,
\* the narrowing to the token's scope and the key layout together.
AnswersPromised == pc = "done" => answer \in {ReadError, Panicked} \/ answer = Promised

\* A reverse scan never holds more than skip + limit entries, however many
\* keys the bucket has, and no answer is longer than its limit.
WindowBounded ==
  /\ pc = "reverse" => Len(out) <= Window(opts)
  /\ pc = "done" /\ answer \notin {ReadError, Panicked} => Len(answer) <= opts.limit
====

---------------------------- MODULE Server_proofs ----------------------------
(***************************************************************************)
(* The configuration a process starts with, the init commands and the life *)
(* of a server, for any clients, pool, files, command lines and            *)
(* environments.                                                           *)
(***************************************************************************)
EXTENDS Server, WellFoundedInduction, TLAPS

USE SMTT(60), ZenonT(60)

-----------------------------------------------------------------------------
(* Configuration *)

\* The names of the settings, spelled out.
LEMMA FieldNames ==
  /\ Fields = {"listen", "metrics_listen", "data_dir", "log_json", "root_key", "gc_interval",
               "rate_enabled", "rate_limit"}
  /\ Settings = Fields \ {"root_key"} /\ CliFields \subseteq Settings
  <1>1. DOMAIN EnvOrder = 1 .. 8
    BY DEF EnvOrder
  <1>2. Fields = {EnvOrder[1], EnvOrder[2], EnvOrder[3], EnvOrder[4], EnvOrder[5], EnvOrder[6],
                  EnvOrder[7], EnvOrder[8]}
    BY <1>1 DEF Fields
  <1>3. Fields = {"listen", "metrics_listen", "data_dir", "log_json", "root_key", "gc_interval",
                  "rate_enabled", "rate_limit"}
    BY <1>2, Zenon DEF EnvOrder
  <1>. QED BY <1>3, Zenon DEF Settings, CliFields

\* A nonempty set of positions has a first one.
LEMMA First ==
  ASSUME NEW S \in SUBSET Nat, S # {}
  PROVE  Min(S) \in S /\ \A m \in S : Min(S) <= m
  <1> DEFINE R == OpToRel(<, Nat)
  <1>1. ASSUME NEW x \in Nat, NEW y \in Nat, x < y PROVE <<x, y>> \in R
    BY <1>1, Zenon DEF OpToRel
  <1>2. IsWellFoundedOn(R, Nat)
    BY NatLessThanWellFounded, Zenon
  <1> HIDE DEF R
  <1>3. PICK n \in S : \A m \in S : ~(<<m, n>> \in R)
    BY <1>2, WFMin, Zenon
  <1>4. ASSUME NEW m \in S PROVE n <= m
    <2>1. n \in Nat /\ m \in Nat
      BY Zenon
    <2>2. ~(m < n)
      BY <1>1, <1>3, <2>1, Zenon
    <2>. QED BY <2>1, <2>2
  <1>. QED BY <1>4, Zenon DEF Min

\* A nonempty set of positions has a last one.
LEMMA Last ==
  ASSUME NEW n \in Nat, NEW S \in SUBSET (1 .. n), S # {}
  PROVE  Max(S) \in S
  <1> DEFINE T == {n - i : i \in S}
  <1>1. \A i \in S : n - i \in Nat /\ i \in Nat
    OBVIOUS
  <1>2. T \in SUBSET Nat /\ T # {}
    BY <1>1, Zenon
  <1>3. Min(T) \in T /\ \A m \in T : Min(T) <= m
    <2> HIDE DEF T
    <2>. QED BY <1>2, First, Zenon
  <1>4. PICK i \in S : Min(T) = n - i
    BY <1>3, Zenon
  <1>5. ASSUME NEW j \in S PROVE j <= i
    <2>1. n - i <= n - j
      BY <1>3, <1>4, Zenon
    <2>. QED BY <1>1, <2>1
  <1>. QED BY <1>5, Zenon DEF Max

\* The text a command line gives an option, if it gives one.
LEMMA LastValueTyped ==
  ASSUME NEW line \in ServeLines, NEW name
  PROVE  LastValue(line, name) \in Texts \cup {Unset}
  <1> DEFINE given == {i \in DOMAIN line : line[i].name = name}
             Opt == [name : STRING, value : Texts \cup {Unset}]
  <1>1. line \in Seq(Opt)
    BY InputsAssumption, Zenon
  <1>2. \A o \in Opt : o.value \in Texts \cup {Unset}
    BY Zenon
  <1> HIDE DEF Opt
  <1>3. Len(line) \in Nat /\ DOMAIN line = 1 .. Len(line) /\ \A i \in DOMAIN line : line[i] \in Opt
    BY <1>1
  <1>4. CASE given = {}
    BY <1>4, Zenon DEF LastValue
  <1>5. CASE given # {}
    <2>1. Max(given) \in given
      <3>1. given \in SUBSET (1 .. Len(line))
        BY <1>3, Zenon
      <3> HIDE DEF given
      <3>. QED BY <1>3, <1>5, <3>1, Last, Zenon
    <2>2. LastValue(line, name) = line[Max(given)].value
      BY <1>5, Zenon DEF LastValue
    <2>. QED BY <1>2, <1>3, <2>1, <2>2, Zenon
  <1>. QED BY <1>4, <1>5, Zenon

\* The highest of four layers that gives a value.
LEMMA TopOfFour ==
  ASSUME NEW a, NEW b, NEW c, NEW d, d # Unset
  PROVE  TopLayer(<<a, b, c, d>>) =
           IF a # Unset THEN a ELSE IF b # Unset THEN b ELSE IF c # Unset THEN c ELSE d
  <1> DEFINE L == <<a, b, c, d>>
             S == {i \in DOMAIN L : L[i] # Unset}
  <1>1. DOMAIN L = {1, 2, 3, 4} /\ L[1] = a /\ L[2] = b /\ L[3] = c /\ L[4] = d
    OBVIOUS
  <1>2. S \in SUBSET Nat /\ 4 \in S
    BY <1>1
  <1>3. Min(S) \in S /\ \A m \in S : Min(S) <= m
    <2> HIDE DEF S
    <2>. QED BY <1>2, First, Zenon
  <1>4. /\ 1 \in S <=> a # Unset
        /\ 2 \in S <=> b # Unset
        /\ 3 \in S <=> c # Unset
        /\ S \subseteq {1, 2, 3, 4}
    BY <1>1, Zenon
  <1>5. TopLayer(L) = L[Min(S)]
    BY Zenon DEF TopLayer
  <1> HIDE DEF S, L
  <1>6. Min(S) = IF a # Unset THEN 1 ELSE IF b # Unset THEN 2 ELSE IF c # Unset THEN 3 ELSE 4
    <2> DEFINE m == Min(S)
    <2>1. m \in {1, 2, 3, 4} /\ (1 \in S => m <= 1) /\ (2 \in S => m <= 2) /\ (3 \in S => m <= 3)
      BY <1>3, <1>4, Zenon
    <2>2. (m = 1 => 1 \in S) /\ (m = 2 => 2 \in S) /\ (m = 3 => 3 \in S)
      BY <1>3, Zenon
    <2> HIDE DEF m
    <2>3. m = IF 1 \in S THEN 1 ELSE IF 2 \in S THEN 2 ELSE IF 3 \in S THEN 3 ELSE 4
      BY <2>1, <2>2
    <2>. QED BY <1>4, <2>3, Zenon DEF m
  <1>. QED BY <1>1, <1>5, <1>6, Zenon DEF L

\* An environment without fault: every variable is text.
LEMMA NoFault ==
  ASSUME NEW env, EnvFault(env) = Unset
  PROVE  \A f \in Fields : env[f] # Unset => env[f] # NotUnicode
  <1> DEFINE bad == {i \in DOMAIN EnvOrder :
                       env[EnvOrder[i]] # Unset
                         /\ (env[EnvOrder[i]] = NotUnicode \/ ~EnvParses(EnvOrder[i], env[EnvOrder[i]]))}
             f == EnvOrder[Min(bad)]
  <1>1. bad = {}
    <2> SUFFICES ASSUME bad # {} PROVE FALSE
      BY Zenon
    <2>1. DOMAIN EnvOrder \subseteq Nat
      BY DEF EnvOrder
    <2>2. Min(bad) \in bad
      <3>1. bad \in SUBSET Nat
        BY <2>1, Zenon
      <3> HIDE DEF bad
      <3>. QED BY <3>1, First, Zenon
    <2>3. f \in Fields
      BY <2>2, Zenon DEF Fields
    <2>4. EnvFault(env) = Failure(IF env[f] = NotUnicode THEN "EnvNotUnicode" ELSE "InvalidEnv", f)
      BY Zenon DEF EnvFault
    <2> HIDE DEF f, bad
    <2>5. EnvFault(env) \in Failures
      BY <2>3, <2>4 DEF Failure, Failures
    <2>. QED BY <2>5, FailureAssumption, Zenon
  <1>. QED BY <1>1, Zenon DEF Fields

\* resolve_root_key: an accepted key, which was there, or a failure.
LEMMA KeyResolved ==
  ASSUME NEW source \in RootKeySources \cup {Unset}, NEW host, IsHost(host)
  PROVE  LET key == ResolveRootKey(source, host)
         IN /\ key \in Secrets \/ key \in Failures
            /\ key \in Secrets => source # Unset /\ \A text : source = Inline(text) => key = text
  <1>0. \A kind \in {"MissingRootKey", "MissingSecretEnv", "SecretFileIo", "EnvNotUnicode", "EmptyRootKey",
                     "InsecureRootKeyPlaceholder"} :
          Failure(kind, "root_key") \in Failures /\ Failure(kind, "root_key") \notin Secrets
    BY FailureAssumption, FieldNames, Zenon DEF Failure, Failures, Texts
  <1> DEFINE text == CASE source.from = "value" -> source.text
                       [] source.from = "env" -> host.secretEnv
                       [] source.from = "file" -> host.files[SecretFilePath(source)]
  <1>1. CASE source = Unset
    BY <1>0, <1>1, Zenon DEF ResolveRootKey
  <1>2. CASE source # Unset
    <2>1. source \in RootKeySources
      BY <1>2, Zenon
    <2>2. text \in KeyTexts \cup {Unset, NotUnicode}
      BY <2>1 DEF RootKeySources, Inline, FromEnv, FromFile, IsHost, SecretFilePath
    <2>3. \A t : source = Inline(t) => text = t
      BY DEF Inline
    <2>4. ResolveRootKey(source, host) =
            CASE text \in {Unset, NotUnicode} ->
                   Failure(IF source.from = "file" THEN "SecretFileIo"
                           ELSE IF text = Unset THEN "MissingSecretEnv" ELSE "EnvNotUnicode", "root_key")
              [] text = Blank -> Failure("EmptyRootKey", "root_key")
              [] text = Placeholder -> Failure("InsecureRootKeyPlaceholder", "root_key")
              [] OTHER -> text
      BY <1>2, Zenon DEF ResolveRootKey
    <2> HIDE DEF text
    <2>5. ResolveRootKey(source, host) \in Failures \ Secrets \/ (ResolveRootKey(source, host) = text /\ text \in Secrets)
      BY <1>0, <2>2, <2>4, Zenon DEF KeyTexts
    <2>. QED BY <1>2, <2>3, <2>5, Zenon
  <1>. QED BY <1>1, <1>2, Zenon

-----------------------------------------------------------------------------
(* load_from_sources *)

\* What the layers leave before the root key is resolved.
Doc(args, doc) == WithDefaults(IF args.config # Unset THEN doc ELSE EmptyDocument)
Env(args, host) == IF args.no_env THEN EmptyDocument ELSE host.env
Raw(args, doc, host) == MergeCli(MergeEnv(Doc(args, doc), Env(args, host)), args)

IsArgs(args) == args.no_env \in BOOLEAN /\ \A f \in CliFields : args[f] \in Texts \cup {Unset}

\* Every setting comes from the highest layer that gives it a value.
LEMMA RawByPrecedence ==
  ASSUME NEW args, IsArgs(args), NEW doc, NEW host, NEW f \in Settings
  PROVE  Raw(args, doc, host)[f] = TopLayer(Layers(f, args, doc, host))
  <1>1. f \in Fields /\ f # "root_key" /\ Unset # Off /\ Unset # Blank
    BY FieldNames, ConfigAssumption, Zenon DEF Texts
  <1>2. Defaults[f] # Unset
    BY <1>1, ConfigAssumption, Zenon
  <1> DEFINE cli == IF f \in CliFields THEN args[f] ELSE Unset
             var == IF args.no_env THEN Unset
                    ELSE IF f = "metrics_listen" /\ host.env[f] = Blank THEN Off ELSE host.env[f]
             own == IF args.config = Unset THEN Unset ELSE doc[f]
             e == Env(args, host)[f]
  <1>3. Layers(f, args, doc, host) = <<cli, var, own, Defaults[f]>>
    BY Zenon DEF Layers
  <1>4. Doc(args, doc)[f] = IF own # Unset THEN own ELSE Defaults[f]
    BY <1>1, Zenon DEF Doc, WithDefaults, EmptyDocument
  <1>5. e = IF args.no_env THEN Unset ELSE host.env[f]
    BY <1>1, Zenon DEF Env, EmptyDocument
  <1>6. MergeEnv(Doc(args, doc), Env(args, host))[f] = IF e = Unset THEN Doc(args, doc)[f] ELSE EnvValue(f, e)
    BY <1>1, Zenon DEF MergeEnv
  <1>7. e # Unset => EnvValue(f, e) = var /\ var # Unset
    BY <1>1, <1>5, Zenon DEF EnvValue
  <1>8. e = Unset => var = Unset
    BY <1>1, <1>5, Zenon
  <1>9. Raw(args, doc, host)[f] = IF cli # Unset THEN cli ELSE MergeEnv(Doc(args, doc), Env(args, host))[f]
    BY <1>1, Zenon DEF Raw, MergeCli
  <1> HIDE DEF cli, var, own, e
  <1>10. TopLayer(<<cli, var, own, Defaults[f]>>) =
           IF cli # Unset THEN cli ELSE IF var # Unset THEN var ELSE IF own # Unset THEN own ELSE Defaults[f]
    BY <1>2, TopOfFour
  <1>. QED BY <1>3, <1>4, <1>6, <1>7, <1>8, <1>9, <1>10, Zenon

\* The root key comes from the environment, else from the document.
LEMMA RawRootKey ==
  ASSUME NEW args, NEW doc, NEW host
  PROVE  /\ Raw(args, doc, host)["root_key"] =
              IF ~args.no_env /\ host.env["root_key"] # Unset THEN Inline(host.env["root_key"])
              ELSE IF args.config # Unset THEN doc["root_key"] ELSE Unset
         /\ DOMAIN Raw(args, doc, host) = Fields
  <1>1. "root_key" \in Fields /\ "root_key" \notin Settings /\ "root_key" \notin CliFields
    BY FieldNames, Zenon
  <1>2. Doc(args, doc)["root_key"] = IF args.config # Unset THEN doc["root_key"] ELSE Unset
    BY <1>1, Zenon DEF Doc, WithDefaults, EmptyDocument
  <1>3. Env(args, host)["root_key"] = IF args.no_env THEN Unset ELSE host.env["root_key"]
    BY <1>1, Zenon DEF Env, EmptyDocument
  <1>4. Raw(args, doc, host)["root_key"] =
          IF Env(args, host)["root_key"] = Unset THEN Doc(args, doc)["root_key"]
          ELSE Inline(Env(args, host)["root_key"])
    BY <1>1, Zenon DEF Raw, MergeCli, MergeEnv, EnvValue
  <1>5. DOMAIN Raw(args, doc, host) = Fields
    BY Zenon DEF Raw, MergeCli
  <1>. QED BY <1>2, <1>3, <1>4, <1>5, Zenon

\* What a configuration that loads is made of.
LEMMA Loaded ==
  ASSUME NEW args, IsArgs(args), NEW doc, doc \in {Unset, Malformed} \/ IsDocument(doc),
         NEW host, IsHost(host), "error" \notin DOMAIN LoadFromSources(args, doc, host)
  PROVE  LET c == LoadFromSources(args, doc, host)
         IN /\ c \in [Fields -> Texts \cup {Off}] /\ c["root_key"] \in Secrets
            /\ \A f \in Settings : c[f] = TopLayer(Layers(f, args, doc, host))
            /\ IF ~args.no_env /\ host.env["root_key"] # Unset
               THEN c["root_key"] = host.env["root_key"]
               ELSE args.config # Unset /\ doc["root_key"] # Unset
  <1> DEFINE c == LoadFromSources(args, doc, host)
             raw == Raw(args, doc, host)
             key == ResolveRootKey(raw["root_key"], host)
  <1>0. \A kind, f : "error" \in DOMAIN Failure(kind, f)
    BY Zenon DEF Failure
  <1>1. args.config # Unset => IsDocument(doc)
    <2> SUFFICES ASSUME args.config # Unset, ~IsDocument(doc) PROVE FALSE
      BY Zenon
    <2>1. c = Failure(IF doc = Unset THEN "Io" ELSE "Parse", "config")
      BY Zenon DEF LoadFromSources
    <2>. QED BY <1>0, <2>1, Zenon
  <1>2. EnvFault(Env(args, host)) = Unset
    <2> SUFFICES ASSUME EnvFault(Env(args, host)) # Unset PROVE FALSE
      BY Zenon
    <2>1. c = EnvFault(Env(args, host)) \/ \E kind, f : c = Failure(kind, f)
      BY Zenon DEF LoadFromSources, Env
    <2>2. \E kind, f : EnvFault(Env(args, host)) = Failure(kind, f)
      BY Zenon DEF EnvFault
    <2>. QED BY <1>0, <2>1, <2>2, Zenon
  <1>3. c = IF key \in Texts THEN [raw EXCEPT !["root_key"] = key] ELSE key
    <2>1. c = ResolveConfig(raw, host) \/ \E kind, f : c = Failure(kind, f)
      BY <1>2, Zenon DEF LoadFromSources, Raw, Env, Doc
    <2>. QED BY <1>0, <2>1, Zenon DEF ResolveConfig
  <1>4. \A f \in Fields : Env(args, host)[f] # Unset => Env(args, host)[f] # NotUnicode
    BY <1>2, NoFault, Zenon
  <1>5. ~args.no_env => \A f \in Fields : host.env[f] # Unset => host.env[f] # NotUnicode
    BY <1>4, Zenon DEF Env
  <1>6. raw["root_key"] \in RootKeySources \cup {Unset}
    <2>1. "root_key" \in Fields
      BY FieldNames, Zenon
    <2>2. ~args.no_env /\ host.env["root_key"] # Unset => host.env["root_key"] \in KeyTexts
      BY <1>5, <2>1, Zenon DEF IsHost
    <2>3. args.config # Unset => doc["root_key"] \in RootKeySources \cup {Unset}
      BY <1>1, Zenon DEF IsDocument
    <2>4. \A text \in KeyTexts : Inline(text) \in RootKeySources
      BY Zenon DEF RootKeySources
    <2>. QED BY <2>2, <2>3, <2>4, RawRootKey, Zenon
  <1>7. /\ key \in Secrets \/ key \in Failures
        /\ key \in Secrets => raw["root_key"] # Unset /\ \A text : raw["root_key"] = Inline(text) => key = text
    <2> HIDE DEF raw
    <2>. QED BY <1>6, KeyResolved, Zenon
  <1>8. key \in Secrets
    <2> SUFFICES ASSUME key \in Failures PROVE FALSE
      BY <1>7, Zenon
    <2> HIDE DEF key, c
    <2>1. c = key
      BY <1>3, FailureAssumption, Zenon
    <2>2. "error" \in DOMAIN key
      BY Zenon DEF Failures
    <2>. QED BY <2>1, <2>2, Zenon DEF c
  <1>9. c = [raw EXCEPT !["root_key"] = key]
    BY <1>3, <1>8, Zenon DEF Texts
  <1>10. DOMAIN raw = Fields /\ raw = [f \in Fields |-> raw[f]] /\ "root_key" \in Fields
    BY FieldNames, Zenon DEF Raw, MergeCli
  <1>11. ASSUME NEW f \in Settings PROVE raw[f] = TopLayer(Layers(f, args, doc, host)) /\ raw[f] \in Texts \cup {Off}
    <2>1. raw[f] = TopLayer(Layers(f, args, doc, host))
      BY RawByPrecedence, Zenon
    <2>2. Defaults[f] \in Texts \cup {Off} /\ Defaults[f] # Unset
      BY ConfigAssumption, Zenon
    <2> DEFINE cli == IF f \in CliFields THEN args[f] ELSE Unset
               var == IF args.no_env THEN Unset
                      ELSE IF f = "metrics_listen" /\ host.env[f] = Blank THEN Off ELSE host.env[f]
               own == IF args.config = Unset THEN Unset ELSE doc[f]
    <2>3. Layers(f, args, doc, host) = <<cli, var, own, Defaults[f]>>
      BY Zenon DEF Layers
    <2>4. cli \in Texts \cup {Unset}
      BY Zenon DEF IsArgs
    <2>5. var \in Texts \cup {Off, Unset}
      BY <1>5, FieldNames DEF IsHost
    <2>6. own \in Texts \cup {Unset}
      BY <1>1, Zenon DEF IsDocument
    <2> HIDE DEF cli, var, own, raw
    <2>. QED BY <2>1, <2>2, <2>3, <2>4, <2>5, <2>6, TopOfFour
  <1> HIDE DEF raw, key, c
  <1>12. /\ c["root_key"] = key /\ DOMAIN c = Fields /\ c = [f \in Fields |-> c[f]]
         /\ \A f \in Settings : c[f] = raw[f]
    BY <1>9, <1>10, Zenon DEF Settings
  <1>13. c \in [Fields -> Texts \cup {Off}]
    <2>1. \A f \in Fields : c[f] \in Texts \cup {Off}
      BY <1>8, <1>11, <1>12, Zenon DEF Settings, Texts
    <2>. QED BY <1>12, <2>1, Zenon
  <1>14. raw["root_key"] = IF ~args.no_env /\ host.env["root_key"] # Unset THEN Inline(host.env["root_key"])
                           ELSE IF args.config # Unset THEN doc["root_key"] ELSE Unset
    BY RawRootKey, Zenon DEF raw
  <1>15. IF ~args.no_env /\ host.env["root_key"] # Unset THEN c["root_key"] = host.env["root_key"]
         ELSE args.config # Unset /\ doc["root_key"] # Unset
    BY <1>7, <1>8, <1>12, <1>14, Zenon
  <1>. QED BY <1>8, <1>11, <1>12, <1>13, <1>15, Zenon DEF c

\* parse_serve leaves typed arguments.
LEMMA ServeArgs ==
  ASSUME NEW line \in ServeLines, "exit" \notin DOMAIN ParseServe(line)
  PROVE  IsArgs(ParseServe(line))
  <1>1. ParseServe(line) = [config |-> LastValue(line, "config"), listen |-> LastValue(line, "listen"),
                            data_dir |-> LastValue(line, "data_dir"),
                            no_env |-> \E i \in DOMAIN line : line[i].name = "no_env"]
    <2> DEFINE stops == {i \in DOMAIN line : StopsServe(line[i])}
    <2>1. "exit" \in DOMAIN [exit |-> IF line[Min(stops)].name = "help" THEN 0 ELSE 2]
      BY Zenon
    <2>. QED BY <2>1, Zenon DEF ParseServe
  <1>. QED BY <1>1, LastValueTyped DEF IsArgs, CliFields

-----------------------------------------------------------------------------
(* keydock init *)

InitsTyped ==
  inits \in [Inits -> [pc : {"idle", "started", "checked", "written"}, force : BOOLEAN, existed : BOOLEAN]]

\* A command past its check was forced or began without a file: a file that
\* exists is never removed.
InitInv(i) ==
  /\ inits[i].pc # "idle" /\ inits[i].existed => file # Unset
  /\ inits[i].pc \in {"checked", "written"} => inits[i].force \/ ~inits[i].existed

InitsInv == InitsTyped /\ ConfigWhole /\ \A i \in Inits : InitInv(i)

\* What parse_init returns of the flag --force.
LEMMA InitArgs ==
  ASSUME NEW line, "exit" \notin DOMAIN ParseInit(line)
  PROVE  ParseInit(line).force \in BOOLEAN
  <1>1. \A n : "exit" \in DOMAIN [exit |-> n]
    BY Zenon
  <1>2. PICK dir : ParseInit(line) = [dir |-> dir, force |-> \E i \in DOMAIN line : line[i].name = "force"]
    BY <1>1, ZenonT(60) DEF ParseInit
  <1>. QED BY <1>2

\* The steps that are no step of an init command leave the file to itself.
LEMMA InitSteps ==
  ASSUME Next
  PROVE  UNCHANGED initVars \/ \E i \in Inits : InitStep(i)
  BY Zenon DEF Next, Boot, Load, OpenStore, Bind, Serve, Conn, Connect, Request, Answer, Close, Job, JobStart,
         JobFinish, Scrape, ScrapeEnd, Sweep, SweepDue, SweepSpawn, SweepEnd, SweeperStop, Signal,
         WindDown, MetricsDone, Drained, Join, Exit, Kill, StorageFails, StorageHeals

\* No init command has begun.
LEMMA InitsInit == Init => InitsInv
  <1> SUFFICES ASSUME Init PROVE InitsInv
    BY Zenon
  <1>1. inits = [i \in Inits |-> NoInit] /\ file \in StartFiles
    BY Zenon DEF Init
  <1>. QED BY <1>1, Zenon DEF InitsInv, InitsTyped, ConfigWhole, InitInv, NoInit

\* Every step keeps what the init commands rely on.
LEMMA InitsStep == InitsInv /\ [Next]_vars => InitsInv'
  <1> SUFFICES ASSUME InitsInv, [Next]_vars PROVE InitsInv'
    BY Zenon
  <1>1. CASE UNCHANGED initVars
    BY <1>1, Zenon DEF InitsInv, InitsTyped, ConfigWhole, InitInv, initVars
  <1>2. ASSUME NEW i \in Inits, InitStep(i) PROVE InitsInv'
    <2>0. InitsTyped /\ InitInv(i) /\ ConfigWhole /\ NoInit.pc = "idle"
      BY Zenon DEF InitsInv, NoInit
    <2>1. CASE InitEnds(i) /\ (file' = file \/ file' = InitDocument(InstanceDir, InitKey[i]))
      <3>1. InitsTyped' /\ inits'[i] = NoInit /\ \A g \in Inits \ {i} : inits'[g] = inits[g]
        BY <2>0, <2>1, Zenon DEF InitEnds, InitsTyped, NoInit
      <3>2. ConfigWhole' /\ (file # Unset => file' # Unset)
        BY <2>0, <2>1, InputsAssumption, ServerAssumption, Zenon DEF ConfigWhole
      <3>. QED BY <2>0, <3>1, <3>2, Zenon DEF InitsInv, InitInv
    <2>2. CASE InitStart(i)
      <3>1. PICK line \in InitLines :
              IF "exit" \in DOMAIN ParseInit(line) \/ ParseInit(line).dir # InstanceDir
              THEN InitEnds(i)
              ELSE inits' = [inits EXCEPT ![i] = [pc |-> "started", force |-> ParseInit(line).force,
                                                  existed |-> file # Unset]]
        BY <2>2, Zenon DEF InitStart
      <3>2. file' = file
        BY <2>2, Zenon DEF InitStart
      <3>3. CASE InitEnds(i)
        BY <2>1, <3>2, <3>3, Zenon
      <3>4. CASE ~InitEnds(i)
        <4>1. /\ ParseInit(line).force \in BOOLEAN
              /\ inits' = [inits EXCEPT ![i] = [pc |-> "started", force |-> ParseInit(line).force,
                                                existed |-> file # Unset]]
          BY <3>1, <3>4, InitArgs, Zenon
        <4>2. /\ InitsTyped' /\ \A g \in Inits \ {i} : inits'[g] = inits[g]
              /\ inits'[i].pc = "started" /\ (inits'[i].existed => file # Unset)
          BY <2>0, <4>1, Zenon DEF InitsTyped
        <4>. QED BY <2>0, <3>2, <4>2, Zenon DEF InitsInv, InitInv, ConfigWhole
      <3>. QED BY <3>3, <3>4, Zenon
    <2>3. CASE file' = file /\ \E pc \in {"checked", "written"} :
                 /\ InitGoes(i, pc) /\ inits[i].pc # "idle"
                 /\ inits[i].force \/ ~inits[i].existed
      <3>1. PICK pc \in {"checked", "written"} : InitGoes(i, pc)
        BY <2>3, Zenon
      <3>2. /\ InitsTyped' /\ \A g \in Inits \ {i} : inits'[g] = inits[g]
            /\ inits'[i].force = inits[i].force /\ inits'[i].existed = inits[i].existed
        BY <2>0, <3>1, Zenon DEF InitGoes, InitsTyped
      <3>. QED BY <2>0, <2>3, <3>2, Zenon DEF InitsInv, InitInv, ConfigWhole
    <2>4. CASE InitCheck(i)
      BY <2>0, <2>1, <2>3, <2>4, Zenon DEF InitCheck, InitInv
    <2>5. CASE InitWrite(i)
      BY <2>0, <2>3, <2>5, Zenon DEF InitWrite, InitInv
    <2>6. CASE InitPersist(i) \/ InitAbort(i)
      BY <2>1, <2>6, Zenon DEF InitPersist, InitAbort
    <2>. QED BY <1>2, <2>2, <2>4, <2>5, <2>6, Zenon DEF InitStep
  <1>. QED BY <1>1, <1>2, InitSteps, Zenon DEF vars, initVars

\* keydock.toml is at every instant what it was or a whole document of one
\* init command, however many run and wherever they die.
THEOREM FileIsWhole == Spec => []ConfigWhole
  <1>1. InitsInv => ConfigWhole
    BY Zenon DEF InitsInv
  <1>. QED BY <1>1, InitsInit, InitsStep, PTL DEF Spec

\* An init command without --force never replaces a file that existed when it
\* began, whatever other init commands do meanwhile.
THEOREM ExistingIsKept == Spec => InitKeepsExisting
  <1>1. InitsInv /\ [Next]_vars => [KeepsExisting]_vars
    <2> SUFFICES ASSUME InitsInv, Next, file' # file PROVE KeepsExisting
      BY Zenon DEF KeepsExisting
    <2>1. PICK i \in Inits : InitStep(i)
      BY InitSteps, Zenon DEF initVars
    <2>2. InitPersist(i)
      BY <2>1, Zenon DEF InitStep, InitStart, InitCheck, InitWrite, InitAbort
    <2>3. inits[i].pc = "written" /\ inits'[i] = NoInit
      BY <2>2, Zenon DEF InitPersist, InitEnds, InitsInv, InitsTyped
    <2>. QED BY <2>3, Zenon DEF KeepsExisting, InitsInv, InitInv
  <1>. QED BY <1>1, InitsInit, InitsStep, PTL DEF Spec, InitKeepsExisting

-----------------------------------------------------------------------------
(* Start-up *)

PhaseTyped ==
  /\ phase \in {"down", "loaded", "opened", "bound", "serving", "draining", "joining", "dropping", "exited"}
  /\ (config = Unset) = (phase \notin {"loaded", "opened", "bound"})
  /\ config # Unset => config["root_key"] \in Secrets

\* A whole configuration file is missing, malformed or a document.
LEMMA FileTyped == ConfigWhole => file \in {Unset, Malformed} \/ IsDocument(file)
  <1>1. ASSUME NEW key \in Secrets PROVE IsDocument(InitDocument(InstanceDir, key))
    <2> DEFINE doc == InitDocument(InstanceDir, key)
    <2>1. DOMAIN doc = Fields /\ "root_key" \in Fields
      BY FieldNames, Zenon DEF InitDocument
    <2>2. doc["root_key"] = Inline(key) /\ Inline(key) \in RootKeySources
      BY <2>1, Zenon DEF InitDocument, RootKeySources, KeyTexts
    <2>3. ASSUME NEW f \in Settings PROVE doc[f] \in Texts \cup {Unset}
      <3>1. f \in Fields /\ f # "root_key"
        BY FieldNames, Zenon
      <3>2. f # "metrics_listen" => Defaults[f] \in Texts
        BY ConfigAssumption, Zenon
      <3>3. InstanceDir \in Texts
        BY InputsAssumption, Zenon
      <3>. QED BY <3>1, <3>2, <3>3, Zenon DEF InitDocument
    <2>. QED BY <2>1, <2>2, <2>3, Zenon DEF IsDocument
  <1>. QED BY <1>1, InputsAssumption, ServerAssumption, Zenon DEF ConfigWhole

\* What main starts a server with.
LEMMA Loads ==
  ASSUME ConfigWhole, Load
  PROVE  \/ phase' = "down" /\ UNCHANGED <<started, config>>
         \/ /\ phase' = "loaded" /\ config' # Unset /\ config'["root_key"] \in Secrets
            /\ LoadedByPrecedence
  <1>1. PICK line \in ServeLines, host \in Hosts :
          IF \/ "exit" \in DOMAIN ParseServe(line)
             \/ "error" \in DOMAIN LoadFromSources(ParseServe(line), file, host)
          THEN phase' = "down" /\ UNCHANGED <<started, config>>
          ELSE /\ phase' = "loaded"
               /\ started' = [args |-> ParseServe(line), host |-> host]
               /\ config' = LoadFromSources(ParseServe(line), file, host)
    BY Zenon DEF Load
  <1>2. CASE phase' = "down"
    BY <1>1, <1>2, Zenon
  <1>3. CASE phase' # "down"
    <2> DEFINE args == ParseServe(line)
               c == LoadFromSources(args, file, host)
    <2>1. /\ "exit" \notin DOMAIN args /\ "error" \notin DOMAIN c
          /\ phase' = "loaded" /\ started' = [args |-> args, host |-> host] /\ config' = c
      BY <1>1, <1>3, Zenon
    <2>2. IsArgs(args) /\ IsHost(host) /\ (file \in {Unset, Malformed} \/ IsDocument(file))
      BY <2>1, ServeArgs, FileTyped, InputsAssumption, Zenon
    <2> HIDE DEF args
    <2>3. /\ c \in [Fields -> Texts \cup {Off}] /\ c["root_key"] \in Secrets
          /\ \A f \in Settings : c[f] = TopLayer(Layers(f, args, file, host))
          /\ IF ~args.no_env /\ host.env["root_key"] # Unset
             THEN c["root_key"] = host.env["root_key"]
             ELSE args.config # Unset /\ file["root_key"] # Unset
      BY <2>1, <2>2, Loaded, Zenon
    <2>4. c # Unset
      BY <2>3, ConfigAssumption, Zenon
    <2> HIDE DEF c
    <2>5. started'.args = args /\ started'.host = host
      BY <2>1, Zenon
    <2>6. LoadedByPrecedence
      BY <2>1, <2>3, <2>5, Zenon DEF LoadedByPrecedence
    <2>. QED BY <2>1, <2>3, <2>4, <2>6, Zenon
  <1>. QED BY <1>2, <1>3, Zenon

\* The steps that leave the start-up alone.
LEMMA BootSteps ==
  ASSUME Next
  PROVE  \/ UNCHANGED <<phase, config>> \/ Load
         \/ OpenStore \/ Bind \/ Serve \/ Signal \/ Drained \/ Join \/ Exit \/ Kill
  BY ZenonT(60) DEF Next, InitStep, InitStart, InitCheck, InitWrite, InitPersist, InitAbort, Boot,
         Conn, Connect, Request, Answer, Close, Job, JobStart, JobFinish, Scrape, ScrapeEnd,
         Sweep, SweepDue, SweepSpawn, SweepEnd, SweeperStop, WindDown, MetricsDone,
         StorageFails, StorageHeals, bootVars

\* Every step keeps the types of the process.
LEMMA PhaseStep == InitsInv /\ PhaseTyped /\ [Next]_vars => PhaseTyped'
  <1> SUFFICES ASSUME InitsInv, PhaseTyped, [Next]_vars PROVE PhaseTyped'
    BY Zenon
  <1>1. CASE UNCHANGED <<phase, config>>
    BY <1>1, Zenon DEF PhaseTyped
  <1>2. CASE Load
    BY <1>2, Loads, Zenon DEF PhaseTyped, InitsInv, Load, Stopped
  <1>3. CASE OpenStore
    BY <1>3, Zenon DEF PhaseTyped, OpenStore, FailStart
  <1>4. CASE Bind
    BY <1>4, Zenon DEF PhaseTyped, Bind, FailStart
  <1>5. CASE Serve
    BY <1>5, Zenon DEF PhaseTyped, Serve, FailStart
  <1>6. CASE Signal \/ Drained \/ Join \/ Exit \/ Kill
    BY <1>6, Zenon DEF PhaseTyped, Signal, Drained, Join, Exit, Kill
  <1>. QED BY <1>1, <1>2, <1>3, <1>4, <1>5, <1>6, BootSteps, Zenon DEF vars, bootVars

\* A process that starts has, for every setting, the value of the highest
\* layer that gives one: defaults < file < variables < flags; its root key
\* never comes from a variable that --no-env excludes (load_from_sources).
THEOREM SettingsByPrecedence == Spec => ConfigPrecedence
  <1>1. InitsInv /\ [Next]_vars => [LoadedByPrecedence]_vars
    <2> SUFFICES ASSUME InitsInv, Next, phase' = "loaded", phase # "loaded" PROVE LoadedByPrecedence
      BY Zenon DEF LoadedByPrecedence
    <2>1. Load
      BY BootSteps, Zenon DEF OpenStore, Bind, Serve, Signal, Drained, Join, Exit, Kill, FailStart
    <2>. QED BY <2>1, Loads, Zenon DEF InitsInv
  <1>. QED BY <1>1, InitsInit, InitsStep, PTL DEF Spec, ConfigPrecedence

-----------------------------------------------------------------------------
(* Requests, jobs and shutdown *)

ServeTyped ==
  /\ metrics \in {"off", "serving", "draining", "done"} /\ scraping \in BOOLEAN
  /\ sweeper \in {"off", "sleeping", "due", "waiting"}
  /\ conn \in [Clients -> [state : {"closed", "sending", "waiting", "answered"},
                           kind : {"none", "health", "ready", "api"}, status : {0, 200, 500, 503}]]
  /\ job \in [Jobs -> {"none", "queued", "running", "ok", "error"}]
  /\ storage \in {"up", "down"} /\ faults \in 0 .. MaxFaults
  /\ seenUp \subseteq Clients

\* What has ended by when: connections before the join, the sweeper and the
\* jobs that have not started with it, the jobs that run before the exit.
LifeInv ==
  /\ phase \notin {"serving", "draining"} => \A c \in Clients : conn[c] = Closed
  /\ phase \notin {"serving", "draining", "joining"} => sweeper = "off"
  /\ phase = "dropping" => \A j \in Jobs : job[j] \in {"none", "running"}
  /\ phase \notin {"serving", "draining", "joining", "dropping"} => \A j \in Jobs : job[j] = "none"

\* A ping that returned ok returned at an instant at which the store answered.
ReadyInv ==
  \A c \in Clients :
    conn[c].kind = "ready" /\ (job[c] = "ok" \/ conn[c].status = 200) => c \in seenUp

ServerInv == InitsInv /\ PhaseTyped /\ ServeTyped /\ LifeInv /\ ReadyInv

\* Nothing runs and nothing is open.
LEMMA ServerInit == Init => ServerInv
  <1> SUFFICES ASSUME Init PROVE ServerInv
    OBVIOUS
  <1>1. PhaseTyped
    BY Zenon DEF Init, PhaseTyped
  <1>2. /\ metrics = "off" /\ scraping \in BOOLEAN /\ sweeper = "off" /\ storage = "up" /\ faults = 0
        /\ seenUp = {} /\ phase = "down"
    BY Zenon DEF Init
  <1>3. /\ conn \in [Clients -> {Closed}] /\ job \in [Jobs -> {"none"}]
    BY Zenon DEF Init
  <1>4. /\ conn \in [Clients -> [state : {"closed", "sending", "waiting", "answered"},
                           kind : {"none", "health", "ready", "api"}, status : {0, 200, 500, 503}]]
        /\ job \in [Jobs -> {"none", "queued", "running", "ok", "error"}]
    BY <1>3 DEF Closed
  <1>5. ServeTyped
    BY <1>2, <1>4, ServerAssumption DEF ServeTyped
  <1>6. LifeInv
    BY <1>2, <1>3, Zenon DEF LifeInv
  <1>7. ReadyInv
    BY <1>3 DEF ReadyInv, Closed
  <1>. QED BY <1>1, <1>5, <1>6, <1>7, InitsInit, Zenon DEF ServerInv

\* Observe keeps a probe that saw the store up, and marks one while it is up.
LEMMA Marked ==
  ASSUME Observe, NEW c \in Clients, conn'[c].kind = "ready", c \in seenUp \/ storage' = "up"
  PROVE  c \in seenUp'
  BY Zenon DEF Observe

\* Steps that touch neither connections nor jobs.
LEMMA QuietStep ==
  ASSUME ServerInv, Observe, UNCHANGED <<conn, job>>
  PROVE  ReadyInv' /\ seenUp' \subseteq Clients
  <1>1. seenUp' \subseteq Clients
    BY Zenon DEF Observe
  <1>2. ASSUME NEW c \in Clients, conn'[c].kind = "ready", job'[c] = "ok" \/ conn'[c].status = 200
        PROVE  c \in seenUp'
    BY <1>2, Marked, Zenon DEF ServerInv, ReadyInv
  <1>. QED BY <1>1, <1>2, Zenon DEF ReadyInv

\* A step of a connection keeps the invariant of the running server.
LEMMA ConnStep ==
  ASSUME ServerInv, NEW c \in Clients, Conn(c), Observe
  PROVE  ServeTyped' /\ LifeInv' /\ ReadyInv'
  <1>0. /\ ServeTyped /\ LifeInv /\ ReadyInv /\ c \in Jobs /\ seenUp' \subseteq Clients
        /\ UNCHANGED <<phase, metrics, scraping, sweeper, storage, faults>>
    BY Zenon DEF ServerInv, Jobs, Observe, Conn, Connect, Request, Answer, Close, bootVars
  <1> DEFINE CS == [state : {"closed", "sending", "waiting", "answered"},
                    kind : {"none", "health", "ready", "api"}, status : {0, 200, 500, 503}]
             JS == {"none", "queued", "running", "ok", "error"}
  <1>1. ASSUME NEW v \in CS, NEW w \in JS,
               conn' = [conn EXCEPT ![c] = v], job' = [job EXCEPT ![c] = w],
               v # Closed \/ w \notin {job[c], "none"} => phase \in {"serving", "draining"},
               v.kind = "ready" /\ (w = "ok" \/ v.status = 200) => c \in seenUp
        PROVE  ServeTyped' /\ LifeInv' /\ ReadyInv'
    <2>1. /\ conn' \in [Clients -> CS] /\ job' \in [Jobs -> JS] /\ conn'[c] = v /\ job'[c] = w
          /\ \A d \in Clients \ {c} : conn'[d] = conn[d] /\ job'[d] = job[d]
          /\ \A j \in Jobs \ {c} : job'[j] = job[j]
      BY <1>0, <1>1 DEF ServeTyped, Jobs
    <2> HIDE DEF CS
    <2>2. ServeTyped'
      BY <1>0, <2>1, Zenon DEF ServeTyped, CS
    <2>3. LifeInv'
      BY <1>0, <1>1, <2>1, Zenon DEF LifeInv
    <2>4. ASSUME NEW d \in Clients, conn'[d].kind = "ready", job'[d] = "ok" \/ conn'[d].status = 200
          PROVE  d \in seenUp'
      <3>1. d \in seenUp
        BY <1>0, <1>1, <2>1, <2>4 DEF ReadyInv
      <3>. QED BY <2>4, <3>1, Marked, Zenon
    <2>. QED BY <2>2, <2>3, <2>4, Zenon DEF ReadyInv
  <1>2. /\ conn[c] \in CS /\ job[c] \in JS /\ Closed \in CS /\ job = [job EXCEPT ![c] = job[c]]
        /\ conn[c] # Closed => phase \in {"serving", "draining"}
    BY <1>0 DEF ServeTyped, LifeInv, Closed
  <1>3. CASE Connect(c)
    <2> DEFINE v == [conn[c] EXCEPT !.state = "sending"]
    <2>1. /\ phase = "serving" /\ conn[c] = Closed /\ job[c] = "none" /\ job' = job
          /\ conn' = [conn EXCEPT ![c] = v]
      BY <1>3, Zenon DEF Connect
    <2>2. v \in CS /\ v.kind # "ready"
      BY <1>2, <2>1 DEF Closed
    <2> HIDE DEF v, CS, JS
    <2>3. job' = [job EXCEPT ![c] = job[c]]
      BY <1>2, <2>1, Zenon
    <2>. QED BY <1>1, <1>2, <2>1, <2>2, <2>3, Zenon
  <1>4. CASE Request(c)
    <2>1. conn[c].state = "sending" /\ conn[c] # Closed
      BY <1>4 DEF Request, Closed
    <2>2. CASE /\ conn' = [conn EXCEPT ![c] = [state |-> "answered", kind |-> "health", status |-> 200]]
               /\ UNCHANGED job
      <3> DEFINE v == [state |-> "answered", kind |-> "health", status |-> 200]
      <3>1. v \in CS /\ v.kind # "ready"
        BY Zenon
      <3> HIDE DEF v, CS, JS
      <3>2. conn' = [conn EXCEPT ![c] = v] /\ job' = [job EXCEPT ![c] = job[c]]
        BY <1>2, <2>2, Zenon DEF v
      <3>. QED BY <1>1, <1>2, <2>1, <3>1, <3>2, Zenon
    <2>3. ASSUME NEW kind \in {"ready", "api"},
                 conn' = [conn EXCEPT ![c] = [state |-> "waiting", kind |-> kind, status |-> 0]],
                 job' = [job EXCEPT ![c] = "queued"]
          PROVE  ServeTyped' /\ LifeInv' /\ ReadyInv'
      <3> DEFINE v == [state |-> "waiting", kind |-> kind, status |-> 0]
      <3>1. v \in CS /\ v.status # 200 /\ "queued" \in JS
        OBVIOUS
      <3> HIDE DEF v, CS, JS
      <3>. QED BY <1>1, <1>2, <2>1, <2>3, <3>1, Zenon DEF v
    <2>. QED BY <1>4, <2>2, <2>3, Zenon DEF Request
  <1>5. CASE Answer(c)
    <2> DEFINE v == [state |-> "answered", kind |-> conn[c].kind, status |-> StatusOf(conn[c].kind, job[c])]
    <2>1. /\ conn[c].state = "waiting" /\ conn' = [conn EXCEPT ![c] = v] /\ job' = [job EXCEPT ![c] = "none"]
      BY <1>5, Zenon DEF Answer, Waiting
    <2>2. v \in CS /\ v.kind = conn[c].kind /\ v.status = StatusOf(conn[c].kind, job[c])
      <3>1. StatusOf(conn[c].kind, job[c]) \in {200, 500, 503}
        BY DEF StatusOf
      <3>2. conn[c].kind \in {"none", "health", "ready", "api"}
        BY <1>2
      <3>. QED BY <3>1, <3>2
    <2>3. v.kind = "ready" /\ v.status = 200 => c \in seenUp
      BY <1>0, <2>2 DEF StatusOf, ReadyInv
    <2>4. conn[c] # Closed /\ "none" \in JS
      BY <2>1 DEF Closed
    <2> HIDE DEF v, CS, JS
    <2>. QED BY <1>1, <1>2, <2>1, <2>2, <2>3, <2>4, Zenon
  <1>6. CASE Close(c)
    <2> DEFINE w == IF job[c] \in {"ok", "error"} THEN "none" ELSE job[c]
    <2>1. conn' = [conn EXCEPT ![c] = Closed] /\ job' = [job EXCEPT ![c] = w]
      BY <1>6, Zenon DEF Close
    <2>2. w \in JS /\ w \in {job[c], "none"} /\ Closed.kind # "ready"
      BY <1>2 DEF Closed
    <2> HIDE DEF w, CS, JS
    <2>. QED BY <1>1, <1>2, <2>1, <2>2, Zenon
  <1>. QED BY <1>3, <1>4, <1>5, <1>6, Zenon DEF Conn

\* So does a step of a job on the blocking pool.
LEMMA JobStep ==
  ASSUME ServerInv, NEW j \in Jobs, Job(j), Observe
  PROVE  ServeTyped' /\ LifeInv' /\ ReadyInv'
  <1>0. /\ ServeTyped /\ LifeInv /\ ReadyInv /\ seenUp' \subseteq Clients
        /\ UNCHANGED <<phase, metrics, scraping, sweeper, conn, storage, faults>>
    BY Zenon DEF ServerInv, Observe, Job, JobStart, JobFinish, bootVars
  <1>1. ASSUME NEW w \in {"none", "running", "ok", "error"}, job' = [job EXCEPT ![j] = w],
               job[j] # "none", w = "running" => job[j] = "queued",
               w \in {"ok", "error"} => Awaited(j), w = "ok" => storage = "up"
        PROVE  ServeTyped' /\ LifeInv' /\ ReadyInv'
    <2>1. /\ job' \in [Jobs -> {"none", "queued", "running", "ok", "error"}]
          /\ job'[j] = w /\ \A k \in Jobs \ {j} : job'[k] = job[k]
      BY <1>0, <1>1 DEF ServeTyped
    <2>2. ServeTyped'
      BY <1>0, <2>1 DEF ServeTyped
    <2>3. Awaited(j) => phase \in {"serving", "draining", "joining"}
      <3>1. CASE j = Gc
        BY <1>0, <3>1, Zenon DEF Awaited, LifeInv
      <3>2. CASE j # Gc
        BY <1>0, <3>2 DEF Awaited, Waiting, LifeInv, Jobs, Closed
      <3>. QED BY <3>1, <3>2, Zenon
    <2>4. LifeInv'
      BY <1>0, <1>1, <2>1, <2>3, Zenon DEF LifeInv
    <2>5. ASSUME NEW c \in Clients, conn'[c].kind = "ready", job'[c] = "ok" \/ conn'[c].status = 200
          PROVE  c \in seenUp'
      <3>1. c \in seenUp \/ storage' = "up"
        BY <1>0, <1>1, <2>1, <2>5, Zenon DEF ReadyInv, Jobs
      <3>. QED BY <2>5, <3>1, Marked, Zenon
    <2>. QED BY <2>2, <2>4, <2>5, Zenon DEF ReadyInv
  <1>2. CASE JobStart(j)
    BY <1>1, <1>2, Zenon DEF JobStart
  <1>3. CASE JobFinish(j)
    <2>1. PICK result \in {"error"} \cup (IF storage = "up" THEN {"ok"} ELSE {}) :
            job' = [job EXCEPT ![j] = IF Awaited(j) THEN result ELSE "none"]
      BY <1>3, Zenon DEF JobFinish
    <2>. QED BY <1>1, <1>3, <2>1, Zenon DEF JobFinish
  <1>. QED BY <1>2, <1>3, Zenon DEF Job

\* So does every other step: start-up, sweeper, signals, drain and exit.
LEMMA LifeStep ==
  ASSUME ServerInv, Next
  PROVE  ServeTyped' /\ LifeInv' /\ ReadyInv'
  <1>0. Observe /\ ServeTyped /\ LifeInv /\ PhaseTyped /\ seenUp' \subseteq Clients
    BY Zenon DEF Next, ServerInv, Observe
  <1>1. ASSUME UNCHANGED serveVars, UNCHANGED storage, UNCHANGED faults,
               metrics' \in {"off", "serving", "draining", "done"},
               phase' # phase => \/ /\ phase \notin {"serving", "draining", "joining", "dropping"}
                                    /\ phase' \notin {"serving", "draining", "joining", "dropping"}
                                 \/ phase = "serving" /\ phase' = "draining"
        PROVE  ServeTyped' /\ LifeInv' /\ ReadyInv'
    <2>1. UNCHANGED <<scraping, sweeper, conn, job>>
      BY <1>1, Zenon DEF serveVars
    <2>2. ServeTyped'
      BY <1>0, <1>1, <2>1, Zenon DEF ServeTyped
    <2>3. LifeInv'
      BY <1>0, <1>1, <2>1, Zenon DEF LifeInv
    <2>. QED BY <1>0, <2>1, <2>2, <2>3, QuietStep, Zenon
  <1>2. CASE \E i \in Inits : InitStep(i)
    <2>1. UNCHANGED <<bootVars, serveVars, storage, faults>>
      BY <1>2, Zenon DEF InitStep, InitStart, InitCheck, InitWrite, InitPersist, InitAbort
    <2>. QED BY <1>0, <1>1, <2>1, Zenon DEF bootVars, ServeTyped
  <1>3. CASE Load \/ OpenStore \/ Bind
    <2>1. UNCHANGED serveVars /\ UNCHANGED storage /\ UNCHANGED faults /\ UNCHANGED metrics
      BY <1>3, Zenon DEF Load, OpenStore, Bind, FailStart
    <2>2. /\ phase \notin {"serving", "draining", "joining", "dropping"}
          /\ phase' \in {"down", "loaded", "opened", "bound"}
      BY <1>0, <1>3, Zenon DEF Load, OpenStore, Bind, FailStart, Stopped
    <2>. QED BY <1>0, <1>1, <2>1, <2>2, Zenon DEF ServeTyped
  <1>4. CASE Serve
    <2>1. /\ phase = "bound" /\ UNCHANGED <<scraping, conn, job, storage, faults>>
          /\ metrics' \in {metrics, "off", "serving"}
          /\ \/ phase' = "serving" /\ sweeper' = "sleeping"
             \/ phase' = "down" /\ sweeper' = sweeper
      <3>1. phase = "bound" /\ UNCHANGED <<scraping, conn, job, storage, faults>>
        BY <1>4, Zenon DEF Serve
      <3>2. \/ /\ phase' = "serving" /\ sweeper' = "sleeping"
               /\ metrics' = IF config["metrics_listen"] = Off THEN "off" ELSE "serving"
            \/ phase' = "down" /\ sweeper' = sweeper /\ metrics' = metrics
        BY <1>4, Zenon DEF Serve, FailStart
      <3>. QED BY <3>1, <3>2, Zenon
    <2>2. ServeTyped' /\ LifeInv'
      BY <1>0, <2>1 DEF ServeTyped, LifeInv
    <2>. QED BY <1>0, <2>1, <2>2, QuietStep, Zenon
  <1>5. CASE Scrape \/ ScrapeEnd
    <2>1. scraping' \in BOOLEAN /\ UNCHANGED <<phase, metrics, sweeper, conn, job, storage, faults>>
      BY <1>5, Zenon DEF Scrape, ScrapeEnd, bootVars
    <2>2. ServeTyped' /\ LifeInv'
      BY <1>0, <2>1 DEF ServeTyped, LifeInv
    <2>. QED BY <1>0, <2>1, <2>2, QuietStep, Zenon
  <1>6. CASE SweepDue \/ SweeperStop
    <2>1. /\ sweeper = "sleeping" /\ sweeper' \in {"due", "off"}
          /\ UNCHANGED <<phase, metrics, scraping, conn, job, storage, faults>>
      BY <1>6, Zenon DEF SweepDue, SweeperStop, bootVars
    <2>2. ServeTyped' /\ LifeInv'
      BY <1>0, <2>1 DEF ServeTyped, LifeInv
    <2>. QED BY <1>0, <2>1, <2>2, QuietStep, Zenon
  <1>7. CASE SweepSpawn \/ SweepEnd
    <2>1. /\ sweeper # "off" /\ UNCHANGED <<phase, metrics, scraping, conn, storage, faults>>
          /\ sweeper' \in {"waiting", "sleeping"}
      BY <1>7, Zenon DEF SweepSpawn, SweepEnd, bootVars
    <2>2. /\ job' \in [Jobs -> {"none", "queued", "running", "ok", "error"}]
          /\ \A c \in Clients : job'[c] = job[c]
      BY <1>0, <1>7, ServerAssumption DEF SweepSpawn, SweepEnd, ServeTyped, Jobs
    <2>3. phase \in {"serving", "draining", "joining"}
      BY <1>0, <2>1, Zenon DEF LifeInv
    <2>4. ServeTyped' /\ LifeInv'
      BY <1>0, <2>1, <2>2, <2>3 DEF ServeTyped, LifeInv
    <2>5. ASSUME NEW c \in Clients, conn'[c].kind = "ready", job'[c] = "ok" \/ conn'[c].status = 200
          PROVE  c \in seenUp'
      BY <1>0, <2>1, <2>2, <2>5, Marked, Zenon DEF ServerInv, ReadyInv
    <2>. QED BY <2>4, <2>5, Zenon DEF ReadyInv
  <1>8. CASE Signal \/ MetricsDone
    <2>1. UNCHANGED serveVars /\ UNCHANGED storage /\ UNCHANGED faults
      BY <1>8, Zenon DEF Signal, MetricsDone
    <2>2. /\ metrics' \in {metrics, "draining", "done"}
          /\ phase' # phase => phase = "serving" /\ phase' = "draining"
      BY <1>8, Zenon DEF Signal, MetricsDone
    <2>. QED BY <1>0, <1>1, <2>1, <2>2 DEF ServeTyped
  <1>9. CASE Drained
    <2>1. /\ phase' = "joining" /\ \A c \in Clients : conn[c] = Closed
          /\ UNCHANGED <<metrics, scraping, sweeper, conn, job, storage, faults>>
      BY <1>9, Zenon DEF Drained, serveVars
    <2>2. ServeTyped' /\ LifeInv'
      BY <1>0, <2>1 DEF ServeTyped, LifeInv
    <2>. QED BY <1>0, <2>1, <2>2, QuietStep, Zenon
  <1>10. CASE Join
    <2>1. /\ phase = "joining" /\ phase' = "dropping" /\ metrics' = "off" /\ sweeper' = "off"
          /\ UNCHANGED <<scraping, conn, storage, faults>>
          /\ job' = [j \in Jobs |-> IF job[j] = "running" THEN "running" ELSE "none"]
      BY <1>10, Zenon DEF Join
    <2>2. job' \in [Jobs -> {"none", "running"}]
      BY <2>1, Zenon
    <2>3. ServeTyped' /\ LifeInv'
      BY <1>0, <2>1, <2>2, Zenon DEF ServeTyped, LifeInv
    <2>4. ASSUME NEW c \in Clients PROVE conn'[c].kind # "ready"
      BY <1>0, <2>1 DEF LifeInv, Closed
    <2>. QED BY <2>3, <2>4, Zenon DEF ReadyInv
  <1>11. CASE Exit
    <2>1. /\ phase = "dropping" /\ phase' = "exited" /\ \A j \in Jobs : job[j] # "running"
          /\ UNCHANGED <<metrics, scraping, sweeper, conn, job, storage, faults>>
      BY <1>11, Zenon DEF Exit, serveVars
    <2>2. ServeTyped' /\ LifeInv'
      BY <1>0, <2>1 DEF ServeTyped, LifeInv
    <2>. QED BY <1>0, <2>1, <2>2, QuietStep, Zenon
  <1>12. CASE Kill
    <2>1. /\ phase' = "down" /\ metrics' = "off" /\ scraping' \in BOOLEAN /\ sweeper' = "off"
          /\ UNCHANGED <<storage, faults>>
      BY <1>12, Zenon DEF Kill
    <2>2. conn' \in [Clients -> {Closed}] /\ job' \in [Jobs -> {"none"}]
      BY <1>12, Zenon DEF Kill
    <2>3. conn' \in [Clients -> [state : {"closed", "sending", "waiting", "answered"},
                                 kind : {"none", "health", "ready", "api"}, status : {0, 200, 500, 503}]]
      BY <2>2 DEF Closed
    <2>4. ServeTyped'
      BY <1>0, <2>1, <2>2, <2>3 DEF ServeTyped
    <2>5. LifeInv' /\ ReadyInv'
      BY <2>1, <2>2 DEF LifeInv, ReadyInv, Closed
    <2>. QED BY <2>4, <2>5, Zenon
  <1>13. CASE StorageFails \/ StorageHeals
    <2>1. /\ storage' \in {"up", "down"} /\ faults' \in 0 .. MaxFaults
          /\ UNCHANGED <<phase, metrics, scraping, sweeper, conn, job>>
      BY <1>0, <1>13, ServerAssumption DEF StorageFails, StorageHeals, ServeTyped, bootVars, serveVars
    <2>2. ServeTyped' /\ LifeInv'
      BY <1>0, <2>1 DEF ServeTyped, LifeInv
    <2>. QED BY <1>0, <2>1, <2>2, QuietStep, Zenon
  <1>. QED
    BY <1>0, <1>2, <1>3, <1>4, <1>5, <1>6, <1>7, <1>8, <1>9, <1>10, <1>11, <1>12, <1>13, ConnStep, JobStep, Zenon
    DEF Next, Boot, Sweep, WindDown

\* Every step keeps the invariant of the server.
LEMMA ServerStep == ServerInv /\ [Next]_vars => ServerInv'
  <1>1. ServerInv /\ UNCHANGED vars => ServerInv'
    BY DEF ServerInv, InitsInv, InitsTyped, ConfigWhole, InitInv, PhaseTyped, ServeTyped, LifeInv, ReadyInv,
           vars, initVars, bootVars, serveVars
  <1>. QED BY <1>1, InitsStep, PhaseStep, LifeStep, Zenon DEF ServerInv

\* The invariant of the server.
LEMMA ServerInvariant == Spec => []ServerInv
  BY ServerInit, ServerStep, PTL DEF Spec

\* Every reachable state is well typed: a process past its start-up checks has
\* a configuration with an accepted root key, never the placeholder.
THEOREM TypesHold == Spec => []TypeOK
  <1>1. ServerInv => TypeOK
    BY Zenon DEF ServerInv, InitsInv, InitsTyped, PhaseTyped, ServeTyped, TypeOK
  <1>. QED BY <1>1, ServerInvariant, PTL

\* A process that ends by itself leaves no accepted request unanswered and cuts
\* off no job, however the signal, the drain, the sweeper and the pool interleave.
THEOREM ExitsCleanly == Spec => []CleanExit
  <1>1. ServerInv => CleanExit
    BY Zenon DEF ServerInv, LifeInv, CleanExit
  <1>. QED BY <1>1, ServerInvariant, PTL

\* A /ready that answers 200 was open at an instant at which the store
\* answered, for any number of clients and pool threads.
THEOREM ReadyIsTruthful == Spec => []ReadinessTruthful
  <1>1. ServerInv => ReadinessTruthful
    BY Zenon DEF ServerInv, ReadyInv, ReadinessTruthful
  <1>. QED BY <1>1, ServerInvariant, PTL
=============================================================================

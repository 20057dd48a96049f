------------------------------- MODULE Config -------------------------------
(***************************************************************************)
(* How a keydock process finds its settings (keydock-config): the command  *)
(* line, the TOML file, the KEYDOCK_* variables and the root key with its  *)
(* indirections.  A setting's value is a model value: what matters is the  *)
(* layer it comes from and whether its text parses.                        *)
(***************************************************************************)
EXTENDS Naturals, Sequences, FiniteSetsExt

CONSTANTS
  Unset,       \* a variable, option or TOML entry that is not there
  Values,      \* texts that parse as the setting they are given for
  Blank,       \* an empty text, or one of blanks only
  Garbage,     \* a text that is no address, number or flag
  NotUnicode,  \* a variable whose bytes are not UTF-8
  Off,         \* no dedicated metrics listener
  Secrets,     \* root keys that are accepted
  Placeholder, \* INSECURE_ROOT_KEY_PLACEHOLDER
  Malformed,   \* a file that is not a valid configuration
  Defaults     \* the built-in value of every setting

\* The order in which merge_env reads the variables.
EnvOrder == <<"listen", "metrics_listen", "data_dir", "log_json", "root_key",
              "gc_interval", "rate_enabled", "rate_limit">>

Fields   == {EnvOrder[i] : i \in DOMAIN EnvOrder}
Settings == Fields \ {"root_key"}
CliFields == {"listen", "data_dir"}

Texts    == Values \cup Secrets \cup {Blank, Garbage, Placeholder}
KeyTexts == Secrets \cup {Blank, Placeholder}

ASSUME ConfigAssumption ==
  /\ DOMAIN Defaults = Settings /\ Defaults["metrics_listen"] = Off
  /\ \A f \in Settings \ {"metrics_listen"} : Defaults[f] \in Texts
  /\ {Unset, NotUnicode, Malformed, Off} \cap Texts = {} /\ Unset # Off
  /\ Unset \notin [Fields -> Texts \cup {Off}]

\* Results that are not a configuration.
Failure(kind, field) == [error |-> kind, field |-> field]

Failures ==
  [error : {"Io", "Parse", "InvalidEnv", "EnvNotUnicode", "MissingRootKey", "MissingSecretEnv",
            "SecretFileIo", "EmptyRootKey", "InsecureRootKeyPlaceholder"},
   field : Fields \cup {"config"}]

ASSUME FailureAssumption == Failures \cap (Texts \cup {Unset}) = {}

-----------------------------------------------------------------------------
(* Command line *)

\* An option of `serve`: its name and its value, Unset for a flag.
Option(name, value) == [name |-> name, value |-> value]

\* parse_serve stops at `--help`, at an option it does not know and at a
\* --listen that is no address.
StopsServe(o) ==
  \/ o.name \notin {"config", "listen", "data_dir", "no_env"}
  \/ o.name = "listen" /\ o.value \in {Blank, Garbage}

LastValue(options, name) ==
  LET given == {i \in DOMAIN options : options[i].name = name}
  IN IF given = {} THEN Unset ELSE options[Max(given)].value

\* parse_serve: ServeArgs, or the exit status.  A repeated option counts once,
\* with its last value.
ParseServe(options) ==
  LET stops == {i \in DOMAIN options : StopsServe(options[i])}
  IN IF stops # {}
     THEN [exit |-> IF options[Min(stops)].name = "help" THEN 0 ELSE 2]
     ELSE [config |-> LastValue(options, "config"),
           listen |-> LastValue(options, "listen"),
           data_dir |-> LastValue(options, "data_dir"),
           no_env |-> \E i \in DOMAIN options : options[i].name = "no_env"]

\* parse_init: exactly one directory, and --force.
ParseInit(options) ==
  LET dirs  == {i \in DOMAIN options : options[i].name = "dir"}
      stops == {i \in DOMAIN options : \/ options[i].name \notin {"dir", "force"}
                                       \/ i \in dirs /\ i # Min(dirs)}
  IN IF stops # {} THEN [exit |-> IF options[Min(stops)].name = "help" THEN 0 ELSE 2]
     ELSE IF dirs = {} THEN [exit |-> 2]
     ELSE [dir |-> options[Min(dirs)].value,
           force |-> \E i \in DOMAIN options : options[i].name = "force"]

-----------------------------------------------------------------------------
(* Layers *)

\* RawRootKey: a text, or where to find it.
Inline(text) == [from |-> "value", text |-> text]
FromEnv      == [from |-> "env"]
FromFile(absolute) == [from |-> "file", absolute |-> absolute]

RootKeySources == {FromEnv, FromFile(TRUE), FromFile(FALSE)} \cup {Inline(text) : text \in KeyTexts}

ASSUME SourceAssumption == Unset \notin RootKeySources

\* RawConfig: a configuration file that parses.
IsDocument(doc) ==
  /\ DOMAIN doc = Fields /\ doc["root_key"] \in RootKeySources \cup {Unset}
  /\ \A f \in Settings : doc[f] \in Texts \cup {Unset}

\* The environment of a process and the secret files it can reach.
IsHost(host) ==
  /\ host.env["root_key"] \in KeyTexts \cup {Unset, NotUnicode}
  /\ \A f \in Settings : host.env[f] \in Texts \cup {Unset, NotUnicode}
  /\ {host.secretEnv, host.files["absolute"], host.files["config_dir"]}
       \subseteq KeyTexts \cup {Unset, NotUnicode}

\* RawConfig::default.
EmptyDocument == [f \in Fields |-> Unset]

\* A document's settings over the defaults, as toml::from_str leaves them.
WithDefaults(doc) ==
  [f \in Fields |-> IF f \in Settings /\ doc[f] = Unset THEN Defaults[f] ELSE doc[f]]

\* What a variable's text means for its field: parse_env_value, parse_bool_env,
\* parse_optional_socket_addr; any text is a path or a root key.
EnvParses(f, text) ==
  \/ f \in {"data_dir", "root_key"}
  \/ f = "metrics_listen" /\ text = Blank
  \/ text \in Values
EnvValue(f, text) ==
  CASE f = "root_key" -> Inline(text)
    [] f = "metrics_listen" /\ text = Blank -> Off
    [] OTHER -> text

\* The first variable that merge_env cannot use.
EnvFault(env) ==
  LET bad == {i \in DOMAIN EnvOrder :
                env[EnvOrder[i]] # Unset
                  /\ (env[EnvOrder[i]] = NotUnicode \/ ~EnvParses(EnvOrder[i], env[EnvOrder[i]]))}
      f == EnvOrder[Min(bad)]
  IN IF bad = {} THEN Unset
     ELSE Failure(IF env[f] = NotUnicode THEN "EnvNotUnicode" ELSE "InvalidEnv", f)

MergeEnv(raw, env) ==
  [f \in Fields |-> IF env[f] = Unset THEN raw[f] ELSE EnvValue(f, env[f])]

MergeCli(raw, args) ==
  [f \in Fields |-> IF f \in CliFields /\ args[f] # Unset THEN args[f] ELSE raw[f]]

\* resolve_secret_file_path: a relative path starts at the config file's directory.
SecretFilePath(source) == IF source.absolute THEN "absolute" ELSE "config_dir"

\* Mutant: the placeholder of the sample configuration is accepted.
ResolveRootKeyUnvalidated(source, host) ==
  IF source = Unset THEN Failure("MissingRootKey", "root_key")
  ELSE LET text == CASE source.from = "value" -> source.text
                     [] source.from = "env" -> host.secretEnv
                     [] source.from = "file" -> host.files[SecretFilePath(source)]
       IN CASE text \in {Unset, NotUnicode} -> Failure("SecretFileIo", "root_key")
            [] text = Blank -> Failure("EmptyRootKey", "root_key")
            [] OTHER -> text

\* resolve_root_key and validate_root_key.
ResolveRootKey(source, host) ==
  IF source = Unset THEN Failure("MissingRootKey", "root_key")
  ELSE LET text == CASE source.from = "value" -> source.text
                     [] source.from = "env" -> host.secretEnv
                     [] source.from = "file" -> host.files[SecretFilePath(source)]
       IN CASE text \in {Unset, NotUnicode} ->
                 Failure(IF source.from = "file" THEN "SecretFileIo"
                         ELSE IF text = Unset THEN "MissingSecretEnv" ELSE "EnvNotUnicode", "root_key")
            [] text = Blank -> Failure("EmptyRootKey", "root_key")
            [] text = Placeholder -> Failure("InsecureRootKeyPlaceholder", "root_key")
            [] OTHER -> text

\* RawConfig::resolve.
ResolveConfig(raw, host) ==
  LET key == ResolveRootKey(raw["root_key"], host)
  IN IF key \in Texts THEN [raw EXCEPT !["root_key"] = key] ELSE key

\* Mutant: the environment is applied over the command line.
LoadFromSourcesEnvLast(args, file, host) ==
  IF args.config # Unset /\ file \in {Unset, Malformed}
  THEN Failure(IF file = Unset THEN "Io" ELSE "Parse", "config")
  ELSE LET doc == WithDefaults(IF args.config # Unset THEN file ELSE EmptyDocument)
           env == IF args.no_env THEN EmptyDocument ELSE host.env
       IN IF EnvFault(env) # Unset THEN EnvFault(env)
          ELSE ResolveConfig(MergeEnv(MergeCli(doc, args), env), host)

\* Config::load_from_sources; file is what the path of -c holds.
LoadFromSources(args, file, host) ==
  IF args.config # Unset /\ file \in {Unset, Malformed}
  THEN Failure(IF file = Unset THEN "Io" ELSE "Parse", "config")
  ELSE LET doc == WithDefaults(IF args.config # Unset THEN file ELSE EmptyDocument)
           env == IF args.no_env THEN EmptyDocument ELSE host.env
       IN IF EnvFault(env) # Unset THEN EnvFault(env)
          ELSE ResolveConfig(MergeCli(MergeEnv(doc, env), args), host)

-----------------------------------------------------------------------------
(* keydock init *)

\* build_init_config as write_init_config serializes it: the defaults, an
\* absolute data directory and a fresh root key; an Off listener is left out.
InitDocument(dir, key) ==
  [f \in Fields |-> CASE f = "root_key" -> Inline(key)
                      [] f = "data_dir" -> dir
                      [] f = "metrics_listen" -> Unset
                      [] OTHER -> Defaults[f]]
=============================================================================

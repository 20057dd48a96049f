------------------------------ MODULE MCServer ------------------------------
(* Instances of Server for TLC. *)
EXTENDS Server, TLC

CONSTANTS a, b, d, k1, k2

MCDefaults == [f \in Settings |-> IF f = "metrics_listen" THEN Off ELSE d]
MCInitKey == [i \in Inits |-> k2]

Document(listen, scrape, key) ==
  [EmptyDocument EXCEPT !["listen"] = listen, !["metrics_listen"] = scrape, !["root_key"] = key]

MCStartFiles ==
  {Unset, Malformed, Document(Unset, b, FromEnv),
   Document(a, Unset, FromFile(FALSE)), Document(b, a, FromFile(TRUE))}

MCServeLines ==
  {<<>>, <<Option("config", a)>>, <<Option("config", a), Option("no_env", Unset)>>,
   <<Option("config", a), Option("listen", a)>>, <<Option("listen", Garbage), Option("help", Unset)>>,
   <<Option("help", Unset)>>, <<Option("data_dir", a), Option("data_dir", b)>>}

MCInitLines ==
  {<<Option("dir", a)>>, <<Option("force", Unset), Option("dir", a)>>, <<Option("dir", b)>>,
   <<Option("dir", a), Option("dir", a)>>, <<Option("force", Unset)>>, <<Option("help", Unset)>>}

MCHosts ==
  {[env |-> e, secretEnv |-> s, files |-> [absolute |-> s, config_dir |-> f]] :
     e \in {EmptyDocument, Document(b, Blank, k1), Document(Garbage, Unset, NotUnicode), Document(Unset, b, Blank)},
     s \in {Unset, k2, NotUnicode, Placeholder}, f \in {Blank, k1}}
=============================================================================

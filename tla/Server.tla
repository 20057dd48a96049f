------------------------------- MODULE Server -------------------------------
(***************************************************************************)
(* The life of a keydock process (apps/keydock main.rs): `init` commands   *)
(* that write keydock.toml, and `serve` from its command line to its exit: *)
(* configuration, store, listeners, sweeper, requests with their jobs on   *)
(* the blocking pool, probes, the shutdown signal and the graceful drain.  *)
(* What a job does to the store is FjallStore's subject.                   *)
(*                                                                         *)
(* Of axum and tokio this module assumes: a draining server accepts no     *)
(* connection and returns when those it has are closed; a dropped handler  *)
(* leaves its blocking job running; a runtime that is dropped forgets the  *)
(* jobs still queued and waits for those that run.                         *)
(***************************************************************************)
EXTENDS Config

CONSTANTS
  Clients,      \* connections at a time
  Gc,           \* the sweeper's job
  PoolSize,     \* threads of the blocking pool
  Inits,        \* `keydock init` commands
  InitKey,      \* the root key each of them generates
  InstanceDir,  \* the absolute path of the instance's data directory
  StartFiles,   \* bound: what keydock.toml holds before the first command
  ServeLines,   \* bound: the `serve` command lines tried
  InitLines,    \* bound: the `init` command lines tried
  Hosts,        \* bound: the environments a process is started in
  MaxFaults     \* bound: storage outages

Jobs == Clients \cup {Gc}

ASSUME ServerAssumption ==
  Gc \notin Clients /\ PoolSize \in Nat \ {0} /\ InitKey \in [Inits -> Secrets] /\ MaxFaults \in Nat

ASSUME InputsAssumption ==
  /\ \A f \in StartFiles : f \in {Unset, Malformed} \/ IsDocument(f)
  /\ \A host \in Hosts : IsHost(host)
  /\ ServeLines \subseteq Seq([name : STRING, value : Texts \cup {Unset}])
  /\ InstanceDir \in Texts
  /\ \A key \in Secrets : InitDocument(InstanceDir, key) \notin {Unset, Malformed}

VARIABLES
  file,     \* the content of keydock.toml, Unset when there is none
  inits,    \* the init commands: [pc, force, existed]
  phase,    \* where serve() is
  started,  \* its command line and environment, until the store is opened
  config,   \* its configuration, until it serves
  metrics,  \* the metrics server: off, serving, draining, done
  scraping, \* a scrape is under way on the metrics server
  sweeper,  \* the sweeper task: off, sleeping, due, waiting
  conn,     \* connections: [state, kind, status]
  job,      \* jobs on the blocking pool
  storage,  \* whether the store answers
  faults,   \* outages so far
  seenUp    \* history: /ready probes during which the store answered at some instant

initVars  == <<file, inits>>
bootVars  == <<phase, started, config, metrics>>
serveVars == <<scraping, sweeper, conn, job>>
vars == <<initVars, bootVars, serveVars, storage, faults, seenUp>>

NoInit == [pc |-> "idle", force |-> FALSE, existed |-> FALSE]
Closed == [state |-> "closed", kind |-> "none", status |-> 0]
Stopped == phase \in {"down", "exited"}
Waiting(c) == conn[c].state = "waiting"

Init ==
  /\ file \in StartFiles
  /\ inits = [i \in Inits |-> NoInit]
  /\ phase = "down"
  /\ started = Unset /\ config = Unset
  /\ metrics = "off" /\ scraping = FALSE
  /\ sweeper = "off"
  /\ conn = [c \in Clients |-> Closed]
  /\ job = [j \in Jobs |-> "none"]
  /\ storage = "up" /\ faults = 0
  /\ seenUp = {}

-----------------------------------------------------------------------------
(* keydock init.  Only while no server runs: a server reads the file once,  *)
(* when it starts.                                                          *)

InitGoes(i, pc) == inits' = [inits EXCEPT ![i].pc = pc]
InitEnds(i) == inits' = [inits EXCEPT ![i] = NoInit]

\* parse_init and the test that the directory is one.
InitStart(i) ==
  /\ Stopped /\ inits[i].pc = "idle"
  /\ \E line \in InitLines :
       LET args == ParseInit(line)
       IN IF "exit" \in DOMAIN args \/ args.dir # InstanceDir
          THEN InitEnds(i)
          ELSE inits' = [inits EXCEPT ![i] = [pc |-> "started", force |-> args.force,
                                              existed |-> file # Unset]]
  /\ UNCHANGED <<file, bootVars, serveVars, storage, faults>>

\* Mutant: --force is the default.
InitCheckForced(i) ==
  /\ Stopped /\ inits[i].pc = "started"
  /\ InitGoes(i, "checked")
  /\ UNCHANGED <<file, bootVars, serveVars, storage, faults>>

\* write_init_config refuses a file that exists, unless forced.
InitCheck(i) ==
  /\ Stopped /\ inits[i].pc = "started"
  /\ IF file # Unset /\ ~inits[i].force THEN InitEnds(i) ELSE InitGoes(i, "checked")
  /\ UNCHANGED <<file, bootVars, serveVars, storage, faults>>

\* Mutant: keydock.toml itself is opened for writing, and is empty at first.
InitWriteInPlace(i) ==
  /\ Stopped /\ inits[i].pc = "checked"
  /\ InitGoes(i, "written")
  /\ file' = EmptyDocument
  /\ UNCHANGED <<bootVars, serveVars, storage, faults>>

\* The document is written to a temporary file and synced.
InitWrite(i) ==
  /\ Stopped /\ inits[i].pc = "checked"
  /\ InitGoes(i, "written")
  /\ UNCHANGED <<file, bootVars, serveVars, storage, faults>>

\* The temporary file is renamed to keydock.toml.
InitPersist(i) ==
  /\ Stopped /\ inits[i].pc = "written"
  /\ file' = InitDocument(InstanceDir, InitKey[i])
  /\ InitEnds(i)
  /\ UNCHANGED <<bootVars, serveVars, storage, faults>>

\* An I/O error or the end of the process.
InitAbort(i) ==
  /\ Stopped /\ inits[i].pc \in {"started", "checked", "written"}
  /\ InitEnds(i)
  /\ UNCHANGED <<file, bootVars, serveVars, storage, faults>>

-----------------------------------------------------------------------------
(* Start-up *)

\* serve() returns an error before it serves.
FailStart ==
  /\ phase' = "down"
  /\ started' = Unset /\ config' = Unset
  /\ UNCHANGED metrics

\* main: the command line, then load_merged_config.
Load ==
  /\ Stopped
  /\ \E line \in ServeLines, host \in Hosts :
       LET args == ParseServe(line)
           c    == LoadFromSources(args, file, host)
       IN IF "exit" \in DOMAIN args \/ "error" \in DOMAIN c
          THEN phase' = "down" /\ UNCHANGED <<started, config>>
          ELSE /\ phase' = "loaded"
               /\ started' = [args |-> args, host |-> host]
               /\ config' = c
  /\ UNCHANGED <<initVars, metrics, serveVars, storage, faults>>

\* The data directory is created and the store opened.  Bound: a server is
\* followed further only when no init command is under way, which it would not
\* notice.
OpenStore ==
  /\ phase = "loaded" /\ \A i \in Inits : inits[i] = NoInit
  /\ \/ /\ storage = "up"
        /\ phase' = "opened" /\ started' = Unset
        /\ UNCHANGED <<config, metrics>>
     \/ FailStart
  /\ UNCHANGED <<initVars, serveVars, storage, faults>>

\* The limiter is initialized, the router built and the main address bound.
Bind ==
  /\ phase = "opened"
  /\ \/ phase' = "bound" /\ UNCHANGED <<started, config, metrics>>
     \/ FailStart
  /\ UNCHANGED <<initVars, serveVars, storage, faults>>

\* The metrics address is bound if there is one, the sweeper spawned, and
\* axum::serve entered.  The configuration is not looked at again.
Serve ==
  /\ phase = "bound"
  /\ \/ /\ config["metrics_listen"] # config["listen"]
        /\ phase' = "serving" /\ config' = Unset
        /\ metrics' = IF config["metrics_listen"] = Off THEN "off" ELSE "serving"
        /\ sweeper' = "sleeping"
        /\ UNCHANGED started
     \/ /\ config["metrics_listen"] # Off
        /\ FailStart
        /\ UNCHANGED sweeper
  /\ UNCHANGED <<initVars, scraping, conn, job, storage, faults>>

-----------------------------------------------------------------------------
(* Requests *)

Connect(c) ==
  /\ phase = "serving" /\ conn[c] = Closed /\ job[c] = "none"
  /\ conn' = [conn EXCEPT ![c].state = "sending"]
  /\ UNCHANGED <<initVars, bootVars, scraping, sweeper, job, storage, faults>>

\* A request has been read: /health answers at once, /ready and the API
\* handlers spawn a blocking job and await it.
Request(c) ==
  /\ conn[c].state = "sending"
  /\ \/ /\ conn' = [conn EXCEPT ![c] = [state |-> "answered", kind |-> "health", status |-> 200]]
        /\ UNCHANGED job
     \/ \E kind \in {"ready", "api"} :
          /\ conn' = [conn EXCEPT ![c] = [state |-> "waiting", kind |-> kind, status |-> 0]]
          /\ job' = [job EXCEPT ![c] = "queued"]
  /\ UNCHANGED <<initVars, bootVars, scraping, sweeper, storage, faults>>

\* A thread of the pool takes a job.
JobStart(j) ==
  /\ job[j] = "queued"
  /\ Cardinality({k \in Jobs : job[k] = "running"}) < PoolSize
  /\ job' = [job EXCEPT ![j] = "running"]
  /\ UNCHANGED <<initVars, bootVars, scraping, sweeper, conn, storage, faults>>

Awaited(j) == IF j = Gc THEN sweeper = "waiting" ELSE Waiting(j)

\* The job returns or panics; nobody takes the result of a dropped handler.
JobFinish(j) ==
  /\ job[j] = "running"
  /\ \E result \in {"error"} \cup (IF storage = "up" THEN {"ok"} ELSE {}) :
       job' = [job EXCEPT ![j] = IF Awaited(j) THEN result ELSE "none"]
  /\ UNCHANGED <<initVars, bootVars, scraping, sweeper, conn, storage, faults>>

\* Mutant: readiness only waits for the ping to return.
StatusOfReturned(kind, result) == IF kind = "ready" \/ result = "ok" THEN 200 ELSE 500

\* readiness_check and spawn_usecase; 200 stands for any answer of the use case.
StatusOf(kind, result) ==
  IF result = "ok" THEN 200 ELSE IF kind = "ready" THEN 503 ELSE 500

Answer(c) ==
  /\ Waiting(c) /\ job[c] \in {"ok", "error"}
  /\ conn' = [conn EXCEPT ![c] = [state |-> "answered", kind |-> conn[c].kind,
                                  status |-> StatusOf(conn[c].kind, job[c])]]
  /\ job' = [job EXCEPT ![c] = "none"]
  /\ UNCHANGED <<initVars, bootVars, scraping, sweeper, storage, faults>>

\* The connection closes: after its answer, or because the client went away,
\* which drops its handler, or, when it is idle, because the server drains.
Close(c) ==
  /\ conn[c] # Closed
  /\ conn' = [conn EXCEPT ![c] = Closed]
  /\ job' = [job EXCEPT ![c] = IF @ \in {"ok", "error"} THEN "none" ELSE @]
  /\ UNCHANGED <<initVars, bootVars, scraping, sweeper, storage, faults>>

Scrape ==
  /\ metrics = "serving" /\ phase = "serving"
  /\ ~scraping
  /\ scraping' = TRUE
  /\ UNCHANGED <<initVars, bootVars, sweeper, conn, job, storage, faults>>

ScrapeEnd ==
  /\ scraping
  /\ scraping' = FALSE
  /\ UNCHANGED <<initVars, bootVars, sweeper, conn, job, storage, faults>>

-----------------------------------------------------------------------------
(* Sweeper *)

\* The timer fires first in the select of GcSweeper::run.
SweepDue ==
  /\ sweeper = "sleeping" /\ phase = "serving"
  /\ sweeper' = "due"
  /\ UNCHANGED <<initVars, bootVars, scraping, conn, job, storage, faults>>

\* The sweep goes to the blocking pool; a cancellation may have come meanwhile.
SweepSpawn ==
  /\ sweeper = "due"
  /\ sweeper' = "waiting"
  /\ job' = [job EXCEPT ![Gc] = "queued"]
  /\ UNCHANGED <<initVars, bootVars, scraping, conn, storage, faults>>

\* A failed sweep is only logged.
SweepEnd ==
  /\ sweeper = "waiting" /\ job[Gc] \in {"ok", "error"}
  /\ sweeper' = "sleeping"
  /\ job' = [job EXCEPT ![Gc] = "none"]
  /\ UNCHANGED <<initVars, bootVars, scraping, conn, storage, faults>>

\* The loop returns when it is cancelled.
SweeperStop ==
  /\ sweeper = "sleeping" /\ phase \in {"draining", "joining"}
  /\ sweeper' = "off"
  /\ UNCHANGED <<initVars, bootVars, scraping, conn, job, storage, faults>>

-----------------------------------------------------------------------------
(* Shutdown *)

\* Mutant: the metrics server is not told.
SignalMainOnly ==
  /\ phase = "serving"
  /\ phase' = "draining"
  /\ UNCHANGED <<initVars, started, config, metrics, serveVars, storage, faults>>

\* SIGINT or SIGTERM while it serves; later ones are caught and ignored.
Signal ==
  /\ phase = "serving"
  /\ phase' = "draining"
  /\ metrics' = IF metrics = "serving" THEN "draining" ELSE metrics
  /\ UNCHANGED <<initVars, started, config, serveVars, storage, faults>>

MetricsDone ==
  /\ metrics = "draining" /\ ~scraping
  /\ metrics' = "done"
  /\ UNCHANGED <<initVars, phase, started, config, serveVars, storage, faults>>

\* axum::serve returns when every connection is closed.
Drained ==
  /\ phase = "draining" /\ \A c \in Clients : conn[c] = Closed
  /\ phase' = "joining"
  /\ UNCHANGED <<initVars, started, config, metrics, serveVars, storage, faults>>

\* The metrics task is joined and serve() returns; the runtime drops its tasks
\* and the jobs that have not started.
Join ==
  /\ phase = "joining" /\ metrics \in {"off", "done"}
  /\ phase' = "dropping"
  /\ metrics' = "off"
  /\ sweeper' = "off"
  /\ job' = [j \in Jobs |-> IF job[j] = "running" THEN "running" ELSE "none"]
  /\ UNCHANGED <<initVars, started, config, scraping, conn, storage, faults>>

\* Mutant: the process exits from inside the runtime.
ExitAtOnce ==
  /\ phase = "dropping"
  /\ phase' = "exited"
  /\ UNCHANGED <<initVars, started, config, metrics, serveVars, storage, faults>>

\* The jobs that run have finished, and main returns.
Exit ==
  /\ phase = "dropping" /\ \A j \in Jobs : job[j] # "running"
  /\ phase' = "exited"
  /\ UNCHANGED <<initVars, started, config, metrics, serveVars, storage, faults>>

\* The process ends at any point: SIGKILL, power loss, or a signal before the
\* handlers of shutdown_signal are installed.
Kill ==
  /\ ~Stopped
  /\ phase' = "down"
  /\ started' = Unset /\ config' = Unset
  /\ metrics' = "off" /\ scraping' = FALSE
  /\ sweeper' = "off"
  /\ conn' = [c \in Clients |-> Closed]
  /\ job' = [j \in Jobs |-> "none"]
  /\ UNCHANGED <<initVars, storage, faults>>

StorageFails ==
  /\ storage = "up" /\ faults < MaxFaults
  /\ storage' = "down" /\ faults' = faults + 1
  /\ UNCHANGED <<initVars, bootVars, serveVars>>

StorageHeals ==
  /\ storage = "down"
  /\ storage' = "up"
  /\ UNCHANGED <<initVars, bootVars, serveVars, faults>>

\* History: the probes under way during which the store answered at some instant.
Observe ==
  seenUp' = {c \in Clients : conn'[c].kind = "ready" /\ (c \in seenUp \/ storage' = "up")}

InitStep(i) == InitStart(i) \/ InitCheck(i) \/ InitWrite(i) \/ InitPersist(i) \/ InitAbort(i)
Boot        == Load \/ OpenStore \/ Bind \/ Serve
Conn(c)     == Connect(c) \/ Request(c) \/ Answer(c) \/ Close(c)
Job(j)      == JobStart(j) \/ JobFinish(j)
Sweep       == SweepDue \/ SweepSpawn \/ SweepEnd \/ SweeperStop
WindDown    == MetricsDone \/ Drained \/ Join \/ Exit

Next ==
  /\ \/ \E i \in Inits : InitStep(i)
     \/ Boot
     \/ \E c \in Clients : Conn(c)
     \/ \E j \in Jobs : Job(j)
     \/ Scrape \/ ScrapeEnd
     \/ Sweep
     \/ Signal \/ WindDown
     \/ Kill
     \/ StorageFails \/ StorageHeals
  /\ Observe

Spec == Init /\ [][Next]_vars

\* The runtime keeps polling its tasks and running its jobs, and a connection
\* that was accepted is closed sooner or later: serve() sets no deadline itself.
Fairness ==
  /\ \A c \in Clients : WF_vars(Close(c) /\ Observe)
  /\ \A j \in Jobs : WF_vars(Job(j) /\ Observe)
  /\ WF_vars(ScrapeEnd /\ Observe)
  /\ WF_vars(WindDown /\ Observe)

FairSpec == Spec /\ Fairness

-----------------------------------------------------------------------------
\* Types.
TypeOK ==
  /\ inits \in [Inits -> [pc : {"idle", "started", "checked", "written"},
                          force : BOOLEAN, existed : BOOLEAN]]
  /\ phase \in {"down", "loaded", "opened", "bound", "serving", "draining", "joining",
                "dropping", "exited"}
  /\ (config = Unset) = (phase \notin {"loaded", "opened", "bound"})
  /\ config # Unset => config["root_key"] \in Secrets
  /\ metrics \in {"off", "serving", "draining", "done"} /\ scraping \in BOOLEAN
  /\ sweeper \in {"off", "sleeping", "due", "waiting"}
  /\ conn \in [Clients -> [state : {"closed", "sending", "waiting", "answered"},
                           kind : {"none", "health", "ready", "api"}, status : {0, 200, 500, 503}]]
  /\ job \in [Jobs -> {"none", "queued", "running", "ok", "error"}]
  /\ storage \in {"up", "down"} /\ faults \in 0 .. MaxFaults
  /\ seenUp \subseteq Clients

\* The README's rule: defaults < file < KEYDOCK_* variables < flags, where
\* --no-env takes the variables away and a blank metrics variable means none.
Layers(f, args, doc, host) ==
  <<IF f \in CliFields THEN args[f] ELSE Unset,
    IF args.no_env THEN Unset
    ELSE IF f = "metrics_listen" /\ host.env[f] = Blank THEN Off ELSE host.env[f],
    IF args.config = Unset THEN Unset ELSE doc[f],
    Defaults[f]>>
TopLayer(layers) == layers[Min({i \in DOMAIN layers : layers[i] # Unset})]

\* A process that starts has, for every setting, the value of the highest
\* layer that gives it one, and its root key is never taken from a variable
\* that --no-env excludes (load_from_sources).
LoadedByPrecedence ==
  phase' = "loaded" /\ phase # "loaded" =>
    LET args == started'.args
        host == started'.host
    IN /\ \A f \in Settings : config'[f] = TopLayer(Layers(f, args, file, host))
       /\ IF ~args.no_env /\ host.env["root_key"] # Unset
          THEN config'["root_key"] = host.env["root_key"]
          ELSE args.config # Unset /\ file["root_key"] # Unset

ConfigPrecedence == [][LoadedByPrecedence]_vars

\* At every instant, also between the steps of init commands that race or
\* die, keydock.toml is what it was or a whole document of one of them.
ConfigWhole == file \in StartFiles \cup {InitDocument(InstanceDir, InitKey[i]) : i \in Inits}

\* An init without --force never replaces a file that existed when it began.
KeepsExisting ==
  file' # file => \E i \in Inits : inits[i].pc = "written" /\ inits'[i] = NoInit
                                     /\ (inits[i].force \/ ~inits[i].existed)

InitKeepsExisting == [][KeepsExisting]_vars

\* When a process ends by itself no accepted request is without its
\* answer, and no job, a sweep or the write of a client that went away
\* included, has been cut off half-way.
CleanExit ==
  phase = "exited" =>
    /\ \A c \in Clients : conn[c] = Closed
    /\ \A j \in Jobs : job[j] # "running"

\* A /ready that answers 200 was open at an instant at which the store
\* answered, however long its job waited for a thread.
ReadinessTruthful ==
  \A c \in Clients : conn[c].kind = "ready" /\ conn[c].status = 200 => c \in seenUp

\* A shutdown that was asked for ends the process.
ShutdownCompletes == phase = "draining" ~> Stopped
=============================================================================

------------------------------ MODULE MCParts ------------------------------
(***************************************************************************)
(* Parts that share no state, each on a small instance: the browser's      *)
(* session, the dashboard cache and the connection pool of the product,    *)
(* and the tools of the vendored design skills that touch files or         *)
(* services.  Each behaviour runs one of them.                             *)
(***************************************************************************)
EXTENDS BrowserSession, DashboardCache, ConnectionPool,
        DesignFiles, UiSetup, ImageJobs, TLC

CONSTANTS t1, t2, a1, a2, p1, p2, p3, g1, g2, u1, u2, c1, c2

\* Two updates of one user, one of another.
MCRowOf == [u \in Update |-> IF u = p3 THEN 2 ELSE 1]

\* Two agents whose project names differ and have one slug.
MCProjects == {<<"/", "A">>, <<"a">>}
MCPages == {<<"b">>}
\* bound: one run is killed, one fails; only g1 runs twice
FilesBound ==
  /\ Cardinality(killed) <= 1 /\ Cardinality({r \in reports : r.status = "error"}) <= 1
  /\ count[g2] <= 1
  /\ \A a \in Agent : run[a].at # "idle" => run[a].req.project = (IF a = g1 THEN <<"/", "A">> ELSE <<"a">>)

\* u1 may use any arguments; u2 installs or writes what u1 may be at.
MCWanted == [s \in {u1, u2} |->
  IF s = u1 THEN TailwindArgs \cup ShadcnArgs
  ELSE {[tool |-> "tailwind", out |-> "ts", force |-> f, specs |-> "good", plugins |-> "good", validateOnly |-> FALSE] : f \in BOOLEAN}
       \cup {[tool |-> "add", parts |-> {c1}, overwrite |-> o, dryRun |-> FALSE] : o \in BOOLEAN}]

VARIABLE part   \* the part that runs

\* The browser: somebody logs in again, two requests share a refresh, two tabs
\* race a rotation while tokens are good and nobody else ends the session.
\* bound: two hashes, three where tabs race
Browser == {"again", "shared", "tabs"}
BrowserScene ==
  /\ part # "tabs" => \A s \in LoginId : hash'[s] <= 2
  /\ part = "again" => /\ token'[t2] = 0
                      /\ \A a \in Ask : ask'[a].at # "idle" => a = a1 /\ ask'[a].tab = t1
  /\ part = "shared" => /\ hash'[2] = 0 /\ token'[t2] = 0
                       /\ \A a \in Ask : ask'[a].at # "idle" => ask'[a].tab = t1
  /\ part = "tabs" => /\ hash'[2] = 0 /\ live \ live' \subseteq leaving /\ expired' = expired
                     /\ \A a \in Ask : ask'[a].at # "idle" => ask'[a].tab = (IF a = a1 THEN t1 ELSE t2) /\ ~ask'[a].visit

Frame ==
  /\ part \notin Browser => UNCHANGED browserVars
  /\ part # "dashboard" => UNCHANGED dashboardVars
  /\ part # "pool" => UNCHANGED poolVars
  /\ part # "files" => UNCHANGED filesVars
  /\ part # "setup" => UNCHANGED setupVars
  /\ part # "jobs" => UNCHANGED jobsVars

allVars == <<part, browserVars, dashboardVars, poolVars, filesVars, setupVars, jobsVars>>

MCInit ==
  /\ part \in Browser \cup {"dashboard", "pool", "files", "setup", "jobs"}
  /\ BrowserInit /\ DashboardInit /\ PoolInit
  /\ FilesInit /\ SetupInit /\ JobsInit

MCNext ==
  /\ UNCHANGED part
  /\ \/ part \in Browser /\ BrowserNext /\ BrowserScene
     \/ part = "dashboard" /\ DashboardNext
     \/ part = "pool" /\ PoolNext
     \/ part = "files" /\ FilesNext /\ FilesBound'
     \/ part = "setup" /\ SetupNext
     \/ part = "jobs" /\ JobsNext
  /\ Frame

\* Connections, the pool's time limit and the time limits of an image job end
\* every wait.  No step of a part that does not run is enabled.
MCSpec ==
  /\ MCInit /\ [][MCNext]_allVars
  /\ BrowserFairness /\ PoolFairness /\ JobsFairness

\* No wait is for ever: a transaction that asks the pool for its second connection
\* is answered or timed out, and a batch of logos ends though its provider keeps a
\* prediction queued.
WaitsEnd == UpdateEnds /\ BatchEnds
=============================================================================

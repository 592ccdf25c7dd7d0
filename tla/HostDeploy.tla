------------------------------ MODULE HostDeploy ------------------------------
(* How a commit reaches the host: scripts/ship_host.py (the checkout, the       *)
(* dependencies, the link of the venv to the checkout, the schema, restarts),   *)
(* scripts/deploy_react.py (the built UI and the API modules behind port 80,    *)
(* with a revert), and scripts/deploy_all.py, which runs the two in order.      *)
(*                                                                              *)
(* Every change on the host is one script sent through Cloud Assistant. A       *)
(* script is a sequence of commands under `set -e`; the call that sends it may  *)
(* be lost, may run the script and lose its answer, or the script may stop      *)
(* part way: the operator's program sees the same failure and stops. Meanwhile  *)
(* systemd may start a service again (the nightly stop and start of the server, *)
(* Restart=on-failure), and a worker that starts calls create_schema.           *)
EXTENDS Integers, Sequences

CONSTANTS
  Commits,      \* what a commit may change: sets of parts
  MaxCommits,   \* bound: commits
  Columns,      \* the schema revisions that change a table create_all leaves as it is
  MaxRuns,      \* bound: commands the operator gives
  MaxFaults,    \* bound: calls that fail
  MaxRestarts   \* bound: services systemd starts again

\* core: package files both services load; api: the two modules of API_FILES;
\* deps: requirements.txt; schema: migrations/; ui: frontend/.
Parts == {"core", "api", "deps", "schema", "ui"}

\* A migration comes with the models that need it, and models are core.
ASSUME CommitsAssumption ==
  /\ \A c \in Commits : c \subseteq Parts /\ c # {} /\ ("schema" \in c => "core" \in c)
  /\ \A n \in {MaxCommits, MaxRuns, MaxFaults, MaxRestarts} : n \in Nat
  /\ Columns \subseteq Nat

Versions == 0 .. MaxCommits

Shipped == Parts \ {"ui"}

Services == {"worker", "api"}

None == "none"

\* A backup or a host without a frontend build.
NoBuild == -1

VARIABLES
  repo,      \* the operator's clean main: the version of each part
  h,         \* the host
  cmd,       \* the operator's command: what it was told and what it read
  pc,        \* where that command is
  result,    \* what the last command printed
  bounds     \* commits, runs, faults and restarts used

vars == <<repo, h, cmd, pc, result, bounds>>

-------------------------------------------------------------------------------
(* The host. disk is the checkout; run what each service's process imported;    *)
(* db the revisions its tables carry and the one alembic_version names; backups *)
(* the directories of .deploy-backup, oldest first.                             *)

Down == [up |-> FALSE, core |-> 0, api |-> 0, deps |-> 0]

\* The package a process imports is the checkout, or the copy left in the venv.
Image(host) ==
  [up |-> TRUE, core |-> IF host.linked THEN host.disk.core ELSE 0,
   api |-> IF host.linked THEN host.disk.api ELSE 0, deps |-> host.venv]

\* create_schema: create_all adds the tables that are missing, then the database
\* is stamped with the head of the migrations on disk.
CreateSchema(host) ==
  [has |-> host.db.has \cup ((1 .. host.disk.schema) \ Columns), stamp |-> host.disk.schema]

\* A worker that runs a copy of the package finds no alembic.ini and ends.
Start(host, s) ==
  IF s = "api" THEN [host EXCEPT !.run.api = Image(host)]
  ELSE IF ~ host.linked THEN [host EXCEPT !.run.worker = Down]
  ELSE [host EXCEPT !.run.worker = Image(host), !.db = CreateSchema(host)]

Stop(host, s) == [host EXCEPT !.run[s] = Down]

\* alembic upgrade head: every revision after the recorded one.
Upgrade(host) ==
  [host EXCEPT !.db = [has |-> @.has \cup (@.stamp + 1 .. host.disk.schema),
                       stamp |-> host.disk.schema]]

\* A file of the commit c takes its place in the checkout.
Write(host, c, part) == [host EXCEPT !.disk[part] = c.repo[part]]

\* The dependencies requirements.txt names; the venv's package is the checkout.
Pip(host) == [host EXCEPT !.venv = host.disk.deps]

Link(host) == [host EXCEPT !.linked = TRUE]

Newest(host) == Len(host.backups)

Keep(host, by) ==
  [host EXCEPT !.backups = Append(@, [by |-> by, api |-> host.disk.api, dist |-> NoBuild,
                                      restored |-> FALSE])]

KeepDist(host) ==
  [host EXCEPT !.backups[Newest(host)].dist = host.dist, !.dist = NoBuild]

PutDist(host, c) == [host EXCEPT !.dist = c.repo.ui]

\* Mutant of Unrestored: the oldest backup instead of the newest.
UnrestoredOldest(host) ==
  LET left == {i \in DOMAIN host.backups : ~ host.backups[i].restored}
  IN  IF left = {} THEN 0 ELSE CHOOSE i \in left : \A j \in left : i <= j

\* The newest backup directory not marked restored; 0 when there is none.
Unrestored(host) ==
  LET left == {i \in DOMAIN host.backups : ~ host.backups[i].restored}
  IN  IF left = {} THEN 0 ELSE CHOOSE i \in left : \A j \in left : j <= i

Restorable(host) ==
  Unrestored(host) # 0 /\ host.backups[Unrestored(host)].dist # NoBuild

\* What the revert puts back, and the mark that the backup was used.
BackApi(host) == [host EXCEPT !.disk.api = host.backups[Unrestored(host)].api]

BackDist(host) == [host EXCEPT !.dist = host.backups[Unrestored(host)].dist]

Mark(host) == [host EXCEPT !.backups[Unrestored(host)].restored = TRUE]

\* What only a script of deploy_react.py does.
ReactCommand(host, c, do) ==
  CASE do[1] = "keepdist" -> KeepDist(host)
    [] do[1] = "putdist"  -> PutDist(host, c)
    [] do[1] = "backapi"  -> BackApi(host)
    [] do[1] = "backdist" -> BackDist(host)
    [] do[1] = "mark"     -> Mark(host)

\* One command of a host script, on a host, for the command c of the operator.
Command(host, c, do) ==
  CASE do[1] = "write"   -> Write(host, c, do[2])
    [] do[1] = "keep"    -> Keep(host, do[2])
    [] do[1] = "pip"     -> Pip(host)
    [] do[1] = "link"    -> Link(host)
    [] do[1] = "upgrade" -> Upgrade(host)
    [] do[1] = "stop"    -> Stop(host, do[2])
    [] do[1] = "start"   -> Start(host, do[2])
    [] OTHER             -> ReactCommand(host, c, do)

\* The host after the first n commands of a script; no script has more than five.
Ran(host, c, script, n) ==
  LET After(x, i) == IF i <= n THEN Command(x, c, script[i]) ELSE x
  IN  After(After(After(After(After(host, 1), 2), 3), 4), 5)

-------------------------------------------------------------------------------
(* The plan ship_host.py makes from the differences it reads.                   *)

Differs == {p \in Shipped : repo[p] # h.disk[p]}

NeedsMigration == h.db.stamp # repo.schema

ReadPlan ==
  [changed |-> Differs, migration |-> NeedsMigration, linked |-> h.linked]

Nothing(plan) == plan.linked /\ plan.changed = {}

Loads == [worker |-> {"core"}, api |-> {"core", "api"}]

RestartsFor(changed) == {s \in Services : Loads[s] \cap changed # {}}

Flags(deps, migrate, restart) == [deps |-> deps, migrate |-> migrate, restart |-> restart]

NoFlags == Flags(FALSE, FALSE, {})

\* Mutant of StepsFor: dependencies and a new link restart no more than a file does.
StepsForFiles(plan) ==
  IF Nothing(plan) /\ ~ plan.migration THEN NoFlags
  ELSE Flags("deps" \in plan.changed, plan.migration,
             RestartsFor(plan.changed) \ IF plan.migration THEN {"worker"} ELSE {})

\* What deploy_all.py asks of ship_host.py for these differences. A migration is
\* expected to restart the worker, so that no restart of it is asked for then.
StepsFor(plan) ==
  LET everything == ~ plan.linked \/ "deps" \in plan.changed
      restart == IF everything THEN Services ELSE RestartsFor(plan.changed)
  IN  IF Nothing(plan) /\ ~ plan.migration THEN NoFlags
      ELSE Flags("deps" \in plan.changed, plan.migration,
                 IF plan.migration THEN restart \ {"worker"} ELSE restart)

TouchesWorker(flags) == flags.migrate \/ "worker" \in flags.restart

\* The manifest is sorted by path; the worker is the last of the restarts.
InstallScript(plan) ==
  LET Written(p) == IF p \in plan.changed THEN <<<<"write", p>>>> ELSE <<>>
  IN  <<<<"keep", "ship">>>> \o Written("schema") \o Written("deps") \o Written("api") \o Written("core")

MigrateScript == <<<<"stop", "worker">>, <<"upgrade">>, <<"start", "worker">>>>

RestartScript(services) ==
  LET Started(s) == IF s \in services THEN <<<<"start", s>>>> ELSE <<>>
  IN  Started("api") \o Started("worker")

\* Mutant of ReactScript: the API is not restarted.
ReactScriptNoRestart ==
  <<<<"keep", "react">>, <<"keepdist">>, <<"write", "api">>, <<"putdist">>>>

ReactScript ==
  <<<<"keep", "react">>, <<"keepdist">>, <<"write", "api">>, <<"putdist">>, <<"start", "api">>>>

RevertScript == <<<<"backapi">>, <<"backdist">>, <<"mark">>, <<"start", "api">>>>

-------------------------------------------------------------------------------
Idle ==
  [name |-> None, flags |-> NoFlags, plan |-> [changed |-> {}, migration |-> FALSE,
                                               linked |-> TRUE],
   repo |-> [p \in Parts |-> 0], day |-> FALSE, ui |-> FALSE, kept |-> FALSE,
   before |-> [api |-> 0, dist |-> 0]]

Init ==
  /\ repo = [p \in Parts |-> 0]
  /\ \E linked \in BOOLEAN :
       h = [disk |-> [p \in Shipped |-> 0], dist |-> 0, venv |-> 0, linked |-> linked,
            db |-> [has |-> {}, stamp |-> 0],
            run |-> [s \in Services |-> [Down EXCEPT !.up = TRUE]], backups |-> <<>>]
  /\ cmd = Idle
  /\ pc = "idle"
  /\ result = None
  /\ bounds = [commits |-> 0, runs |-> 0, faults |-> 0, restarts |-> 0]

Commit ==
  /\ pc = "idle" /\ bounds.commits < MaxCommits
  /\ \E c \in Commits :
       repo' = [p \in Parts |-> IF p \in c THEN repo[p] + 1 ELSE repo[p]]
  /\ bounds' = [bounds EXCEPT !.commits = @ + 1]
  /\ UNCHANGED <<h, cmd, pc, result>>

\* systemd starts a service again, from whatever is on disk by then.
Restarts(s) ==
  /\ bounds.restarts < MaxRestarts
  /\ h' = Start(h, s)
  /\ bounds' = [bounds EXCEPT !.restarts = @ + 1]
  /\ UNCHANGED <<repo, cmd, pc, result>>

Fault ==
  /\ bounds.faults < MaxFaults
  /\ bounds' = [bounds EXCEPT !.faults = @ + 1]

\* The command is over: it printed what, and the next may be given.
Ends(what) ==
  /\ pc' = "idle"
  /\ result' = what

Goes(next) ==
  /\ pc' = next
  /\ UNCHANGED result

\* A script that fails stops ship_host.py; in deploy_react.py it is reverted.
Sends(script, next, failed) ==
  \/ h' = Ran(h, cmd, script, Len(script)) /\ next /\ UNCHANGED bounds
  \/ \E n \in 0 .. Len(script) : h' = Ran(h, cmd, script, n) /\ failed /\ Fault

-------------------------------------------------------------------------------
(* The operator's commands. Each begins by asking for the trading day.          *)

Begins(name, flags, ui, at) ==
  /\ pc = "idle" /\ bounds.runs < MaxRuns
  /\ bounds' = [bounds EXCEPT !.runs = @ + 1]
  /\ \E day \in BOOLEAN :
       cmd' = [Idle EXCEPT !.name = name, !.flags = flags, !.ui = ui, !.day = day,
                           !.repo = repo, !.before = [api |-> h.disk.api, dist |-> h.dist]]
  /\ result' = None
  /\ pc' = at
  /\ UNCHANGED <<repo, h>>

RunsAll == \E ui \in BOOLEAN : Begins("all", NoFlags, ui, "plan")

RunsShip ==
  \E deps, migrate \in BOOLEAN, restart \in SUBSET Services :
    Begins("ship", Flags(deps, migrate, restart), FALSE, "ship")

RunsReact == Begins("react", NoFlags, TRUE, "inspect")

RunsRollback == Begins("rollback", NoFlags, FALSE, "rollback")

\* deploy_all.py: the differences, and what the trading day refuses of them.
Plans ==
  /\ pc = "plan"
  /\ \/ /\ cmd' = [cmd EXCEPT !.flags = StepsFor(ReadPlan), !.plan = ReadPlan]
        /\ IF cmd.day /\ (TouchesWorker(cmd'.flags) \/ cmd.ui) THEN Ends("not now")
           ELSE Goes(IF Nothing(ReadPlan) /\ ~ ReadPlan.migration THEN "shipped" ELSE "ship")
        /\ UNCHANGED bounds
     \/ Fault /\ Ends("stopped") /\ UNCHANGED cmd
  /\ UNCHANGED <<repo, h>>

\* ship_host.py: refuse, find nothing to do, or go on.
Ships ==
  /\ pc = "ship"
  /\ \/ /\ cmd' = [cmd EXCEPT !.plan = ReadPlan]
        /\ IF cmd.day /\ TouchesWorker(cmd.flags) THEN Ends("refused")
           ELSE IF ReadPlan.migration /\ ~ cmd.flags.migrate THEN Ends("refused")
           ELSE Goes(IF Nothing(ReadPlan) /\ ~ ReadPlan.migration THEN "shipped"
                     ELSE IF ReadPlan.changed # {} THEN "install" ELSE "deps")
        /\ UNCHANGED bounds
     \/ Fault /\ Ends("stopped") /\ UNCHANGED cmd
  /\ UNCHANGED <<repo, h>>

Installs ==
  /\ pc = "install"
  /\ Sends(InstallScript(cmd.plan), Goes("deps"), Ends("stopped"))
  /\ UNCHANGED <<repo, cmd>>

\* The dependencies without the project itself, then the link to the checkout.
InstallsDeps ==
  /\ pc = "deps"
  /\ IF cmd.flags.deps THEN Sends(<<<<"pip">>>>, Goes("link"), Ends("stopped"))
     ELSE Goes("link") /\ UNCHANGED <<h, bounds>>
  /\ UNCHANGED <<repo, cmd>>

Links ==
  /\ pc = "link"
  /\ IF cmd.flags.deps \/ ~ cmd.plan.linked
     THEN Sends(<<<<"link">>>>, Goes("migrate"), Ends("stopped"))
     ELSE Goes("migrate") /\ UNCHANGED <<h, bounds>>
  /\ UNCHANGED <<repo, cmd>>

Migrating == cmd.flags.migrate /\ cmd.plan.migration

Migrates ==
  /\ pc = "migrate"
  /\ IF Migrating THEN Sends(MigrateScript, Goes("restart"), Ends("stopped"))
     ELSE Goes("restart") /\ UNCHANGED <<h, bounds>>
  /\ UNCHANGED <<repo, cmd>>

\* The migration restarted the worker itself.
RestartsServices ==
  /\ pc = "restart"
  /\ LET services == cmd.flags.restart \ (IF Migrating THEN {"worker"} ELSE {})
     IN  Sends(RestartScript(services), Goes("verify"), Ends("stopped"))
  /\ UNCHANGED <<repo, cmd>>

\* VERIFY: the worker stays up, and the package is the checkout.
Verifies ==
  /\ pc = "verify"
  /\ \/ /\ IF h.run.worker.up /\ h.linked THEN Goes("shipped") ELSE Ends("stopped")
        /\ UNCHANGED bounds
     \/ Fault /\ Ends("stopped")
  /\ UNCHANGED <<repo, h, cmd>>

\* ship_host.py returned 0; deploy_all.py goes on with the UI.
Shipping ==
  /\ pc = "shipped"
  /\ IF cmd.name = "all" /\ cmd.ui THEN Goes("inspect")
     ELSE IF cmd.name = "all" THEN Goes("confirm") ELSE Ends("shipped")
  /\ UNCHANGED <<repo, h, cmd, bounds>>

-------------------------------------------------------------------------------
(* deploy_react.py.                                                             *)

\* The rest of the package must be this checkout's, and the host healthy.
Inspects ==
  /\ pc = "inspect"
  /\ \/ /\ ~ cmd.day /\ h.disk.core = repo.core /\ \A s \in Services : h.run[s].up
        /\ cmd' = [cmd EXCEPT !.before = [api |-> h.disk.api, dist |-> h.dist]]
        /\ Goes("upload")
     \/ Ends("stopped") /\ UNCHANGED cmd
  /\ UNCHANGED <<repo, h, bounds>>

\* A payload that does not arrive whole changed nothing.
Uploads ==
  /\ pc = "upload"
  /\ \/ Goes("swap") /\ UNCHANGED bounds
     \/ Fault /\ Ends("reverted")
  /\ UNCHANGED <<repo, h, cmd>>

\* The old API modules and build are kept, the new put in place, the API restarted.
Swaps ==
  /\ pc = "swap"
  /\ Sends(ReactScript, Goes("check"), Goes("revert"))
  /\ cmd' = [cmd EXCEPT !.kept = Newest(h') > Newest(h)]
  /\ UNCHANGED repo

\* The host checks and the live suite; what they say of the page is not modelled.
Checks ==
  /\ pc = "check"
  /\ \/ /\ \A s \in Services : h.run[s].up
        /\ h.dist # NoBuild
        /\ IF cmd.name = "all" THEN Goes("confirm") ELSE Ends("deployed")
     \/ Goes("revert")
  /\ UNCHANGED <<repo, h, cmd, bounds>>

\* Put back the newest backup not yet restored, or refuse. A revert that fails
\* prints STOPPED; the record of the run, set before the revert, says REVERTED.
Restores(next, failed) ==
  IF Restorable(h) THEN Sends(RevertScript, next, failed)
  ELSE failed /\ UNCHANGED <<h, bounds>>

Reverts ==
  /\ pc = "revert"
  /\ Restores(Ends("reverted"), Ends("stopped reverting"))
  /\ UNCHANGED <<repo, cmd>>

RollsBack ==
  /\ pc = "rollback"
  /\ Restores(Ends("rolled back"), Ends("stopped"))
  /\ UNCHANGED <<repo, cmd>>

\* deploy_all.py's last look at the host is a dry run, and a dry run returns 0.
Confirms ==
  /\ pc = "confirm"
  /\ \/ Ends("deployed") /\ UNCHANGED bounds
     \/ Fault /\ Ends("stopped")
  /\ UNCHANGED <<repo, h, cmd>>

Operator ==
  \/ RunsAll \/ RunsShip \/ RunsReact \/ RunsRollback
  \/ Plans \/ Ships \/ Installs \/ InstallsDeps \/ Links \/ Migrates
  \/ RestartsServices \/ Verifies \/ Shipping
  \/ Inspects \/ Uploads \/ Swaps \/ Checks \/ Reverts \/ RollsBack \/ Confirms

Next == Commit \/ (\E s \in Services : Restarts(s)) \/ Operator

Spec == Init /\ [][Next]_vars

-------------------------------------------------------------------------------
TypeOK ==
  /\ repo \in [Parts -> Versions]
  /\ h.disk \in [Shipped -> Versions]
  /\ h.dist \in Versions \cup {NoBuild}
  /\ h.venv \in Versions
  /\ h.linked \in BOOLEAN
  /\ h.db.has \subseteq Versions /\ h.db.stamp \in Versions
  /\ \A s \in Services : h.run[s].up \in BOOLEAN /\ h.run[s].deps \in Versions
  /\ \A i \in DOMAIN h.backups :
       /\ h.backups[i].by \in {"ship", "react"}
       /\ h.backups[i].by = "ship" => h.backups[i].dist = NoBuild
       /\ h.backups[i].restored => h.backups[i].dist # NoBuild
  /\ pc \in {"idle", "plan", "ship", "install", "deps", "link", "migrate", "restart", "verify",
             "shipped", "inspect", "upload", "swap", "check", "revert", "rollback", "confirm"}
  /\ pc \in {"check", "revert", "swap"} => h.dist # NoBuild \/ cmd.kept

\* A UI deploy that failed after its script began, and says REVERTED, left the
\* API modules and the build as they were before it.
RevertRestores ==
  (pc = "idle" /\ result = "reverted" /\ cmd.kept) =>
    h.disk.api = cmd.before.api /\ h.dist = cmd.before.dist

\* When deploy_react.py says DEPLOYED, port 80 serves the build it was given and
\* the API runs the modules it was given.
DeployedServed ==
  ((pc = "confirm" /\ cmd.ui) \/ (pc = "idle" /\ result = "deployed" /\ cmd.name = "react")) =>
    /\ h.dist = cmd.repo.ui
    /\ h.disk.api = cmd.repo.api
    /\ h.linked => h.run.api.up /\ h.run.api.api = cmd.repo.api

\* A service of which ship_host.py has changed what it loads (a file, a dependency,
\* or where the package is) runs all of the checkout, no mixture of old and new.
LoadedRuns ==
  \A s \in Services :
    ~ cmd.plan.linked \/ (Loads[s] \cup {"deps"}) \cap cmd.plan.changed # {}
      => h.run[s] = Image(h)

\* "a file a service loads differs -> that service restarts" (deploy_all.py). Its
\* restart of the worker is left to the migration, which ship_host.py does not run
\* when a start of the old worker has meanwhile stamped the schema as migrated.
LoadedIsRestarted == (pc = "shipped" /\ cmd.name = "all") => LoadedRuns

\* What is true of it: when the two programs agree on the migration, neither a ship
\* that failed part way before nor a restart by systemd between two steps leaves a
\* service that runs a mixture.
RestartedAsPlanned ==
  (pc = "shipped" /\ cmd.name = "all" /\ (cmd.flags.migrate => cmd.plan.migration))
    => LoadedRuns

\* The revision alembic_version names is the one the tables are at: what
\* ship_host.py refuses and migrates by is true of the database.
RevisionIsApplied == 1 .. h.db.stamp \subseteq h.db.has

===============================================================================

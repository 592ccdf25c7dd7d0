----------------------------- MODULE ResizeTrial -----------------------------
(***************************************************************************)
(* scripts/resize_trial.py changes the type of the instance: it saves the  *)
(* data, takes a snapshot of the disk, quiesces the services, stops the    *)
(* instance, changes its type and starts it again, and goes back to the    *)
(* old type when the new one is not healthy. The scheduled stop of         *)
(* RunScheduler goes on meanwhile and knows nothing of it. The owner has   *)
(* no session: an active lock has the scheduler start what the script has  *)
(* stopped, as the run window has.                                         *)
(***************************************************************************)
EXTENDS RunScheduler

CONSTANTS
  MaxRuns,     \* bound: how often the owner runs the script
  TrialFits    \* values: whether the server is healthy on the trial type

VARIABLES
  type,        \* type of the instance
  services,    \* database, worker, API and timers run
  fits,
  script,      \* the run in progress
  runs,
  calm         \* history: periods begun since a script or a failed call disturbed, up to 2

scriptVars == <<type, services, fits, script, runs>>
allVars == <<vars, scriptVars>>
historyVars == <<allVars, calm>>

Types == {"trial", "rollback"}

Points == {"idle", "reading", "checkpoint", "copying", "snapshot", "quiesce", "stop",
           "stopping", "change", "start", "booting", "health", "handling", "restarting"}

\* found is the status read at the start; copied, snapshot and changed say what
\* has been done; back is set in a rollback the script started itself.
Script == [at : Points, to : Types, found : Statuses, copied : BOOLEAN,
           snapshot : BOOLEAN, changed : BOOLEAN, back : BOOLEAN]

NewRun(to, back) ==
  [at |-> "reading", to |-> to, found |-> "Running", copied |-> FALSE,
   snapshot |-> FALSE, changed |-> FALSE, back |-> back]

NoRun == [NewRun("rollback", FALSE) EXCEPT !.at = "idle"]

Rollback == script.to = "rollback"

Goes(at) == script' = [script EXCEPT !.at = at]

Ends == script' = NoRun

\* The cloud's other state stays.
Elsewhere == UNCHANGED <<timeVars, lock, host, tick, owner, commands, fits, runs>>

\* A call of the script ends in an error: the retries are used up (a fault) or
\* the answer is definite.
Errs(definite) ==
  /\ \/ definite /\ UNCHANGED faults
     \/ Fault
  /\ Goes("handling")
  /\ UNCHANGED <<status, type, services>>
  /\ Elsewhere

-----------------------------------------------------------------------------
\* resize, before the stop.

Begins ==
  /\ script.at = "idle" /\ runs > 0
  /\ runs' = runs - 1
  /\ \E to \in Types : script' = NewRun(to, FALSE)
  /\ UNCHANGED <<vars, type, services, fits>>

\* Also when the target is out of stock, which counts as a fault.
ReadsBefore ==
  /\ script.at = "reading"
  /\ \/ /\ type # script.to
        /\ script' = [script EXCEPT !.found = status,
                        !.at = IF status = "Running" THEN "checkpoint" ELSE "snapshot"]
        /\ UNCHANGED <<status, type, services, faults>> /\ Elsewhere
     \/ Errs(type = script.to)

\* host_state asks the database. A rollback goes on without it.
Checkpoints ==
  /\ script.at = "checkpoint"
  /\ \/ /\ status = "Running" /\ services
        /\ Goes(IF Rollback THEN "snapshot" ELSE "copying")
        /\ UNCHANGED faults
     \/ /\ Rollback
        /\ ~(status = "Running" /\ services) \/ faults > 0
        /\ Goes("snapshot")
        /\ faults' = IF status = "Running" /\ services THEN faults - 1 ELSE faults
     \/ /\ ~Rollback
        /\ \/ ~(status = "Running" /\ services) /\ UNCHANGED faults
           \/ Fault
        /\ Goes("handling")
  /\ UNCHANGED <<status, type, services>> /\ Elsewhere

\* A fresh verified copy off the host, and a copy of it under anchor/.
Copies ==
  /\ script.at = "copying"
  /\ \/ /\ status = "Running" /\ services
        /\ script' = [script EXCEPT !.at = "snapshot", !.copied = TRUE]
        /\ UNCHANGED <<status, type, services, faults>> /\ Elsewhere
     \/ Errs(~(status = "Running" /\ services))

\* Mutant of TakesSnapshot: the snapshot is made and not waited for.
TakesSnapshotUnverified ==
  /\ script.at = "snapshot"
  /\ \/ /\ Goes(IF script.found = "Running" THEN "quiesce" ELSE "change")
        /\ UNCHANGED <<status, type, services, faults>> /\ Elsewhere
     \/ Errs(FALSE)

TakesSnapshot ==
  /\ script.at = "snapshot"
  /\ \/ /\ script' = [script EXCEPT !.snapshot = TRUE,
                        !.at = IF script.found = "Running" THEN "quiesce" ELSE "change"]
        /\ UNCHANGED <<status, type, services, faults>> /\ Elsewhere
     \/ Errs(FALSE)

\* The command may have run although its answer is lost.
Quiesces ==
  /\ script.at = "quiesce"
  /\ \/ status = "Running" /\ services' = FALSE /\ Goes("stop") /\ UNCHANGED faults
     \/ /\ \/ status # "Running" /\ UNCHANGED <<services, faults>>
           \/ status = "Running" /\ Fault /\ services' \in {services, FALSE}
        /\ Goes(IF Rollback THEN "stop" ELSE "handling")
  /\ UNCHANGED <<status, type>> /\ Elsewhere

-----------------------------------------------------------------------------
\* Stop, change, start. The cloud refuses a call that does not fit the status.

StopsIt ==
  /\ script.at = "stop"
  /\ \/ /\ status = "Running" /\ status' = "Stopping"
        /\ Goes("stopping")
        /\ UNCHANGED <<type, services, faults>> /\ Elsewhere
     \/ Errs(status # "Running")

\* The scheduler may start it again between two looks.
AwaitsStopped ==
  /\ script.at = "stopping"
  /\ \/ /\ status = "Stopped"
        /\ Goes("change")
        /\ UNCHANGED <<status, type, services, faults>> /\ Elsewhere
     \/ Errs(status \in {"Starting", "Running"})

Changes ==
  /\ script.at = "change"
  /\ \/ /\ status = "Stopped" /\ type' = script.to
        /\ script' = [script EXCEPT !.at = "start", !.changed = TRUE]
        /\ UNCHANGED <<status, services, faults>> /\ Elsewhere
     \/ Errs(status # "Stopped")

StartsIt ==
  /\ script.at = "start"
  /\ \/ /\ status = "Stopped" /\ status' = "Starting"
        /\ Goes("booting")
        /\ UNCHANGED <<type, services, faults>> /\ Elsewhere
     \/ Errs(status # "Stopped")

AwaitsRunning ==
  /\ script.at = "booting"
  /\ \/ /\ status = "Running"
        /\ Goes("health")
        /\ UNCHANGED <<status, type, services, faults>> /\ Elsewhere
     \/ Errs(status \in {"Stopping", "Stopped"})

Healthy == status = "Running" /\ services /\ (fits \/ type = "rollback")

AwaitsHealthy ==
  /\ script.at = "health"
  /\ \/ /\ Healthy
        /\ Ends
        /\ UNCHANGED <<status, type, services, faults>> /\ Elsewhere
     \/ Errs(~Healthy)

-----------------------------------------------------------------------------
\* After an error. Once the type has changed a trial is rolled back; otherwise
\* an instance that is found stopped is started on whatever type it has.

\* Mutant of Handles: a trial that failed after the change is left as it is.
HandlesNoRollback ==
  /\ script.at = "handling"
  /\ IF status = "Stopped" THEN Goes("restarting") ELSE Ends
  /\ UNCHANGED <<status, type, services, faults>> /\ Elsewhere

Handles ==
  /\ script.at = "handling"
  /\ \/ /\ script.changed /\ ~Rollback
        /\ script' = NewRun("rollback", TRUE)
        /\ UNCHANGED faults
     \/ /\ ~script.changed \/ Rollback
        /\ \/ /\ IF status = "Stopped" THEN Goes("restarting") ELSE Ends
              /\ UNCHANGED faults
           \/ Fault /\ Ends
  /\ UNCHANGED <<status, type, services>> /\ Elsewhere

\* Six attempts: a bound on faults below six leaves one that gets through.
Restarts ==
  /\ script.at = "restarting"
  /\ Ends
  /\ status' = IF status = "Stopped" THEN "Starting" ELSE status
  /\ UNCHANGED <<type, services, faults>> /\ Elsewhere

\* The owner's machine sleeps, or the owner interrupts it.
ScriptDies ==
  /\ script.at # "idle"
  /\ Fault
  /\ Ends
  /\ UNCHANGED <<status, type, services>> /\ Elsewhere

ScriptStep ==
  \/ ReadsBefore \/ Checkpoints \/ Copies \/ TakesSnapshot \/ Quiesces
  \/ StopsIt \/ AwaitsStopped \/ Changes \/ StartsIt \/ AwaitsRunning \/ AwaitsHealthy
  \/ Handles \/ Restarts

-----------------------------------------------------------------------------
\* The scheduler beside it. Units are enabled: a boot brings the services back.
\* Readiness is read from the database, so a quiesced server does not answer.

ServerBoots == Boots /\ services' = TRUE /\ UNCHANGED <<type, fits, script, runs>>

ServerHalts == Halts /\ services' = FALSE /\ UNCHANGED <<type, fits, script, runs>>

AsksServer ==
  /\ tick.at = "asking"
  /\ AsksReadiness
  /\ tick'.do = "stop" => services
  /\ UNCHANGED scriptVars

AsksQuiesced ==
  /\ tick.at = "asking" /\ ~services
  /\ tick' = [tick EXCEPT !.at = "deciding", !.do = Decide(tick.status, tick.lock, FALSE)]
  /\ UNCHANGED <<timeVars, status, lock, host, owner, faults, commands, scriptVars>>

SchedulerStep ==
  \/ (ReadsInstance \/ Retags \/ Starts \/ Stops \/ LeavesAlone) /\ UNCHANGED scriptVars
  \/ AsksServer \/ AsksQuiesced

Beside ==
  \/ (ReadFails \/ CallFails) /\ UNCHANGED scriptVars
  \/ HostChanges /\ services /\ UNCHANGED scriptVars

ResizeInit ==
  /\ Init
  /\ type \in Types /\ services = TRUE
  /\ fits \in TrialFits /\ (type = "trial" => fits)
  /\ script = NoRun
  /\ runs = MaxRuns
  /\ calm = 0

\* A period counts from its beginning. A script that is begun, in progress or
\* killed, and a failed call, start the count again.
Counts ==
  calm' = CASE script.at # "idle" \/ script' # script \/ faults' # faults -> 0
            [] OTHER -> IF clock' # clock /\ calm < 2 THEN calm + 1 ELSE calm

ResizeNext ==
  \/ Begins \/ ScriptStep \/ ScriptDies
  \/ ServerBoots \/ ServerHalts \/ SchedulerStep \/ Beside
  \/ TimePasses /\ UNCHANGED scriptVars

ResizeSpec == ResizeInit /\ [][ResizeNext /\ Counts]_historyVars

FairResizeSpec ==
  /\ ResizeSpec
  /\ WF_allVars(SchedulerStep) /\ WF_allVars(ScriptStep)
  /\ WF_allVars(ServerBoots) /\ WF_allVars(ServerHalts)
  /\ WF_allVars(TimePasses /\ UNCHANGED scriptVars)

-----------------------------------------------------------------------------
ResizeTypeOK ==
  /\ TypeOK
  /\ type \in Types /\ services \in BOOLEAN /\ fits \in BOOLEAN
  /\ script \in Script /\ runs \in 0..MaxRuns /\ calm \in 0..2

\* "No stop without a verified snapshot of the system disk", and a trial, other
\* than a rollback, also has its data off the host and is not changed under a
\* running database, whatever the scheduler started or stopped meanwhile.
ChangedSafely ==
  [][type' # type =>
       /\ script.snapshot /\ ~services
       /\ Rollback \/ script.found # "Running" \/ script.copied]_allVars

\* However the script ended or died, and whatever it left stopped: a server that
\* the run window has had to itself for a whole period, with no script and no
\* failed call, runs in the session. The scheduler that knows nothing of the script
\* makes up for it. This is the instance; the services a dead script has quiesced
\* on a running one stay down.
UpAfterResize == InSession /\ calm = 2 => status = "Running"

SchedulerActs == tick.at = "acting" /\ tick.do # "none"

UnhealthyTrial ==
  /\ type = "trial" /\ ~fits /\ script.at = "health" /\ faults = 0
  /\ status = "Running" /\ tick.do = "none"

\* A server that is not healthy on the trial type goes back, unless the scheduler
\* starts or stops it under the rollback: then the rollback is given up.
UnfitIsUndone == UnhealthyTrial ~> type = "rollback" \/ SchedulerActs

=============================================================================

----------------------------- MODULE HostBackups -----------------------------
(***************************************************************************)
(* What the server does so that it may be stopped: an hourly job dumps the *)
(* database and restores the dump to prove it (backup_database.sh), another *)
(* encrypts the newest verified dump and puts it under the key of the last *)
(* session into a bucket that forbids overwrites (offsite.py), readiness   *)
(* reads the records of both (readiness.py), and a watchdog watches all of *)
(* it and owns one incident (watchdog.py).                                 *)
(*                                                                         *)
(* One unit of time is one period of the two timers. A dump that does not  *)
(* end in the unit in which it began counts as a fault.                    *)
(***************************************************************************)
EXTENDS TradingCalendar

CONSTANTS
  PostCloseLag, StartLead, StopLag,
  DueAfterClose,    \* OFFSITE_DUE_AFTER_CLOSE
  MaxDumpAge,       \* MAX_DUMP_AGE_SECONDS, MAX_BACKUP_AGE_SECONDS
  MaxRecordAge,     \* MAX_STATUS_AGE_SECONDS
  MaxCopyAge,       \* MAX_OFFSITE_AGE_SECONDS
  BootGrace,        \* BOOT_GRACE_PERIODIC
  Horizon,          \* bound: the clock stays here, while the timers go on
  MaxFaults,        \* bound: failed calls, failed or slow dumps, power losses
  ResizeTimes       \* bound: when the owner resizes the server

ASSUME BackupAssumption ==
  /\ {PostCloseLag, StartLead, StopLag, DueAfterClose, MaxDumpAge} \subseteq Nat
  /\ {MaxRecordAge, MaxCopyAge, BootGrace, Horizon, MaxFaults} \subseteq Nat

\* A quarter of an hour after a close it is still the same day, and the clock
\* reaches every session.
ASSUME SessionsAssumption ==
  \A s \in Sessions : /\ s.close + PostCloseLag < (s.day + 1) * DayLen
                      /\ s.day <= DayOf(Horizon)

VARIABLES
  clock,
  booted,    \* when the server last booted; Off when it does not run
  due,       \* timers that have fired in this unit and whose job has not begun
  dumping,   \* when the dump in progress began, or Off
  backup,    \* backup.json
  copying,   \* the run of offsite.py in progress
  offsite,   \* backup-offsite.json
  bucket,    \* key -> what is stored under it
  worker,    \* whether the worker's health file, lease and incidents are clean
  alarm,     \* whether the watchdog's own incident is open
  faults

vars == <<clock, booted, due, dumping, backup, copying, offsite, bucket, worker, alarm, faults>>

Off == -1

Up == booted # Off

Uptime == clock - booted

Times == 0..Horizon

Days == 0..DayOf(Horizon)

Jobs == {"backup", "offsite"}

\* A copy taken before a resize is named by the day it was taken.
Kinds == {"daily", "weekly", "preresize"}
Keys == Kinds \X Days

\* What is stored: the moment whose data the dump has, whether all of it landed,
\* and when it was last modified. A dump has the data of the moment it began.
Object == [data : Times \cup {Off}, whole : BOOLEAN, modified : Times \cup {Off}]
Absent == [data |-> Off, whole |-> FALSE, modified |-> Off]

Copy(data, whole) == [data |-> data, whole |-> whole, modified |-> clock]

Stored(key) == bucket[key] # Absent

Dump == [at : Times \cup {Off}, verified : BOOLEAN, data : Times \cup {Off}]

OffsiteRecord == [at : Times \cup {Off}, ok : BOOLEAN, keys : SUBSET Keys]

Run == [at : {"idle", "checking", "putting"}, data : Times \cup {Off},
        keys : SUBSET Keys, missing : SUBSET Keys]

NoRun == [at |-> "idle", data |-> Off, keys |-> {}, missing |-> {}]

Fault == faults > 0 /\ faults' = faults - 1

InRunWindow ==
  \/ ~Covers(clock)
  \/ LET s == SessionFor(clock)
     IN s # NoSession /\ s.open - StartLead <= clock /\ clock < s.close + StopLag

-----------------------------------------------------------------------------
\* The hourly backup. The record carries the time the dump began.

BackupBegins ==
  /\ Up /\ "backup" \in due /\ dumping = Off
  /\ dumping' = clock /\ due' = due \ {"backup"}
  /\ UNCHANGED <<clock, booted, backup, copying, offsite, bucket, worker, alarm, faults>>

\* Mutant of BackupEnds: the record carries the time the script ended.
BackupEndsAtEnd ==
  /\ dumping # Off
  /\ \/ backup' = [at |-> clock, verified |-> TRUE, data |-> dumping] /\ UNCHANGED faults
     \/ Fault /\ backup' \in {backup, [at |-> dumping, verified |-> FALSE, data |-> Off]}
  /\ dumping' = Off
  /\ UNCHANGED <<clock, booted, due, copying, offsite, bucket, worker, alarm>>

\* One retry of a dropped connection is part of it; anything else fails. A dump or
\* a restore that fails writes a record; a count that cannot be read ends the
\* script (set -e) and leaves the record of the run before.
BackupEnds ==
  /\ dumping # Off
  /\ \/ backup' = [at |-> dumping, verified |-> TRUE, data |-> dumping] /\ UNCHANGED faults
     \/ Fault /\ backup' \in {backup, [at |-> dumping, verified |-> FALSE, data |-> Off]}
  /\ dumping' = Off
  /\ UNCHANGED <<clock, booted, due, copying, offsite, bucket, worker, alarm>>

-----------------------------------------------------------------------------
\* The copy off the host.

\* None for a dump taken in a session. Past the calendar a day has its own key.
DestinationKeys(at) ==
  LET today == SessionFor(at)
      closed == LastClosed(at, PostCloseLag)
      during == today # NoSession /\ today.open <= at /\ at < today.close + PostCloseLag
      sunday == DayOf(at) % WeekLen = WeekLen - 1
  IN CASE ~Covers(at) ->
            {<<"daily", DayOf(at)>>} \cup IF sunday THEN {<<"weekly", DayOf(at)>>} ELSE {}
       [] Covers(at) /\ (during \/ closed = NoSession) -> {}
       [] OTHER ->
            {<<"daily", closed.day>>}
            \cup IF IsLastOfWeek(closed.day) THEN {<<"weekly", closed.day>>} ELSE {}

\* What verify_source accepts.
SourceVerified == backup.verified /\ clock - backup.at <= MaxDumpAge

\* A refused run, and a failed one, still write a record.
RunFails ==
  /\ copying' = NoRun
  /\ offsite' = [at |-> clock, ok |-> FALSE, keys |-> {}]

OffsiteBegins ==
  /\ Up /\ "offsite" \in due /\ copying = NoRun
  /\ due' = due \ {"offsite"}
  /\ IF SourceVerified
     THEN /\ copying' = [at |-> "checking", data |-> backup.data,
                         keys |-> DestinationKeys(backup.at), missing |-> {}]
          /\ UNCHANGED offsite
     ELSE RunFails
  /\ UNCHANGED <<clock, booted, dumping, backup, bucket, worker, alarm, faults>>

\* A listing shows what is stored, truncated or not.
OffsiteChecks ==
  /\ copying.at = "checking"
  /\ \/ /\ copying' = [copying EXCEPT !.at = "putting",
                                      !.missing = {k \in copying.keys : ~Stored(k)}]
        /\ UNCHANGED <<offsite, faults>>
     \/ RunFails /\ Fault
  /\ UNCHANGED <<clock, booted, due, dumping, backup, bucket, worker, alarm>>

NextKey(keys) == CHOOSE k \in keys : k[1] = "daily" \/ \A other \in keys : other[1] # "daily"

Puts(key, whole) == bucket' = [bucket EXCEPT ![key] = Copy(copying.data, whole)]

\* Each key is put and looked up; the first that did not land ends the run. The
\* bucket refuses to overwrite. A call that fails may have stored the object, or
\* a part of it.
OffsitePuts ==
  /\ copying.at = "putting" /\ copying.missing # {}
  /\ LET key == NextKey(copying.missing) IN
     \/ /\ ~Stored(key) /\ Puts(key, TRUE)
        /\ copying' = [copying EXCEPT !.missing = @ \ {key}]
        /\ UNCHANGED <<offsite, faults>>
     \/ \E whole \in BOOLEAN :
          ~Stored(key) /\ Puts(key, whole) /\ RunFails /\ Fault
     \/ RunFails /\ Fault /\ UNCHANGED bucket
  /\ UNCHANGED <<clock, booted, due, dumping, backup, worker, alarm>>

OffsiteEnds ==
  /\ copying.at = "putting" /\ copying.missing = {}
  /\ \/ /\ offsite' = [at |-> clock, ok |-> TRUE, keys |-> copying.keys]
        /\ copying' = NoRun
        /\ UNCHANGED faults
     \/ RunFails /\ Fault
  /\ UNCHANGED <<clock, booted, due, dumping, backup, bucket, worker, alarm>>

\* fresh_anchor.py: a resize puts the newest verified dump under a key of its own.
PutsAnchor ==
  /\ Up /\ SourceVerified /\ clock \in ResizeTimes
  /\ bucket' = [bucket EXCEPT ![<<"preresize", DayOf(backup.at)>>] = Copy(backup.data, TRUE)]
  /\ UNCHANGED <<clock, booted, due, dumping, backup, copying, offsite, worker, alarm, faults>>

-----------------------------------------------------------------------------
\* Readiness and the scheduled stop.

\* Mutant of StopReadiness: any verified backup will do.
StopReadinessAnyCopy ==
  /\ ~alarm /\ worker
  /\ Covers(clock) /\ LastClosed(clock, PostCloseLag) # NoSession
  /\ backup.verified /\ offsite.ok

StopReadiness ==
  LET closed == LastClosed(clock, PostCloseLag) IN
  /\ ~alarm /\ worker
  /\ Covers(clock) /\ closed # NoSession
  /\ backup.verified /\ backup.at >= closed.close + PostCloseLag
  /\ offsite.ok /\ <<"daily", closed.day>> \in offsite.keys

\* A stop and a power loss end the jobs; the disk stays.
Halts == booted' = Off /\ dumping' = Off /\ copying' = NoRun /\ due' = {}

Stops ==
  /\ Up /\ ~InRunWindow /\ StopReadiness
  /\ Halts
  /\ UNCHANGED <<clock, backup, offsite, bucket, worker, alarm, faults>>

LosesPower ==
  /\ Up /\ Fault /\ Halts
  /\ UNCHANGED <<clock, backup, offsite, bucket, worker, alarm>>

\* Mutant of Starts: the timers wait for their next period.
StartsCold ==
  /\ ~Up
  /\ booted' = clock /\ due' = {}
  /\ UNCHANGED <<clock, dumping, backup, copying, offsite, bucket, worker, alarm, faults>>

\* The scheduler at the window, or a session of the owner at any time. Both
\* timers are persistent: they catch up at boot.
Starts ==
  /\ ~Up
  /\ booted' = clock /\ due' = Jobs
  /\ UNCHANGED <<clock, dumping, backup, copying, offsite, bucket, worker, alarm, faults>>

-----------------------------------------------------------------------------
\* The watchdog.

BackupOk == backup.verified /\ clock - backup.at <= MaxDumpAge

OffsiteRunOk == offsite.ok /\ clock - offsite.at <= MaxRecordAge

\* The newest key below daily/ is not older than the session whose copy is due.
\* Past the calendar the age of the newest object decides.
OffsiteFresh ==
  LET closed == LastClosed(clock, DueAfterClose)
      held == {k \in Keys : k[1] \in {"daily", "preresize"} /\ Stored(k)}
  IN IF Covers(clock) THEN \E k \in held : k[2] >= closed.day
                           \/ closed = NoSession
     ELSE \E k \in held : clock - bucket[k].modified <= MaxCopyAge

\* Mutant of OwnIncidents: its own alarm is one of the incidents it counts.
OwnIncidentsCounted == ~alarm

\* It does not count its own incident among the unresolved ones.
OwnIncidents == TRUE

Excused == Uptime < BootGrace

Healthy ==
  /\ Excused \/ (BackupOk /\ OffsiteRunOk /\ OffsiteFresh)
  /\ worker /\ OwnIncidents

\* It opens its incident when a check fails and closes it when none does. A listing
\* that fails is a failed check, which the grace after a boot excuses; without the
\* database it records nothing.
Watches ==
  /\ Up
  /\ \/ alarm' = ~Healthy /\ UNCHANGED faults
     \/ Fault /\ alarm' \in {~(Healthy /\ Excused), alarm}
  /\ UNCHANGED <<clock, booted, due, dumping, backup, copying, offsite, bucket, worker>>

-----------------------------------------------------------------------------
WorkerChanges ==
  /\ Up /\ worker' = ~worker
  /\ UNCHANGED <<clock, booted, due, dumping, backup, copying, offsite, bucket, alarm, faults>>

\* Both timers fire in each unit; the scheduler starts the server in its window.
TimePasses ==
  /\ due = {} /\ copying = NoRun
  /\ \/ dumping = Off /\ UNCHANGED faults
     \/ dumping = clock /\ Fault
  /\ Up \/ ~InRunWindow
  /\ clock' = IF clock < Horizon THEN clock + 1 ELSE clock
  /\ due' = IF Up THEN (IF dumping = Off THEN Jobs ELSE Jobs \ {"backup"}) ELSE {}
  /\ UNCHANGED <<booted, dumping, backup, copying, offsite, bucket, worker, alarm>>

Init ==
  /\ clock = 0 /\ booted = Off /\ due = {}
  /\ dumping = Off /\ copying = NoRun
  /\ backup = [at |-> Off, verified |-> FALSE, data |-> Off]
  /\ offsite = [at |-> Off, ok |-> FALSE, keys |-> {}]
  /\ bucket = [k \in Keys |-> Absent]
  /\ worker = TRUE /\ alarm = FALSE
  /\ faults = MaxFaults

JobStep == BackupBegins \/ BackupEnds \/ OffsiteBegins \/ OffsiteChecks \/ OffsitePuts \/ OffsiteEnds

Next ==
  \/ JobStep \/ PutsAnchor \/ Watches
  \/ Stops \/ LosesPower \/ Starts
  \/ WorkerChanges \/ TimePasses

Spec == Init /\ [][Next]_vars

Fairness ==
  WF_vars(JobStep) /\ WF_vars(Watches) /\ WF_vars(TimePasses) /\ WF_vars(Starts /\ InRunWindow)

FairSpec == Spec /\ Fairness

-----------------------------------------------------------------------------
\* Type correctness.
TypeOK ==
  /\ clock \in Times /\ booted \in Times \cup {Off} /\ due \subseteq Jobs
  /\ dumping \in Times \cup {Off} /\ backup \in Dump
  /\ copying \in Run /\ offsite \in OffsiteRecord
  /\ bucket \in [Keys -> Object]
  /\ worker \in BOOLEAN /\ alarm \in BOOLEAN
  /\ faults \in 0..MaxFaults

\* The object under a session's key is a dump that began after that session's
\* trading and before the next one's: it has all of the session and is fixed
\* for ever, whatever failed, was retried or ran late.
CopyIsPostClose ==
  \A s \in Sessions : Stored(<<"daily", s.day>>) /\ s.day <= CoveredThrough =>
    LET data == bucket[<<"daily", s.day>>].data
    IN /\ s.close + PostCloseLag <= data
       /\ \A other \in Sessions : s.close < other.open => data < other.open

\* A scheduled stop leaves the last session's data off the host, and all of it
\* unless a copy was cut short on its way: the next run takes what the listing
\* shows for the copy.
StoppedWithCopy ==
  [][Stops => LET copy == bucket[<<"daily", LastClosed(clock, PostCloseLag).day>>]
              IN copy # Absent /\ (copy.whole \/ faults < MaxFaults)]_vars

\* Every session's data is off the host before the next session opens, though
\* one thing fails: the stop waits for the copy, and the start in the morning
\* makes up for a power loss in the evening.
SessionSaved ==
  MaxFaults <= faults + 1 =>
  \A s, other \in Sessions :
    s.close < other.open /\ other.open <= clock => Stored(<<"daily", s.day>>)

\* The watchdog's alarm ends once its causes do. An alarm that is counted among
\* its own causes would also keep the server from being stopped for ever.
AlarmClears == <>[](Up /\ worker) => <>[]~alarm

=============================================================================

---------------------------- MODULE RunScheduler ----------------------------
(***************************************************************************)
(* The scheduled stop: a function outside the server that runs every 15    *)
(* minutes (deploy/scheduler/handler.py), reads the instance and its tags, *)
(* asks scheduler.py what to do, and starts or stops the instance. The     *)
(* owner holds the server up with a session lock, which scripts/session.py *)
(* writes into the same tags while the function may be running.            *)
(*                                                                         *)
(* One unit of time is one period of the function. Its calls, the owner's  *)
(* commands and a boot fit into a unit. What the server itself would       *)
(* answer about stopping is the variable host, which changes as it likes.  *)
(***************************************************************************)
EXTENDS Integers

CONSTANTS
  DayLen,           \* units in a day; 0 is midnight in New York
  OpenAt, CloseAt,  \* the session of a trading day
  StartLead,        \* START_LEAD
  StopLag,          \* STOP_LAG
  PostCloseLag,     \* POST_CLOSE_LAG of offsite.py
  MaxLock,          \* MAX_LOCK
  LockGrace,        \* LOCK_GRACE
  MaxFaults,        \* bound: failed calls to the cloud
  MaxCommands       \* bound: what the owner does to the lock

ASSUME ScheduleAssumption ==
  /\ {DayLen, OpenAt, CloseAt, StartLead, StopLag, PostCloseLag} \subseteq Nat
  /\ {MaxLock, LockGrace, MaxFaults, MaxCommands} \subseteq Nat
  /\ 0 < StartLead /\ StartLead <= OpenAt /\ OpenAt < CloseAt
  /\ PostCloseLag <= StopLag /\ CloseAt + StopLag < DayLen
  /\ 0 < MaxLock

VARIABLES
  clock,    \* the time of day
  day,      \* a session, a holiday, or past what the calendar covers
  status,   \* Status of the instance
  lock,     \* the tags that begin with oa-session
  host,     \* what the server knows about being stopped
  tick,     \* the invocation of this unit
  owner,    \* the owner's command in progress
  faults, commands

timeVars == <<clock, day>>
vars == <<clock, day, status, lock, host, tick, owner, faults, commands>>

Days == {"session", "holiday", "uncovered"}

Statuses == {"Running", "Stopping", "Stopped", "Starting"}

Fault == faults > 0 /\ faults' = faults - 1

-----------------------------------------------------------------------------
\* The session lock. until is the expiry tag: absent, unreadable (no such time,
\* no timezone, or only a reason), or a time, of which left is what remains.
\* stray: there is an oa-session tag under another name.

Lock == [until : {"absent", "unreadable", "time"}, left : -LockGrace..MaxLock + 1,
         stray : BOOLEAN]

NoLock == [until |-> "absent", left |-> -LockGrace, stray |-> FALSE]

ReadLock(l) ==
  CASE l.stray \/ l.until = "unreadable" -> "invalid"
    [] ~l.stray /\ l.until = "absent" -> "none"
    [] OTHER -> IF l.left <= 0 THEN "expired"
                ELSE IF l.left > MaxLock THEN "invalid" ELSE "active"

\* TagResources sets the expiry and the reason, and leaves other tags alone.
Tagged(l, left) == [l EXCEPT !.until = "time", !.left = left]

Aged(l) == [l EXCEPT !.left = IF @ = -LockGrace THEN @ ELSE @ - 1]

-----------------------------------------------------------------------------
\* The decision.

\* Mutant of InRunWindow: the server is wanted from the open.
InRunWindowFromOpen ==
  \/ day = "uncovered"
  \/ day = "session" /\ OpenAt <= clock /\ clock < CloseAt + StopLag

InRunWindow ==
  \/ day = "uncovered"
  \/ day = "session" /\ OpenAt - StartLead <= clock /\ clock < CloseAt + StopLag

InSession == day = "session" /\ OpenAt <= clock /\ clock < CloseAt

\* What stop_readiness answers, asked when the instance runs; when it does not,
\* nobody answers, which is a refusal.
Host == [exposure : BOOLEAN, incidents : BOOLEAN, saved : BOOLEAN]

\* Mutant of StopReadiness: held exposure alone does not refuse.
StopReadinessHolding == status = "Running" /\ ~host.incidents /\ host.saved

StopReadiness ==
  /\ status = "Running"
  /\ ~host.exposure /\ ~host.incidents
  /\ day # "uncovered" /\ host.saved

\* Mutant of StopIsDue: a lock that has ended once is waited for always.
StopIsDueUnlocked(s, l) == ReadLock(l) = "none" /\ ~InRunWindow /\ s = "Running"

\* The server is asked last, when everything else allows a stop.
StopIsDue(s, l) ==
  /\ ReadLock(l) \in {"none", "expired"}
  /\ ~InRunWindow
  /\ s = "Running"
  /\ ReadLock(l) = "expired" => l.left <= -LockGrace

\* Mutant of Decide: a lock holds a server up and does not bring one back.
DecideLockHolds(s, l, ready) ==
  CASE s = "Stopped" /\ InRunWindow -> "start"
    [] StopIsDue(s, l) /\ ready -> "stop"
    [] OTHER -> "none"

\* Mutant of Decide: the window holds a server up and does not bring one back.
DecideWindowHolds(s, l, ready) ==
  CASE s = "Stopped" /\ ReadLock(l) \in {"active", "invalid"} -> "start"
    [] StopIsDue(s, l) /\ ready -> "stop"
    [] OTHER -> "none"

\* A lock that is active or invalid, and the run window, each want the server
\* up; only a stop that is due and ready remains.
Decide(s, l, ready) ==
  CASE s = "Stopped" /\ (ReadLock(l) \in {"active", "invalid"} \/ InRunWindow) -> "start"
    [] StopIsDue(s, l) /\ ready -> "stop"
    [] OTHER -> "none"

-----------------------------------------------------------------------------
\* One invocation: read, ask if need be, rewrite the lock, act. A call that
\* fails alerts; without the instance or after a failed stop the tick fails.

Tick == [at : {"due", "asking", "deciding", "acting", "over"}, status : Statuses,
         lock : Lock, do : {"none", "start", "stop"}, failed : BOOLEAN]

NewTick(at, failed) ==
  [at |-> at, status |-> "Running", lock |-> NoLock, do |-> "none", failed |-> failed]

TickOver(failed) == tick' = NewTick("over", failed)

ReadsInstance ==
  /\ tick.at = "due"
  /\ tick' = [tick EXCEPT !.at = IF StopIsDue(status, lock) THEN "asking" ELSE "deciding",
                          !.status = status, !.lock = lock,
                          !.do = Decide(status, lock, FALSE)]
  /\ UNCHANGED <<timeVars, status, lock, host, owner, faults, commands>>

ReadFails ==
  /\ tick.at = "due"
  /\ Fault
  /\ TickOver(TRUE)
  /\ UNCHANGED <<timeVars, status, lock, host, owner, commands>>

AsksReadiness ==
  /\ tick.at = "asking"
  /\ \/ /\ tick' = [tick EXCEPT !.at = "deciding",
                                !.do = Decide(tick.status, tick.lock, StopReadiness)]
        /\ UNCHANGED faults
     \/ /\ Fault
        /\ tick' = [tick EXCEPT !.at = "deciding", !.do = Decide(tick.status, tick.lock, FALSE)]
  /\ UNCHANGED <<timeVars, status, lock, host, owner, commands>>

\* An invalid lock becomes one that ends at the cap; a failed rewrite alerts.
Retags ==
  /\ tick.at = "deciding"
  /\ tick' = [tick EXCEPT !.at = "acting"]
  /\ IF ReadLock(tick.lock) = "invalid"
     THEN \/ lock' = Tagged(lock, MaxLock) /\ UNCHANGED faults
          \/ Fault /\ UNCHANGED lock
     ELSE UNCHANGED <<lock, faults>>
  /\ UNCHANGED <<timeVars, status, host, owner, commands>>

Starts ==
  /\ tick.at = "acting" /\ tick.do = "start"
  /\ TickOver(status # "Stopped")
  /\ status' = IF status = "Stopped" THEN "Starting" ELSE status
  /\ UNCHANGED <<timeVars, lock, host, owner, faults, commands>>

Stops ==
  /\ tick.at = "acting" /\ tick.do = "stop"
  /\ TickOver(status # "Running")
  /\ status' = IF status = "Running" THEN "Stopping" ELSE status
  /\ UNCHANGED <<timeVars, lock, host, owner, faults, commands>>

CallFails ==
  /\ tick.at = "acting" /\ tick.do \in {"start", "stop"}
  /\ Fault
  /\ TickOver(TRUE)
  /\ UNCHANGED <<timeVars, status, lock, host, owner, commands>>

LeavesAlone ==
  /\ tick.at = "acting" /\ tick.do = "none"
  /\ TickOver(FALSE)
  /\ UNCHANGED <<timeVars, status, lock, host, owner, faults, commands>>

TickStep == ReadsInstance \/ AsksReadiness \/ Retags \/ Starts \/ Stops \/ LeavesAlone

-----------------------------------------------------------------------------
\* The owner. Each command writes the lock and ends, except that start then
\* looks at the instance and starts it if it finds it stopped.

Owner == {"idle", "locked", "starting"}

Command == owner = "idle" /\ commands > 0 /\ commands' = commands - 1

SessionStart ==
  /\ Command
  /\ \E hours \in 1..MaxLock : lock' = Tagged(lock, hours)
  /\ owner' = "locked"
  /\ UNCHANGED <<timeVars, status, host, tick, faults>>

SessionLooks ==
  /\ owner = "locked"
  /\ owner' = IF status = "Stopped" THEN "starting" ELSE "idle"
  /\ UNCHANGED <<timeVars, status, lock, host, tick, faults, commands>>

SessionStarts ==
  /\ owner = "starting"
  /\ owner' = "idle"
  /\ status' = IF status = "Stopped" THEN "Starting" ELSE status
  /\ UNCHANGED <<timeVars, lock, host, tick, faults, commands>>

\* The command gives up on a failed call; a lock it has written stays.
SessionFails ==
  /\ owner # "idle"
  /\ Fault
  /\ owner' = "idle"
  /\ UNCHANGED <<timeVars, status, lock, host, tick, commands>>

SessionExtend ==
  /\ Command
  /\ \E hours \in 1..MaxLock : lock' = Tagged(lock, hours)
  /\ UNCHANGED <<timeVars, status, host, tick, owner, faults>>

SessionEnd ==
  /\ Command
  /\ lock' = Tagged(lock, 0)
  /\ UNCHANGED <<timeVars, status, host, tick, owner, faults>>

\* From the console or a phone the owner may write anything.
TypesTags ==
  /\ Command
  /\ \/ lock' = [lock EXCEPT !.until = "unreadable"]
     \/ lock' = Tagged(lock, MaxLock + 1)
     \/ lock' = [lock EXCEPT !.stray = TRUE]
     \/ lock' = NoLock
  /\ UNCHANGED <<timeVars, status, host, tick, owner, faults>>

OwnerStep == SessionLooks \/ SessionStarts

-----------------------------------------------------------------------------
\* The world.

Boots == status = "Starting" /\ status' = "Running"
         /\ UNCHANGED <<timeVars, lock, host, tick, owner, faults, commands>>

Halts == status = "Stopping" /\ status' = "Stopped"
         /\ UNCHANGED <<timeVars, lock, host, tick, owner, faults, commands>>

\* The worker takes new exposure in a session only; it may give exposure up,
\* write or close incidents and save its data whenever it runs.
HostChanges ==
  /\ status = "Running"
  /\ host' \in Host
  /\ host'.exposure => host.exposure \/ InSession
  /\ UNCHANGED <<timeVars, status, lock, tick, owner, faults, commands>>

\* A session's data is due off the host once its close is far enough behind.
BecomesDue == day' = "session" /\ clock' = CloseAt + PostCloseLag

TimePasses ==
  /\ tick.at = "over" /\ owner = "idle" /\ status \in {"Running", "Stopped"}
  /\ clock' = (clock + 1) % DayLen
  /\ IF clock' = 0 THEN day' \in Days ELSE UNCHANGED day
  /\ lock' = Aged(lock)
  /\ host' = IF BecomesDue THEN [host EXCEPT !.saved = FALSE] ELSE host
  /\ tick' = NewTick("due", FALSE)
  /\ UNCHANGED <<status, owner, faults, commands>>

Init ==
  /\ clock = 0 /\ day \in Days
  /\ status = "Running"
  /\ lock = NoLock
  /\ host = [exposure |-> FALSE, incidents |-> FALSE, saved |-> TRUE]
  /\ tick = NewTick("due", FALSE)
  /\ owner = "idle"
  /\ faults = MaxFaults /\ commands = MaxCommands

Next ==
  \/ TickStep \/ ReadFails \/ CallFails
  \/ OwnerStep \/ SessionStart \/ SessionFails \/ SessionExtend \/ SessionEnd \/ TypesTags
  \/ Boots \/ Halts \/ HostChanges \/ TimePasses

\* The timer of the function fires, calls return, boots and halts end, and time
\* passes. The owner and the worker owe nothing.
Fairness ==
  /\ WF_vars(TickStep) /\ WF_vars(OwnerStep)
  /\ WF_vars(Boots) /\ WF_vars(Halts) /\ WF_vars(TimePasses)

Spec == Init /\ [][Next]_vars

FairSpec == Spec /\ Fairness

-----------------------------------------------------------------------------
\* Type correctness of everything above.
TypeOK ==
  /\ clock \in 0..DayLen - 1 /\ day \in Days
  /\ status \in Statuses /\ lock \in Lock /\ host \in Host
  /\ tick \in Tick /\ owner \in Owner
  /\ faults \in 0..MaxFaults /\ commands \in 0..MaxCommands

StopSent == status = "Running" /\ status' = "Stopping"

\* "A scheduled stop must not interrupt an active manual session" (scheduler.py)
\* and what the code can keep of it: a stop that meets a lock in force was
\* decided on tags that were read before that lock was written.
SessionNotCut ==
  [][StopSent /\ lock = tick.lock => ReadLock(lock) \in {"none", "expired"}]_vars

\* Readiness is read before StopInstance and the two are not atomic, yet the
\* server is never stopped while it owns a position or a working order: what
\* is taken in a session cannot appear in the night in which a stop is due.
NoStopWithExposure == [][StopSent => ~host.exposure]_vars

\* The server runs throughout every session, though ticks before it failed:
\* START_LEAD leaves room for MaxFaults of them.
UpForTheSession == InSession => status = "Running"

InForce == ReadLock(lock) = "active"

\* A session with two periods left gets its server before its lock ends, also
\* when a stop crossed it, unless the owner changes the lock again.
SessionServed ==
  \A c \in 0..MaxCommands :
    status = "Stopped" /\ InForce /\ lock.left >= 2 /\ faults = 0 /\ commands = c
      ~> (status = "Running" /\ InForce) \/ commands < c

\* Nothing holds the server: no exposure, no incident, data saved by nightfall.
Quiet ==
  /\ ~host.exposure /\ ~host.incidents /\ ~lock.stray
  /\ day # "uncovered" /\ (host.saved \/ InRunWindow)

\* A server that nothing holds is stopped, again and again, also after sessions
\* whose locks were forgotten: the scheduler does not wait for ever.
IdleServerStops == <>[]Quiet => []<>(status = "Stopped")
=============================================================================

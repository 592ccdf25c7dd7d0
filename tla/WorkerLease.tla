---------------------------- MODULE WorkerLease -----------------------------
(***************************************************************************)
(* The worker of worker.py: a process that takes a lease, ticks, waits and *)
(* runs its clocks while it waits, and the lease row it shares with every  *)
(* other process. Several may run: a restart that overtakes the process it *)
(* replaces, a second host, an operator who starts one by hand.            *)
(*                                                                         *)
(* Time is relative: the row keeps the time left until it expires, a       *)
(* process the time it has spent in its present activity. Time stops       *)
(* before an activity outlives its bound; all that is not an activity      *)
(* (tests, single database calls) takes no time.                           *)
(***************************************************************************)
EXTENDS Naturals, FiniteSets

CONSTANTS
  Workers,            \* the places a worker runs in: one process each at a time
  Nobody,             \* the identity of every process that has died
  TTL,                \* LEASE_TTL
  HeartbeatEvery,     \* HEARTBEAT_INTERVAL_SECONDS
  Interval,           \* --interval: seconds slept between two ticks
  OrderEvery,         \* --order-clock-interval, 0: never
  PositionEvery,      \* --position-clock-interval, 0: never
  ReviewEvery,        \* --review-interval, 0: never
  RestartDelay,       \* RestartSec of the systemd unit
  StartTime,          \* the longest start of a process
  ClockTime,          \* the longest run of one clock
  TickTimes,          \* the longest tick: one of these
  MaxUpsets           \* bound: crashes, signals and database failures

ASSUME LeaseAssumption ==
  /\ Nobody \notin Workers
  /\ TTL \in Nat \ {0} /\ HeartbeatEvery \in Nat \ {0}
  /\ Interval \in Nat \ {0} /\ RestartDelay \in Nat \ {0}
  /\ OrderEvery \in Nat /\ PositionEvery \in Nat /\ ReviewEvery \in Nat
  /\ StartTime \in Nat /\ ClockTime \in Nat
  /\ MaxUpsets \in Nat
  /\ TickTimes \subseteq Nat

VARIABLES
  lease,      \* the row: its owner, the time left, whether it was released
  proc,       \* the process at each place
  tickTime,   \* how long a tick may last in this behaviour
  upsets      \* how much of MaxUpsets is left

vars == <<lease, proc, tickTime, upsets>>

\* Activities, which take time.
Running == {"probing", "startup", "tick", "sleep",
            "order_clock", "position_clock", "review"}

\* Those that reach the broker.
Trading == {"startup", "tick", "order_clock", "position_clock"}

\* Points at which the process decides what to do next.
Deciding == {"loop", "wait", "order_due", "position_due", "review_due", "ending"}

\* No process: systemd will start one, or an operator has to.
Off == {"down", "stopped"}

Alive(w) == proc[w].at \notin Off

\* A process of the loop: the counter of the wait, the time since the last
\* review, the time in this activity, and the flag the signal handler sets.
Process == [at : Running \cup Deciding \cup Off, waited : 0..Interval,
            since : 0..ReviewEvery, spent : Nat, stopping : BOOLEAN]

NoProcess(at, spent) ==
  [at |-> at, waited |-> 0, since |-> 0, spent |-> spent, stopping |-> FALSE]

At(w, points) == proc[w].at \in points

Goto(w, point) ==
  proc' = [proc EXCEPT ![w].at = point, ![w].spent = 0]

\* The process is gone, with its identity. Its row stays as it was: the next
\* process there has an identity of its own and finds the row a stranger's.
Dies(w, at, row) ==
  /\ proc' = [proc EXCEPT ![w] = NoProcess(at, 0)]
  /\ lease' = [row EXCEPT !.owner = IF @ = w THEN Nobody ELSE @]

Upset == upsets > 0 /\ upsets' = upsets - 1

-----------------------------------------------------------------------------
\* The lease row.

LeaseRow == [owner : Workers \cup {Nobody}, left : 0..TTL, released : BOOLEAN]

HeldUnexpired == ~lease.released   \* mutant of Held: expiry is ignored

Held == ~lease.released /\ lease.left > 0

Taken(w) == [owner |-> w, left |-> TTL, released |-> FALSE]

RenewsAnyway(w) == w \in Workers   \* mutant of Renews: the owner is not compared

\* heartbeat renews what is still its own, expired or not.
Renews(w) == lease.owner = w

Renewed == [lease EXCEPT !.left = TTL]

\* Mutant of Released: a process that lost its lease releases it all the same.
ReleasedByAnyone(w) ==
  IF w \in Workers THEN [lease EXCEPT !.left = 0, !.released = TRUE] ELSE lease

Released(w) ==
  IF lease.owner = w THEN [lease EXCEPT !.left = 0, !.released = TRUE] ELSE lease

-----------------------------------------------------------------------------
\* The process.

\* A new process takes a lease that is not live, or ends with code 3, for
\* which systemd starts another.
Start(w) ==
  /\ At(w, {"down"}) /\ proc[w].spent = RestartDelay
  /\ \/ /\ ~Held
        /\ lease' = Taken(w)
        /\ proc' = [proc EXCEPT ![w] = NoProcess("probing", 0)]
     \/ /\ Held
        /\ proc' = [proc EXCEPT ![w] = NoProcess("down", 0)]
        /\ UNCHANGED lease
  /\ UNCHANGED <<tickTime, upsets>>

\* The feeds and the calendar are read; the review clock begins to count, and
\* the signal handlers are installed.
Probed(w) ==
  /\ At(w, {"probing"})
  /\ Goto(w, "startup")
  /\ UNCHANGED <<lease, tickTime, upsets>>

\* agent.startup() has reconciled.
StartsLoop(w) ==
  /\ At(w, {"startup"})
  /\ Goto(w, "loop")
  /\ UNCHANGED <<lease, tickTime, upsets>>

\* The head of the loop: stop, renew and tick, or give up a lost lease.
Loop(w) ==
  /\ At(w, {"loop"})
  /\ \/ /\ ~proc[w].stopping /\ Renews(w)
        /\ lease' = Renewed
        /\ Goto(w, "tick")
     \/ /\ proc[w].stopping \/ ~Renews(w)
        /\ Goto(w, "ending")
        /\ UNCHANGED lease
  /\ UNCHANGED <<tickTime, upsets>>

\* A tick has ended, with or without an exception.
TickEnds(w) ==
  /\ At(w, {"tick"})
  /\ proc' = [proc EXCEPT ![w].at = "wait", ![w].waited = 0, ![w].spent = 0]
  /\ UNCHANGED <<lease, tickTime, upsets>>

Wait(w) ==
  /\ At(w, {"wait"})
  /\ Goto(w, IF proc[w].waited < Interval /\ ~proc[w].stopping
             THEN "sleep" ELSE "loop")
  /\ UNCHANGED <<lease, tickTime, upsets>>

\* Mutant of Wake: the lease is renewed once per tick.
WakeWithoutHeartbeat(w) ==
  /\ At(w, {"sleep"}) /\ proc[w].spent = 1
  /\ proc' = [proc EXCEPT ![w].waited = @ + 1, ![w].spent = 0, ![w].at = "order_due"]
  /\ UNCHANGED <<lease, tickTime, upsets>>

\* A second has passed: count it, and renew the lease at every HeartbeatEvery.
Wake(w) ==
  /\ At(w, {"sleep"}) /\ proc[w].spent = 1
  /\ LET waited == proc[w].waited + 1
         beat == waited % HeartbeatEvery = 0
     IN /\ proc' = [proc EXCEPT ![w].waited = waited, ![w].spent = 0,
                      ![w].at = IF beat /\ ~Renews(w) THEN "ending" ELSE "order_due"]
        /\ lease' = IF beat /\ Renews(w) THEN Renewed ELSE lease
  /\ UNCHANGED <<tickTime, upsets>>

Due(every, waited) == every > 0 /\ waited % every = 0

\* The two trading clocks are due by the counter of the wait.
OrderDue(w) ==
  /\ At(w, {"order_due"})
  /\ Goto(w, IF Due(OrderEvery, proc[w].waited) THEN "order_clock" ELSE "position_due")
  /\ UNCHANGED <<lease, tickTime, upsets>>

OrderClockEnds(w) ==
  /\ At(w, {"order_clock"})
  /\ Goto(w, "position_due")
  /\ UNCHANGED <<lease, tickTime, upsets>>

PositionDue(w) ==
  /\ At(w, {"position_due"})
  /\ Goto(w, IF Due(PositionEvery, proc[w].waited) THEN "position_clock" ELSE "review_due")
  /\ UNCHANGED <<lease, tickTime, upsets>>

PositionClockEnds(w) ==
  /\ At(w, {"position_clock"})
  /\ Goto(w, "review_due")
  /\ UNCHANGED <<lease, tickTime, upsets>>

\* Cadence.due: by the time since the review last began.
ReviewIsDue(w) == ReviewEvery > 0 /\ proc[w].since >= ReviewEvery

ReviewDue(w) ==
  /\ At(w, {"review_due"})
  /\ \/ /\ ReviewIsDue(w)
        /\ proc' = [proc EXCEPT ![w].at = "review", ![w].since = 0, ![w].spent = 0]
     \/ /\ ~ReviewIsDue(w)
        /\ Goto(w, "wait")
  /\ UNCHANGED <<lease, tickTime, upsets>>

ReviewEnds(w) ==
  /\ At(w, {"review"})
  /\ Goto(w, "wait")
  /\ UNCHANGED <<lease, tickTime, upsets>>

\* The finally block: release the lease. systemd restarts what did not end on
\* its signal.
End(w) ==
  /\ At(w, {"ending"})
  /\ Dies(w, IF proc[w].stopping THEN "stopped" ELSE "down", Released(w))
  /\ UNCHANGED <<tickTime, upsets>>

-----------------------------------------------------------------------------
\* What goes wrong.

\* SIGKILL, a power cut, or an exception before the try block: no release.
Crash(w) ==
  /\ Upset /\ Alive(w)
  /\ Dies(w, "down", lease)
  /\ UNCHANGED tickTime

\* systemctl stop: the handler lets the tick end. Before the handlers are
\* installed the signal kills.
Stop(w) ==
  /\ Upset
  /\ \/ /\ Alive(w) /\ ~At(w, {"probing"}) /\ ~proc[w].stopping
        /\ proc' = [proc EXCEPT ![w].stopping = TRUE]
        /\ UNCHANGED lease
     \/ At(w, {"probing", "down"}) /\ Dies(w, "stopped", lease)
  /\ UNCHANGED tickTime

OperatorStarts(w) ==
  /\ At(w, {"stopped"})
  /\ proc' = [proc EXCEPT ![w] = NoProcess("down", RestartDelay)]
  /\ UNCHANGED <<lease, tickTime, upsets>>

\* A heartbeat raises: the finally block runs all the same.
HeartbeatFails(w) ==
  /\ Upset
  /\ \/ At(w, {"loop"}) /\ ~proc[w].stopping
     \/ /\ At(w, {"sleep"}) /\ proc[w].spent = 1
        /\ (proc[w].waited + 1) % HeartbeatEvery = 0
  /\ Goto(w, "ending")
  /\ UNCHANGED <<lease, tickTime>>

\* end_run or the release raises: the row stays live until it expires.
ReleaseFails(w) ==
  /\ Upset /\ At(w, {"ending"})
  /\ Dies(w, IF proc[w].stopping THEN "stopped" ELSE "down", lease)
  /\ UNCHANGED tickTime

-----------------------------------------------------------------------------
\* Time.

Longest(at) ==
  CASE at \in {"probing", "startup"} -> StartTime
    [] at = "tick" -> tickTime
    [] at = "sleep" -> 1
    [] at \in {"order_clock", "position_clock", "review"} -> ClockTime
    [] OTHER -> 0

Older(p) ==
  [p EXCEPT
     !.spent = IF p.at = "stopped" \/ (p.at = "down" /\ @ = RestartDelay)
               THEN @ ELSE @ + 1,
     !.since = IF @ = ReviewEvery \/ p.at \in Off \cup {"probing"}
               THEN @ ELSE @ + 1]

Time ==
  /\ \A w \in Workers : Alive(w) => proc[w].spent < Longest(proc[w].at)
  /\ proc' = [w \in Workers |-> Older(proc[w])]
  /\ lease' = [lease EXCEPT !.left = IF @ = 0 THEN 0 ELSE @ - 1]
  /\ UNCHANGED <<tickTime, upsets>>

-----------------------------------------------------------------------------
\* No row is as good as a released one: both are taken.
Init ==
  /\ lease = [owner |-> Nobody, left |-> 0, released |-> TRUE]
  /\ proc = [w \in Workers |-> NoProcess("down", RestartDelay)]
  /\ tickTime \in TickTimes
  /\ upsets = MaxUpsets

Step(w) ==
  \/ Start(w) \/ Probed(w) \/ StartsLoop(w) \/ Loop(w) \/ TickEnds(w)
  \/ Wait(w) \/ Wake(w)
  \/ OrderDue(w) \/ OrderClockEnds(w) \/ PositionDue(w) \/ PositionClockEnds(w)
  \/ ReviewDue(w) \/ ReviewEnds(w) \/ End(w)

Disturbance(w) ==
  \/ Crash(w) \/ Stop(w) \/ OperatorStarts(w) \/ HeartbeatFails(w) \/ ReleaseFails(w)

Next == Time \/ \E w \in Workers : Step(w) \/ Disturbance(w)

Spec == Init /\ [][Next]_vars

\* Time passes, a process that runs goes on, and systemd restarts what failed.
\* An operator need not start what was stopped, and nothing need go wrong.
Fairness == WF_vars(Time) /\ \A w \in Workers : WF_vars(Step(w))

FairSpec == Spec /\ Fairness

-----------------------------------------------------------------------------
\* Properties.

\* Every value is of its type. The rows and locals of worker.py.
TypeOK ==
  /\ lease \in LeaseRow
  /\ proc \in [Workers -> Process]
  /\ tickTime \in TickTimes
  /\ upsets \in 0..MaxUpsets

\* How many runs of a clock fall into the seconds between two heartbeats.
RunsBetween(every) == IF every = 0 THEN 0 ELSE (HeartbeatEvery + every - 1) \div every

\* Between two renewals lie at most a start, or a tick, HeartbeatEvery seconds
\* of sleep and the clocks that are due in them; all of it within the TTL.
Timely ==
  /\ 2 * StartTime < TTL
  /\ ReviewEvery = 0 \/ ReviewEvery >= TTL
  /\ tickTime + HeartbeatEvery
       + ClockTime * (RunsBetween(OrderEvery) + RunsBetween(PositionEvery) + 1) < TTL

\* When all work is timely, the processes that have taken the lease and not
\* ended are a single writer, across crashes, restarts, failed releases and
\* second hosts. Heartbeats at the head of the loop and through the wait.
Writers == INSTANCE SingleWriter
             WITH writers <- IF Timely THEN {w \in Workers : Alive(w)} ELSE {}

SingleWriterSpec == Writers!Spec

\* A process whose lease was taken over ends, however long its ticks are: it
\* does not win the lease back and does not stay. LeaseManager.heartbeat.
OldWriterYields ==
  \A w \in Workers : (Alive(w) /\ lease.owner # w) ~> ~Alive(w)

\* A live lease of a living process is neither taken nor released by another:
\* not by a new process, not by an old one that ends late. acquire, release.
OnlyHolderReleases ==
  [][\A w \in Workers :
       Held /\ lease.owner = w /\ Alive(w) /\ ~At(w, {"ending"}) /\ Alive(w)'
         => lease'.owner = w /\ ~lease'.released]_vars

\* Unless an operator has stopped every worker, there is always another tick: a
\* dead process blocks its replacement no longer than its lease. acquire.
Served ==
  \/ <>[](\A w \in Workers : At(w, {"stopped"}))
  \/ []<>(\E w \in Workers : At(w, {"tick"}))

\* What persistence/models.py:390 says the lease makes a fact: of the processes
\* that reconcile, submit and manage, one is at work.
ExactlyOneActive ==
  \A v, w \in Workers :
    At(v, Trading) /\ At(w, Trading) => v = w
=============================================================================

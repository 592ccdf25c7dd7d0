-------------------------- MODULE WorkerLeaseProofs --------------------------
(***************************************************************************)
(* Theorems of WorkerLease, for any number of workers, any intervals and   *)
(* any length of start, tick and clock.                                    *)
(***************************************************************************)
EXTENDS WorkerLease, Integers, TLAPS

\* The rows a process can write are rows.
LEMMA Rows ==
  ASSUME TypeOK, NEW w \in Workers
  PROVE  /\ Taken(w) \in LeaseRow
         /\ Renewed \in LeaseRow
         /\ Released(w) \in LeaseRow
<1>1. TTL \in 0..TTL /\ 0 \in 0..TTL
  BY LeaseAssumption
<1>2. Taken(w) \in LeaseRow
  BY <1>1 DEF LeaseRow, Taken
<1>3. Renewed \in LeaseRow
  BY <1>1 DEF TypeOK, LeaseRow, Renewed
<1>4. Released(w) \in LeaseRow
  BY <1>1 DEF TypeOK, LeaseRow, Released
<1> QED
  BY <1>2, <1>3, <1>4

\* A process that goes to another point stays a process.
LEMMA Moves ==
  ASSUME TypeOK, NEW w \in Workers,
         NEW at \in Running \cup Deciding \cup Off, Goto(w, at)
  PROVE  proc' \in [Workers -> Process]
  BY LeaseAssumption DEF TypeOK, Goto, Process

\* What dies leaves a row and a place without a process.
LEMMA Deaths ==
  ASSUME TypeOK, NEW w \in Workers, NEW at \in Off,
         NEW row \in LeaseRow,
         Dies(w, at, row)
  PROVE  /\ proc' \in [Workers -> Process]
         /\ lease' \in LeaseRow
  BY LeaseAssumption DEF TypeOK, LeaseRow, Dies, NoProcess, Process

\* A process that sleeps has seconds of its wait left.
Counted == \A w \in Workers : At(w, {"sleep"}) => proc[w].waited < Interval

\* A step leaves every value in its type.
LEMMA TypeStep ==
  ASSUME TypeOK, Counted, [Next]_vars
  PROVE  TypeOK'
<1> USE LeaseAssumption DEF Running, Deciding, Off
<1>1. CASE Time
  <2>1. ASSUME NEW p \in Process PROVE Older(p) \in Process
    <3> DEFINE spent == IF p.at = "stopped" \/ (p.at = "down" /\ p.spent = RestartDelay)
                        THEN p.spent ELSE p.spent + 1
               since == IF p.since = ReviewEvery \/ p.at \in Off \cup {"probing"}
                        THEN p.since ELSE p.since + 1
    <3>1. spent \in Nat /\ since \in 0..ReviewEvery
      BY DEF Process
    <3>2. Older(p) = [p EXCEPT !.spent = spent, !.since = since]
      BY DEF Older
    <3> HIDE DEF spent, since
    <3> QED
      BY <3>1, <3>2 DEF Process
  <2>2. proc' \in [Workers -> Process]
    BY <1>1, <2>1 DEF TypeOK, Time
  <2>3. lease' \in LeaseRow
    BY <1>1 DEF TypeOK, LeaseRow, Time
  <2> QED
    BY <1>1, <2>2, <2>3 DEF TypeOK, Time
<1>2. ASSUME NEW w \in Workers, Step(w) PROVE TypeOK'
  <2>1. CASE Start(w)
    <3>1. NoProcess("probing", 0) \in Process /\ NoProcess("down", 0) \in Process
      BY DEF NoProcess, Process
    <3>2. proc' \in [Workers -> Process]
      BY <2>1, <3>1 DEF Start, TypeOK
    <3>3. lease' \in LeaseRow
      BY <2>1, Rows DEF Start, TypeOK
    <3> QED
      BY <2>1, <3>2, <3>3 DEF Start, TypeOK
  <2>2. CASE Probed(w)
    BY <2>2, Moves DEF Probed, TypeOK
  <2>3. CASE StartsLoop(w)
    BY <2>3, Moves DEF StartsLoop, TypeOK
  <2>4. CASE Loop(w)
    <3>1. proc' \in [Workers -> Process]
      BY <2>4, Moves DEF Loop
    <3>2. lease' \in LeaseRow
      BY <2>4, Rows DEF Loop, TypeOK
    <3> QED
      BY <2>4, <3>1, <3>2 DEF Loop, TypeOK
  <2>5. CASE TickEnds(w)
    <3>1. 0 \in 0..Interval
      OBVIOUS
    <3>2. [proc[w] EXCEPT !.at = "wait", !.waited = 0, !.spent = 0] \in Process
      BY <3>1 DEF TypeOK, Process
    <3>3. proc' = [proc EXCEPT ![w] =
                     [proc[w] EXCEPT !.at = "wait", !.waited = 0, !.spent = 0]]
      BY <2>5 DEF TickEnds, TypeOK
    <3>4. proc' \in [Workers -> Process]
      BY <3>2, <3>3 DEF TypeOK
    <3> QED
      BY <2>5, <3>4 DEF TickEnds, TypeOK
  <2>6. CASE Wait(w)
    BY <2>6, Moves DEF Wait, TypeOK
  <2>7. CASE Wake(w)
    <3>1. lease' \in LeaseRow
      BY <2>7, Rows DEF Wake, TypeOK
    <3>2. proc[w].waited + 1 \in 0..Interval
      BY <2>7 DEF Wake, At, Counted, TypeOK, Process
    <3>3. proc' \in [Workers -> Process]
      <4> DEFINE at == IF (proc[w].waited + 1) % HeartbeatEvery = 0 /\ ~Renews(w)
                       THEN "ending" ELSE "order_due"
      <4>1. proc' = [proc EXCEPT ![w].waited = proc[w].waited + 1, ![w].spent = 0,
                                 ![w].at = at]
        BY <2>7 DEF Wake
      <4>2. at \in Running \cup Deciding \cup Off
        OBVIOUS
      <4> HIDE DEF at
      <4>3. [proc[w] EXCEPT !.waited = proc[w].waited + 1, !.spent = 0, !.at = at]
              \in Process
        BY <3>2, <4>2 DEF TypeOK, Process
      <4>4. proc' = [proc EXCEPT ![w] =
              [proc[w] EXCEPT !.waited = proc[w].waited + 1, !.spent = 0, !.at = at]]
        BY <4>1 DEF TypeOK
      <4> QED
        BY <4>3, <4>4 DEF TypeOK
    <3> QED
      BY <2>7, <3>1, <3>3 DEF Wake, TypeOK
  <2>8. CASE OrderDue(w)
    BY <2>8, Moves DEF OrderDue, TypeOK
  <2>9. CASE OrderClockEnds(w)
    BY <2>9, Moves DEF OrderClockEnds, TypeOK
  <2>10. CASE PositionDue(w)
    BY <2>10, Moves DEF PositionDue, TypeOK
  <2>11. CASE PositionClockEnds(w)
    BY <2>11, Moves DEF PositionClockEnds, TypeOK
  <2>12. CASE ReviewDue(w)
    BY <2>12, Moves DEF ReviewDue, TypeOK, Process
  <2>13. CASE ReviewEnds(w)
    BY <2>13, Moves DEF ReviewEnds, TypeOK
  <2>14. CASE End(w)
    BY <2>14, Deaths, Rows DEF End, TypeOK
  <2> QED
    BY <1>2, <2>1, <2>2, <2>3, <2>4, <2>5, <2>6, <2>7, <2>8, <2>9, <2>10,
       <2>11, <2>12, <2>13, <2>14 DEF Step
<1>3. ASSUME NEW w \in Workers, Disturbance(w) PROVE TypeOK'
  <2>1. CASE Crash(w)
    BY <2>1, Deaths DEF Crash, Upset, TypeOK
  <2>2. CASE Stop(w)
    <3>1. proc' \in [Workers -> Process] /\ lease' \in LeaseRow
      <4>1. CASE At(w, {"probing", "down"}) /\ Dies(w, "stopped", lease)
        BY <4>1, Deaths DEF TypeOK
      <4>2. CASE proc' = [proc EXCEPT ![w].stopping = TRUE] /\ UNCHANGED lease
        BY <4>2 DEF TypeOK, Process
      <4> QED
        BY <2>2, <4>1, <4>2 DEF Stop
    <3> QED
      BY <2>2, <3>1 DEF Stop, Upset, TypeOK
  <2>3. CASE OperatorStarts(w)
    BY <2>3 DEF OperatorStarts, TypeOK, NoProcess, Process
  <2>4. CASE HeartbeatFails(w)
    BY <2>4, Moves DEF HeartbeatFails, Upset, TypeOK
  <2>5. CASE ReleaseFails(w)
    BY <2>5, Deaths DEF ReleaseFails, Upset, TypeOK
  <2> QED
    BY <1>3, <2>1, <2>2, <2>3, <2>4, <2>5 DEF Disturbance
<1>4. CASE UNCHANGED vars
  BY <1>4 DEF vars, TypeOK
<1> QED
  BY <1>1, <1>2, <1>3, <1>4 DEF Next

LEMMA CountedStep ==
  ASSUME TypeOK, Counted, [Next]_vars
  PROVE  Counted'
<1> SUFFICES ASSUME NEW v \in Workers, (proc[v].at)' = "sleep"
             PROVE  (proc[v].waited)' < Interval
  BY DEF Counted, At
<1>1. proc[v].at = "sleep" => proc[v].waited < Interval
  BY DEF Counted, At
<1>2. proc \in [Workers -> Process]
  BY DEF TypeOK
<1>3. CASE Time
  <2>1. proc'[v] = Older(proc[v])
    BY <1>3 DEF Time
  <2>2. Older(proc[v]).at = proc[v].at /\ Older(proc[v]).waited = proc[v].waited
    BY <1>2 DEF Older, Process
  <2> QED
    BY <1>1, <2>1, <2>2
<1>4. ASSUME NEW w \in Workers, Step(w) PROVE (proc[v].waited)' < Interval
  <2>1. CASE v # w
    <3>1. proc'[v] = proc[v]
      BY <1>2, <1>4, <2>1
         DEF Step, Start, Probed, StartsLoop, Loop, TickEnds, Wait, Wake, OrderDue,
             OrderClockEnds, PositionDue, PositionClockEnds, ReviewDue, ReviewEnds, End,
             Goto, Dies
    <3> QED
      BY <1>1, <3>1
  <2>2. CASE v = w
    <3>1. CASE Wait(w)
      BY <1>2, <2>2, <3>1 DEF Wait, Goto, Process
    <3>2. CASE ~Wait(w)
      BY <1>2, <1>4, <2>2, <3>2
         DEF Step, Start, Probed, StartsLoop, Loop, TickEnds, Wake, OrderDue,
             OrderClockEnds, PositionDue, PositionClockEnds, ReviewDue, ReviewEnds, End,
             Goto, Dies, NoProcess, Process
    <3> QED
      BY <3>1, <3>2
  <2> QED
    BY <2>1, <2>2
<1>5. ASSUME NEW w \in Workers, Disturbance(w) PROVE (proc[v].waited)' < Interval
  BY <1>1, <1>2, <1>5
     DEF Disturbance, Crash, Stop, OperatorStarts, HeartbeatFails, ReleaseFails,
         Goto, Dies, NoProcess, Process
<1>6. CASE UNCHANGED vars
  BY <1>1, <1>6 DEF vars
<1> QED
  BY <1>3, <1>4, <1>5, <1>6 DEF Next

\* Every reachable state is well typed: no lease lasts longer than its TTL, no
\* wait counts beyond its interval. The rows and locals of worker.py.
THEOREM LeaseTypeCorrect == Spec => []TypeOK
<1>1. Init => TypeOK /\ Counted
  BY LeaseAssumption DEF Init, TypeOK, LeaseRow, NoProcess, Process, Off, Counted, At
<1>2. TypeOK /\ Counted /\ [Next]_vars => (TypeOK /\ Counted)'
  BY TypeStep, CountedStep
<1> QED
  BY <1>1, <1>2, PTL DEF Spec

\* A live lease stays with the process that holds it, whatever the others do:
\* for any timing, also when ticks outlast the lease. acquire, heartbeat, release.
THEOREM HolderKeeps == Spec => OnlyHolderReleases
<1>1. ASSUME TypeOK, [Next]_vars, NEW w \in Workers,
             Held, lease.owner = w, Alive(w), ~At(w, {"ending"}), Alive(w)'
      PROVE  lease'.owner = w /\ ~lease'.released
  <2> USE DEF Held, TypeOK, LeaseRow
  <2>1. CASE Time
    BY <1>1, <2>1 DEF Time
  <2>2. ASSUME NEW v \in Workers, Step(v)
        PROVE  lease'.owner = w /\ ~lease'.released
    <3>1. CASE End(v)
      BY <1>1, <2>2, <3>1 DEF End, Dies, Released, At
    <3>2. CASE ~End(v)
      BY <1>1, <2>2, <3>2
         DEF Step, Start, Probed, StartsLoop, Loop, TickEnds, Wait, Wake, OrderDue,
             OrderClockEnds, PositionDue, PositionClockEnds, ReviewDue, ReviewEnds,
             Renewed
    <3> QED
      BY <3>1, <3>2
  <2>3. ASSUME NEW v \in Workers, Disturbance(v)
        PROVE  lease'.owner = w /\ ~lease'.released
    <3>1. CASE v = w
      BY <1>1, <2>3, <3>1
         DEF Disturbance, Crash, Stop, OperatorStarts, HeartbeatFails, ReleaseFails,
             Dies, NoProcess, Alive, At, Off
    <3>2. CASE v # w
      BY <1>1, <2>3, <3>2
         DEF Disturbance, Crash, Stop, OperatorStarts, HeartbeatFails, ReleaseFails, Dies
    <3> QED
      BY <3>1, <3>2
  <2>4. CASE UNCHANGED vars
    BY <1>1, <2>4 DEF vars
  <2> QED
    BY <1>1, <2>1, <2>2, <2>3, <2>4 DEF Next
<1>2. TypeOK /\ [Next]_vars =>
        [\A w \in Workers :
           Held /\ lease.owner = w /\ Alive(w) /\ ~At(w, {"ending"}) /\ Alive(w)'
             => lease'.owner = w /\ ~lease'.released]_vars
  BY <1>1
<1> QED
  BY <1>2, LeaseTypeCorrect, PTL DEF Spec, OnlyHolderReleases

-----------------------------------------------------------------------------
\* Whole numbers: a quotient and its rest, and how they grow.

LEMMA Parts ==
  ASSUME NEW a \in Nat, NEW e \in Nat \ {0}
  PROVE  /\ a = e * (a \div e) + (a % e)
         /\ a % e \in 0..(e - 1)
         /\ a \div e \in Nat
  OBVIOUS

LEMMA PartsUnique ==
  ASSUME NEW a \in Nat, NEW e \in Nat \ {0}, NEW q \in Nat, NEW r \in 0..(e - 1),
         a = e * q + r
  PROVE  a \div e = q /\ a % e = r
  OBVIOUS

LEMMA QuotientNext ==
  ASSUME NEW a \in Nat, NEW e \in Nat \ {0}
  PROVE  (a + 1) \div e = (a \div e) + (IF (a + 1) % e = 0 THEN 1 ELSE 0)
  OBVIOUS

LEMMA RestNext ==
  ASSUME NEW a \in Nat, NEW e \in Nat \ {0}, (a + 1) % e # 0
  PROVE  (a + 1) % e = (a % e) + 1
<1> DEFINE q == a \div e
           r == a % e
<1>1. a = e * q + r /\ r \in 0..(e - 1) /\ q \in Nat
  BY Parts
<1> HIDE DEF q, r
<1>2. CASE r + 1 = e
  <2>1. a + 1 = e * (q + 1) + 0
    BY <1>1, <1>2
  <2>2. (a + 1) % e = 0
    BY <2>1, <1>1, PartsUnique
  <2> QED
    BY <2>2
<1>3. CASE r + 1 # e
  <2>1. a + 1 = e * q + (r + 1) /\ r + 1 \in 0..(e - 1)
    BY <1>1, <1>3
  <2>2. (a + 1) % e = r + 1
    BY <2>1, <1>1, PartsUnique
  <2> QED
    BY <2>2 DEF r
<1> QED
  BY <1>2, <1>3

LEMMA Scaled ==
  ASSUME NEW a \in Int, NEW b \in Int, NEW c \in Nat
  PROVE  /\ c * a \in Int /\ c * b \in Int
         /\ a <= b => c * a <= c * b
         /\ c * (a + 1) = c * a + c
         /\ c * 0 = 0
         /\ 0 <= a => 0 <= c * a
  OBVIOUS

-----------------------------------------------------------------------------
\* The runs of a clock between two heartbeats.

\* The second of the wait at which the lease was last due for renewal.
Beat(n) == n - (n % HeartbeatEvery)

\* The seconds of Beat(n)..n at which a clock is due, and those before n.
RunsTo(every, n) ==
  IF every = 0 THEN 0
  ELSE (n \div every) - ((Beat(n) + every - 1) \div every) + 1

RunsBefore(every, n) == RunsTo(every, n) - (IF Due(every, n) THEN 1 ELSE 0)

LEMMA BeatFacts ==
  ASSUME NEW n \in Nat
  PROVE  /\ Beat(n) \in Nat /\ n % HeartbeatEvery \in 0..(HeartbeatEvery - 1)
         /\ Beat(n) <= n /\ n <= Beat(n) + HeartbeatEvery - 1
         /\ n % HeartbeatEvery = 0 => Beat(n) = n
         /\ (n + 1) % HeartbeatEvery # 0 =>
              /\ Beat(n + 1) = Beat(n)
              /\ (n + 1) % HeartbeatEvery = (n % HeartbeatEvery) + 1
<1>1. HeartbeatEvery \in Nat \ {0}
  BY LeaseAssumption
<1>2. /\ n % HeartbeatEvery \in 0..(HeartbeatEvery - 1)
      /\ n % HeartbeatEvery <= n
  <2>1. /\ n = HeartbeatEvery * (n \div HeartbeatEvery) + (n % HeartbeatEvery)
        /\ n % HeartbeatEvery \in 0..(HeartbeatEvery - 1)
        /\ n \div HeartbeatEvery \in Nat
    BY <1>1, Parts
  <2>2. 0 <= HeartbeatEvery * (n \div HeartbeatEvery)
    BY <1>1, <2>1, Scaled
  <2> QED
    BY <1>1, <2>1, <2>2
<1>3. (n + 1) % HeartbeatEvery # 0 =>
        (n + 1) % HeartbeatEvery = (n % HeartbeatEvery) + 1
  BY <1>1, RestNext
<1> QED
  BY <1>1, <1>2, <1>3 DEF Beat

LEMMA RunsBetweenIsNat ==
  ASSUME NEW every \in Nat
  PROVE  RunsBetween(every) \in Nat
<1>1. HeartbeatEvery + every - 1 \in Nat
  BY LeaseAssumption
<1> QED
  BY <1>1, Parts DEF RunsBetween

\* Between two heartbeats a clock runs no oftener than RunsBetween says.
LEMMA RunsBounded ==
  ASSUME NEW every \in Nat, NEW n \in Nat
  PROVE  RunsTo(every, n) \in Int /\ RunsTo(every, n) <= RunsBetween(every)
<1>1. CASE every = 0
  BY <1>1 DEF RunsTo, RunsBetween
<1>2. CASE every # 0
  <2> DEFINE b == Beat(n)
             q == n \div every
             c == (b + every - 1) \div every
             d == (HeartbeatEvery + every - 1) \div every
  <2>1. b \in Nat /\ n <= b + HeartbeatEvery - 1 /\ HeartbeatEvery \in Nat \ {0}
    BY BeatFacts, LeaseAssumption
  <2> HIDE DEF b
  <2>2. b + every - 1 \in Nat /\ HeartbeatEvery + every - 1 \in Nat
    BY <1>2, <2>1
  <2>3. q \in Nat /\ c \in Nat /\ d \in Nat /\ every * q <= n
    <3>1. c \in Nat /\ d \in Nat
      BY <1>2, <2>2, Parts
    <3>2. /\ n = every * q + (n % every)
          /\ n % every \in 0..(every - 1)
          /\ q \in Nat
      BY <1>2, Parts
    <3>3. every * q \in Int
      BY <1>2, <3>2, Scaled
    <3> QED
      BY <3>1, <3>2, <3>3, <1>2
  <2>4. b <= every * c
    BY <1>2, <2>1, <2>2, Parts
  <2>5. HeartbeatEvery <= every * d
    BY <1>2, <2>1, <2>2, Parts
  <2> HIDE DEF q, c, d
  <2>6. every * q < every * (c + d)
    BY <2>1, <2>3, <2>4, <2>5
  <2>7. q < c + d
    BY <2>6, <2>3
  <2>8. RunsTo(every, n) = q - c + 1 /\ RunsBetween(every) = d
    BY <1>2 DEF RunsTo, RunsBetween, q, c, d, b
  <2> QED
    BY <2>3, <2>7, <2>8
<1> QED
  BY <1>1, <1>2

\* At a heartbeat none has run yet.
LEMMA RunsAtBeat ==
  ASSUME NEW every \in Nat, NEW n \in Nat, n % HeartbeatEvery = 0
  PROVE  RunsBefore(every, n) = 0
<1>1. CASE every = 0
  BY <1>1 DEF RunsBefore, RunsTo, Due
<1>2. CASE every # 0
  <2> DEFINE q == n \div every
             r == n % every
  <2>1. n = every * q + r /\ r \in 0..(every - 1) /\ q \in Nat
    BY <1>2, Parts
  <2>2. RunsTo(every, n) = q - ((n + every - 1) \div every) + 1
    BY <1>2, BeatFacts DEF RunsTo
  <2>3. Due(every, n) <=> r = 0
    BY <1>2 DEF Due
  <2> HIDE DEF q, r
  <2>4. CASE r = 0
    <3>1. n + every - 1 = every * q + (every - 1) /\ every - 1 \in 0..(every - 1)
      BY <1>2, <2>1, <2>4
    <3>2. (n + every - 1) \div every = q
      BY <1>2, <2>1, <3>1, PartsUnique
    <3> QED
      BY <2>1, <2>2, <2>3, <2>4, <3>2 DEF RunsBefore
  <2>5. CASE r # 0
    <3>1. n + every - 1 = every * (q + 1) + (r - 1) /\ r - 1 \in 0..(every - 1)
      BY <1>2, <2>1, <2>5
    <3>2. (n + every - 1) \div every = q + 1
      BY <1>2, <2>1, <3>1, PartsUnique
    <3> QED
      BY <2>1, <2>2, <2>3, <2>5, <3>2 DEF RunsBefore
  <2> QED
    BY <2>4, <2>5
<1> QED
  BY <1>1, <1>2

\* From one second to the next, short of a heartbeat, no run is forgotten.
LEMMA RunsNext ==
  ASSUME NEW every \in Nat, NEW n \in Nat, (n + 1) % HeartbeatEvery # 0
  PROVE  RunsBefore(every, n + 1) = RunsTo(every, n)
<1>1. CASE every = 0
  BY <1>1 DEF RunsBefore, RunsTo, Due
<1>2. CASE every # 0
  <2>1. (n + 1) \div every = (n \div every) + (IF (n + 1) % every = 0 THEN 1 ELSE 0)
    BY <1>2, QuotientNext
  <2>2. Beat(n + 1) = Beat(n) /\ Beat(n) \in Nat
    BY BeatFacts
  <2>3. n \div every \in Nat /\ (Beat(n) + every - 1) \div every \in Nat
    <3>1. Beat(n) + every - 1 \in Nat
      BY <1>2, <2>2
    <3> QED
      BY <1>2, <3>1, Parts
  <2> QED
    BY <1>2, <2>1, <2>2, <2>3 DEF RunsBefore, RunsTo, Due
<1> QED
  BY <1>1, <1>2

-----------------------------------------------------------------------------
\* How long ago the lease was renewed.

Waiting == {"wait", "sleep", "order_due", "order_clock", "position_due",
            "position_clock", "review_due", "review"}

\* The runs of the two trading clocks a waiting process has behind it since its
\* last heartbeat.
RunsDone(p) ==
  (IF p.at \in {"order_due", "order_clock"}
   THEN RunsBefore(OrderEvery, p.waited) ELSE RunsTo(OrderEvery, p.waited))
  + (IF p.at \in {"order_due", "order_clock", "position_due", "position_clock"}
     THEN RunsBefore(PositionEvery, p.waited) ELSE RunsTo(PositionEvery, p.waited))

\* The most time since the last renewal, an outcome review not counted.
Elapsed(p, tick) ==
  CASE p.at = "startup" -> StartTime + p.spent
    [] p.at \in Waiting ->
         (IF p.waited < HeartbeatEvery THEN tick ELSE 0)
         + (p.waited % HeartbeatEvery) + ClockTime * RunsDone(p) + p.spent
    [] OTHER -> p.spent

\* A review in the same stretch has begun since: Cadence counts from its start.
ReviewTime(p) == IF p.at = "review" THEN 0 ELSE ClockTime

OnTime(p, left, tick) ==
  \/ /\ p.at # "review"
     /\ left + Elapsed(p, tick) >= TTL
  \/ /\ p.at \in Waiting
     /\ p.since + left <= TTL
     /\ left + Elapsed(p, tick) + ReviewTime(p) >= TTL

\* What a process knows of itself: its activity is within its bound, and a clock
\* that runs is due.
InBounds(p, tick) ==
  /\ p.at \in {"probing", "startup"} => p.spent <= StartTime
  /\ p.at = "tick" => p.spent <= tick
  /\ p.at = "sleep" => p.spent <= 1
  /\ p.at \in {"order_clock", "position_clock", "review"} => p.spent <= ClockTime
  /\ p.at \in Deciding => p.spent = 0
  /\ p.at = "order_clock" => Due(OrderEvery, p.waited)
  /\ p.at = "position_clock" => Due(PositionEvery, p.waited)

\* When all work is timely, a living process owns the row, the row is live, and
\* it was renewed no longer ago than the process has spent since.
Owns(w) ==
  /\ lease.owner = w /\ ~lease.released /\ lease.left > 0
  /\ InBounds(proc[w], tickTime)
  /\ ~At(w, {"loop", "ending"}) => OnTime(proc[w], lease.left, tickTime)

LeaseInv == Timely => \A w \in Workers : Alive(w) => Owns(w)

LEMMA RunsDoneIsInt ==
  ASSUME NEW p \in Process
  PROVE  RunsDone(p) \in Int
  BY RunsBounded, LeaseAssumption DEF Process, RunsDone, RunsBefore

\* The time since the renewal never reaches the TTL.
LEMMA Margin ==
  ASSUME TypeOK, Timely, NEW p \in Process, InBounds(p, tickTime),
         p.at \in Running \cup Deciding, p.at \notin {"loop", "ending"}
  PROVE  /\ Elapsed(p, tickTime) \in Int /\ ClockTime \in Nat
         /\ p.at \notin Waiting => Elapsed(p, tickTime) < TTL
         /\ p.at \in Waiting => Elapsed(p, tickTime) + ReviewTime(p) < TTL
<1> USE LeaseAssumption
<1>0. /\ tickTime \in Nat /\ p.waited \in Nat /\ p.spent \in Nat
      /\ ClockTime \in Nat /\ StartTime \in Nat /\ TTL \in Nat
  BY DEF TypeOK, Process
<1>1. CASE p.at \notin Waiting
  <2>1. p.at \in {"probing", "startup", "tick"}
    BY <1>1 DEF Running, Deciding, Waiting
  <2>2. ClockTime * (RunsBetween(OrderEvery) + RunsBetween(PositionEvery) + 1) \in Nat
    <3>1. RunsBetween(OrderEvery) \in Nat /\ RunsBetween(PositionEvery) \in Nat
      BY RunsBetweenIsNat
    <3> QED
      BY <1>0, <3>1, Scaled
  <2> QED
    BY <1>0, <1>1, <2>1, <2>2 DEF Elapsed, InBounds, Timely, Waiting
<1>2. CASE p.at \in Waiting
  <2> DEFINE runs == RunsBetween(OrderEvery) + RunsBetween(PositionEvery)
             now == IF p.at \in {"order_clock", "position_clock"} THEN 1 ELSE 0
             o == RunsTo(OrderEvery, p.waited)
             q == RunsTo(PositionEvery, p.waited)
             done == RunsDone(p)
             rest == p.waited % HeartbeatEvery
             tick == IF p.waited < HeartbeatEvery THEN tickTime ELSE 0
  <2>1. /\ o \in Int /\ o <= RunsBetween(OrderEvery)
        /\ q \in Int /\ q <= RunsBetween(PositionEvery)
    BY <1>0, RunsBounded
  <2>2. RunsBetween(OrderEvery) \in Int /\ RunsBetween(PositionEvery) \in Int
    BY RunsBetweenIsNat
  <2>3. done \in Int /\ done + now <= runs
    <3>1. p.at = "order_clock" => done <= o - 1 + q
      BY <2>1 DEF RunsDone, RunsBefore, InBounds
    <3>2. p.at = "position_clock" => done <= o + q - 1
      BY <2>1 DEF RunsDone, RunsBefore, InBounds
    <3>3. done <= o + q
      BY <2>1 DEF RunsDone, RunsBefore
    <3>4. done \in Int
      BY RunsDoneIsInt
    <3> HIDE DEF o, q, done
    <3> QED
      BY <2>1, <2>2, <3>1, <3>2, <3>3, <3>4
  <2>4. rest \in 0..(HeartbeatEvery - 1)
    BY <1>0, BeatFacts
  <2>5. Elapsed(p, tickTime) = tick + rest + ClockTime * done + p.spent
    BY <1>2 DEF Elapsed, Waiting
  <2>6. tickTime + HeartbeatEvery + ClockTime * (runs + 1) < TTL
    BY DEF Timely
  <2>7. tick \in Nat /\ tick <= tickTime
    BY <1>0
  <2>8. /\ p.at = "sleep" => p.spent <= 1
        /\ p.at \in {"order_clock", "position_clock", "review"} => p.spent <= ClockTime
        /\ p.at \in {"wait", "order_due", "position_due", "review_due"} => p.spent = 0
    BY DEF InBounds, Deciding
  <2>9. runs \in Int
    BY <2>2
  <2> HIDE DEF runs, done, rest, tick, o, q
  <2>10. ClockTime * (done + now) <= ClockTime * runs
    BY <1>0, <2>3, <2>9, Scaled
  <2>11. /\ ClockTime * (done + now) = ClockTime * done + (IF now = 1 THEN ClockTime ELSE 0)
         /\ ClockTime * (runs + 1) = ClockTime * runs + ClockTime
         /\ ClockTime * done \in Int /\ ClockTime * runs \in Int
    <3>1. /\ ClockTime * done \in Int /\ ClockTime * runs \in Int
          /\ ClockTime * (runs + 1) = ClockTime * runs + ClockTime
      BY <1>0, <2>3, <2>9, Scaled
    <3>2. CASE now = 1
      BY <1>0, <2>3, <3>1, <3>2, Scaled
    <3>3. CASE now = 0
      <4>1. done + now = done
        BY <2>3, <3>3
      <4> QED
        BY <3>1, <3>3, <4>1
    <3> QED
      BY <3>1, <3>2, <3>3
  <2> DEFINE cd == ClockTime * done
             cr == ClockTime * runs
  <2>12. /\ cd \in Int /\ cr \in Int
         /\ cd + (IF now = 1 THEN ClockTime ELSE 0) <= cr
         /\ tickTime + HeartbeatEvery + cr + ClockTime < TTL
         /\ Elapsed(p, tickTime) = tick + rest + cd + p.spent
    <3>1. tickTime + HeartbeatEvery + (cr + ClockTime) < TTL
      BY <2>6, <2>11
    <3> HIDE DEF now
    <3> QED
      BY <1>0, <2>5, <2>10, <2>11, <3>1
  <2> HIDE DEF cd, cr
  <2>13. HeartbeatEvery \in Nat /\ rest \in Int
    BY <2>4
  <2>14. p.at \in {"wait", "sleep", "order_due", "order_clock", "position_due",
                   "position_clock", "review_due", "review"}
    BY <1>2 DEF Waiting
  <2>15. CASE p.at \in {"wait", "sleep", "order_due", "position_due", "review_due"}
    BY <1>0, <1>2, <2>4, <2>7, <2>8, <2>12, <2>13, <2>15 DEF ReviewTime
  <2>16. CASE p.at \in {"order_clock", "position_clock"}
    BY <1>0, <1>2, <2>4, <2>7, <2>8, <2>12, <2>13, <2>16 DEF ReviewTime
  <2>17. CASE p.at = "review"
    BY <1>0, <1>2, <2>4, <2>7, <2>8, <2>12, <2>13, <2>17 DEF ReviewTime
  <2> QED
    BY <2>14, <2>15, <2>16, <2>17
<1> QED
  BY <1>1, <1>2

\* A process that has just gone to a point of the loop, with a record q in place
\* of p, is on time if it counts no less than before.
LEMMA StaysOnTime ==
  ASSUME NEW p, NEW q, NEW left \in Int, NEW tick,
         Elapsed(p, tick) \in Int, Elapsed(q, tick) \in Int,
         p.since \in Int, ClockTime \in Nat, TTL \in Nat,
         OnTime(p, left, tick),
         q.at # "review", p.at # "review", q.since = p.since,
         p.at \in Waiting => q.at \in Waiting,
         Elapsed(q, tick) >= Elapsed(p, tick)
  PROVE  OnTime(q, left, tick)
  BY DEF OnTime, ReviewTime

LEMMA ElapsedIsInt ==
  ASSUME TypeOK, NEW p \in Process
  PROVE  Elapsed(p, tickTime) \in Int
<1> USE LeaseAssumption
<1>1. tickTime \in Nat /\ p.waited \in Nat /\ p.spent \in Nat
  BY DEF TypeOK, Process
<1>2. ClockTime * RunsDone(p) \in Int
  BY RunsDoneIsInt, Scaled
<1>3. p.waited % HeartbeatEvery \in Int
  BY <1>1, BeatFacts
<1> HIDE DEF RunsDone
<1> QED
  BY <1>1, <1>2, <1>3 DEF Elapsed

\* A process that another one's step passes by is as it was, and so is a row
\* that is live and not the other's.
LEMMA OthersKeep ==
  ASSUME TypeOK, Timely, LeaseInv, NEW v \in Workers, NEW w \in Workers, v # w,
         Step(v) \/ Disturbance(v), Alive(w)'
  PROVE  Alive(w) /\ proc'[w] = proc[w] /\ lease' = lease /\ tickTime' = tickTime
<1>1. proc \in [Workers -> Process] /\ lease \in LeaseRow
  BY DEF TypeOK
<1>2. proc'[w] = proc[w]
  BY <1>1
     DEF Step, Start, Probed, StartsLoop, Loop, TickEnds, Wait, Wake, OrderDue,
         OrderClockEnds, PositionDue, PositionClockEnds, ReviewDue, ReviewEnds, End,
         Disturbance, Crash, Stop, OperatorStarts, HeartbeatFails, ReleaseFails,
         Goto, Dies
<1>3. Alive(w)
  BY <1>2 DEF Alive
<1>4. lease.owner = w /\ Held
  BY <1>3 DEF LeaseInv, Owns, Held
<1>5. lease.owner # v
  BY <1>4
<1>6. [lease EXCEPT !.owner = IF @ = v THEN Nobody ELSE @] = lease
  BY <1>1, <1>5 DEF LeaseRow
<1>7. lease' = lease
  BY <1>4, <1>5, <1>6
     DEF Step, Start, Probed, StartsLoop, Loop, TickEnds, Wait, Wake, OrderDue,
         OrderClockEnds, PositionDue, PositionClockEnds, ReviewDue, ReviewEnds, End,
         Disturbance, Crash, Stop, OperatorStarts, HeartbeatFails, ReleaseFails,
         Dies, Renews, Released
<1>8. tickTime' = tickTime
  BY DEF Step, Start, Probed, StartsLoop, Loop, TickEnds, Wait, Wake, OrderDue,
         OrderClockEnds, PositionDue, PositionClockEnds, ReviewDue, ReviewEnds, End,
         Disturbance, Crash, Stop, OperatorStarts, HeartbeatFails, ReleaseFails
<1> QED
  BY <1>2, <1>3, <1>7, <1>8

\* Time passes for a living process only within an activity's bound.
LEMMA TimePasses ==
  ASSUME TypeOK, TypeOK', Timely, LeaseInv, Time, NEW w \in Workers, Alive(w)'
  PROVE  Owns(w)'
<1> USE LeaseAssumption
<1> DEFINE p == proc[w]
           q == proc'[w]
<1>1. p \in Process /\ q \in Process /\ lease \in LeaseRow /\ tickTime \in Nat
  BY DEF TypeOK
<1>2. q = Older(p) /\ tickTime' = tickTime
  BY DEF Time, TypeOK
<1>3. q.at = p.at /\ q.waited = p.waited
  BY <1>1, <1>2 DEF Older, Process
<1>4. Alive(w)
  BY <1>3 DEF Alive
<1>5. Owns(w) /\ p.spent < Longest(p.at)
  BY <1>4 DEF LeaseInv, Time
<1>6. p.at \in Running /\ p.at \notin Off \cup Deciding
  BY <1>1, <1>5 DEF Longest, Process, Running, Deciding, Off
<1>7. q.spent = p.spent + 1 /\ (q.since = p.since \/ q.since = p.since + 1)
  BY <1>1, <1>2, <1>6 DEF Older, Process, Off
<1>8. /\ lease'.left = lease.left - 1 /\ lease'.owner = w /\ ~lease'.released
      /\ lease.left \in Nat /\ lease.left > 0
  BY <1>1, <1>5 DEF Time, LeaseRow, Owns
<1>9. InBounds(q, tickTime)
  <2>1. /\ p.spent \in Nat /\ p.spent < Longest(p.at)
    BY <1>1, <1>5 DEF Process
  <2> QED
    BY <1>1, <1>3, <1>5, <1>6, <1>7, <2>1 DEF InBounds, Longest, Owns
<1>10. Elapsed(q, tickTime) = Elapsed(p, tickTime) + 1
  <2>1. RunsDone(q) = RunsDone(p)
    BY <1>3 DEF RunsDone
  <2>2. RunsDone(p) \in Int /\ p.waited % HeartbeatEvery \in Int /\ p.spent \in Nat
    BY <1>1, RunsDoneIsInt, BeatFacts DEF Process
  <2>3. ClockTime * RunsDone(p) \in Int
    BY <2>2, Scaled
  <2> HIDE DEF p, q
  <2> QED
    BY <1>1, <1>3, <1>7, <2>1, <2>2, <2>3 DEF Elapsed
<1>11. OnTime(p, lease.left, tickTime)
  BY <1>5, <1>6 DEF Owns, At, Deciding
<1>12. OnTime(q, lease'.left, tickTime)
  <2>1. Elapsed(p, tickTime) \in Int /\ p.since \in Int
    BY <1>1, ElapsedIsInt DEF Process
  <2> HIDE DEF p, q
  <2> QED
    BY <1>3, <1>7, <1>8, <1>10, <1>11, <2>1 DEF OnTime, ReviewTime
<1>13. lease'.left > 0
  <2>1. /\ Elapsed(q, tickTime) \in Int /\ ClockTime \in Nat
        /\ q.at \notin Waiting => Elapsed(q, tickTime) < TTL
        /\ q.at \in Waiting => Elapsed(q, tickTime) + ReviewTime(q) < TTL
    BY <1>1, <1>3, <1>6, <1>9, Margin DEF Deciding
  <2> HIDE DEF p, q
  <2> QED
    BY <1>8, <1>12, <2>1 DEF OnTime, ReviewTime
<1> QED
  BY <1>2, <1>8, <1>9, <1>12, <1>13 DEF Owns

\* A renewal, or a new lease, is on time.
LEMMA FreshOnTime ==
  ASSUME NEW q \in Process, q.at \in {"probing", "tick"}, q.spent = 0
  PROVE  OnTime(q, TTL, tickTime)
  BY LeaseAssumption DEF OnTime, Elapsed, Waiting

\* A process does its own step in time.
LEMMA OwnStep ==
  ASSUME TypeOK, TypeOK', Counted, Timely, LeaseInv, NEW w \in Workers,
         Step(w), Alive(w)'
  PROVE  Owns(w)'
<1> USE LeaseAssumption
<1> DEFINE p == proc[w]
           q == proc'[w]
<1>1. /\ p \in Process /\ q \in Process /\ lease \in LeaseRow /\ tickTime \in Nat
      /\ proc \in [Workers -> Process]
  BY DEF TypeOK
<1>2. tickTime' = tickTime
  BY DEF Step, Start, Probed, StartsLoop, Loop, TickEnds, Wait, Wake, OrderDue,
         OrderClockEnds, PositionDue, PositionClockEnds, ReviewDue, ReviewEnds, End
<1>3. Alive(w) => /\ lease.owner = w /\ ~lease.released /\ lease.left > 0
                  /\ lease.left \in Nat
                  /\ InBounds(p, tickTime)
                  /\ p.at \notin {"loop", "ending"} => OnTime(p, lease.left, tickTime)
  BY <1>1 DEF LeaseInv, Owns, At, LeaseRow
<1>4. /\ Elapsed(p, tickTime) \in Int /\ Elapsed(q, tickTime) \in Int
      /\ p.since \in Int /\ p.spent \in Nat /\ p.waited \in Nat
      /\ ClockTime \in Nat /\ TTL \in Nat
  BY <1>1, ElapsedIsInt DEF Process
<1>5. SUFFICES /\ lease'.owner = w /\ ~lease'.released /\ lease'.left > 0
               /\ InBounds(q, tickTime)
               /\ q.at \notin {"loop", "ending"} => OnTime(q, lease'.left, tickTime)
  BY <1>2 DEF Owns, At
<1>6. /\ RunsTo(OrderEvery, p.waited) \in Int
      /\ RunsTo(PositionEvery, p.waited) \in Int
      /\ p.waited % HeartbeatEvery \in Nat
  <2> HIDE DEF p
  <2>1. p.waited % HeartbeatEvery \in 0..(HeartbeatEvery - 1)
    BY <1>4, BeatFacts
  <2> QED
    BY <1>4, <2>1, RunsBounded
<1>7. CASE Start(w)
  <2>1. /\ lease' = Taken(w) /\ q.at = "probing" /\ q.spent = 0
    BY <1>1, <1>7 DEF Start, Alive, Off, NoProcess
  <2> QED
    BY <1>1, <2>1, FreshOnTime DEF Taken, InBounds, Deciding
<1>8. CASE Probed(w)
  <2>1. p.at = "probing" /\ q = [p EXCEPT !.at = "startup", !.spent = 0] /\ lease' = lease
    BY <1>1, <1>8 DEF Probed, At, Goto
  <2>2. p.spent <= StartTime /\ lease.left + p.spent >= TTL
    BY <1>3, <2>1 DEF Alive, Off, InBounds, OnTime, Elapsed, Waiting
  <2>3. q.at = "startup" /\ q.spent = 0
    BY <1>1, <2>1 DEF Process
  <2> QED
    BY <1>3, <1>4, <2>1, <2>2, <2>3
       DEF Alive, Off, InBounds, OnTime, Elapsed, Waiting, Deciding
<1>9. CASE StartsLoop(w)
  <2>1. p.at = "startup" /\ q = [p EXCEPT !.at = "loop", !.spent = 0] /\ lease' = lease
    BY <1>1, <1>9 DEF StartsLoop, At, Goto
  <2>2. q.at = "loop" /\ q.spent = 0
    BY <1>1, <2>1 DEF Process
  <2> QED
    BY <1>3, <2>1, <2>2 DEF Alive, Off, InBounds
<1>10. CASE Loop(w)
  <2>1. p.at = "loop" /\ Alive(w)
    BY <1>10 DEF Loop, At, Alive, Off
  <2>2. CASE lease' = Renewed /\ Goto(w, "tick")
    <3>1. q.at = "tick" /\ q.spent = 0
      BY <1>1, <2>2 DEF Goto, Process
    <3>2. lease'.left = TTL /\ lease'.owner = w /\ ~lease'.released
      BY <1>1, <1>3, <2>1, <2>2 DEF Renewed, LeaseRow
    <3> QED
      BY <1>1, <3>1, <3>2, FreshOnTime DEF InBounds, Deciding
  <2>3. CASE Goto(w, "ending") /\ lease' = lease
    <3>1. q.at = "ending" /\ q.spent = 0
      BY <1>1, <2>3 DEF Goto, Process
    <3> QED
      BY <1>3, <2>1, <2>3, <3>1 DEF InBounds
  <2> QED
    BY <1>10, <2>2, <2>3 DEF Loop
<1>11. CASE TickEnds(w)
  <2>1. p.at = "tick" /\ Alive(w) /\ lease' = lease
    BY <1>11 DEF TickEnds, At, Alive, Off
  <2>2. q.at = "wait" /\ q.waited = 0 /\ q.spent = 0
    BY <1>1, <1>11 DEF TickEnds, Process
  <2>3. lease.left + p.spent >= TTL /\ p.spent <= tickTime
    BY <1>3, <2>1 DEF InBounds, OnTime, Elapsed, Waiting
  <2>4. RunsDone(q) \in Int /\ 0 <= RunsDone(q)
    <3>1. 0 % HeartbeatEvery = 0
      BY BeatFacts, RestNext
    <3>2. RunsBefore(OrderEvery, 0) = 0 /\ RunsBefore(PositionEvery, 0) = 0
      BY <3>1, RunsAtBeat
    <3>3. RunsTo(OrderEvery, 0) \in Int /\ RunsTo(PositionEvery, 0) \in Int
      BY RunsBounded
    <3>4. 0 <= RunsTo(OrderEvery, 0) /\ 0 <= RunsTo(PositionEvery, 0)
      BY <3>2, <3>3 DEF RunsBefore
    <3> QED
      BY <2>2, <3>3, <3>4 DEF RunsDone
  <2>5. ClockTime * RunsDone(q) \in Int /\ 0 <= ClockTime * RunsDone(q)
    BY <2>4, Scaled
  <2>6. 0 % HeartbeatEvery \in Nat
    BY BeatFacts
  <2>7. Elapsed(q, tickTime) >= tickTime
    BY <1>1, <2>2, <2>5, <2>6 DEF Elapsed, Waiting
  <2> QED
    BY <1>1, <1>3, <1>4, <2>1, <2>2, <2>3, <2>7 DEF InBounds, OnTime
<1>12. CASE Wait(w)
  <2>1. /\ p.at = "wait" /\ Alive(w) /\ lease' = lease
        /\ q.at \in {"sleep", "loop"} /\ q.spent = 0 /\ q.waited = p.waited
        /\ q.since = p.since
    BY <1>1, <1>12 DEF Wait, At, Alive, Off, Goto, Process
  <2>2. p.spent = 0
    BY <1>3, <2>1 DEF InBounds, Deciding
  <2>3. InBounds(q, tickTime)
    BY <2>1 DEF InBounds
  <2>4. q.at = "sleep" => Elapsed(q, tickTime) = Elapsed(p, tickTime)
    BY <2>1, <2>2 DEF Elapsed, Waiting, RunsDone
  <2>5. q.at = "sleep" => OnTime(q, lease.left, tickTime)
    <3> HIDE DEF p, q
    <3> QED
      BY <1>3, <1>4, <2>1, <2>4, StaysOnTime DEF Waiting
  <2> QED
    BY <1>3, <2>1, <2>3, <2>5
<1>13. CASE Wake(w)
  <2> DEFINE n == p.waited
             beat == (n + 1) % HeartbeatEvery = 0
  <2>1. /\ p.at = "sleep" /\ Alive(w) /\ p.spent = 1
        /\ q.waited = n + 1 /\ q.spent = 0 /\ q.since = p.since /\ q.at = "order_due"
        /\ lease' = IF beat THEN Renewed ELSE lease
    <3>1. p.at = "sleep" /\ p.spent = 1 /\ Alive(w)
      BY <1>13 DEF Wake, At, Alive, Off
    <3>2. Renews(w)
      BY <1>3, <3>1 DEF Renews
    <3> QED
      BY <1>1, <1>13, <3>1, <3>2 DEF Wake, Process
  <2>2. InBounds(q, tickTime)
    BY <2>1 DEF InBounds
  <2>3. CASE beat
    <3>1. lease'.left = TTL /\ lease'.owner = w /\ ~lease'.released
      BY <1>1, <1>3, <2>1, <2>3 DEF Renewed, LeaseRow
    <3>2. RunsBefore(OrderEvery, n + 1) = 0 /\ RunsBefore(PositionEvery, n + 1) = 0
      BY <1>4, <2>3, RunsAtBeat
    <3>3. RunsDone(q) = 0
      BY <2>1, <3>2 DEF RunsDone
    <3>4. Elapsed(q, tickTime) >= 0
      <4>1. ClockTime * RunsDone(q) = 0
        BY <3>3, Scaled
      <4>2. q.waited % HeartbeatEvery = 0
        BY <2>1, <2>3
      <4> QED
        BY <1>1, <2>1, <4>1, <4>2 DEF Elapsed, Waiting
    <3> QED
      BY <1>4, <2>1, <2>2, <3>1, <3>4 DEF OnTime
  <2>4. CASE ~beat
    <3>1. /\ RunsBefore(OrderEvery, n + 1) = RunsTo(OrderEvery, n)
          /\ RunsBefore(PositionEvery, n + 1) = RunsTo(PositionEvery, n)
      BY <1>4, <2>4, RunsNext
    <3>2. RunsDone(q) = RunsDone(p)
      BY <2>1, <3>1 DEF RunsDone
    <3>3. (n + 1) % HeartbeatEvery = (n % HeartbeatEvery) + 1
      BY <1>4, <2>4, BeatFacts
    <3>4. n + 1 < HeartbeatEvery <=> n < HeartbeatEvery
      <4>1. n + 1 # HeartbeatEvery
        <5>1. HeartbeatEvery % HeartbeatEvery = 0
          <6>1. HeartbeatEvery = HeartbeatEvery * 1 + 0 /\ 0 \in 0..(HeartbeatEvery - 1)
            OBVIOUS
          <6> QED
            BY <6>1, PartsUnique
        <5> QED
          BY <2>4, <5>1
      <4> QED
        BY <1>4, <4>1
    <3>5. Elapsed(q, tickTime) = Elapsed(p, tickTime)
      <4>1. RunsDone(p) \in Int
        BY <1>1, RunsDoneIsInt
      <4>2. ClockTime * RunsDone(p) \in Int
        BY <4>1, Scaled
      <4>3. ClockTime * RunsDone(q) = ClockTime * RunsDone(p)
        BY <3>2
      <4>4. /\ Elapsed(p, tickTime) =
                 (IF n < HeartbeatEvery THEN tickTime ELSE 0)
                 + (n % HeartbeatEvery) + ClockTime * RunsDone(p) + 1
            /\ Elapsed(q, tickTime) =
                 (IF n + 1 < HeartbeatEvery THEN tickTime ELSE 0)
                 + ((n + 1) % HeartbeatEvery) + ClockTime * RunsDone(q) + 0
        BY <2>1 DEF Elapsed, Waiting
      <4> DEFINE done == ClockTime * RunsDone(p)
                 rest == n % HeartbeatEvery
      <4>5. /\ Elapsed(p, tickTime) =
                 (IF n < HeartbeatEvery THEN tickTime ELSE 0) + rest + done + 1
            /\ Elapsed(q, tickTime) =
                 (IF n < HeartbeatEvery THEN tickTime ELSE 0) + (rest + 1) + done + 0
        BY <3>3, <3>4, <4>3, <4>4
      <4>6. done \in Int /\ rest \in Nat
        BY <1>6, <4>2
      <4> HIDE DEF done, rest, p, q, n
      <4> QED
        BY <1>1, <4>5, <4>6
    <3>6. OnTime(q, lease.left, tickTime)
      <4> HIDE DEF p, q
      <4> QED
        BY <1>3, <1>4, <2>1, <3>5, StaysOnTime DEF Waiting
    <3> QED
      BY <1>3, <2>1, <2>2, <2>4, <3>6
  <2> QED
    BY <2>3, <2>4
<1>14. CASE OrderDue(w)
  <2>1. /\ p.at = "order_due" /\ Alive(w) /\ lease' = lease
        /\ q.at = IF Due(OrderEvery, p.waited) THEN "order_clock" ELSE "position_due"
        /\ q.spent = 0 /\ q.waited = p.waited /\ q.since = p.since
    BY <1>1, <1>14 DEF OrderDue, At, Alive, Off, Goto, Process
  <2>2. p.spent = 0
    BY <1>3, <2>1 DEF InBounds, Deciding
  <2>3. InBounds(q, tickTime)
    BY <1>4, <2>1 DEF InBounds
  <2>4. RunsDone(q) = RunsDone(p)
    BY <1>6, <2>1 DEF RunsDone, RunsBefore
  <2>5. Elapsed(q, tickTime) = Elapsed(p, tickTime)
    BY <2>1, <2>2, <2>4 DEF Elapsed, Waiting
  <2>6. OnTime(q, lease.left, tickTime)
    <3> HIDE DEF p, q
    <3> QED
      BY <1>3, <1>4, <2>1, <2>5, StaysOnTime DEF Waiting
  <2> QED
    BY <1>3, <2>1, <2>3, <2>6
<1>15. CASE OrderClockEnds(w)
  <2>1. /\ p.at = "order_clock" /\ Alive(w) /\ lease' = lease /\ q.at = "position_due"
        /\ q.spent = 0 /\ q.waited = p.waited /\ q.since = p.since
    BY <1>1, <1>15 DEF OrderClockEnds, At, Alive, Off, Goto, Process
  <2>2. p.spent <= ClockTime /\ Due(OrderEvery, p.waited)
    BY <1>3, <2>1 DEF InBounds
  <2>3. InBounds(q, tickTime)
    BY <2>1 DEF InBounds
  <2>4. RunsDone(q) = RunsDone(p) + 1
    BY <1>6, <2>1, <2>2 DEF RunsDone, RunsBefore
  <2>5. Elapsed(q, tickTime) >= Elapsed(p, tickTime)
    <3>1. RunsDone(p) \in Int
      BY <1>1, RunsDoneIsInt
    <3> DEFINE done == ClockTime * RunsDone(p)
               most == (IF p.waited < HeartbeatEvery THEN tickTime ELSE 0)
                         + (p.waited % HeartbeatEvery)
    <3>2. done \in Int /\ ClockTime * RunsDone(q) = done + ClockTime
      BY <2>4, <3>1, Scaled
    <3>3. /\ Elapsed(p, tickTime) = most + done + p.spent
          /\ Elapsed(q, tickTime) = most + ClockTime * RunsDone(q) + 0
      BY <2>1 DEF Elapsed, Waiting
    <3>4. Elapsed(q, tickTime) = most + (done + ClockTime) + 0
      BY <3>2, <3>3
    <3>5. most \in Int
      BY <1>1, <1>6
    <3> HIDE DEF done, most, p, q
    <3> QED
      BY <1>4, <2>2, <3>2, <3>3, <3>4, <3>5
  <2>6. OnTime(q, lease.left, tickTime)
    <3> HIDE DEF p, q
    <3> QED
      BY <1>3, <1>4, <2>1, <2>5, StaysOnTime DEF Waiting
  <2> QED
    BY <1>3, <2>1, <2>3, <2>6
<1>16. CASE PositionDue(w)
  <2>1. /\ p.at = "position_due" /\ Alive(w) /\ lease' = lease
        /\ q.at = IF Due(PositionEvery, p.waited) THEN "position_clock" ELSE "review_due"
        /\ q.spent = 0 /\ q.waited = p.waited /\ q.since = p.since
    BY <1>1, <1>16 DEF PositionDue, At, Alive, Off, Goto, Process
  <2>2. p.spent = 0
    BY <1>3, <2>1 DEF InBounds, Deciding
  <2>3. InBounds(q, tickTime)
    BY <1>4, <2>1 DEF InBounds
  <2>4. RunsDone(q) = RunsDone(p)
    BY <1>6, <2>1 DEF RunsDone, RunsBefore
  <2>5. Elapsed(q, tickTime) = Elapsed(p, tickTime)
    BY <2>1, <2>2, <2>4 DEF Elapsed, Waiting
  <2>6. OnTime(q, lease.left, tickTime)
    <3> HIDE DEF p, q
    <3> QED
      BY <1>3, <1>4, <2>1, <2>5, StaysOnTime DEF Waiting
  <2> QED
    BY <1>3, <2>1, <2>3, <2>6
<1>17. CASE PositionClockEnds(w)
  <2>1. /\ p.at = "position_clock" /\ Alive(w) /\ lease' = lease /\ q.at = "review_due"
        /\ q.spent = 0 /\ q.waited = p.waited /\ q.since = p.since
    BY <1>1, <1>17 DEF PositionClockEnds, At, Alive, Off, Goto, Process
  <2>2. p.spent <= ClockTime /\ Due(PositionEvery, p.waited)
    BY <1>3, <2>1 DEF InBounds
  <2>3. InBounds(q, tickTime)
    BY <2>1 DEF InBounds
  <2>4. RunsDone(q) = RunsDone(p) + 1
    BY <1>6, <2>1, <2>2 DEF RunsDone, RunsBefore
  <2>5. Elapsed(q, tickTime) >= Elapsed(p, tickTime)
    <3>1. RunsDone(p) \in Int
      BY <1>1, RunsDoneIsInt
    <3> DEFINE done == ClockTime * RunsDone(p)
               most == (IF p.waited < HeartbeatEvery THEN tickTime ELSE 0)
                         + (p.waited % HeartbeatEvery)
    <3>2. done \in Int /\ ClockTime * RunsDone(q) = done + ClockTime
      BY <2>4, <3>1, Scaled
    <3>3. /\ Elapsed(p, tickTime) = most + done + p.spent
          /\ Elapsed(q, tickTime) = most + ClockTime * RunsDone(q) + 0
      BY <2>1 DEF Elapsed, Waiting
    <3>4. Elapsed(q, tickTime) = most + (done + ClockTime) + 0
      BY <3>2, <3>3
    <3>5. most \in Int
      BY <1>1, <1>6
    <3> HIDE DEF done, most, p, q
    <3> QED
      BY <1>4, <2>2, <3>2, <3>3, <3>4, <3>5
  <2>6. OnTime(q, lease.left, tickTime)
    <3> HIDE DEF p, q
    <3> QED
      BY <1>3, <1>4, <2>1, <2>5, StaysOnTime DEF Waiting
  <2> QED
    BY <1>3, <2>1, <2>3, <2>6
<1>18. CASE ReviewDue(w)
  <2>1. /\ p.at = "review_due" /\ Alive(w) /\ lease' = lease
        /\ q.spent = 0 /\ q.waited = p.waited
    BY <1>1, <1>18 DEF ReviewDue, At, Alive, Off, Goto, Process
  <2>2. p.spent = 0 /\ OnTime(p, lease.left, tickTime)
    BY <1>3, <2>1 DEF InBounds, Deciding
  <2>3. CASE ReviewIsDue(w)
    <3>1. q.at = "review" /\ q.since = 0
      BY <1>1, <1>18, <2>3 DEF ReviewDue, Process
    <3>2. p.since >= TTL
      BY <1>4, <2>3 DEF ReviewIsDue, Timely
    <3>3. lease.left + Elapsed(p, tickTime) >= TTL
      <4> HIDE DEF p
      <4> QED
        BY <1>3, <1>4, <2>1, <2>2, <3>2 DEF OnTime
    <3>4. Elapsed(q, tickTime) = Elapsed(p, tickTime)
      BY <2>1, <2>2, <3>1 DEF Elapsed, Waiting, RunsDone
    <3>5. lease.left <= TTL
      BY <1>1 DEF LeaseRow
    <3>6. OnTime(q, lease.left, tickTime)
      <4> HIDE DEF p, q
      <4> QED
        BY <1>3, <1>4, <2>1, <3>1, <3>3, <3>4, <3>5 DEF OnTime, Waiting, ReviewTime
    <3> QED
      BY <1>3, <1>4, <2>1, <3>1, <3>6 DEF InBounds
  <2>4. CASE ~ReviewIsDue(w)
    <3>1. q.at = "wait" /\ q.since = p.since
      BY <1>1, <1>18, <2>4 DEF ReviewDue, Goto, Process
    <3>2. Elapsed(q, tickTime) = Elapsed(p, tickTime)
      BY <2>1, <2>2, <3>1 DEF Elapsed, Waiting, RunsDone
    <3>3. OnTime(q, lease.left, tickTime)
      <4> HIDE DEF p, q
      <4> QED
        BY <1>3, <1>4, <2>1, <2>2, <3>1, <3>2, StaysOnTime DEF Waiting
    <3> QED
      BY <1>3, <2>1, <3>1, <3>3 DEF InBounds
  <2> QED
    BY <2>3, <2>4
<1>19. CASE ReviewEnds(w)
  <2>1. /\ p.at = "review" /\ Alive(w) /\ lease' = lease /\ q.at = "wait"
        /\ q.spent = 0 /\ q.waited = p.waited /\ q.since = p.since
    BY <1>1, <1>19 DEF ReviewEnds, At, Alive, Off, Goto, Process
  <2>2. p.spent <= ClockTime /\ OnTime(p, lease.left, tickTime)
    BY <1>3, <2>1 DEF InBounds
  <2>3. RunsDone(q) = RunsDone(p)
    BY <2>1 DEF RunsDone
  <2>4. Elapsed(q, tickTime) + ClockTime >= Elapsed(p, tickTime)
    <3>1. RunsDone(p) \in Int
      BY <1>1, RunsDoneIsInt
    <3> DEFINE most == (IF p.waited < HeartbeatEvery THEN tickTime ELSE 0)
                         + (p.waited % HeartbeatEvery) + ClockTime * RunsDone(p)
    <3>2. /\ Elapsed(p, tickTime) = most + p.spent
          /\ Elapsed(q, tickTime) = most + 0
      BY <2>1, <2>3 DEF Elapsed, Waiting
    <3>3. most \in Int
      BY <1>1, <1>6, <3>1, Scaled
    <3> HIDE DEF most, p, q
    <3> QED
      BY <1>4, <2>2, <3>2, <3>3
  <2>5. OnTime(q, lease.left, tickTime)
    <3> HIDE DEF p, q
    <3> QED
      BY <1>3, <1>4, <2>1, <2>2, <2>4 DEF OnTime, ReviewTime, Waiting
  <2> QED
    BY <1>3, <2>1, <2>5 DEF InBounds
<1>20. CASE End(w)
  BY <1>1, <1>20 DEF End, Dies, NoProcess, Alive, Off
<1> QED
  BY <1>7, <1>8, <1>9, <1>10, <1>11, <1>12, <1>13, <1>14, <1>15, <1>16, <1>17,
     <1>18, <1>19, <1>20 DEF Step

\* A process that is disturbed and lives on is still on time.
LEMMA DisturbedStep ==
  ASSUME TypeOK, Timely, LeaseInv, NEW w \in Workers,
         Disturbance(w), Alive(w)'
  PROVE  Owns(w)'
<1> DEFINE p == proc[w]
           q == proc'[w]
<1>1. p \in Process /\ proc \in [Workers -> Process] /\ lease \in LeaseRow
  BY DEF TypeOK
<1>2. tickTime' = tickTime
  BY DEF Disturbance, Crash, Stop, OperatorStarts, HeartbeatFails, ReleaseFails
<1>3. CASE Stop(w)
  <2>1. /\ Alive(w) /\ lease' = lease /\ q = [p EXCEPT !.stopping = TRUE]
    <3>1. ~Dies(w, "stopped", lease)
      BY <1>1 DEF Dies, NoProcess, Alive, Off
    <3> QED
      BY <1>1, <1>3, <3>1 DEF Stop
  <2>2. /\ q.at = p.at /\ q.waited = p.waited /\ q.since = p.since /\ q.spent = p.spent
    BY <1>1, <2>1 DEF Process
  <2>3. Owns(w)
    BY <2>1 DEF LeaseInv
  <2> QED
    BY <1>2, <2>1, <2>2, <2>3
       DEF Owns, At, InBounds, OnTime, Elapsed, ReviewTime, RunsDone
<1>4. CASE HeartbeatFails(w)
  <2>1. p.at \in {"loop", "sleep"} /\ q = [p EXCEPT !.at = "ending", !.spent = 0]
        /\ lease' = lease
    BY <1>1, <1>4 DEF HeartbeatFails, At, Goto
  <2>2. q.at = "ending" /\ q.spent = 0
    BY <1>1, <2>1 DEF Process
  <2>3. Owns(w)
    BY <2>1 DEF LeaseInv, Alive, Off
  <2> QED
    BY <1>2, <2>1, <2>2, <2>3 DEF Owns, At, InBounds
<1>5. CASE Crash(w) \/ OperatorStarts(w) \/ ReleaseFails(w)
  BY <1>1, <1>5 DEF Crash, OperatorStarts, ReleaseFails, Dies, NoProcess, Alive, Off
<1> QED
  BY <1>3, <1>4, <1>5 DEF Disturbance

LEMMA LeaseInvStep ==
  ASSUME TypeOK, TypeOK', Counted, LeaseInv, [Next]_vars
  PROVE  LeaseInv'
<1>1. SUFFICES ASSUME Timely', NEW w \in Workers, Alive(w)'
               PROVE  Owns(w)'
  BY DEF LeaseInv
<1>2. tickTime' = tickTime
  BY DEF Next, vars, Time, Step, Start, Probed, StartsLoop, Loop, TickEnds, Wait, Wake,
         OrderDue, OrderClockEnds, PositionDue, PositionClockEnds, ReviewDue,
         ReviewEnds, End, Disturbance, Crash, Stop, OperatorStarts, HeartbeatFails,
         ReleaseFails
<1>3. Timely
  BY <1>1, <1>2 DEF Timely, RunsBetween
<1>4. CASE Time
  BY <1>1, <1>3, <1>4, TimePasses
<1>5. ASSUME NEW v \in Workers, Step(v) \/ Disturbance(v)
      PROVE  Owns(w)'
  <2>1. CASE v = w
    BY <1>1, <1>3, <1>5, <2>1, OwnStep, DisturbedStep
  <2>2. CASE v # w
    <3>1. Alive(w) /\ proc'[w] = proc[w] /\ lease' = lease /\ tickTime' = tickTime
      BY <1>1, <1>3, <1>5, <2>2, OthersKeep
    <3>2. Owns(w)
      BY <1>3, <3>1 DEF LeaseInv
    <3> QED
      BY <3>1, <3>2 DEF Owns, At
  <2> QED
    BY <2>1, <2>2
<1>6. CASE UNCHANGED vars
  BY <1>1, <1>3, <1>6 DEF vars, LeaseInv, Owns, Alive, At
<1> QED
  BY <1>4, <1>5, <1>6 DEF Next

\* The living processes, as the mapping to SingleWriter counts them.
Living == {w \in Workers : Alive(w)}

\* Every step of the workers is a step of the single writer, or none.
LEMMA WriterStep ==
  ASSUME TypeOK, LeaseInv, [Next]_vars, Timely
  PROVE  \/ Living' = Living
         \/ \E w \in Workers : \/ Living = {} /\ Living' = {w}
                               \/ Living = {w} /\ Living' = {}
<1>1. \A v, w \in Living : v = w
  BY DEF Living, LeaseInv, Owns
<1>2. proc \in [Workers -> Process]
  BY DEF TypeOK
<1>3. CASE Time
  <2>1. \A w \in Workers : proc'[w].at = proc[w].at
    <3>1. \A w \in Workers : proc'[w] = Older(proc[w])
      BY <1>3 DEF Time
    <3> QED
      BY <1>2, <3>1 DEF Older, Process
  <2> QED
    BY <2>1 DEF Living, Alive
<1>4. ASSUME NEW v \in Workers, Step(v) \/ Disturbance(v)
      PROVE  \/ Living' = Living
             \/ \E w \in Workers : \/ Living = {} /\ Living' = {w}
                                   \/ Living = {w} /\ Living' = {}
  <2>1. \A w \in Workers : w # v => proc'[w] = proc[w]
    BY <1>2, <1>4
       DEF Step, Start, Probed, StartsLoop, Loop, TickEnds, Wait, Wake, OrderDue,
           OrderClockEnds, PositionDue, PositionClockEnds, ReviewDue, ReviewEnds, End,
           Disturbance, Crash, Stop, OperatorStarts, HeartbeatFails, ReleaseFails,
           Goto, Dies
  <2>2. \A w \in Workers : w # v => (w \in Living' <=> w \in Living)
    BY <2>1 DEF Living, Alive
  <2>3. CASE v \in Living
    <3>1. Living = {v}
      BY <1>1, <2>3
    <3> QED
      BY <2>2, <3>1 DEF Living
  <2>4. CASE v \notin Living /\ v \notin Living'
    BY <2>2, <2>4 DEF Living
  <2>5. CASE v \notin Living /\ v \in Living'
    <3>1. ~Held
      <4>1. Start(v)
        BY <1>2, <1>4, <2>5
           DEF Living, Alive, Off, Step, Probed, StartsLoop, Loop, TickEnds, Wait, Wake,
               OrderDue, OrderClockEnds, PositionDue, PositionClockEnds, ReviewDue,
               ReviewEnds, End, Disturbance, Crash, Stop, OperatorStarts,
               HeartbeatFails, ReleaseFails, Dies, NoProcess, At
      <4> QED
        BY <1>2, <2>5, <4>1 DEF Start, Living, Alive, Off, NoProcess
    <3>2. Living = {}
      BY <3>1 DEF Living, LeaseInv, Owns, Held
    <3> QED
      BY <2>2, <2>5, <3>2 DEF Living
  <2> QED
    BY <2>3, <2>4, <2>5
<1>5. CASE UNCHANGED vars
  BY <1>5 DEF vars, Living, Alive
<1> QED
  BY <1>3, <1>4, <1>5 DEF Next

\* The workers implement the single writer: when starts, ticks and clocks are
\* timely, a process begins only when none is alive, and the one that is alive
\* ends before another begins - for any number of hosts, any intervals, and any
\* crashes, signals and failures of the database. acquire, heartbeat, release.
THEOREM LeaseImplementsSingleWriter == Spec => SingleWriterSpec
<1>1. Init => TypeOK /\ Counted /\ LeaseInv
  <2>1. Init => TypeOK /\ Counted
    BY LeaseAssumption DEF Init, TypeOK, LeaseRow, NoProcess, Process, Off, Counted, At
  <2>2. Init => LeaseInv
    BY DEF Init, LeaseInv, Alive, Off, NoProcess
  <2> QED
    BY <2>1, <2>2
<1>2. TypeOK /\ Counted /\ LeaseInv /\ [Next]_vars => (TypeOK /\ Counted /\ LeaseInv)'
  BY TypeStep, CountedStep, LeaseInvStep
<1>3. Init => Writers!Init
  <2>1. Init => {w \in Workers : Alive(w)} = {}
    BY DEF Init, Alive, Off, NoProcess
  <2> QED
    BY <2>1 DEF Writers!Init
<1>4. TypeOK /\ LeaseInv /\ [Next]_vars
        => [Writers!Next]_(IF Timely THEN {w \in Workers : Alive(w)} ELSE {})
  <2> SUFFICES ASSUME TypeOK, LeaseInv, [Next]_vars
               PROVE  [Writers!Next]_(IF Timely THEN {w \in Workers : Alive(w)} ELSE {})
    OBVIOUS
  <2>1. tickTime' = tickTime
    BY DEF Next, vars, Time, Step, Start, Probed, StartsLoop, Loop, TickEnds, Wait, Wake,
           OrderDue, OrderClockEnds, PositionDue, PositionClockEnds, ReviewDue,
           ReviewEnds, End, Disturbance, Crash, Stop, OperatorStarts, HeartbeatFails,
           ReleaseFails
  <2>2. Timely' <=> Timely
    BY <2>1 DEF Timely, RunsBetween
  <2>3. CASE Timely
    <3>1. /\ (IF Timely THEN {w \in Workers : Alive(w)} ELSE {}) = Living
          /\ (IF Timely THEN {w \in Workers : Alive(w)} ELSE {})' = Living'
      BY <2>2, <2>3 DEF Living
    <3>2. \/ Living' = Living
          \/ \E w \in Workers : \/ Living = {} /\ Living' = {w}
                                \/ Living = {w} /\ Living' = {}
      BY <2>3, WriterStep
    <3> HIDE DEF Living
    <3> QED
      BY <3>1, <3>2 DEF Writers!Next, Writers!Begin, Writers!End
  <2>4. CASE ~Timely
    BY <2>2, <2>4
  <2> QED
    BY <2>3, <2>4
<1> QED
  BY <1>1, <1>2, <1>3, <1>4, PTL DEF Spec, SingleWriterSpec, Writers!Spec
=============================================================================

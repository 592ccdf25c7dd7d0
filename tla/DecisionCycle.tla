---------------------------- MODULE DecisionCycle ----------------------------
(***************************************************************************)
(* The decision side of the worker: the reads a tick makes one after the   *)
(* other (agent.observe), the snapshot they become (evidence.py), the      *)
(* gates a candidate passes (agent.tick, architecture/workflow.py), the    *)
(* record of the decision with its review jobs (persistence/repository.py) *)
(* and the review of what became of it (outcomes.py). Time passes between  *)
(* any two steps, and the worker can die there. The order itself, its      *)
(* fills and its reconciliation are TradingAgent's; here a strategy is     *)
(* only free, in flight, held or closing.                                  *)
(***************************************************************************)
EXTENDS TradingCalendar, ExitPolicy

CONSTANTS
  Modes,               \* the bot modes the worker may be started in
  Readings, Chains, Accounts, Replies,  \* what the market, the broker and the model may send
  Values,              \* what a held spread may be worth
  CloseOf,             \* the close of the session of each day
  Horizons,            \* HORIZONS, in sessions
  MaxLag,              \* sessions a provider's daily bars may lag
  MaxBarAge,           \* MAX_SESSIONS_SINCE_LAST_BAR, in days
  Freshness,           \* CLOCK_FRESHNESS
  IntentTtl,           \* INTENT_TTL
  MaxSpan,             \* bound: how long a tick may take
  MaxDecisions,        \* bound
  EndOfTime            \* bound

ASSUME CycleAssumption ==
  /\ Modes \subseteq {"observe", "recommend", "paper_execute"}
  /\ Horizons \subseteq Nat \ {0}
  /\ \A r \in Readings : r.separation \in Int
  /\ {MaxLag, MaxBarAge, Freshness, IntentTtl, MaxSpan, MaxDecisions, EndOfTime} \subseteq Nat

\* An intent lives 90 seconds; the entry window ends 45 minutes before the close.
ASSUME TtlAssumption == IntentTtl < CloseBuffer

VARIABLES
  time,
  mode,
  pc,         \* what the worker does next
  now,        \* the instant the tick began
  clock,      \* the market clock it read: when, what it said, whether it was fresh
  bars,       \* the days of the daily bars it read
  snapshot,
  outcome,    \* the workflow's, before it is recorded
  decisions,  \* the table of decisions, each with the observation it rests on
  jobs,       \* the pending review jobs
  outcomes,   \* the table of outcomes
  slot,       \* the single strategy: free, in_flight, held or closing
  position

vars == <<time, mode, pc, now, clock, bars, snapshot, outcome, decisions, jobs, outcomes, slot,
          position>>

tick == <<pc, now, clock, bars, snapshot, outcome>>
database == <<decisions, jobs, outcomes>>
strategy == <<slot, position>>

NoClock == [at |-> 0, open |-> FALSE, fresh |-> FALSE]
NoSnapshot == [asOf |-> 0, session |-> -1, source |-> "unknown", setup |-> NoSetup,
               signals |-> {}, chain |-> {}, account |-> [equity |-> 0, power |-> 0]]
NoOutcome == [action |-> "none", reason |-> "none", direction |-> "neutral", spread |-> NoSpread]
NoPosition == [filledAt |-> 0, direction |-> "neutral", rule |-> NoRule, debit |-> 0, width |-> 0,
               expiry |-> 0, seen |-> 0, said |-> "none"]

\* The tick is over: nothing of it is kept but what it stored.
Ends ==
  /\ pc' = "idle" /\ now' = 0 /\ clock' = NoClock /\ bars' = {}
  /\ snapshot' = NoSnapshot /\ outcome' = NoOutcome

InSession(t) == \E s \in Sessions : s.open <= t /\ t < s.close

----------------------------------------------------------------------------
(* Observing.                                                               *)

\* Reconciliation and deadlines come first; TradingAgent models them.
TickStarts ==
  /\ pc = "idle"
  /\ pc' = "clock" /\ now' = time
  /\ UNCHANGED <<time, mode, clock, bars, snapshot, outcome, database, strategy>>

\* A clock that does not say whether the market is open counts as closed; one
\* whose time is old may say either, and is not trusted.
ReadsClock ==
  /\ pc = "clock"
  /\ \E open, fresh \in BOOLEAN :
       /\ fresh => open = InSession(time)
       /\ clock' = [at |-> time, open |-> open, fresh |-> fresh]
  /\ pc' = "bars"
  /\ UNCHANGED <<time, mode, now, bars, snapshot, outcome, database, strategy>>

\* One bar for each session that has begun, the one in progress included.
ReadsBars ==
  /\ pc = "bars"
  /\ LET begun == {s.day : s \in {x \in Sessions : x.open <= time}} IN
     \E lag \in 0..MaxLag : bars' = {d \in begun : Cardinality({o \in begun : o > d}) >= lag}
  /\ pc' = "chain"
  /\ UNCHANGED <<time, mode, now, clock, snapshot, outcome, database, strategy>>

\* Any of the reads raises, and so does a snapshot without its account: OBSERVE_FAILED.
ReadFails ==
  /\ pc \in {"clock", "bars", "chain"}
  /\ Ends
  /\ UNCHANGED <<time, mode, database, strategy>>

\* Mutant: the bar of the session in progress is kept.
ParseBarsForming(days, open, asOf) == days

\* The bar of the session in progress is not a close, and is removed.
ParseBars(days, open, asOf) ==
  IF open /\ days # {} /\ Max(days) >= DayOf(asOf) THEN days \ {Max(days)} ELSE days

Trusted(asOf) == clock.fresh /\ asOf - clock.at <= Freshness

\* What was observed, and whether it can be decided on. A reading without its
\* bars or its chain has no signals.
Snapshot(reading, chain, account) ==
  LET session == Max(ParseBars(bars, clock.open, time))
      signals == IF chain = {} THEN {} ELSE BuildSignals(reading)
  IN [asOf |-> time, session |-> session,
      source |-> IF Trusted(time) THEN "completed_daily_close" ELSE "unknown",
      setup |-> Classify(signals, CloseOf[session]),
      signals |-> signals, chain |-> chain, account |-> account]

IsUsable(s) ==
  /\ Trusted(s.asOf) /\ s.chain # {}
  /\ DayOf(s.asOf) - s.session <= MaxBarAge

Observed == pc = "chain" /\ ParseBars(bars, clock.open, time) # {}

\* A closed market, a strategy in flight, an unclean report, a time outside the
\* entry window, or no bars, end the tick before anything is considered.
DeclinesEarly ==
  /\ pc = "chain"
  /\ \/ ~Observed \/ ~clock.open
     \/ slot # "held"
  /\ Ends
  /\ UNCHANGED <<time, mode, database, strategy>>

\* The window is judged on the instant the tick began. Any defect of the account,
\* the clock, the bars or the chain halts new risk.
Considers ==
  /\ Observed /\ clock.open /\ slot = "free"
  /\ EvaluateEntry(now) = "open"
  /\ Len(decisions) < MaxDecisions
  /\ \E reading \in Readings, chain \in Chains, account \in Accounts :
       LET s == Snapshot(reading, chain, account) IN
       /\ IsUsable(s)
       /\ snapshot' = s
       /\ \/ s.setup # NoSetup /\ pc' = "memo" /\ UNCHANGED outcome
          \/ /\ s.setup = NoSetup /\ pc' = "record"
             /\ outcome' = [NoOutcome EXCEPT !.action = "NO_TRADE", !.reason = "no_qualified_setup"]
  /\ UNCHANGED <<time, mode, now, clock, bars, database, strategy>>

----------------------------------------------------------------------------
(* Managing the position, on every tick that saw an open market.            *)

ExitInputs(value, readable) ==
  [direction |-> position.direction, debit |-> position.debit, width |-> position.width,
   dte |-> position.expiry - DayOf(now),
   price |-> CloseOf[Max(ParseBars(bars, clock.open, time))],
   source |-> IF Trusted(time) THEN "completed_daily_close" ELSE "unknown",
   rule |-> position.rule, value |-> value, readable |-> readable,
   sessions |-> CompletedSessionsBetween(position.filledAt, time)]

\* A close needs authority and a price; without either it is only signalled.
Manages ==
  /\ Observed /\ clock.open /\ slot = "held"
  /\ \E value \in Values, readable \in BOOLEAN :
       LET x == ExitInputs(value, readable)
           trigger == EvaluateExit(x)
       IN /\ position' = [position EXCEPT !.seen = x.sessions, !.said = trigger]
          /\ slot' = IF ShouldClose(trigger) /\ SuggestedLimit(x) # NoLimit /\ mode = "paper_execute"
                     THEN "closing" ELSE "held"
  /\ Ends
  /\ UNCHANGED <<time, mode, database>>

----------------------------------------------------------------------------
(* Deciding.                                                                *)

\* observe asks no model, and neither does a worker that was given no key for one.
Concludes ==
  /\ pc = "memo"
  /\ \E thesis \in {Baseline(snapshot.signals, snapshot.setup)} \cup
          (IF mode = "observe" THEN {}
           ELSE {Synthesize(snapshot.signals, snapshot.setup, reply) : reply \in Replies}) :
       outcome' = Conclude(snapshot.signals, snapshot.chain, CloseOf[snapshot.session],
                           snapshot.account, snapshot.setup, thesis)
  /\ pc' = "record"
  /\ UNCHANGED <<time, mode, now, clock, bars, snapshot, database, strategy>>

\* A reply that parses but is no memo raises past the synthesizer, and a failed
\* transaction past the recorder: the worker notes the fault and ticks again.
TickRaises ==
  /\ pc = "record" \/ (pc = "memo" /\ mode # "observe")
  /\ Ends
  /\ UNCHANGED <<time, mode, database, strategy>>

JobsOf(decision) == {[decision |-> decision, horizon |-> h] : h \in Horizons}

\* One transaction: the observation, the decision and the questions to ask of it.
Records ==
  /\ pc = "record"
  /\ decisions' = Append(decisions,
       [asOf |-> snapshot.asOf, session |-> snapshot.session, decidedAt |-> time,
        traded |-> outcome.action = "OPTIONS_POSITION"])
  /\ jobs' = jobs \cup JobsOf(Len(decisions) + 1)
  /\ IF outcome.action = "OPTIONS_POSITION" /\ mode = "paper_execute"
     THEN pc' = "submit" /\ UNCHANGED <<now, clock, bars, snapshot, outcome>>
     ELSE Ends
  /\ UNCHANGED <<time, mode, outcomes, strategy>>

\* Mutant: the gateway does not look at its clock again.
ExpiredNever == FALSE

\* The intent was created when the tick began, and the gateway looks at its own clock.
Expired == time > now + IntentTtl

Submits ==
  /\ pc = "submit" /\ ~Expired
  /\ LET long == Quote(snapshot.chain, outcome.spread.long)
         short == Quote(snapshot.chain, outcome.spread.short)
     IN position' = [NoPosition EXCEPT
          !.direction = outcome.direction,
          !.rule = [direction |-> outcome.direction, level |-> snapshot.setup.level,
                    source |-> snapshot.source],
          !.debit = outcome.spread.debit,
          !.width = Size(long.strike - short.strike),
          !.expiry = DayOf(snapshot.asOf) + long.dte]
  /\ slot' = "in_flight"
  /\ Ends
  /\ UNCHANGED <<time, mode, database>>

\* An expired intent, a missing approval, a halt or a limit: nothing is sent.
IsRefused ==
  /\ pc = "submit"
  /\ Ends
  /\ UNCHANGED <<time, mode, database, strategy>>

----------------------------------------------------------------------------
(* Reviewing, between two ticks.                                            *)

\* The observations at or after the horizon of a job.
After(job) ==
  {i \in DOMAIN decisions :
     ClosesThrough(decisions[i].asOf) >= ClosesThrough(decisions[job.decision].decidedAt) + job.horizon}

Elapsed(job) ==
  CompletedSessionsBetween(decisions[job.decision].decidedAt, time) >= job.horizon

\* Mutant: a job whose horizon is still ahead ends the pass.
ResolvableInTurn == IF \E job \in jobs : ~Elapsed(job) THEN {} ELSE {job \in jobs : After(job) # {}}

Resolvable == {job \in jobs : Elapsed(job) /\ After(job) # {}}

\* Mutant: the latest observation.
OutcomeLatest(job) ==
  [decision |-> job.decision, horizon |-> job.horizon, observed |-> Max(After(job))]

\* The earliest observation, so that the horizon does not lengthen with the wait.
Outcome(job) == [decision |-> job.decision, horizon |-> job.horizon, observed |-> Min(After(job))]

\* A pass with nothing to resolve, or one that failed, changes nothing.
Reviews ==
  /\ pc = "idle" /\ Resolvable # {}
  /\ outcomes' = outcomes \cup {Outcome(job) : job \in Resolvable}
  /\ jobs' = jobs \ Resolvable
  /\ UNCHANGED <<time, mode, tick, decisions, strategy>>

----------------------------------------------------------------------------
(* Around it: the broker, the operator, the host and the clock.             *)

EntryFills ==
  /\ slot = "in_flight"
  /\ slot' = "held"
  /\ position' = [position EXCEPT !.filledAt = time]
  /\ UNCHANGED <<time, mode, tick, database>>

\* The entry dies, or the close fills.
StrategyEnds ==
  /\ slot \in {"in_flight", "closing"}
  /\ slot' = "free" /\ position' = NoPosition
  /\ UNCHANGED <<time, mode, tick, database>>

CloseDies ==
  /\ slot = "closing"
  /\ slot' = "held"
  /\ UNCHANGED <<time, mode, tick, database, position>>

\* The worker dies, and a new one takes its place with nothing but the database.
Crashes ==
  /\ pc # "idle"
  /\ Ends
  /\ UNCHANGED <<time, mode, database, strategy>>

TimePasses ==
  /\ time < EndOfTime
  /\ pc # "idle" => time < now + MaxSpan
  /\ time' = time + 1
  /\ UNCHANGED <<mode, tick, database, strategy>>

----------------------------------------------------------------------------
Init ==
  /\ time = 0 /\ mode \in Modes
  /\ pc = "idle" /\ now = 0 /\ clock = NoClock /\ bars = {}
  /\ snapshot = NoSnapshot /\ outcome = NoOutcome
  /\ decisions = <<>> /\ jobs = {} /\ outcomes = {}
  /\ slot = "free" /\ position = NoPosition

TickStep ==
  \/ TickStarts \/ ReadsClock \/ ReadsBars \/ ReadFails \/ DeclinesEarly \/ Considers
  \/ Manages \/ Concludes \/ TickRaises \/ Records \/ Submits \/ IsRefused

Next ==
  \/ TickStep \/ Reviews \/ EntryFills \/ StrategyEnds \/ CloseDies \/ Crashes \/ TimePasses

Spec == Init /\ [][Next]_vars

\* Every call of a tick has a timeout, so it comes to an end whatever the
\* providers do; the loop's wait runs the review on its own cadence.
TickEnds == pc # "idle" /\ pc' = "idle"

FairSpec == Spec /\ WF_pc(TickEnds) /\ SF_vars(Reviews) /\ WF_vars(TimePasses)

----------------------------------------------------------------------------
(* Properties.                                                              *)

\* The shape of the tables: every pending job and every outcome belongs to a
\* recorded decision, and no horizon is both pending and answered.
TypeOK ==
  /\ time \in 0..EndOfTime /\ mode \in Modes
  /\ pc \in {"idle", "clock", "bars", "chain", "memo", "record", "submit"}
  /\ slot \in {"free", "in_flight", "held", "closing"}
  /\ \A i \in DOMAIN decisions :
       /\ decisions[i].asOf <= decisions[i].decidedAt /\ decisions[i].decidedAt <= time
       /\ {[decision |-> i, horizon |-> h] : h \in Horizons} =
            {[decision |-> j.decision, horizon |-> j.horizon] :
                         j \in {x \in jobs \cup outcomes : x.decision = i}}
       /\ {o \in outcomes : [decision |-> o.decision, horizon |-> o.horizon] \in jobs} = {}

\* No look-ahead: what a decision, the level of its invalidation and later the
\* review of it rest on is the close of a session that was over when the bars
\* were judged, however the market opened or closed between the reads.
CompletedCloses ==
  /\ \A i \in DOMAIN decisions :
       \E s \in Sessions : s.day = decisions[i].session /\ s.close <= decisions[i].asOf
  /\ pc \in {"memo", "record", "submit"} =>
       \E s \in Sessions : s.day = snapshot.session /\ s.close <= snapshot.asOf

\* What reaches the broker: the direction of the structure, whatever the model
\* said, at the price the snapshot's own quotes give, for a loss that the budget
\* and the buying power of the observed account cover.
ApprovedInEnvelope ==
  pc = "submit" =>
    /\ mode = "paper_execute"
    /\ \E s \in snapshot.signals :
         s.family = "structure" /\ s.direction = outcome.direction /\ s.strength >= MinStructure
    /\ \E l, s \in snapshot.chain :
         /\ l.contract = outcome.spread.long /\ s.contract = outcome.spread.short
         /\ CrossingDebit(l, s) * Multiplier = outcome.spread.debit * Multiplier
    /\ outcome.spread.debit * Multiplier <= RiskBudget(snapshot.account)
    /\ outcome.spread.debit * Multiplier <= snapshot.account.power

\* An entry is sent while the session it was decided in is still open, although
\* the window is judged when the tick begins and the model may take its time.
EntryBeforeClose ==
  [][slot = "free" /\ slot' = "in_flight" => InSession(time)]_vars

\* A decision is reviewed once per horizon, with the first observation that
\* follows it by the horizon's number of closes, neither earlier nor later.
ReviewedAtHorizon ==
  \A o \in outcomes :
    LET between(i) == {s \in Sessions : decisions[o.decision].decidedAt < s.close /\ s.close <= decisions[i].asOf}
    IN /\ Cardinality(between(o.observed)) >= o.horizon
       /\ \A i \in DOMAIN decisions :
            Cardinality(between(i)) >= o.horizon => decisions[o.observed].asOf <= decisions[i].asOf
       /\ \A other \in outcomes :
            (other.decision = o.decision /\ other.horizon = o.horizon) => other = o

\* A position that was looked at with its session horizon behind it was told to
\* close, whether its premium could be read or not (EXIT-004).
HorizonAsked ==
  slot = "held" /\ position.seen >= SessionStop => ShouldClose(position.said)

\* A decision whose horizon an observation has reached gets its outcome, although
\* other questions stay open and workers die.
JobsResolve ==
  \A i \in 1..MaxDecisions, h \in Horizons :
    (i \in DOMAIN decisions /\ \E k \in DOMAIN decisions :
       ClosesThrough(decisions[k].asOf) >= ClosesThrough(decisions[i].decidedAt) + h)
    ~> \E o \in outcomes : o.decision = i /\ o.horizon = h
=============================================================================

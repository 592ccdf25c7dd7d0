----------------------------- MODULE ReadModels -----------------------------
(***************************************************************************)
(* What the operator reads, as operators over the stored rows: the mark    *)
(* and the attention of a position (presentation/positions.py), the pages  *)
(* every list is served in, the safety strip (status.py), the decision     *)
(* list (listing.py), the review (outcomes.py, horizons.py, activity.py),  *)
(* the filter on routine log lines (telemetry.py), the source a page reads *)
(* and its rate limit (source.py, limits.py), and the settings a process   *)
(* starts with (config.py). Time is in minutes unless a section says so.   *)
(***************************************************************************)
EXTENDS TradingCalendar, Sequences

None == -1   \* no cursor, no pin, no count

----------------------------------------------------------------------------
(* Positions. A position has an id, a status, the time it opened (-1 until  *)
(* it did) and the rows recorded about it: observations, each with an id, a *)
(* time and a spread that was read or not, and the incidents still open.    *)

OpenStates == {"PENDING", "OPEN", "CLOSING", "INCIDENT"}
ClosedStates == {"CLOSED", "ABANDONED"}
StaleAfter == 5

\* The newest of some rows; of two at one time, the one with the greater id.
Latest(rows) ==
  CHOOSE r \in rows : \A o \in rows : o.at < r.at \/ (o.at = r.at /\ o.id <= r.id)

InSession(now) ==
  LET s == SessionFor(now) IN s # NoSession /\ s.open <= now /\ now < s.close

MarkState(p, now) ==
  LET seen == Latest(p.marks)
      last == LastClosed(now, 0)
  IN CASE p.marks = {} -> "never_observed"
       [] p.marks # {} /\ p.status \in ClosedStates -> "final"
       [] p.marks # {} /\ p.status \notin ClosedStates /\ ~seen.readable -> "unreadable"
       [] OTHER ->
            IF InSession(now) THEN IF now - seen.at <= StaleAfter THEN "current" ELSE "stale"
            ELSE IF last # NoSession /\ seen.at >= last.open THEN "last_session" ELSE "stale"

NeverMarked(p, now) ==
  /\ p.marks = {} /\ p.status \in {"OPEN", "CLOSING"} /\ p.opened # -1
  /\ InSession(now) /\ now - p.opened > StaleAfter

\* Why a position needs a look; empty when it does not.
Attention(p, now) ==
  {reason \in {"open_incident", "stale_mark", "unreadable_mark", "never_marked"} :
     /\ p.status \in OpenStates
     /\ CASE reason = "open_incident" -> p.incidents > 0
          [] reason = "stale_mark" -> MarkState(p, now) = "stale"
          [] reason = "unreadable_mark" -> MarkState(p, now) = "unreadable"
          [] OTHER -> NeverMarked(p, now)}

\* An order with its role, status, average price (-1 when it has none), filled and asked quantity.
Counted(orders, role) ==
  {o \in orders : o.role = role /\ o.status = "filled" /\ o.price # -1}

\* The results the records may give: of two filled orders of one role the query keeps
\* whichever it returns last. Empty unless both sides filled.
Realized(orders) ==
  LET quantity(o) == IF o.filled > 0 THEN o.filled ELSE o.asked
  IN {(c.price - e.price) * 100 * quantity(e) :
        e \in {o \in Counted(orders, "entry") : quantity(o) > 0}, c \in Counted(orders, "close")}

\* What the positions screen shows of one position.
View(p, orders, now) ==
  [position |-> p.id, mark |-> MarkState(p, now), attention |-> Attention(p, now),
   realized |-> IF p.status = "CLOSED" THEN Realized(orders) ELSE {}]

----------------------------------------------------------------------------
(* Pages. A row's key stands for the pair of time and id a list is ordered *)
(* by, which is a total order.                                              *)

\* A list starts without a cursor, above every row.
Before(rows, cursor) == IF cursor = None THEN rows ELSE {r \in rows : r < cursor}

\* The newest limit of them.
Page(rows, limit, cursor) ==
  {r \in Before(rows, cursor) :
     Cardinality({o \in Before(rows, cursor) : o > r}) < limit}

\* The cursor of the next page, when one more row than the page holds was found.
NextCursor(rows, limit, cursor) ==
  IF Cardinality(Before(rows, cursor)) > limit THEN Min(Page(rows, limit, cursor)) ELSE None

----------------------------------------------------------------------------
(* The safety strip: a value no record supports is unknown, never a default. *)

LatestRun(runs) == CHOOSE r \in runs : \A o \in runs : o.started <= r.started

OrderWrites(runs) ==
  IF runs = {} THEN "UNKNOWN" ELSE IF LatestRun(runs).enabled THEN "Enabled" ELSE "Disabled"

WorkerMode(runs) == IF runs = {} THEN "UNKNOWN" ELSE LatestRun(runs).mode

WorkerLiveness(leases, now) ==
  LET lease == CHOOSE l \in leases : \A o \in leases : o.heartbeat <= l.heartbeat
  IN IF leases = {} THEN "UNKNOWN"
     ELSE IF lease.released THEN "Released"
     ELSE IF lease.expires < now THEN "Stale" ELSE "Live"

SystemStatus(runs, leases, positions, incidents, now) ==
  [writes |-> OrderWrites(runs), mode |-> WorkerMode(runs),
   worker |-> WorkerLiveness(leases, now),
   open |-> Cardinality({p \in positions : p.status \in OpenStates}),
   incidents |-> Cardinality({i \in incidents : ~i.resolved})]

----------------------------------------------------------------------------
(* The decision list. Decisions are a sequence, oldest first; an entry is   *)
(* named by the index of the decision it shows.                             *)

IsPosition(d) == d.action = "OPTIONS_POSITION"

\* What makes two decisions the same story: a position never is another's.
OutcomeKey(d) == <<d.action, IF IsPosition(d) THEN d.hash ELSE d.reasons>>

\* The decisions around i that tell the same story without a break.
RunOf(ds, i) ==
  {j \in DOMAIN ds : \A k \in DOMAIN ds :
     (i <= k /\ k <= j) \/ (j <= k /\ k <= i) => OutcomeKey(ds[k]) = OutcomeKey(ds[i])}

Candidates(ds, view) ==
  CASE view = "Positions" -> {i \in DOMAIN ds : IsPosition(ds[i])}
    [] view = "Refusals" -> {i \in DOMAIN ds : ~IsPosition(ds[i])}
    [] OTHER -> DOMAIN ds

\* The pinned decision stands for its run, and is listed even where a filter leaves it out.
Entries(ds, view, pin) ==
  {i \in Candidates(ds, view) :
     view = "Notable" =>
       IF pin \in RunOf(ds, i) THEN i = pin ELSE \A j \in RunOf(ds, i) : j <= i}
  \cup ({pin} \cap DOMAIN ds)

PinMissing(ds, pin) == pin # None /\ pin \notin DOMAIN ds

----------------------------------------------------------------------------
(* The review. A change is the underlying's at the horizon less at the decision. *)

DirectionAgreed(direction, change) ==
  IF change = 0 \/ direction \notin {"bullish", "bearish"} THEN "unanswerable"
  ELSE IF (direction = "bullish") = (change > 0) THEN "agreed" ELSE "disagreed"

HorizonCounts(outcomes, jobs, horizon) ==
  LET rows == {o \in outcomes : o.horizon = horizon}
      answered(a) == Cardinality({o \in rows : o.agreed = a})
  IN [resolved |-> Cardinality(rows),
      pending |-> Cardinality({j \in jobs : j.horizon = horizon /\ j.state = "PENDING"}),
      trades |-> Cardinality({o \in rows : o.kind = "TRADE"}),
      agreed |-> answered("agreed"), disagreed |-> answered("disagreed"),
      unanswerable |-> answered("unanswerable")]

\* What the numbers do not support; every position row ever recorded is counted.
Caveat(resolved, positions, answerable) ==
  CASE resolved = 0 -> "nothing reviewed"
    [] resolved > 0 /\ positions = 0 -> "all refusals"
    [] resolved > 0 /\ positions > 0 /\ answerable = 0 -> "unanswerable"
    [] OTHER -> "a sample"

\* Said only where the decisions outnumber the closes they were taken from two to one.
SamplingSaid(decisions, closes) == closes > 0 /\ decisions >= 2 * closes

\* A decision's horizons: one without a job is left out, one without an outcome waits.
ForDecision(jobs, outcomes) ==
  [h \in {j.horizon : j \in jobs} |-> {o \in outcomes : o.horizon = h}]

\* The days of the journal, from the first decision to now.
SessionDays(firstAt, now) ==
  {s.day : s \in {t \in Sessions : DayOf(firstAt) <= t.day /\ t.day <= DayOf(now)}}

\* The missing numbers of a trail, between the first and the last recorded.
Gaps(sequences) ==
  IF Cardinality(sequences) < 2 THEN {}
  ELSE (Min(sequences)..Max(sequences)) \ sequences

----------------------------------------------------------------------------
(* The filter on routine lines: an event's last action, and how many lines  *)
(* were looked at since one was written.                                    *)

HeartbeatEvery == 15

Emits(filter, event, action) ==
  \/ filter.last[event] # action
  \/ filter.since[event] + 1 >= HeartbeatEvery

AfterLine(filter, event, action) ==
  [last |-> [filter.last EXCEPT ![event] = action],
   since |-> [filter.since EXCEPT ![event] =
                IF Emits(filter, event, action) THEN 0 ELSE @ + 1]]

\* What the worker writes on a line it emits: asked of the filter after it was told.
Reported(filter, event, action) == AfterLine(filter, event, action).since[event]

----------------------------------------------------------------------------
(* The rate limit. Time and tokens are in the third of a second a token takes. *)

Burst == 60
IdleTicks == 600 * 3

Refilled(bucket, now) == Min({Burst, bucket.tokens + (now - bucket.updated)})

BucketOf(limiter, client, now) ==
  IF client \in DOMAIN limiter.buckets THEN limiter.buckets[client]
  ELSE [tokens |-> Burst, updated |-> now]

Allowance(limiter, client, now) == Refilled(BucketOf(limiter, client, now), now)

\* Now and then the buckets nobody used for long are dropped.
Swept(limiter, now) ==
  IF now - limiter.swept < IdleTicks THEN limiter
  ELSE LET kept == {c \in DOMAIN limiter.buckets : now - limiter.buckets[c].updated <= IdleTicks}
       IN [buckets |-> [c \in kept |-> limiter.buckets[c]], swept |-> now]

Admits(limiter, client, now) == Allowance(Swept(limiter, now), client, now) >= 1

AfterCheck(limiter, client, now) ==
  LET swept == Swept(limiter, now)
      tokens == Allowance(swept, client, now)
      left == IF tokens >= 1 THEN tokens - 1 ELSE tokens
  IN [swept |-> swept.swept,
      buckets |-> [c \in DOMAIN swept.buckets \cup {client} |->
                     IF c = client THEN [tokens |-> left, updated |-> now]
                     ELSE swept.buckets[c]]]

----------------------------------------------------------------------------
(* The source of a page, decided per request, and the settings of a process. *)

\* A live url may be missing or unusable; a query on it may fail (decided is then None).
Source(url, decided) ==
  IF url = "usable" /\ decided # None /\ decided # 0
  THEN [mode |-> "LIVE", id |-> "live"]
  ELSE [mode |-> "FROZEN_REPLAY", id |-> "committed"]

BotModes == {"observe", "recommend", "paper_execute"}

\* An environment gives each boolean as true, false, a default, or something else.
Truth(raw, default) == IF raw = "unset" THEN default ELSE raw

LoadRefused(env) ==
  \/ env.mode \notin BotModes
  \/ Truth(env.paper, "true") # "true"
  \/ Truth(env.trading, "false") \notin {"true", "false"}
  \/ Truth(env.trading, "false") = "true" /\ env.mode # "paper_execute"
  \/ env.database \notin {"driver named"}
  \/ Truth(env.approval, "true") \notin {"true", "false"}

LoadSettings(env) ==
  [mode |-> env.mode, paper |-> Truth(env.paper, "true") = "true",
   trading |-> Truth(env.trading, "false") = "true",
   approval |-> Truth(env.approval, "true") = "true"]

MayWriteOrders(settings) ==
  settings.mode = "paper_execute" /\ settings.trading /\ settings.paper
=============================================================================

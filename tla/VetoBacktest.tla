---------------------------- MODULE VetoBacktest ----------------------------
(***************************************************************************)
(* The study of the breadth veto: each past session is put through the     *)
(* live gates (veto_replay.py), a qualifying one is given the spread the   *)
(* live selector would pick from the prices that traded (veto_entries.py), *)
(* the spread is walked bar by bar to its exit by the live policy, once    *)
(* per cost case (veto_exits.py), and two portfolios of one position each  *)
(* are drawn from the results (veto_portfolio.py). The walk goes through   *)
(* its cost cases side by side, which the code does one after the other    *)
(* over the same bars. Money is in cents.                                  *)
(***************************************************************************)
EXTENDS TradingCalendar, ExitPolicy

CONSTANTS
  Readings, Chains,         \* what a past session may have measured and traded
  CloseOf,                  \* the close of the session of each day
  Bar,                      \* the length of a bar
  DecisionTime,             \* DECISION_TIME, a time of day
  MaxAge, MaxLegGap,        \* MAX_AGE, MAX_LEG_GAP
  PathSessions,             \* PATH_SESSIONS, the sessions of bars downloaded for an entry
  Frictions,                \* COST_CASES, what each way costs per share
  StartEquity,              \* START_EQUITY, and EQUITY of an entry's own account
  LongPrices, ShortPrices,  \* what a leg may trade at after the entry
  MaxEntered                \* bound

\* The end of the bar a fill uses, the one after the decision.
FilledAt(d) == d * DayLen + DecisionTime + Bar

ASSUME BacktestAssumption ==
  /\ {Bar, PathSessions, StartEquity} \subseteq Nat \ {0}
  /\ {DecisionTime, MaxAge, MaxLegGap, MaxEntered} \subseteq Nat
  /\ Frictions \subseteq Nat /\ LongPrices \cup ShortPrices \subseteq Nat \ {0}
  /\ \A s \in Sessions : s.open <= s.day * DayLen + DecisionTime /\ FilledAt(s.day) < s.close

\* The downloaded sessions hold every exit: the stop comes at the first
\* observation after the last close it counts, and may fill a session later.
ASSUME WindowAssumption == PathSessions >= SessionStop + 2

\* There is something to replay, and what it measured and traded are numbers.
ASSUME InputAssumption ==
  /\ Sessions # {}
  /\ \A r \in Readings : r.separation \in Int
  /\ \A chain \in Chains : \A q \in chain : q.fill \in Int

VARIABLES
  stage,    \* sessions, walk, portfolio or done
  day,      \* the session being replayed
  entries,  \* the qualifying sessions, each with its entry and its trades
  moment,   \* the observation the walk has reached
  legs,     \* the newest bar each leg traded in: its end and its price
  books     \* the portfolio of each arm and cost case

vars == <<stage, day, entries, moment, legs, books>>

Days == {s.day : s \in Sessions}

----------------------------------------------------------------------------
(* Which bucket a session falls in.                                         *)

\* Mutant: the counterfactual loses every opposing signal.
WithoutBreadthNorOthers(signals) == signals \ Contradictions(signals, "bullish")

\* The signals without the breadth that opposes a bullish structure.
WithoutBreadth(signals) ==
  signals \ {s \in Contradictions(signals, "bullish") : s.family = "participation"}

\* Three runs of the live classifier: as it was, without the opposing breadth, and
\* without anything opposing.
Attribute(signals, price) ==
  LET structure == {s \in signals : s.family = "structure" /\ s.direction # "neutral"}
      anchor == Strongest(structure)
      opposing == Contradictions(signals, anchor.direction)
  IN IF structure = {} \/ anchor.strength < MinStructure THEN "no_setup"
     ELSE IF anchor.direction # "bullish" THEN "out_of_scope"
     ELSE IF Classify(signals, price) # NoSetup THEN "permitted"
     ELSE IF opposing = {} THEN "no_setup"
     ELSE IF Classify(WithoutBreadth(signals), price) # NoSetup THEN "breadth_vetoed"
     ELSE IF Classify(signals \ opposing, price) # NoSetup THEN "other_vetoes"
     ELSE "no_setup"

\* The last session the decision could have read.
Completed(d) == Max({o \in Days : o < d})

\* No session before it, or no at-the-money reading, and the row says nothing more.
Bucket(d, reading) ==
  IF {o \in Days : o < d} = {} \/ reading.iv < 0 THEN "unmeasurable"
  ELSE Attribute(BuildSignals(reading), CloseOf[Completed(d)])

----------------------------------------------------------------------------
(* The entry of a qualifying session. A contract of a past chain has its     *)
(* type, days to expiry, strike and delta, whether a volatility could be     *)
(* solved for, the price of each bar before the decision, and of the bar     *)
(* after it; a price of 0 is a bar without a trade.                          *)

Priced(chain) ==
  {q \in chain : q.solved /\ q.dte \in 10..60 /\ \E i \in DOMAIN q.prints : q.prints[i] > 0}

LastBar(q) == Max({i \in DOMAIN q.prints : q.prints[i] > 0})

\* K, and at least a cent. The code keeps the fraction of a cent, the model rounds it:
\* it moves a quote an entry is chosen and approved on by half a cent, and no walk's debit.
HalfWidth(price) == Max({1, HalfEven(price * 6224, 1000000)})

\* A quote around the last price that traded before the decision.
SyntheticQuote(q) ==
  LET price == q.prints[LastBar(q)] IN
  [contract |-> q.contract, type |-> q.type, dte |-> q.dte, strike |-> q.strike,
   bid |-> price - HalfWidth(price), ask |-> price + HalfWidth(price), delta |-> q.delta]

NoTrade ==
  [status |-> "open", trigger |-> "none", triggeredAt |-> 0, exitedAt |-> 0, held |-> 0,
   result |-> 0]

Enters(d, signals, group, chain) ==
  LET price == CloseOf[Completed(d)]
      setup == Classify(WithoutBreadth(signals), price)
      quotes == {SyntheticQuote(q) : q \in {x \in Priced(chain) : x.type = "call"}}
      thesis == Baseline(signals, setup)
      spread == Select(quotes, price, thesis)
      long == Quote(chain, spread.long)
      short == Quote(chain, spread.short)
      account == [equity |-> StartEquity, power |-> StartEquity]
      entry == [day |-> d, group |-> group, signals |-> signals, status |-> "no_chain",
                estimate |-> 0, fill |-> 0, width |-> 0, expiry |-> 0, level |-> setup.level,
                trades |-> [f \in Frictions |-> NoTrade]]
      chosen == [entry EXCEPT !.estimate = spread.debit, !.width = short.strike - long.strike,
                              !.expiry = d + long.dte]
  IN IF chain = {} THEN entry
     ELSE IF spread = NoSpread THEN [entry EXCEPT !.status = "no_pair"]
     ELSE IF Size(LastBar(long) - LastBar(short)) * Bar > MaxLegGap
       THEN [chosen EXCEPT !.status = "not_synchronized"]
     ELSE IF ~Approves(quotes, account, setup, thesis, spread)
       THEN [chosen EXCEPT !.status = "risk_refused"]
     ELSE IF long.fill = 0 \/ short.fill = 0 THEN [chosen EXCEPT !.status = "unfilled"]
     ELSE [chosen EXCEPT !.status = "entered", !.fill = long.fill - short.fill]

----------------------------------------------------------------------------
(* The walk.                                                                *)

\* Mutant: the window ends with the last close the session stop counts.
WindowEndShort(d) ==
  Max({o \in Days : d <= o /\ Cardinality({x \in Days : d <= x /\ x <= o}) <= SessionStop})

\* The last session downloaded for an entry, or the last there is.
WindowEnd(d) ==
  Max({o \in Days : d <= o /\ Cardinality({x \in Days : d <= x /\ x <= o}) <= PathSessions})

\* The ends of the regular bars after the fill.
Observations(d) ==
  UNION {LET from == IF s.day = d THEN FilledAt(d) ELSE s.open IN
         {m \in (from + 1)..s.close : (m - from) % Bar = 0} :
           s \in {x \in Sessions : d <= x.day /\ x.day <= WindowEnd(d)}}

NoBars == [long |-> [end |-> 0, price |-> 0], short |-> [end |-> 0, price |-> 0]]

\* A leg that did not trade, at a price of 0, keeps the bar it last traded in.
Newest(bars, m, long, short) ==
  [long |-> IF long = 0 THEN bars.long ELSE [end |-> m, price |-> long],
   short |-> IF short = 0 THEN bars.short ELSE [end |-> m, price |-> short]]

\* Both legs' bars are recent, and close to each other.
Measurable(bars, m) ==
  /\ bars.long.price > 0 /\ bars.short.price > 0
  /\ m - bars.long.end <= MaxAge /\ m - bars.short.end <= MaxAge
  /\ Size(bars.long.end - bars.short.end) <= MaxLegGap

\* Both legs traded in the very bar.
BothTraded(bars, m) == bars.long.end = m /\ bars.short.end = m

Debit(e, f) == e.fill + f

\* Mutant: the mark is credited what the exit will cost.
MarkCredited(bars, f) == bars.long.price - bars.short.price + f

Mark(bars, f) == bars.long.price - bars.short.price - f

\* The last close is the one before the session of the observation; an observation
\* at a close has not counted it.
Seen(e, f, bars, m) ==
  [direction |-> "bullish", debit |-> Debit(e, f), width |-> e.width,
   dte |-> e.expiry - DayOf(m), price |-> CloseOf[Completed(DayOf(m))],
   source |-> "completed_daily_close",
   rule |-> [direction |-> "bullish", level |-> e.level, source |-> "completed_daily_close"],
   readable |-> Measurable(bars, m), value |-> IF Measurable(bars, m) THEN Mark(bars, f) ELSE 0,
   sessions |-> CompletedSessionsBetween(FilledAt(e.day), m - 1)]

\* One observation of one trade: it may be told to exit, or, told before, exit if
\* both legs traded.
Observed(e, f, bars, m) ==
  LET t == e.trades[f]
      x == Seen(e, f, bars, m)
      trigger == EvaluateExit(x)
  IN IF t.status = "open" /\ ShouldClose(trigger)
     THEN [t EXCEPT !.status = "triggered", !.trigger = trigger, !.triggeredAt = m,
                    !.held = x.sessions]
     ELSE IF t.status = "triggered" /\ BothTraded(bars, m)
     THEN [t EXCEPT !.status = "closed", !.exitedAt = m,
                    !.result = (Mark(bars, f) - Debit(e, f)) * Multiplier]
     ELSE t

\* The bars are over.
Unresolved(t) ==
  IF t.status = "open" THEN [t EXCEPT !.status = "no_trigger"]
  ELSE IF t.status = "triggered" THEN [t EXCEPT !.status = "no_exit_fill"] ELSE t

----------------------------------------------------------------------------
(* The portfolios.                                                          *)

Arms == {"baseline", "without_veto"}

Allowed(arm) == IF arm = "baseline" THEN {"permitted"} ELSE {"permitted", "breadth_vetoed"}

NewBook ==
  [equity |-> StartEquity, peak |-> StartEquity, fall |-> 0, busyUntil |-> -1, traded |-> {}]

\* The session a position is out of the way: its exit's, or the end of its window.
EndOf(e, f) ==
  IF e.trades[f].status = "closed" THEN DayOf(e.trades[f].exitedAt) ELSE WindowEnd(e.day)

\* An exit that was not seen costs the whole debit.
ResultOf(e, f) ==
  IF e.trades[f].status = "closed" THEN e.trades[f].result ELSE -Debit(e, f) * Multiplier

\* Mutant: a position that ends in a session is out of the way in that session.
FreeSameDay(book, e) == book.busyUntil <= e.day

Free(book, e) == book.busyUntil < e.day

\* The budget is of the equity as it has become.
Affordable(book, e) == e.estimate * Multiplier <= RiskBudget([equity |-> book.equity, power |-> 0])

Booked(arm, f, book, e) ==
  LET equity == book.equity + ResultOf(e, f)
      peak == Max({book.peak, equity})
  IN IF e.group \in Allowed(arm) /\ Free(book, e) /\ e.status = "entered" /\ Affordable(book, e)
     THEN [equity |-> equity, peak |-> peak, fall |-> Max({book.fall, peak - equity}),
           busyUntil |-> EndOf(e, f), traded |-> book.traded \cup {e.day}]
     ELSE book

----------------------------------------------------------------------------
(* The study.                                                               *)

NextDay ==
  IF \E d \in Days : d > day
  THEN day' = Min({d \in Days : d > day}) /\ stage' = "sessions"
  ELSE day' = Min(Days) /\ stage' = "portfolio"

\* A session that does not qualify has no entry.
PassesOver ==
  /\ stage = "sessions"
  /\ \E reading \in Readings : Bucket(day, reading) \notin Allowed("without_veto")
  /\ NextDay
  /\ UNCHANGED <<entries, moment, legs, books>>

Entered == {i \in DOMAIN entries : entries[i].status = "entered"}

Selects ==
  /\ stage = "sessions"
  /\ \E reading \in Readings, chain \in Chains :
       LET bucket == Bucket(day, reading)
           entry == Enters(day, BuildSignals(reading), bucket, chain)
       IN /\ bucket \in Allowed("without_veto")
          /\ entries' = Append(entries, entry)
          /\ IF entry.status = "entered"
             THEN /\ Cardinality(Entered) < MaxEntered
                  /\ stage' = "walk" /\ moment' = FilledAt(day) /\ UNCHANGED day
             ELSE NextDay /\ UNCHANGED moment
  /\ UNCHANGED <<legs, books>>

Latest == entries[Len(entries)]

SetTrades(trades) == entries' = [entries EXCEPT ![Len(entries)].trades = trades]

Walking == \E f \in Frictions : Latest.trades[f].status \in {"open", "triggered"}

Ahead == {m \in Observations(Latest.day) : m > moment}

\* The next bar.
Steps ==
  /\ stage = "walk" /\ Walking /\ Ahead # {}
  /\ moment' = Min(Ahead)
  /\ \E long \in LongPrices \cup {0}, short \in ShortPrices \cup {0} :
       legs' = Newest(legs, moment', long, short)
  /\ SetTrades([f \in Frictions |-> Observed(Latest, f, legs', moment')])
  /\ UNCHANGED <<stage, day, books>>

\* Every cost case has its exit, or the bars are over, or were never downloaded.
WalkEnds ==
  /\ stage = "walk"
  /\ \/ ~Walking /\ UNCHANGED entries
     \/ Walking /\ Ahead = {}
        /\ SetTrades([f \in Frictions |-> Unresolved(Latest.trades[f])])
     \/ moment = FilledAt(day)
        /\ SetTrades([f \in Frictions |-> [NoTrade EXCEPT !.status = "no_path"]])
  /\ NextDay
  /\ legs' = NoBars /\ moment' = 0
  /\ UNCHANGED books

\* The sessions again, in order, for every arm and cost case.
Books ==
  /\ stage = "portfolio"
  /\ books' = [arm \in Arms |-> [f \in Frictions |->
       IF \E i \in DOMAIN entries : entries[i].day = day
       THEN Booked(arm, f, books[arm][f], CHOOSE e \in Range(entries) : e.day = day)
       ELSE books[arm][f]]]
  /\ IF \E d \in Days : d > day
     THEN day' = Min({d \in Days : d > day}) /\ UNCHANGED stage
     ELSE stage' = "done" /\ UNCHANGED day
  /\ UNCHANGED <<entries, moment, legs>>

Init ==
  /\ stage = "sessions" /\ day = Min(Days) /\ entries = <<>>
  /\ moment = 0 /\ legs = NoBars
  /\ books = [arm \in Arms |-> [f \in Frictions |-> NewBook]]

Next == PassesOver \/ Selects \/ Steps \/ WalkEnds \/ Books

Spec == Init /\ [][Next]_vars

----------------------------------------------------------------------------
(* Properties.                                                              *)

\* What the study calls vetoed by breadth is vetoed by nothing else: it has its
\* confirmation, and every signal against it is of breadth; a permitted session
\* has none against it.
VetoIsBreadthAlone ==
  \A e \in Range(entries) :
    LET against == Contradictions(e.signals, "bullish") IN
    /\ e.group = "breadth_vetoed" <=> against # {}
    /\ \A s \in against : s.family = "participation"
    /\ Confirmations(e.signals, "bullish") # {}

\* In no arm and no cost case is a position opened before the session after the
\* exit of every earlier one, or after its window when no exit was seen.
OnePositionAtATime ==
  \A arm \in Arms, f \in Frictions, e, o \in Range(entries) :
    ({e.day, o.day} \subseteq books[arm][f].traded /\ e.day < o.day) => EndOf(e, f) < o.day

\* The downloaded sessions hold every trigger: where there are sessions enough, no
\* walk ends without one, none comes later than the first look past the session
\* stop, and no exit is in the bar that triggered it.
TriggersInWindow ==
  \A e \in Range(entries), f \in Frictions :
    LET t == e.trades[f] IN
    /\ t.held <= SessionStop
    /\ t.status = "no_trigger" => Cardinality({d \in Days : e.day < d}) < SessionStop
    /\ t.status = "closed" => t.triggeredAt < t.exitedAt

\* A case that pays more each way is stopped no later: where a cheaper one hit its
\* stop, a dearer one has had its trigger.
DearerStopsFirst ==
  \A e \in Range(entries), f, g \in Frictions :
    (f < g /\ e.trades[f].trigger = "stop_loss") =>
      /\ e.trades[g].trigger # "none"
      /\ e.trades[g].triggeredAt <= e.trades[f].triggeredAt
=============================================================================

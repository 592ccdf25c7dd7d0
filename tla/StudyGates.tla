----------------------------- MODULE StudyGates -----------------------------
(***************************************************************************)
(* The studies that run the live gates over history, as operators: the     *)
(* structure gate and its variations (evidence.py, gate_study.py), the     *)
(* count of what breadth could veto (veto_study.py, veto_outcomes.py), the *)
(* model against the baseline (ablation.py, replay.py), and the sweep of   *)
(* one constant at a time (sensitivity.py). Prices are in cents.           *)
(***************************************************************************)
EXTENDS DecisionGates, Sequences

MinBars == 70      \* MIN_BARS_REQUIRED
LookbackDays == 400

----------------------------------------------------------------------------
(* The structure gate. A window is what a session's decision would read: how *)
(* many bars, the two averages of their closes (0 when there are too few),   *)
(* the last close, and the lowest low and highest high of the last five bars. *)

HasAverages(w) == w.fast > 0 /\ w.slow > 0

\* The separation of the averages is at least 0.2 per cent of the slow one, either way.
Rising(w) == 1000 * (w.fast - w.slow) >= 2 * w.slow
Falling(w) == 1000 * (w.slow - w.fast) >= 2 * w.slow

\* Price came back to within 1 per cent of the fast average.
CameDown(w) == 100 * w.low <= 101 * w.fast
CameUp(w) == 100 * w.high >= 99 * w.fast

\* The direction build_signals takes, before it looks at anything else.
LiveDirection(w) ==
  IF w.bars < MinBars \/ ~HasAverages(w) THEN "neutral"
  ELSE IF Rising(w) /\ w.close > w.fast THEN IF CameDown(w) THEN "bullish" ELSE "neutral"
  ELSE IF Falling(w) /\ w.close < w.fast THEN IF CameUp(w) THEN "bearish" ELSE "neutral"
  ELSE "neutral"

\* The diagnostic that says which gate declined.
StructureReading(w) ==
  LET qualifies == (Rising(w) /\ w.close > w.fast) \/ (Falling(w) /\ w.close < w.fast)
      touched == IF w.fast > w.slow THEN CameDown(w) ELSE CameUp(w)
  IN IF w.bars < MinBars THEN "insufficient_bars"
     ELSE IF ~HasAverages(w) THEN "ema_unavailable"
     ELSE IF ~qualifies THEN "separation_or_side"
     ELSE IF touched THEN "passed" ELSE "no_retest"

\* The shipped rule, as the study asks it.
Shipped == [side |-> TRUE, tolerance |-> 0]

\* The study's variations: how far beyond the average a close may sit, in
\* ten-thousandths of it, or no side at all.
Variations ==
  {[side |-> TRUE, tolerance |-> t] : t \in {25, 50, 100}}
    \cup {[side |-> FALSE, tolerance |-> 0]}

\* The study's own copy of the gate, with the side requirement adjustable.
Verdict(w, rule) ==
  LET room == w.fast * rule.tolerance
      bullish == Rising(w) /\ (rule.side => 10000 * w.close > 10000 * w.fast - room)
      bearish == Falling(w) /\ (rule.side => 10000 * w.close < 10000 * w.fast + room)
      touched == IF w.fast > w.slow THEN CameDown(w) ELSE CameUp(w)
  IN IF ~HasAverages(w) THEN "ema_unavailable"
     ELSE IF ~(bullish \/ bearish) THEN "separation_or_side"
     ELSE IF touched THEN "passed" ELSE "no_retest"

\* The bars of a cut: all up to it that are less than 400 days older than it.
WindowBars(dayOf, cut) == {i \in 1..cut : dayOf[i] > dayOf[cut] - LookbackDays}

\* The sessions whose window has enough bars to ask.
Windows(dayOf) == {cut \in DOMAIN dayOf : Cardinality(WindowBars(dayOf, cut)) >= MinBars}

\* How many views, of a sequence of windows, each gate answers for.
Census(views, rule) ==
  [gate \in {"ema_unavailable", "separation_or_side", "no_retest", "passed"} |->
     Cardinality({i \in DOMAIN views : Verdict(views[i], rule) = gate})]

\* A refusal run is a longest stretch of sessions the shipped rule refused.
RefusalRuns(views) ==
  LET refused(i) == i \in DOMAIN views /\ Verdict(views[i], Shipped) # "passed"
  IN {run \in (DOMAIN views) \X (DOMAIN views) :
        /\ run[1] <= run[2] /\ \A i \in run[1]..run[2] : refused(i)
        /\ ~refused(run[1] - 1) /\ ~refused(run[2] + 1)}

GateReport(views) ==
  [baseline |-> Census(views, Shipped),
   separated |-> Cardinality({i \in DOMAIN views :
                   /\ Verdict(views[i], Shipped) = "separation_or_side"
                   /\ Rising(views[i]) \/ Falling(views[i])}),
   runs |-> Cardinality(RefusalRuns(views)),
   long |-> Cardinality({run \in RefusalRuns(views) : run[2] - run[1] >= 4}),
   variations |-> [rule \in Variations |-> Census(views, rule)]]

----------------------------------------------------------------------------
(* What breadth could veto. A row is the place in the series of the session  *)
(* that completed and the signals of its window, built without a volatility. *)

VetoRow(index, reading) ==
  [index |-> index, signals |-> BuildSignals([reading EXCEPT !.iv = -1])]

StrongStructure(signals, direction) ==
  \E s \in signals : s.family = "structure" /\ s.direction = direction /\ s.strength >= MinStructure

OpposingBreadth(signals) ==
  {s \in signals : s.family = "participation" /\ s.direction = "bearish"}

OtherVeto(signals) ==
  \E s \in signals : /\ s.direction = "bearish" /\ s.family # "participation"
                     /\ s.strength >= ContradictionVeto

Group(signals) ==
  IF ~StrongStructure(signals, "bullish") THEN "none"
  ELSE IF \E s \in OpposingBreadth(signals) : s.strength >= ContradictionVeto
    THEN "at_or_above_line"
  ELSE "below_line"

ClusterGap == 3
MinSessions == 30
MinClusters == 10

\* Where a cluster begins: nothing of the group in the two sessions before it.
ClusterHeads(indexes) == {i \in indexes : \A j \in indexes : j < i => i - j >= ClusterGap}

\* Every stretch of consecutive sessions, longest or not.
ConsecutiveRuns(indexes) == {run \in indexes \X indexes : run[1]..run[2] \subseteq indexes}

LongestRun(indexes) ==
  CHOOSE n \in 0..Cardinality(indexes) :
    /\ \A run \in ConsecutiveRuns(indexes) : run[2] - run[1] + 1 <= n
    /\ n > 0 => \E run \in ConsecutiveRuns(indexes) : run[2] - run[1] + 1 = n

VetoReport(rows) ==
  LET members(group) == {row \in rows : Group(row.signals) = group}
      indexes(group) == {row.index : row \in members(group)}
      count == [group \in {"below_line", "at_or_above_line"} |->
                  [sessions |-> Cardinality(indexes(group)),
                   clusters |-> Cardinality(ClusterHeads(indexes(group))),
                   longest |-> LongestRun(indexes(group)),
                   others |-> Cardinality({row \in members(group) : OtherVeto(row.signals)})]]
  IN [groups |-> count,
      passes |-> \A group \in DOMAIN count : /\ count[group].sessions >= MinSessions
                                            /\ count[group].clusters >= MinClusters]

\* The stored days the replay does not reproduce. A day is compared with the last row
\* before it, and the volatility the count does not have is left out of what was stored.
Disagreements(rows, stored) ==
  {day \in DOMAIN stored :
     LET earlier == {row \in rows : row.index < day}
         expected == {s \in stored[day] : s.family # "volatility"}
     IN ~\E row \in earlier : /\ \A other \in earlier : other.index <= row.index
                              /\ row.signals = expected}

\* The closes after the one a row was decided on, and whether all three held its level.
\* Fewer than three and it is not yet judged.
VetoOutcome(closes, before, level) ==
  LET forward == {before + h : h \in 1..3} \cap DOMAIN closes
  IN [moves |-> [i \in forward |-> closes[i] - closes[before]],
      breached |-> IF Cardinality(forward) < 3 THEN "unknown"
                   ELSE IF \E i \in forward : closes[i] < level THEN "yes" ELSE "no"]

----------------------------------------------------------------------------
(* A frozen case, replayed. It has its reading, chain, price, account and    *)
(* symbol; the arms differ in who writes the thesis, and in nothing else.    *)

Undecided ==
  [action |-> "NO_TRADE", reason |-> "no_qualified_setup", direction |-> "neutral",
   spread |-> NoSpread]

Signals(case) == BuildSignals(case.reading)
Setup(case) == Classify(Signals(case), case.price)

\* A usable snapshot of a paper account. Without a setup no thesis is asked for.
Workflow(case, thesis) ==
  IF Setup(case) = NoSetup THEN Undecided
  ELSE Conclude(Signals(case), case.chain, case.price, case.account, Setup(case), thesis)

BaselineThesis(case) == Baseline(Signals(case), Setup(case))
ModelThesis(case, reply) == Synthesize(Signals(case), Setup(case), reply)

BothArms(case, reply) ==
  [baseline |-> Workflow(case, BaselineThesis(case)),
   model |-> Workflow(case, ModelThesis(case, reply)),
   abstains |-> Setup(case) # NoSetup /\ ModelThesis(case, reply).direction = "neutral",
   counters |-> Setup(case) # NoSetup /\ ModelThesis(case, reply).counter # {}]

\* What the report counts, over a sequence of cases and the model's reply to each.
AblationReport(cases, replies) ==
  LET arms == [i \in DOMAIN cases |-> BothArms(cases[i], replies[i])]
      changed == {i \in DOMAIN cases : arms[i].baseline.action # arms[i].model.action}
  IN [compared |-> Cardinality(DOMAIN cases),
      changed |-> Cardinality(changed),
      agreed |-> Cardinality(DOMAIN cases \ changed),
      abstained |-> Cardinality({i \in DOMAIN cases : arms[i].abstains}),
      countered |-> Cardinality({i \in DOMAIN cases : arms[i].counters})]

\* Replaying cases in turn records each, and stops at the first the allowlist refuses.
ReplayPaths(cases, theses, allowed) ==
  LET refused == {i \in DOMAIN cases : cases[i].symbol \notin allowed}
      done == {i \in DOMAIN cases : \A r \in refused : i < r}
  IN [recorded |-> [i \in done |-> Workflow(cases[i], theses[i])],
      health |-> IF refused = {} THEN "ok" ELSE "failed"]

----------------------------------------------------------------------------
(* The sweep. The constants are the modules' globals, by name. A threshold   *)
(* names the one it moves, which element of it if that is a pair (0 if not), *)
(* the value it has now, and whether MIN_BARS_REQUIRED is derived from it.   *)

Whole(attribute) == [attribute |-> attribute, element |-> 0, companion |-> FALSE]

\* Swept against the signals of past sessions. MIN_BARS_REQUIRED was computed from two
\* of them, once, when the module was imported.
StructureThresholds ==
  {Whole(name) : name \in {"MIN_EMA_SEPARATION", "RETEST_TOLERANCE",
     "RETEST_LOOKBACK_SESSIONS", "FAST_EMA", "PARTICIPATION_SESSIONS",
     "MIN_PARTICIPATION_DIVERGENCE", "MOMENTUM_SHORT_SESSIONS"}}
    \cup {[Whole(name) EXCEPT !.companion = TRUE] : name \in {"SLOW_EMA", "MOMENTUM_LONG_SESSIONS"}}

\* Swept against the actions on frozen snapshots.
DecisionThresholds ==
  {Whole(name) : name \in {"MIN_STRUCTURE_STRENGTH", "MIN_CONFIRMATION_STRENGTH",
     "CONTRADICTION_VETO_STRENGTH", "MIN_DTE", "MAX_DTE", "MAX_RELATIVE_QUOTE_SPREAD",
     "MAX_DEBIT_TO_WIDTH", "MIN_WIDTH_FRACTION_OF_SPOT", "RISK_FRACTION_OF_EQUITY",
     "EXECUTION_ALLOWANCE_FRACTION"}}
    \cup {[Whole(band) EXCEPT !.element = end] :
             band \in {"LONG_DELTA_BAND", "SHORT_DELTA_BAND"}, end \in {1, 2}}

Install(constants, threshold, value) ==
  LET moved ==
        [constants EXCEPT ![threshold.attribute] =
           IF threshold.element = 0 THEN value ELSE [@ EXCEPT ![threshold.element] = value]]
  IN IF threshold.companion
     THEN [moved EXCEPT !["MIN_BARS_REQUIRED"] =
             moved["SLOW_EMA"] + moved["MOMENTUM_LONG_SESSIONS"]]
     ELSE moved

\* What a threshold may touch, which is what is kept before and put back after.
Touched(threshold) ==
  {threshold.attribute} \cup (IF threshold.companion THEN {"MIN_BARS_REQUIRED"} ELSE {})

SnapshotState(constants, threshold) == [name \in Touched(threshold) |-> constants[name]]

Restore(constants, state) ==
  [name \in DOMAIN constants |-> IF name \in DOMAIN state THEN state[name] ELSE constants[name]]

\* The constants once a value has been tried.
AfterTrying(constants, threshold, value) ==
  Restore(Install(constants, threshold, value), SnapshotState(constants, threshold))

\* Every value is tried on what the trials before it left.
Sweep(constants, threshold, values, evaluate) ==
  LET left[n \in 0..Len(values)] ==
        IF n = 0 THEN AfterTrying(constants, threshold, threshold.current)
        ELSE AfterTrying(left[n - 1], threshold, values[n])
  IN [baseline |-> evaluate[Install(constants, threshold, threshold.current)],
      values |-> values,
      answers |-> [n \in 1..Len(values) |-> evaluate[Install(left[n - 1], threshold, values[n])]]]

Flips(result, n) == {i \in DOMAIN result.baseline : result.answers[n][i] # result.baseline[i]}

\* More than a tenth of the answers change for a move of at most a tenth.
Fragile(result, current) ==
  \E n \in DOMAIN result.values :
    /\ 9 * current <= 10 * result.values[n] /\ 10 * result.values[n] <= 11 * current
    /\ 10 * Cardinality(Flips(result, n)) > Len(result.baseline)

Inert(result) == \A n \in DOMAIN result.values : result.answers[n] = result.baseline

\* Going out from the value it has now, the values before the first that changes an answer.
Stable(result, current) ==
  {result.values[n] : n \in {k \in DOMAIN result.values :
     \A m \in DOMAIN result.values :
       \/ current <= result.values[m] /\ result.values[m] <= result.values[k]
       \/ result.values[k] <= result.values[m] /\ result.values[m] <= current
       => result.answers[m] = result.baseline}}
=============================================================================

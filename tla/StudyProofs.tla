---------------------------- MODULE StudyProofs ----------------------------
(***************************************************************************)
(* What the studies rest on, for every window, reading and reply: their    *)
(* copy of the gate is the gate, their counts bound what they say they     *)
(* bound, the model can only abstain, and a sweep leaves nothing behind.   *)
(* Then the backtest of the breadth veto, for every history: what it calls *)
(* a veto, when its walks trigger, and how its portfolios take positions.  *)
(* Last the gate of the legacy lab.                                        *)
(***************************************************************************)
EXTENDS VetoBacktest, StudyGates, LabExperiment, FiniteSetTheorems, WellFoundedInduction, TLAPS

IsWindow(w) ==
  /\ w.bars \in Nat /\ w.fast \in Nat /\ w.slow \in Nat
  /\ w.close \in Nat /\ w.low \in Nat /\ w.high \in Nat

\* The study's copy of the gate answers as the diagnostic of the live system does, and
\* that diagnostic says "passed" exactly when build_signals takes a direction.
\* (gate_study.py: "a study whose gate has drifted from the real one measures nothing".)
THEOREM BaselineIsLive ==
  ASSUME NEW w, IsWindow(w)
  PROVE  /\ w.bars >= MinBars => Verdict(w, Shipped) = StructureReading(w)
         /\ StructureReading(w) = "passed" <=> LiveDirection(w) # "neutral"
<1>1. w.bars >= MinBars => Verdict(w, Shipped) = StructureReading(w)
  BY SMT DEF IsWindow, MinBars, Verdict, Shipped, StructureReading, HasAverages, Rising,
             Falling, CameDown, CameUp
<1>2. StructureReading(w) = "passed" <=> LiveDirection(w) # "neutral"
  BY SMT DEF IsWindow, MinBars, LiveDirection, StructureReading, HasAverages, Rising,
             Falling, CameDown, CameUp
<1> QED BY <1>1, <1>2

\* No variation of the side requirement refuses a session the shipped rule passes, so the
\* variations of the report can only add to its count.
THEOREM VariationsWiden ==
  ASSUME NEW w, IsWindow(w), NEW rule \in Variations, Verdict(w, Shipped) = "passed"
  PROVE  Verdict(w, rule) = "passed"
<1>1. rule.tolerance \in Nat /\ rule.side \in BOOLEAN
  <2>1. CASE rule \in {[side |-> TRUE, tolerance |-> t] : t \in {25, 50, 100}}
    <3>1. PICK t \in {25, 50, 100} : rule = [side |-> TRUE, tolerance |-> t]
      BY <2>1
    <3> QED BY <3>1
  <2>2. CASE rule = [side |-> FALSE, tolerance |-> 0]
    BY <2>2
  <2> QED BY <2>1, <2>2 DEF Variations
<1>2. w.fast * rule.tolerance \in Nat
  BY <1>1, SMT DEF IsWindow
<1> QED
  BY <1>1, <1>2, SMT DEF IsWindow, Verdict, Shipped, HasAverages, Rising, Falling, CameDown, CameUp

----------------------------------------------------------------------------
(* What the count without a volatility bounds.                              *)

IsReading(r) ==
  /\ r = [separation |-> r.separation, side |-> r.side, retest |-> r.retest, iv |-> r.iv,
          breadth |-> r.breadth, momentum |-> r.momentum]
  /\ r.separation \in Int /\ r.iv \in Int /\ r.breadth \in Int /\ r.momentum \in Int

\* Half to even is a whole number.
LEMMA HalfEvenInt == ASSUME NEW n \in Int, NEW d \in Nat \ {0} PROVE HalfEven(n, d) \in Int
BY SMT DEF HalfEven

LEMMA Strengths ==
  ASSUME NEW r, IsReading(r)
  PROVE  \A s \in BuildSignals(r) :
           /\ s.strength \in Int
           /\ s.family \in {"structure", "volatility", "participation", "momentum"}
           /\ s.direction \in {Trend(r), Opposite(Trend(r)), "bullish", "bearish"}
<1>1. Size(r.separation) \in Int /\ Size(r.breadth) \in Int /\ Size(r.momentum) \in Int
  BY DEF IsReading, Size
<1>2. /\ HalfEven(Size(r.separation) * 8, 100) \in Int
      /\ HalfEven(Size(r.breadth) * 25, 100) \in Int
      /\ HalfEven(Size(r.momentum) * 6, 100) \in Int
  BY <1>1, HalfEvenInt
<1> QED
  BY <1>2 DEF IsReading, BuildSignals, VolatilitySignals, BreadthSignals, MomentumSignals,
     Sig, Bounded

\* A structure of a reading is the one it has, and it points along the trend.
LEMMA OneStructure ==
  ASSUME NEW r, IsReading(r), NEW s \in BuildSignals(r), s.family = "structure"
  PROVE  /\ s = Sig("structure", Trend(r), 55 + HalfEven(Size(r.separation) * 8, 100))
         /\ s.direction = Trend(r)
BY DEF BuildSignals, VolatilitySignals, BreadthSignals, MomentumSignals, Sig

\* What a setup is: its direction is the trend's, the structure is strong enough, and
\* nothing of the reading opposes it at the veto line.
LEMMA SetupMeans ==
  ASSUME NEW r, IsReading(r), NEW price, Classify(BuildSignals(r), price) # NoSetup
  PROVE  /\ Classify(BuildSignals(r), price).direction = Trend(r)
         /\ Structures(BuildSignals(r)) # {}
         /\ Contradictions(BuildSignals(r), Trend(r)) = {}
<1> DEFINE signals == BuildSignals(r)
           structures == Structures(signals)
           anchor == Strongest(structures)
<1>1. structures # {} /\ Contradictions(signals, anchor.direction) = {}
  BY DEF Classify
<1>2. Classify(signals, price).direction = anchor.direction
  BY DEF Classify
<1>3. PICK s \in structures : structures = {s} /\ s \in signals /\ s.family = "structure"
  BY <1>1, OneStructure DEF Structures
<1>4. s.strength * 10 + Rank(s) \in Int
  BY <1>3, Strengths DEF Rank
<1>5. anchor = s
  BY <1>3, <1>4 DEF Strongest
<1>6. anchor.direction = Trend(r)
  BY <1>3, <1>5, OneStructure
<1> QED BY <1>1, <1>2, <1>6

\* The count is an upper bound: whatever the volatility was, a session the whole rule
\* would take is one the count has below the line, never one it has at the line or
\* without a structure. (veto_study.py: supplying volatility "cannot add a qualifying one".)
THEOREM CountIsUpperBound ==
  ASSUME NEW r, IsReading(r), NEW price, NEW index,
         Classify(BuildSignals(r), price).direction = "bullish"
  PROVE  Group(VetoRow(index, r).signals) = "below_line"
<1> DEFINE unread == [r EXCEPT !.iv = -1]
           signals == BuildSignals(r)
           counted == BuildSignals(unread)
<1>1. Classify(signals, price) # NoSetup
  BY DEF NoSetup
<1>2. /\ Trend(r) = "bullish" /\ Structures(signals) # {}
      /\ Contradictions(signals, "bullish") = {}
  BY <1>1, SetupMeans
<1>3. counted = signals \ VolatilitySignals(r)
  <2>1. /\ unread.separation = r.separation /\ unread.side = r.side /\ unread.retest = r.retest
        /\ unread.breadth = r.breadth /\ unread.momentum = r.momentum /\ unread.iv = -1
    BY DEF IsReading
  <2>2. /\ Trend(unread) = Trend(r) /\ BreadthSignals(unread) = BreadthSignals(r)
        /\ MomentumSignals(unread) = MomentumSignals(r) /\ VolatilitySignals(unread) = {}
    BY <2>1, SMT DEF Trend, BreadthSignals, MomentumSignals, VolatilitySignals
  <2>3. \A s \in VolatilitySignals(r) : s.family = "volatility"
    BY DEF VolatilitySignals, Sig
  <2>4. \A s \in BreadthSignals(r) \cup MomentumSignals(r) : s.family # "volatility"
    BY DEF BreadthSignals, MomentumSignals, Sig
  <2> DEFINE structure == Sig("structure", Trend(r), 55 + HalfEven(Size(r.separation) * 8, 100))
  <2>5. structure.family # "volatility"
    BY DEF Sig
  <2>6. signals = {structure} \cup VolatilitySignals(r) \cup BreadthSignals(r) \cup MomentumSignals(r)
    BY <1>2 DEF BuildSignals
  <2>7. counted = {structure} \cup BreadthSignals(r) \cup MomentumSignals(r)
    BY <1>2, <2>1, <2>2 DEF BuildSignals
  <2> HIDE DEF structure, signals, counted
  <2> QED BY <2>3, <2>4, <2>5, <2>6, <2>7
<1>4. StrongStructure(counted, "bullish")
  <2>1. PICK s \in signals : s.family = "structure" /\ s.strength >= MinStructure
    BY <1>2 DEF Structures
  <2>2. s.direction = "bullish" /\ s \notin VolatilitySignals(r)
    BY <1>2, <2>1, OneStructure DEF VolatilitySignals, Sig
  <2> QED BY <1>3, <2>1, <2>2 DEF StrongStructure
<1>5. ~\E s \in OpposingBreadth(counted) : s.strength >= ContradictionVeto
  BY <1>2, <1>3 DEF Contradictions, OpposingBreadth, Opposite
<1> QED BY <1>4, <1>5 DEF Group, VetoRow

----------------------------------------------------------------------------
(* The two arms.                                                            *)

IsCase(case) == IsReading(case.reading)

\* Of up to three signals with whole strengths one is the strongest.
LEMMA StrongestOfThree ==
  ASSUME NEW a, NEW b, NEW c, NEW T \in SUBSET {a, b, c}, T # {},
         \A s \in T : s.strength * 10 + Rank(s) \in Int
  PROVE  Strongest(T) \in T
<1> DEFINE key(s) == s.strength * 10 + Rank(s)
<1>1. \A s \in T : key(s) \in Int
  OBVIOUS
<1>2. \E s \in T : \A o \in T : key(o) <= key(s)
  <2> HIDE DEF key
  <2>1. CASE c \notin T
    BY <1>1, <2>1, SMT
  <2>2. CASE T = {c}
    BY <1>1, <2>2, SMT
  <2>3. CASE c \in T /\ T # {c}
    <3>1. PICK s \in T \ {c} : \A o \in T \ {c} : key(o) <= key(s)
      BY <1>1, <2>3, SMT
    <3>2. key(c) <= key(s) \/ key(s) <= key(c)
      BY <1>1, <2>3, SMT
    <3> QED BY <1>1, <2>3, <3>1, <3>2, SMT
  <2> QED BY <2>1, <2>2, <2>3
<1> QED BY <1>2, Zenon DEF Strongest

LEMMA AtMostOneEach ==
  ASSUME NEW r, IsReading(r)
  PROVE  \E a, b, c : \A s \in BuildSignals(r) : s.family # "structure" => s \in {a, b, c}
<1>1. PICK a : VolatilitySignals(r) \subseteq {a}
  BY Zenon DEF VolatilitySignals
<1>2. PICK b : BreadthSignals(r) \subseteq {b}
  BY Zenon DEF BreadthSignals
<1>3. PICK c : MomentumSignals(r) \subseteq {c}
  BY Zenon DEF MomentumSignals
<1>4. \A s \in BuildSignals(r) :
        s.family # "structure" => s \in VolatilitySignals(r) \cup BreadthSignals(r) \cup MomentumSignals(r)
  BY DEF BuildSignals, Sig
<1> QED BY <1>1, <1>2, <1>3, <1>4

\* What a setup rests on are signals of its reading.
LEMMA EvidenceExists ==
  ASSUME NEW r, IsReading(r), NEW price
  PROVE  Classify(BuildSignals(r), price).evidence \subseteq Ids(BuildSignals(r))
<1> DEFINE signals == BuildSignals(r)
           setup == Classify(signals, price)
           anchor == Strongest(Structures(signals))
           confirmations == Confirmations(signals, anchor.direction)
           confirmation == Strongest(confirmations)
<1>1. CASE setup = NoSetup
  BY <1>1 DEF NoSetup
<1>2. CASE setup # NoSetup
  <2>1. /\ confirmations # {} /\ Structures(signals) # {}
        /\ setup.evidence = {anchor.family, confirmation.family}
    BY <1>2 DEF Classify
  <2>2. confirmations \subseteq signals /\ \A s \in confirmations : s.family # "structure"
    BY DEF Confirmations
  <2>3. PICK a, b, c : confirmations \in SUBSET {a, b, c}
    BY <2>2, AtMostOneEach
  <2>4. \A s \in signals : s.strength * 10 + Rank(s) \in Int
    BY Strengths DEF Rank
  <2>5. confirmation \in confirmations
    <3> HIDE DEF confirmations, signals
    <3>1. \A s \in confirmations : s.strength * 10 + Rank(s) \in Int
      BY <2>2, <2>4
    <3> QED BY <2>1, <2>3, <3>1, StrongestOfThree DEF confirmation
  <2>6. anchor \in Structures(signals)
    <3>1. PICK s \in Structures(signals) : Structures(signals) = {s} /\ s \in signals
      BY <2>1, OneStructure DEF Structures
    <3>2. s.strength * 10 + Rank(s) \in Int
      BY <2>4, <3>1
    <3> QED BY <3>1, <3>2 DEF Strongest
  <2> QED BY <2>1, <2>2, <2>5, <2>6 DEF Ids, Structures
<1> QED BY <1>1, <1>2

\* The model cannot change a decision except by abstaining: whatever it replies, its arm
\* either decides what the baseline decided, or is a NO_TRADE whose thesis is neutral.
\* (ablation.py: "Everything that carries authority is identical".)
THEOREM ModelOnlyAbstains ==
  ASSUME NEW case, IsCase(case), NEW reply
  PROVE  \/ BothArms(case, reply).model = BothArms(case, reply).baseline
         \/ BothArms(case, reply).abstains /\ BothArms(case, reply).model.action = "NO_TRADE"
<1> DEFINE signals == Signals(case)
           setup == Setup(case)
           ours == BaselineThesis(case)
           theirs == ModelThesis(case, reply)
<1>1. CASE setup = NoSetup
  BY <1>1 DEF BothArms, Workflow
<1>2. CASE setup # NoSetup /\ theirs.direction = "neutral"
  <2>1. Workflow(case, theirs).action = "NO_TRADE"
    BY <1>2 DEF Workflow, Conclude
  <2> QED BY <1>2, <2>1 DEF BothArms
<1>3. CASE setup # NoSetup /\ theirs.direction # "neutral"
  <2>1. /\ theirs.direction = setup.direction /\ ours.direction = setup.direction
        /\ theirs.level = setup.level /\ ours.level = setup.level
    BY <1>3 DEF ModelThesis, BaselineThesis, Synthesize, Baseline
  <2>2. theirs.evidence \cup theirs.counter \subseteq Ids(signals)
    BY <1>3 DEF ModelThesis, Synthesize
  <2>3. ours.evidence \cup ours.counter \subseteq Ids(signals)
    BY EvidenceExists DEF BaselineThesis, Baseline, IsCase, Setup, Signals, Ids
  <2>4. Select(case.chain, case.price, theirs) = Select(case.chain, case.price, ours)
    BY <2>1 DEF Select
  <2>5. \A spread : Approves(case.chain, case.account, setup, theirs, spread)
                    <=> Approves(case.chain, case.account, setup, ours, spread)
    BY <2>1 DEF Approves
  <2>6. Conclude(signals, case.chain, case.price, case.account, setup, theirs)
          = Conclude(signals, case.chain, case.price, case.account, setup, ours)
    <3> HIDE DEF ours, theirs, setup, signals
    <3> QED BY <2>1, <2>2, <2>3, <2>4, <2>5 DEF Conclude
  <2> QED BY <1>3, <2>6 DEF BothArms, Workflow
<1> QED BY <1>1, <1>2, <1>3

----------------------------------------------------------------------------
(* The sweep.                                                               *)

\* Trying a value leaves every constant as it was, the derived one and the other end of a
\* pair included, so each value is tried on the shipped constants.
\* (test_sensitivity.py: "A sweep that leaked state would silently corrupt every later test".)
THEOREM SweepRestores ==
  ASSUME NEW names, NEW values, NEW constants \in [names -> values],
         NEW threshold, threshold.attribute \in names,
         threshold.companion => "MIN_BARS_REQUIRED" \in names,
         NEW value
  PROVE  AfterTrying(constants, threshold, value) = constants
<1> DEFINE installed == Install(constants, threshold, value)
           state == SnapshotState(constants, threshold)
<1>1. DOMAIN installed = names
  BY DEF Install
<1>2. \A name \in names \ Touched(threshold) : installed[name] = constants[name]
  BY DEF Install, Touched
<1>3. DOMAIN state = Touched(threshold) /\ \A name \in Touched(threshold) : state[name] = constants[name]
  BY DEF SnapshotState
<1>4. AfterTrying(constants, threshold, value)
        = [name \in names |-> IF name \in Touched(threshold) THEN state[name] ELSE installed[name]]
  BY <1>1, <1>3 DEF AfterTrying, Restore
<1> HIDE DEF installed, state
<1> QED BY <1>2, <1>3, <1>4

Derived(constants) ==
  constants["MIN_BARS_REQUIRED"] = constants["SLOW_EMA"] + constants["MOMENTUM_LONG_SESSIONS"]

\* Whichever threshold is moved, the number of bars required is the one its two sources
\* give: none of the swept constants moves a source without it.
\* (sensitivity.py: else a sweep would "silently sweep two independent things at once".)
THEOREM SweepKeepsDerived ==
  ASSUME NEW names, NEW values, NEW constants \in [names -> values],
         {"MIN_BARS_REQUIRED", "SLOW_EMA", "MOMENTUM_LONG_SESSIONS"} \subseteq names,
         Derived(constants), NEW value,
         NEW threshold \in StructureThresholds \cup DecisionThresholds,
         threshold.attribute \in names
  PROVE  Derived(Install(constants, threshold, value))
<1>1. threshold.attribute # "MIN_BARS_REQUIRED"
  BY DEF StructureThresholds, DecisionThresholds, Whole
<1>2. threshold.attribute \in {"SLOW_EMA", "MOMENTUM_LONG_SESSIONS"} => threshold.companion
  BY DEF StructureThresholds, DecisionThresholds, Whole
<1>3. CASE threshold.companion
  BY <1>3 DEF Install, Derived
<1>4. CASE ~threshold.companion
  BY <1>1, <1>2, <1>4 DEF Install, Derived
<1> QED BY <1>3, <1>4

----------------------------------------------------------------------------
(* The backtest: days and moments.                                          *)

LEMMA LeastOf ==
  ASSUME NEW S, S \subseteq Nat, S # {}
  PROVE  Min(S) \in S /\ \A y \in S : Min(S) <= y
<1>1. PICK x \in S : \A y \in S : ~(<<y, x>> \in OpToRel(<, Nat))
  BY WFMin, NatLessThanWellFounded
<1>2. \A y \in S : ~(y < x)
  BY <1>1 DEF OpToRel
<1>3. \A y \in S : x <= y
  BY <1>2
<1> QED
  BY <1>3 DEF Min

\* A finite set of numbers has a greatest one: one with the fewest above it.
LEMMA GreatestOf ==
  ASSUME NEW S, S \subseteq Nat, S # {}, IsFiniteSet(S)
  PROVE  Max(S) \in S /\ \A y \in S : y <= Max(S)
<1> DEFINE Above(x) == {o \in S : x < o}
           Count == [x \in S |-> Cardinality(Above(x))]
           T == {Count[x] : x \in S}
<1>1. \A x \in S : IsFiniteSet(Above(x)) /\ Cardinality(Above(x)) \in Nat
  BY FS_Subset, FS_CardinalityType
<1>2. PICK m \in S : \A x \in S : Cardinality(Above(m)) <= Cardinality(Above(x))
  <2>1. \A x \in S : Count[x] = Cardinality(Above(x)) /\ Count[x] \in Nat
    BY <1>1
  <2> HIDE DEF Count, Above
  <2>2. T \subseteq Nat /\ T # {}
    BY <2>1
  <2>3. PICK n \in T : \A k \in T : n <= k
    <3> HIDE DEF T
    <3> QED
      BY <2>2, LeastOf
  <2>4. PICK m \in S : n = Count[m]
    OBVIOUS
  <2> QED
    BY <2>1, <2>3, <2>4
<1>3. ASSUME NEW o \in S, m < o PROVE FALSE
  <2>0. \A x \in S : x \in Nat /\ (o < x => m < x)
    BY <1>3
  <2>1. Above(o) \subseteq Above(m) /\ o \in Above(m) /\ o \notin Above(o)
    <3>1. ~(o < o)
      BY <2>0
    <3>2. \A x : x \in Above(o) => x \in Above(m)
      BY <2>0
    <3> QED
      BY <1>3, <3>1, <3>2
  <2>2. Cardinality(Above(o)) <= Cardinality(Above(m)) /\ Cardinality(Above(o)) # Cardinality(Above(m))
    BY <1>1, <2>1, FS_Subset
  <2> QED
    BY <1>1, <1>2, <2>2
<1>4. \A y \in S : m >= y
  BY <1>3
<1> QED
  BY <1>4 DEF Max

LEMMA DaysAre == Days \subseteq Nat /\ IsFiniteSet(Days) /\ Days # {}
<1>1. IsFiniteSet(Days)
  <2> DEFINE f == [s \in Sessions |-> s.day]
  <2>1. f \in Surjection(Sessions, Days)
    BY DEF Surjection, Days
  <2> HIDE DEF f
  <2> QED
    BY <2>1, FS_Surjection, CalendarAssumption
<1> QED
  BY <1>1, CalendarAssumption, InputAssumption DEF Days

LEMMA NextDayIs ==
  ASSUME day \in Days, NextDay
  PROVE  /\ day' \in Days /\ stage' \in {"sessions", "portfolio"}
         /\ stage' = "sessions" => day < day'
<1>1. CASE \E d \in Days : d > day
  <2>1. {d \in Days : d > day} \subseteq Nat /\ {d \in Days : d > day} # {}
    BY <1>1, DaysAre
  <2>2. Min({d \in Days : d > day}) \in {d \in Days : d > day}
    BY <2>1, LeastOf
  <2> QED
    BY <1>1, <2>2, DaysAre DEF NextDay
<1>2. CASE ~\E d \in Days : d > day
  BY <1>2, DaysAre, LeastOf DEF NextDay
<1> QED
  BY <1>1, <1>2

\* The end of the window is the last of its days, and not before the entry's.
Through(d, o) == {x \in Days : d <= x /\ x <= o}

LEMMA WindowEndIs ==
  ASSUME NEW d \in Days
  PROVE  /\ WindowEnd(d) \in Days /\ d <= WindowEnd(d)
         /\ \A o \in Days : d <= o /\ Cardinality(Through(d, o)) <= PathSessions => o <= WindowEnd(d)
<1> DEFINE S == {o \in Days : d <= o /\ Cardinality({x \in Days : d <= x /\ x <= o}) <= PathSessions}
<1>1. {x \in Days : d <= x /\ x <= d} = {d}
  <2>1. \A x \in Days : x \in Nat /\ (d <= x /\ x <= d <=> x = d)
    BY DaysAre
  <2> QED
    BY <2>1
<1>2. Cardinality({d}) = 1 /\ PathSessions \in Nat \ {0}
  BY FS_Singleton, BacktestAssumption
<1>3. d \in S
  BY <1>1, <1>2, DaysAre
<1>4. S \subseteq Nat /\ S # {} /\ IsFiniteSet(S)
  BY <1>3, DaysAre, FS_Subset
<1>5. WindowEnd(d) = Max(S)
  BY DEF WindowEnd
<1> HIDE DEF S
<1>6. WindowEnd(d) \in S /\ \A y \in S : y <= WindowEnd(d)
  BY <1>4, <1>5, GreatestOf
<1> QED
  BY <1>3, <1>6 DEF S, Through

----------------------------------------------------------------------------
(* The backtest: its list of entries.                                       *)

IsListOf(s) == s \in Seq(Range(s))

LEMMA ListIs ==
  ASSUME NEW s, IsListOf(s)
  PROVE  /\ Len(s) \in Nat /\ DOMAIN s = 1..Len(s)
         /\ Range(s) = {s[i] : i \in DOMAIN s}
BY DEF IsListOf, Range

LEMMA AppendedIs ==
  ASSUME NEW s, IsListOf(s), NEW e
  PROVE  /\ IsListOf(Append(s, e))
         /\ DOMAIN Append(s, e) = 1..(Len(s) + 1)
         /\ \A i \in 1..Len(s) : Append(s, e)[i] = s[i]
         /\ Append(s, e)[Len(s) + 1] = e
<1> DEFINE S == Range(s) \cup {e}
           t == Append(s, e)
<1>1. s \in Seq(S) /\ e \in S
  BY DEF IsListOf
<1> HIDE DEF S
<1>2. /\ t \in Seq(S) /\ Len(t) = Len(s) + 1 /\ Len(s) \in Nat
      /\ \A i \in 1..Len(s) : t[i] = s[i]
      /\ t[Len(s) + 1] = e
  BY <1>1
<1> HIDE DEF t
<1>3. DOMAIN t = 1..(Len(s) + 1)
  BY <1>2
<1>4. \A i \in DOMAIN t : t[i] \in Range(t)
  BY DEF Range
<1>5. t \in Seq(Range(t))
  BY <1>2, <1>3, <1>4
<1> QED
  BY <1>2, <1>3, <1>5 DEF IsListOf, t

\* Changing an item in place.
LEMMA ReplacedIs ==
  ASSUME NEW s, IsListOf(s), NEW i \in DOMAIN s, NEW e
  PROVE  LET t == [s EXCEPT ![i] = e]
         IN /\ IsListOf(t) /\ DOMAIN t = DOMAIN s /\ Len(t) = Len(s) /\ t[i] = e
            /\ \A j \in DOMAIN s : j # i => t[j] = s[j]
<1> DEFINE t == [s EXCEPT ![i] = e]
<1>1. DOMAIN t = DOMAIN s /\ t[i] = e /\ \A j \in DOMAIN s : j # i => t[j] = s[j]
  BY DEF IsListOf
<1>2. DOMAIN s = 1..Len(s) /\ Len(s) \in Nat
  BY ListIs
<1>3. \A j \in 1..Len(s) : t[j] \in Range(t)
  BY <1>1, <1>2 DEF Range
<1>4. t = [j \in 1..Len(s) |-> t[j]]
  BY <1>2
<1> HIDE DEF t
<1>5. t \in Seq(Range(t)) /\ Len(t) = Len(s)
  BY <1>1, <1>2, <1>3, <1>4
<1> QED
  BY <1>1, <1>5 DEF IsListOf, t

\* An entry has these fields.
IsEntry(e) ==
  e = [day |-> e.day, group |-> e.group, signals |-> e.signals, status |-> e.status,
       estimate |-> e.estimate, fill |-> e.fill, width |-> e.width, expiry |-> e.expiry,
       level |-> e.level, trades |-> e.trades]

Retraded(e, trades) == [e EXCEPT !.trades = trades]

LEMMA RetradedIs ==
  ASSUME NEW e, IsEntry(e), NEW trades
  PROVE  LET n == Retraded(e, trades)
         IN /\ IsEntry(n) /\ n.trades = trades
            /\ n.day = e.day /\ n.group = e.group /\ n.signals = e.signals
            /\ n.status = e.status /\ n.fill = e.fill
BY DEF IsEntry, Retraded

LEMMA EntersIs ==
  ASSUME NEW d, NEW signals, NEW group, NEW chain
  PROVE  LET e == Enters(d, signals, group, chain)
         IN /\ IsEntry(e) /\ e.trades = [f \in Frictions |-> NoTrade]
            /\ e.day = d /\ e.group = group /\ e.signals = signals
BY DEF Enters, IsEntry

\* The entries are of different days, in order, and the walk is of the last of them.
OrderInv ==
  /\ stage \in {"sessions", "walk", "portfolio", "done"} /\ day \in Days
  /\ IsListOf(entries)
  /\ \A i \in DOMAIN entries : entries[i].day \in Days /\ IsEntry(entries[i])
  /\ \A i, j \in DOMAIN entries : i < j => entries[i].day < entries[j].day
  /\ stage = "sessions" => \A i \in DOMAIN entries : entries[i].day < day
  /\ stage = "walk" => Len(entries) > 0 /\ Latest.day = day

\* What each step does to the list.
Selected(entry) ==
  \E reading \in Readings, chain \in Chains :
    /\ entry = Enters(day, BuildSignals(reading), Bucket(day, reading), chain)
    /\ Bucket(day, reading) \in Allowed("without_veto")

Rewalked(entry) == \E trades : entry = Retraded(Latest, trades)

LEMMA ListStep ==
  ASSUME OrderInv, [Next]_vars
  PROVE  \/ UNCHANGED entries
         \/ stage = "sessions" /\ Selects
              /\ \E entry : Selected(entry) /\ entries' = Append(entries, entry)
         \/ stage = "walk" /\ \E entry : Rewalked(entry) /\ entries' = [entries EXCEPT ![Len(entries)] = entry]
<1>1. CASE Selects
  BY <1>1 DEF Selects, Selected
<1>2. ASSUME NEW trades, SetTrades(trades), stage = "walk"
      PROVE  \E entry : Rewalked(entry) /\ entries' = [entries EXCEPT ![Len(entries)] = entry]
  <2>1. entries' = [entries EXCEPT ![Len(entries)] = Retraded(Latest, trades)]
    BY <1>2 DEF SetTrades, Retraded, Latest
  <2> QED
    BY <2>1 DEF Rewalked
<1>3. CASE Steps
  BY <1>2, <1>3 DEF Steps
<1>4. CASE WalkEnds
  BY <1>2, <1>4 DEF WalkEnds
<1>5. CASE PassesOver \/ Books \/ UNCHANGED vars
  BY <1>5 DEF PassesOver, Books, vars
<1> QED
  BY <1>1, <1>3, <1>4, <1>5 DEF Next

LEMMA OrderInit == Init => OrderInv
<1> SUFFICES ASSUME Init PROVE OrderInv
  OBVIOUS
<1>1. day \in Days
  BY DaysAre, LeastOf DEF Init
<1>2. IsListOf(entries) /\ DOMAIN entries = {}
  BY DEF Init, IsListOf
<1> QED
  BY <1>1, <1>2 DEF Init, OrderInv

LEMMA OrderStep == OrderInv /\ [Next]_vars => OrderInv'
<1> SUFFICES ASSUME OrderInv, [Next]_vars PROVE OrderInv'
  OBVIOUS
<1> DEFINE n == Len(entries)
<1>a. /\ IsListOf(entries) /\ n \in Nat /\ DOMAIN entries = 1..n /\ day \in Days
      /\ Days \subseteq Nat
  BY ListIs, DaysAre DEF OrderInv
<1>1. CASE UNCHANGED entries
  <2>1. CASE stage' = stage /\ day' = day
    BY <1>1, <2>1 DEF OrderInv, Latest
  <2>2. CASE PassesOver \/ WalkEnds
    <3>1. /\ day' \in Days /\ stage' \in {"sessions", "portfolio"}
          /\ stage' = "sessions" => day < day'
      BY <1>a, <2>2, NextDayIs DEF PassesOver, WalkEnds
    <3>2. \A i \in DOMAIN entries : entries[i].day \in Nat /\ entries[i].day <= day
      <4>1. CASE PassesOver
        BY <4>1, <1>a DEF PassesOver, OrderInv
      <4>2. CASE WalkEnds
        <5>1. n > 0 /\ entries[n].day = day
          BY <4>2 DEF WalkEnds, OrderInv, Latest
        <5>2. \A i \in DOMAIN entries : i # n => entries[i].day < entries[n].day
          BY <5>1, <1>a DEF OrderInv
        <5> QED
          BY <5>1, <5>2, <1>a DEF OrderInv
      <4> QED
        BY <2>2, <4>1, <4>2
    <3>3. stage' = "sessions" => \A i \in DOMAIN entries : entries[i].day < day'
      BY <3>1, <3>2, <1>a
    <3> QED
      BY <1>1, <3>1, <3>3 DEF OrderInv
  <2>3. CASE Books
    <3>1. day' \in Days /\ stage' \in {"portfolio", "done"}
      <4>1. CASE \E d \in Days : d > day
        <5>1. Min({d \in Days : d > day}) \in {d \in Days : d > day}
          BY <4>1, DaysAre, LeastOf
        <5> QED
          BY <4>1, <5>1, <2>3 DEF Books
      <4>2. CASE ~\E d \in Days : d > day
        BY <4>2, <2>3, <1>a DEF Books
      <4> QED
        BY <4>1, <4>2
    <3> QED
      BY <1>1, <3>1 DEF OrderInv
  <2>4. CASE Selects
    <3>1. ASSUME NEW e PROVE Append(entries, e) # entries
      <4>1. DOMAIN Append(entries, e) = 1..(n + 1)
        BY <1>a, AppendedIs
      <4>2. n + 1 \in 1..(n + 1) /\ n + 1 \notin 1..n
        BY <1>a
      <4> QED
        BY <4>1, <4>2, <1>a
    <3> QED
      BY <1>1, <2>4, <3>1 DEF Selects
  <2> QED
    BY <2>1, <2>2, <2>3, <2>4 DEF Next, Steps, vars
<1>2. ASSUME NEW entry, stage = "sessions", Selects, Selected(entry),
             entries' = Append(entries, entry)
      PROVE  OrderInv'
  <2>1. entry.day = day /\ IsEntry(entry)
    BY <1>2, EntersIs DEF Selected
  <2>2. /\ IsListOf(entries') /\ DOMAIN entries' = 1..(n + 1)
        /\ \A i \in 1..n : entries'[i] = entries[i]
        /\ entries'[n + 1] = entry
    BY <1>2, <1>a, AppendedIs
  <2>3. Len(entries') = n + 1
    BY <2>2, <1>a, ListIs
  <2>4. \A i \in 1..n : entries[i].day \in Nat /\ entries[i].day < day
    BY <1>2, <1>a DEF OrderInv
  <2> HIDE DEF n
  <2>5. /\ \A i \in DOMAIN entries' : entries'[i].day \in Days /\ IsEntry(entries'[i])
        /\ \A i \in DOMAIN entries' : entries'[i].day <= day
    <3> SUFFICES ASSUME NEW i \in 1..(n + 1)
                 PROVE  entries'[i].day \in Days /\ IsEntry(entries'[i]) /\ entries'[i].day <= day
      BY <2>2
    <3>1. CASE i = n + 1
      BY <3>1, <2>1, <2>2, <1>a
    <3>2. CASE i # n + 1
      <4>1. i \in 1..n
        BY <3>2, <1>a
      <4> QED
        BY <4>1, <2>2, <2>4, <1>a DEF OrderInv
    <3> QED
      BY <3>1, <3>2
  <2>6. \A i, j \in DOMAIN entries' : i < j => entries'[i].day < entries'[j].day
    <3> SUFFICES ASSUME NEW i \in 1..(n + 1), NEW j \in 1..(n + 1), i < j
                 PROVE  entries'[i].day < entries'[j].day
      BY <2>2
    <3>1. i \in 1..n
      BY <1>a
    <3>2. CASE j = n + 1
      BY <3>1, <3>2, <2>1, <2>2, <2>4
    <3>3. CASE j # n + 1
      <4>1. j \in 1..n
        BY <3>3, <1>a
      <4> QED
        BY <3>1, <4>1, <2>2, <1>a DEF OrderInv
    <3> QED
      BY <3>2, <3>3
  <2>7. \/ stage' = "walk" /\ UNCHANGED day
        \/ stage' \in {"sessions", "portfolio"} /\ day' \in Days /\ (stage' = "sessions" => day < day')
    BY <1>2, <1>a, NextDayIs DEF Selects
  <2>8. CASE stage' = "walk" /\ UNCHANGED day
    <3>1. Latest' = entry
      BY <2>2, <2>3 DEF Latest
    <3> QED
      BY <2>1, <2>2, <2>3, <2>5, <2>6, <2>8, <3>1, <1>a DEF OrderInv
  <2>9. CASE stage' \in {"sessions", "portfolio"} /\ day' \in Days /\ (stage' = "sessions" => day < day')
    <3>1. stage' = "sessions" => \A i \in DOMAIN entries' : entries'[i].day < day'
      <4> SUFFICES ASSUME NEW i \in DOMAIN entries', stage' = "sessions"
                   PROVE  entries'[i].day < day'
        OBVIOUS
      <4>1. entries'[i].day \in Nat /\ entries'[i].day <= day /\ day \in Nat
        BY <2>5, <1>a
      <4>2. day < day' /\ day' \in Nat
        BY <2>9, <1>a
      <4> QED
        BY <4>1, <4>2
    <3> QED
      BY <2>2, <2>5, <2>6, <2>9, <3>1 DEF OrderInv
  <2> QED
    BY <2>7, <2>8, <2>9
<1>3. ASSUME NEW entry, stage = "walk", Rewalked(entry),
             entries' = [entries EXCEPT ![Len(entries)] = entry]
      PROVE  OrderInv'
  <2>1. n \in DOMAIN entries /\ Latest = entries[n] /\ Latest.day = day /\ IsEntry(Latest)
    BY <1>3, <1>a DEF OrderInv, Latest
  <2>2. IsEntry(entry) /\ entry.day = day
    BY <1>3, <2>1, RetradedIs DEF Rewalked
  <2>3. /\ IsListOf(entries') /\ DOMAIN entries' = DOMAIN entries /\ Len(entries') = n
        /\ entries'[n] = entry /\ \A j \in DOMAIN entries : j # n => entries'[j] = entries[j]
    BY <1>3, <1>a, <2>1, ReplacedIs
  <2>4. \A j \in DOMAIN entries : entries'[j].day = entries[j].day /\ IsEntry(entries'[j])
    BY <2>1, <2>2, <2>3 DEF OrderInv
  <2>5. /\ \A j \in DOMAIN entries' : entries'[j].day \in Days /\ IsEntry(entries'[j])
        /\ \A i, j \in DOMAIN entries' : i < j => entries'[i].day < entries'[j].day
    BY <2>3, <2>4 DEF OrderInv
  <2>6. CASE Steps
    BY <2>1, <2>2, <2>3, <2>5, <2>6, <1>a DEF Steps, OrderInv, Latest
  <2>7. CASE WalkEnds
    <3>1. /\ day' \in Days /\ stage' \in {"sessions", "portfolio"}
          /\ stage' = "sessions" => day < day'
      BY <1>a, <2>7, NextDayIs DEF WalkEnds
    <3>2. \A i \in DOMAIN entries : entries[i].day \in Nat /\ entries[i].day <= day
      <4> SUFFICES ASSUME NEW i \in DOMAIN entries
                   PROVE  entries[i].day \in Nat /\ entries[i].day <= day
        OBVIOUS
      <4>1. entries[i].day \in Nat /\ entries[n].day = day /\ day \in Nat
        BY <2>1, <1>a DEF OrderInv
      <4>2. i = n \/ i < n
        BY <1>a
      <4>3. i < n => entries[i].day < entries[n].day
        BY <2>1 DEF OrderInv
      <4> QED
        BY <4>1, <4>2, <4>3
    <3>3. stage' = "sessions" => \A i \in DOMAIN entries' : entries'[i].day < day'
      BY <2>3, <2>4, <3>1, <3>2, <1>a
    <3> QED
      BY <2>3, <2>5, <3>1, <3>3 DEF OrderInv
  <2> QED
    BY <1>1, <1>3, <2>6, <2>7 DEF Next, PassesOver, Selects, Books, vars
<1> QED
  BY <1>1, <1>2, <1>3, ListStep

LEMMA OrderAlways == Spec => []OrderInv
BY OrderInit, OrderStep, PTL DEF Spec

----------------------------------------------------------------------------
(* The backtest: what a veto is.                                            *)

StructureIn(r) == Sig("structure", Trend(r), 55 + HalfEven(Size(r.separation) * 8, 100))

\* The one structure of a reading is its strongest, whichever signals it comes with.
LEMMA AnchorIs ==
  ASSUME NEW r, r.separation \in Int
  PROVE  /\ \A s \in BuildSignals(r) : s.family = "structure" => s = StructureIn(r)
         /\ StructureIn(r).family = "structure"
         /\ Strongest({StructureIn(r)}) = StructureIn(r)
<1>1. \A s \in BuildSignals(r) : s.family = "structure" => s = StructureIn(r)
  BY DEF BuildSignals, VolatilitySignals, BreadthSignals, MomentumSignals, Sig, StructureIn
<1>2. StructureIn(r).family = "structure"
  BY DEF StructureIn, Sig
<1>3. StructureIn(r).strength * 10 + Rank(StructureIn(r)) \in Int
  <2>1. Size(r.separation) \in Int
    BY DEF Size
  <2>2. HalfEven(Size(r.separation) * 8, 100) \in Int
    BY <2>1 DEF HalfEven
  <2>3. StructureIn(r).strength \in Int
    BY <2>2 DEF StructureIn, Sig, Bounded
  <2> QED
    BY <1>2, <2>3 DEF Rank
<1> HIDE DEF StructureIn
<1> QED
  BY <1>1, <1>2, <1>3 DEF Strongest

\* What a set of signals shows about its structure when the classifier takes it.
LEMMA TakenMeans ==
  ASSUME NEW r, r.separation \in Int, NEW price,
         NEW signals, signals \subseteq BuildSignals(r), Classify(signals, price) # NoSetup
  PROVE  /\ Contradictions(signals, StructureIn(r).direction) = {}
         /\ Confirmations(signals, StructureIn(r).direction) # {}
<1>1. Structures(signals) # {} /\ Structures(signals) \subseteq {StructureIn(r)}
  BY AnchorIs DEF Classify, Structures
<1>2. Strongest(Structures(signals)) = StructureIn(r)
  <2>1. Structures(signals) = {StructureIn(r)}
    BY <1>1
  <2> QED
    BY <2>1, AnchorIs
<1> QED
  BY <1>2 DEF Classify

\* What a bucket says of the signals.
BreadthAlone(e) ==
  LET against == Contradictions(e.signals, "bullish") IN
  /\ e.group = "breadth_vetoed" <=> against # {}
  /\ \A s \in against : s.family = "participation"
  /\ Confirmations(e.signals, "bullish") # {}

LEMMA AttributeMeans ==
  ASSUME NEW r, r.separation \in Int, NEW price,
         NEW group, group = Attribute(BuildSignals(r), price),
         group \in {"permitted", "breadth_vetoed"}
  PROVE  LET against == Contradictions(BuildSignals(r), "bullish") IN
         /\ group = "breadth_vetoed" <=> against # {}
         /\ \A s \in against : s.family = "participation"
         /\ Confirmations(BuildSignals(r), "bullish") # {}
<1> DEFINE signals == BuildSignals(r)
           structure == {s \in signals : s.family = "structure" /\ s.direction # "neutral"}
           against == Contradictions(signals, "bullish")
<1>1. structure # {} /\ Strongest(structure).direction = "bullish"
  BY DEF Attribute
<1>2. structure = {StructureIn(r)}
  BY <1>1, AnchorIs
<1>3. StructureIn(r).direction = "bullish" /\ Strongest(structure) = StructureIn(r)
  BY <1>1, <1>2, AnchorIs
<1> HIDE DEF signals, structure
<1>4. CASE group = "permitted"
  <2>1. Classify(signals, price) # NoSetup
    <3>1. \/ Classify(signals, price) # NoSetup
          \/ group \in {"no_setup", "out_of_scope", "breadth_vetoed", "other_vetoes"}
      BY DEF Attribute, signals
    <3> QED
      BY <1>4, <3>1
  <2> QED
    BY <1>3, <1>4, <2>1, TakenMeans DEF signals
<1>5. CASE group = "breadth_vetoed"
  <2>1. against # {} /\ Classify(WithoutBreadth(signals), price) # NoSetup
    BY <1>3, <1>5 DEF Attribute, signals, structure
  <2>2. WithoutBreadth(signals) \subseteq BuildSignals(r)
    BY DEF WithoutBreadth, signals
  <2>3. /\ Contradictions(WithoutBreadth(signals), "bullish") = {}
        /\ Confirmations(WithoutBreadth(signals), "bullish") # {}
    BY <1>3, <2>1, <2>2, TakenMeans
  <2>4. \A s \in against : s.family = "participation"
    BY <2>3 DEF WithoutBreadth, Contradictions
  <2>5. Confirmations(signals, "bullish") # {}
    BY <2>3 DEF WithoutBreadth, Confirmations
  <2> QED
    BY <1>5, <2>1, <2>4, <2>5 DEF signals
<1> QED
  BY <1>4, <1>5

LEMMA SelectedMeans ==
  ASSUME NEW entry, Selected(entry)
  PROVE  BreadthAlone(entry)
<1>1. PICK reading \in Readings, chain \in Chains :
        /\ entry = Enters(day, BuildSignals(reading), Bucket(day, reading), chain)
        /\ Bucket(day, reading) \in Allowed("without_veto")
  BY DEF Selected
<1>2. Bucket(day, reading) \in {"permitted", "breadth_vetoed"}
  BY <1>1 DEF Allowed
<1>3. Bucket(day, reading) = Attribute(BuildSignals(reading), CloseOf[Completed(day)])
  BY <1>2 DEF Bucket
<1>4. entry.group = Bucket(day, reading) /\ entry.signals = BuildSignals(reading)
  BY <1>1, EntersIs
<1> QED
  BY <1>2, <1>3, <1>4, AttributeMeans, InputAssumption DEF BreadthAlone

VetoInv == \A i \in DOMAIN entries : BreadthAlone(entries[i])

LEMMA VetoStep == OrderInv /\ VetoInv /\ [Next]_vars => VetoInv'
<1> SUFFICES ASSUME OrderInv, VetoInv, [Next]_vars PROVE VetoInv'
  OBVIOUS
<1>a. /\ IsListOf(entries) /\ Len(entries) \in Nat /\ DOMAIN entries = 1..Len(entries)
  BY ListIs DEF OrderInv
<1>1. CASE UNCHANGED entries
  BY <1>1 DEF VetoInv
<1>2. ASSUME NEW entry, Selected(entry), entries' = Append(entries, entry)
      PROVE  VetoInv'
  <2>1. BreadthAlone(entry)
    BY <1>2, SelectedMeans
  <2>2. /\ DOMAIN entries' = 1..(Len(entries) + 1)
        /\ \A i \in 1..Len(entries) : entries'[i] = entries[i]
        /\ entries'[Len(entries) + 1] = entry
    BY <1>2, <1>a, AppendedIs
  <2>3. \A i \in DOMAIN entries' : i = Len(entries) + 1 \/ i \in 1..Len(entries)
    BY <2>2, <1>a
  <2> SUFFICES ASSUME NEW i \in DOMAIN entries' PROVE BreadthAlone(entries'[i])
    BY DEF VetoInv
  <2>4. CASE i = Len(entries) + 1
    BY <2>1, <2>2, <2>4
  <2>5. CASE i \in 1..Len(entries)
    BY <2>2, <2>5, <1>a DEF VetoInv
  <2> QED
    BY <2>3, <2>4, <2>5
<1>3. ASSUME NEW entry, stage = "walk", Rewalked(entry),
             entries' = [entries EXCEPT ![Len(entries)] = entry]
      PROVE  VetoInv'
  <2>1. /\ Len(entries) \in DOMAIN entries /\ Latest = entries[Len(entries)]
        /\ IsEntry(Latest)
    BY <1>3, <1>a DEF OrderInv, Latest
  <2>2. entry.group = Latest.group /\ entry.signals = Latest.signals
    BY <1>3, <2>1, RetradedIs DEF Rewalked
  <2>3. BreadthAlone(entry)
    BY <2>1, <2>2 DEF VetoInv, BreadthAlone
  <2> QED
    BY <1>3, <1>a, <2>1, <2>3, ReplacedIs DEF VetoInv
<1> QED
  BY <1>1, <1>2, <1>3, ListStep

\* A session the study counts as vetoed by breadth is vetoed by nothing else, and one
\* it counts as permitted by nothing: the two arms differ in breadth alone.
\* (veto_replay.py: "attributed by removing only the opposing participation signal".)
THEOREM VetoedByBreadth == Spec => []VetoIsBreadthAlone
<1>1. Init => VetoInv
  BY DEF Init, VetoInv
<1>2. OrderInv /\ VetoInv => VetoIsBreadthAlone
  BY ListIs DEF OrderInv, VetoInv, VetoIsBreadthAlone, BreadthAlone
<1> QED
  BY <1>1, <1>2, VetoStep, OrderInit, OrderStep, PTL DEF Spec

----------------------------------------------------------------------------
(* The backtest: where a walk looks, and the closes between two looks.      *)

LEMMA DayStarts ==
  ASSUME NEW a \in Nat, NEW b \in Nat
  PROVE  /\ a * DayLen \in Nat /\ b * DayLen \in Nat /\ (a + 1) * DayLen \in Nat
         /\ a < b => (a + 1) * DayLen <= b * DayLen
         /\ a * DayLen < (b + 1) * DayLen => a <= b
<1>1. DayLen \in Nat \ {0}
  BY CalendarAssumption
<1>2. a < b => (a + 1) * DayLen <= b * DayLen
  BY <1>1
<1>3. ~(a <= b) => (b + 1) * DayLen <= a * DayLen
  BY <1>1
<1> QED
  BY <1>1, <1>2, <1>3

LEMMA SessionIs ==
  ASSUME NEW s \in Sessions
  PROVE  /\ {s.day, s.open, s.close, s.day * DayLen, (s.day + 1) * DayLen, FilledAt(s.day)} \subseteq Nat
         /\ s.day \in Days /\ Bar \in Nat \ {0}
         /\ s.day * DayLen <= s.open /\ s.open + Bar < s.close /\ s.close < (s.day + 1) * DayLen
         /\ s.day * DayLen < FilledAt(s.day) /\ FilledAt(s.day) < s.close
<1>1. {s.day, s.open, s.close} \subseteq Nat /\ {Bar, DayLen} \subseteq Nat \ {0} /\ DecisionTime \in Nat
  BY CalendarAssumption, BacktestAssumption
<1>2. s.day * DayLen \in Nat /\ (s.day + 1) * DayLen \in Nat
  BY <1>1
<1>3. s.open <= s.day * DayLen + DecisionTime /\ FilledAt(s.day) < s.close
  BY BacktestAssumption
<1>4. s.day * DayLen <= s.open /\ s.close < (s.day + 1) * DayLen
  BY CalendarAssumption
<1>5. FilledAt(s.day) = s.day * DayLen + DecisionTime + Bar
  BY DEF FilledAt
<1> QED
  BY <1>1, <1>2, <1>3, <1>4, <1>5 DEF Days

LEMMA FillIs ==
  ASSUME NEW d \in Days
  PROVE  d \in Nat /\ FilledAt(d) \in Nat /\ d * DayLen < FilledAt(d)
<1>1. PICK s \in Sessions : s.day = d
  BY DEF Days
<1> QED
  BY <1>1, SessionIs

\* A session that closes before another opens before it, on an earlier day.
LEMMA SessionsInOrder ==
  ASSUME NEW s \in Sessions, NEW o \in Sessions
  PROVE  /\ s.close < o.close => s.day < o.day
         /\ s.day < o.day => s.close < o.open /\ s.close < o.close
<1>1. s.day < o.day => (s.day + 1) * DayLen <= o.day * DayLen
  BY SessionIs, DayStarts
<1>2. s.day < o.day => s.close < o.open /\ s.close < o.close
  BY <1>1, SessionIs
<1>3. o.day < s.day => (o.day + 1) * DayLen <= s.day * DayLen
  BY SessionIs, DayStarts
<1>4. o.day < s.day => o.close < s.close
  BY <1>3, SessionIs
<1>5. o.day = s.day => o = s
  BY CalendarAssumption
<1> QED
  BY <1>2, <1>4, <1>5, SessionIs

\* A look is in a session of the window, after the fill; every later session of the
\* window has one, a bar after its open.
LEMMA LooksAre ==
  ASSUME NEW d \in Days
  PROVE  /\ \A m \in Observations(d) :
              /\ m \in Nat /\ FilledAt(d) < m
              /\ \E s \in Sessions : d <= s.day /\ s.day <= WindowEnd(d) /\ m <= s.close
         /\ \A s \in Sessions :
              d < s.day /\ s.day <= WindowEnd(d) => s.open + Bar \in Observations(d)
<1> DEFINE From(s) == IF s.day = d THEN FilledAt(d) ELSE s.open
           Within == {x \in Sessions : d <= x.day /\ x.day <= WindowEnd(d)}
           In(s) == {m \in (From(s) + 1)..s.close : (m - From(s)) % Bar = 0}
<1>1. Observations(d) = UNION {In(s) : s \in Within}
  BY DEF Observations
<1>2. \A s \in Within : From(s) \in Nat /\ FilledAt(d) <= From(s) /\ s \in Sessions
  <2> SUFFICES ASSUME NEW s \in Within
               PROVE  From(s) \in Nat /\ FilledAt(d) <= From(s)
    OBVIOUS
  <2>1. CASE s.day = d
    BY <2>1, FillIs
  <2>2. CASE s.day # d
    <3>1. d < s.day
      BY <2>2, FillIs, SessionIs
    <3>2. PICK o \in Sessions : o.day = d
      BY DEF Days
    <3>3. FilledAt(d) < o.close /\ o.close < s.open
      BY <3>1, <3>2, SessionIs, SessionsInOrder
    <3> QED
      BY <2>2, <3>2, <3>3, SessionIs
  <2> QED
    BY <2>1, <2>2
<1>3. ASSUME NEW m \in Observations(d)
      PROVE  /\ m \in Nat /\ FilledAt(d) < m
             /\ \E s \in Sessions : d <= s.day /\ s.day <= WindowEnd(d) /\ m <= s.close
  <2>1. PICK s \in Within : m \in In(s)
    BY <1>1, <1>3
  <2>2. m \in (From(s) + 1)..s.close /\ From(s) \in Nat /\ FilledAt(d) <= From(s) /\ s.close \in Nat
    BY <1>2, <2>1, SessionIs
  <2> QED
    BY <2>1, <2>2, FillIs
<1>4. ASSUME NEW s \in Sessions, d < s.day, s.day <= WindowEnd(d)
      PROVE  s.open + Bar \in Observations(d)
  <2>1. s \in Within /\ From(s) = s.open
    BY <1>4, FillIs, SessionIs
  <2>2. s.open + Bar \in (s.open + 1)..s.close /\ (s.open + Bar) - s.open = Bar
    BY SessionIs
  <2>3. Bar % Bar = 0
    BY SessionIs
  <2> QED
    BY <1>1, <2>1, <2>2, <2>3
<1> QED
  BY <1>3, <1>4

\* The closes after one moment and through another.
ClosesWithin(from, to) == {s \in Sessions : from < s.close /\ s.close <= to}

LEMMA ClosesCounted ==
  ASSUME NEW from \in Int, NEW to \in Int
  PROVE  /\ ClosesThrough(from) \in Nat /\ ClosesThrough(to) \in Nat
         /\ IsFiniteSet(ClosesWithin(from, to)) /\ Cardinality(ClosesWithin(from, to)) \in Nat
         /\ from <= to => ClosesThrough(to) = ClosesThrough(from) + Cardinality(ClosesWithin(from, to))
<1> DEFINE A == {s \in Sessions : s.close <= from}
           B == {s \in Sessions : s.close <= to}
           W == ClosesWithin(from, to)
<1>1. ClosesThrough(from) = Cardinality(A) /\ ClosesThrough(to) = Cardinality(B)
  BY DEF ClosesThrough
<1>2. IsFiniteSet(A) /\ IsFiniteSet(B) /\ IsFiniteSet(W)
  BY CalendarAssumption, FS_Subset DEF ClosesWithin
<1>3. Cardinality(A) \in Nat /\ Cardinality(B) \in Nat /\ Cardinality(W) \in Nat
  BY <1>2, FS_CardinalityType
<1>4. ASSUME from <= to PROVE Cardinality(B) = Cardinality(A) + Cardinality(W)
  <2>1. \A s \in Sessions : s.close \in Nat
    BY CalendarAssumption
  <2>2. A \cup W = B /\ A \cap W = {}
    BY <1>4, <2>1 DEF ClosesWithin
  <2> HIDE DEF A, B, W
  <2>3. Cardinality(A \cap W) = 0
    BY <2>2, FS_EmptySet
  <2>4. Cardinality(A \cup W) = Cardinality(A) + Cardinality(W) - Cardinality(A \cap W)
    BY <1>2, FS_Union
  <2> QED
    BY <1>3, <2>2, <2>3, <2>4
<1> HIDE DEF A, B
<1> QED
  BY <1>1, <1>2, <1>3, <1>4

\* The sessions an observation at m counts.
SessionsAt(d, m) == CompletedSessionsBetween(FilledAt(d), m - 1)

LEMMA SessionsAtIs ==
  ASSUME NEW d \in Days, NEW m \in Nat
  PROVE  /\ SessionsAt(d, m) \in Nat
         /\ m <= FilledAt(d) => SessionsAt(d, m) = 0
         /\ FilledAt(d) < m => SessionsAt(d, m) = Cardinality(ClosesWithin(FilledAt(d), m - 1))
<1> DEFINE a == ClosesThrough(FilledAt(d))
           b == ClosesThrough(m - 1)
<1>1. FilledAt(d) \in Nat /\ FilledAt(d) \in Int /\ m - 1 \in Int
  BY FillIs
<1>2. a \in Nat /\ b \in Nat
  BY <1>1, ClosesCounted
<1>3. SessionsAt(d, m) = IF b < a THEN 0 ELSE b - a
  BY DEF SessionsAt, CompletedSessionsBetween
<1>4. ASSUME m <= FilledAt(d) PROVE b <= a
  <2>1. m - 1 <= FilledAt(d)
    BY <1>1, <1>4
  <2>2. a = b + Cardinality(ClosesWithin(m - 1, FilledAt(d)))
    BY <1>1, <2>1, ClosesCounted
  <2>3. Cardinality(ClosesWithin(m - 1, FilledAt(d))) \in Nat
    BY <1>1, ClosesCounted
  <2> HIDE DEF a, b
  <2> QED
    BY <1>2, <2>2, <2>3
<1>5. ASSUME FilledAt(d) < m PROVE b = a + Cardinality(ClosesWithin(FilledAt(d), m - 1))
  <2>1. FilledAt(d) <= m - 1
    BY <1>1, <1>5
  <2> QED
    BY <1>1, <2>1, ClosesCounted
<1>6. Cardinality(ClosesWithin(FilledAt(d), m - 1)) \in Nat
  BY <1>1, ClosesCounted
<1> HIDE DEF a, b
<1> QED
  BY <1>1, <1>2, <1>3, <1>4, <1>5, <1>6

\* From one look to the next at most one session closes.
LEMMA OneCloseBetween ==
  ASSUME NEW d \in Days, NEW p \in Nat, FilledAt(d) <= p,
         NEW m \in Observations(d), p < m,
         \A o \in Observations(d) : p < o => m <= o
  PROVE  SessionsAt(d, m) <= SessionsAt(d, p) + 1
<1> DEFINE W == ClosesWithin(p - 1, m - 1)
           c == ClosesThrough(FilledAt(d))
           x == ClosesThrough(p - 1)
           y == ClosesThrough(m - 1)
<1>1. /\ m \in Nat /\ FilledAt(d) \in Nat
      /\ FilledAt(d) \in Int /\ m - 1 \in Int /\ p - 1 \in Int /\ p - 1 <= m - 1
  BY FillIs, LooksAre
<1>2. ASSUME NEW s \in W, NEW o \in W, s.close < o.close PROVE FALSE
  <2>1. s \in Sessions /\ o \in Sessions /\ p <= s.close /\ o.close < m
    BY <1>1, <1>2, SessionIs DEF ClosesWithin
  <2>2. s.day < o.day /\ s.close < o.open
    BY <1>2, <2>1, SessionsInOrder
  <2>3. d <= s.day
    <3>1. d * DayLen < (s.day + 1) * DayLen
      <4>1. /\ d * DayLen < FilledAt(d) /\ p <= s.close /\ s.close < (s.day + 1) * DayLen
            /\ s.close \in Nat /\ (s.day + 1) * DayLen \in Nat
        BY <2>1, FillIs, SessionIs
      <4>2. d * DayLen \in Nat
        BY FillIs, DayStarts
      <4> QED
        BY <1>1, <4>1, <4>2
    <3> QED
      BY <2>1, <3>1, FillIs, SessionIs, DayStarts
  <2>4. PICK z \in Sessions : z.day <= WindowEnd(d) /\ m <= z.close
    BY LooksAre
  <2>5. o.close < z.close
    BY <1>1, <2>1, <2>4, SessionIs
  <2>6. o.day < z.day
    BY <2>1, <2>4, <2>5, SessionsInOrder
  <2>7. d < o.day /\ o.day <= WindowEnd(d)
    BY <2>1, <2>2, <2>3, <2>4, <2>6, SessionIs, FillIs, WindowEndIs
  <2>8. o.open + Bar \in Observations(d)
    BY <2>1, <2>7, LooksAre
  <2>9. p < o.open + Bar /\ o.open + Bar < m
    BY <1>1, <2>1, <2>2, SessionIs
  <2> QED
    BY <1>1, <2>1, <2>8, <2>9, SessionIs
<1>3. \A s, o \in W : s = o
  <2> SUFFICES ASSUME NEW s \in W, NEW o \in W PROVE s = o
    OBVIOUS
  <2>1. s \in Sessions /\ o \in Sessions
    BY DEF ClosesWithin
  <2>2. s.close = o.close
    BY <1>2, <2>1, SessionIs
  <2>3. s.day = o.day
    <3>1. s.day < o.day => s.close < o.close
      BY <2>1, SessionsInOrder
    <3>2. o.day < s.day => o.close < s.close
      BY <2>1, SessionsInOrder
    <3> QED
      BY <2>1, <2>2, <3>1, <3>2, SessionIs
  <2> QED
    BY <2>1, <2>3, CalendarAssumption
<1>4. Cardinality(W) \in Nat /\ Cardinality(W) <= 1
  <2>1. Cardinality(W) \in Nat
    BY <1>1, ClosesCounted
  <2> HIDE DEF W
  <2>2. CASE W = {}
    BY <2>2, FS_EmptySet
  <2>3. CASE W # {}
    <3>1. PICK s : W = {s}
      BY <1>3, <2>3
    <3> QED
      BY <3>1, FS_Singleton
  <2> QED
    BY <2>1, <2>2, <2>3
<1>5. c \in Nat /\ x \in Nat /\ y = x + Cardinality(W)
  BY <1>1, ClosesCounted
<1>6. /\ SessionsAt(d, m) = IF y < c THEN 0 ELSE y - c
      /\ SessionsAt(d, p) = IF x < c THEN 0 ELSE x - c
  BY DEF SessionsAt, CompletedSessionsBetween
<1> HIDE DEF W, c, x, y
<1> QED
  BY <1>4, <1>5, <1>6

LEMMA ThroughIs ==
  ASSUME NEW d \in Days, NEW w \in Days, d <= w
  PROVE  /\ IsFiniteSet(Through(d, w)) /\ Cardinality(Through(d, w)) \in Nat
         /\ Cardinality({x \in Days : d <= x /\ x < w}) = Cardinality(Through(d, w)) - 1
         /\ Cardinality({x \in Days : d < x /\ x <= w}) = Cardinality(Through(d, w)) - 1
<1> DEFINE T == Through(d, w)
           K == {x \in Days : d <= x /\ x < w}
           L == {x \in Days : d < x /\ x <= w}
<1>1. \A x \in Days : x \in Nat
  BY DaysAre
<1>2. IsFiniteSet(T) /\ Cardinality(T) \in Nat
  BY DaysAre, FS_Subset, FS_CardinalityType DEF Through
<1>3. d \in T /\ w \in T
  BY <1>1 DEF Through
<1>4. K = T \ {w} /\ L = T \ {d}
  <2>1. \A x : x \in K <=> x \in T \ {w}
    BY <1>1 DEF Through
  <2>2. \A x : x \in L <=> x \in T \ {d}
    BY <1>1 DEF Through
  <2> HIDE DEF K, L, T
  <2> QED
    BY <2>1, <2>2
<1> HIDE DEF K, L, T
<1>5. Cardinality(T \ {w}) = Cardinality(T) - 1 /\ Cardinality(T \ {d}) = Cardinality(T) - 1
  BY <1>2, <1>3, FS_RemoveElement
<1> QED
  BY <1>2, <1>4, <1>5 DEF K, L, T

\* A window that is not the whole of what is left holds all its sessions.
LEMMA WindowIsFull ==
  ASSUME NEW d \in Days, NEW later \in Days, WindowEnd(d) < later
  PROVE  PathSessions <= Cardinality(Through(d, WindowEnd(d)))
<1> DEFINE w == WindowEnd(d)
           T == {x \in Days : w < x}
           o == Min(T)
<1>1. w \in Days /\ d <= w /\ Days \subseteq Nat /\ IsFiniteSet(Days)
  BY WindowEndIs, DaysAre
<1>2. o \in T /\ \A y \in T : o <= y
  <2>1. T \subseteq Nat /\ T # {}
    BY <1>1
  <2> HIDE DEF T
  <2> QED
    BY <2>1, LeastOf
<1> HIDE DEF w, o
<1>3. o \in Days /\ w < o /\ \A y \in Days : w < y => o <= y
  BY <1>2
<1>4. Through(d, o) = Through(d, w) \cup {o} /\ o \notin Through(d, w)
  <2>1. \A x \in Days : x \in Nat
    BY <1>1
  <2>2. o \notin Through(d, w)
    BY <1>1, <1>3, <2>1 DEF Through
  <2>3. \A x \in Days : d <= x /\ x <= o <=> (d <= x /\ x <= w) \/ x = o
    <3> SUFFICES ASSUME NEW x \in Days
                 PROVE  d <= x /\ x <= o <=> (d <= x /\ x <= w) \/ x = o
      OBVIOUS
    <3>1. w < x => o <= x
      BY <1>3
    <3>2. d \in Nat /\ w \in Nat /\ o \in Nat /\ x \in Nat /\ d <= w /\ w < o
      BY <1>1, <1>3, <2>1
    <3> QED
      BY <3>1, <3>2
  <2> QED
    BY <1>3, <2>2, <2>3 DEF Through
<1>5. IsFiniteSet(Through(d, w)) /\ Cardinality(Through(d, w)) \in Nat
  BY <1>1, FS_Subset, FS_CardinalityType DEF Through
<1>6. Cardinality(Through(d, o)) = Cardinality(Through(d, w)) + 1
  BY <1>4, <1>5, FS_AddElement
<1>7. ~(Cardinality(Through(d, o)) <= PathSessions)
  <2>1. d <= o /\ ~(o <= w)
    BY <1>1, <1>3
  <2>2. o \in Days /\ d <= o /\ Cardinality(Through(d, o)) <= PathSessions => o <= w
    BY WindowEndIs DEF w
  <2> QED
    BY <1>3, <2>1, <2>2
<1> QED
  BY <1>5, <1>6, <1>7, BacktestAssumption DEF w

\* A walk that has run out of looks has seen every session of its window but the last.
LEMMA WindowIsSeen ==
  ASSUME NEW d \in Days, NEW m \in Nat, FilledAt(d) <= m,
         \A o \in Observations(d) : o <= m, SessionsAt(d, m) < SessionStop
  PROVE  Cardinality({x \in Days : d < x}) < SessionStop
<1>1. PICK w \in Days : w = WindowEnd(d) /\ d <= w
  BY WindowEndIs
<1> DEFINE K == {x \in Days : d <= x /\ x < w}
           L == {x \in Days : d < x /\ x <= w}
           KS == {s \in Sessions : d <= s.day /\ s.day < w}
           t == Cardinality(Through(d, w))
<1>2. \A x \in Days : x \in Nat
  BY DaysAre
<1>3. t \in Nat /\ Cardinality(K) = t - 1 /\ Cardinality(L) = t - 1
  BY <1>1, ThroughIs
<1>4. SessionsAt(d, m) \in Nat /\ SessionStop \in Nat \ {0} /\ PathSessions >= SessionStop + 2
  BY SessionsAtIs, ExitAssumption, WindowAssumption
<1>5. Cardinality(K) <= SessionsAt(d, m)
  <2>1. CASE w = d
    <3>1. \A x : x \notin K
      BY <1>2, <2>1
    <3> HIDE DEF K
    <3> QED
      BY <1>4, <3>1, FS_EmptySet
  <2>2. CASE w # d
    <3>1. PICK z \in Sessions : z.day = w
      BY <1>1 DEF Days
    <3>2. d < w /\ z.open + Bar \in Observations(d)
      <4>1. d < w
        BY <1>1, <1>2, <2>2
      <4> QED
        BY <1>1, <1>2, <3>1, <4>1, LooksAre
    <3>3. z.open < m /\ FilledAt(d) < m /\ z.open \in Nat
      <4>1. z.open + Bar <= m /\ FilledAt(d) < z.open + Bar
        BY <3>2, LooksAre
      <4> QED
        BY <4>1, SessionIs, FillIs
    <3>4. KS \subseteq ClosesWithin(FilledAt(d), m - 1)
      <4> SUFFICES ASSUME NEW s \in KS
                   PROVE  s \in Sessions /\ FilledAt(d) < s.close /\ s.close <= m - 1
        BY DEF ClosesWithin
      <4>1. s \in Sessions /\ d <= s.day /\ s.day < w
        OBVIOUS
      <4>2. s.close < z.open
        BY <3>1, <4>1, SessionsInOrder
      <4>3. FilledAt(d) < s.close
        <5>1. CASE s.day = d
          BY <4>1, <5>1, SessionIs
        <5>2. CASE s.day # d
          <6>1. PICK o \in Sessions : o.day = d
            BY DEF Days
          <6>2. o.day < s.day
            BY <4>1, <5>2, <6>1, SessionIs
          <6>3. FilledAt(d) < o.close /\ o.close < s.close
            BY <4>1, <6>1, <6>2, SessionIs, SessionsInOrder
          <6> QED
            BY <4>1, <6>1, <6>3, SessionIs, FillIs
        <5> QED
          BY <5>1, <5>2
      <4>4. s.close \in Nat
        BY <4>1, SessionIs
      <4> QED
        BY <3>3, <4>1, <4>2, <4>3, <4>4
    <3>5. SessionsAt(d, m) = Cardinality(ClosesWithin(FilledAt(d), m - 1))
      BY <3>3, SessionsAtIs
    <3>6. IsFiniteSet(ClosesWithin(FilledAt(d), m - 1)) /\ Cardinality(ClosesWithin(FilledAt(d), m - 1)) \in Nat
      <4>1. FilledAt(d) \in Int /\ m - 1 \in Int
        BY FillIs
      <4> QED
        BY <4>1, ClosesCounted
    <3>7. IsFiniteSet(KS) /\ Cardinality(KS) <= Cardinality(ClosesWithin(FilledAt(d), m - 1))
      <4> HIDE DEF KS
      <4> QED
        BY <3>4, <3>6, FS_Subset
    <3>8. Cardinality(K) <= Cardinality(KS)
      <4> DEFINE f == [s \in KS |-> s.day]
      <4>1. f \in Surjection(KS, K)
        BY DEF Surjection, Days
      <4> HIDE DEF f, KS, K
      <4> QED
        BY <3>7, <4>1, FS_Surjection
    <3>9. Cardinality(KS) \in Nat /\ Cardinality(K) \in Int
      BY <3>7, <1>3, FS_CardinalityType
    <3> HIDE DEF K, KS
    <3> QED
      BY <3>5, <3>6, <3>7, <3>8, <3>9
  <2> QED
    BY <2>1, <2>2
<1>6. CASE \E x \in Days : w < x
  <2>1. PathSessions <= t
    BY <1>1, <1>6, WindowIsFull
  <2> HIDE DEF t, K
  <2> QED
    BY <1>3, <1>4, <1>5, <2>1, BacktestAssumption
<1>7. CASE ~\E x \in Days : w < x
  <2>1. \A x : x \in {y \in Days : d < y} <=> x \in L
    BY <1>2, <1>7
  <2> HIDE DEF t, K, L
  <2> QED
    <3>1. {y \in Days : d < y} = L
      BY <2>1
    <3> QED
      BY <1>3, <1>4, <1>5, <3>1
<1> QED
  BY <1>6, <1>7

----------------------------------------------------------------------------
(* The backtest: the trades of an entry.                                    *)

\* What a fill costs is a number.
LEMMA FillIsNumber ==
  ASSUME NEW d, NEW signals, NEW group, NEW chain \in Chains
  PROVE  Enters(d, signals, group, chain).fill \in Int
<1> DEFINE price == CloseOf[Completed(d)]
           setup == Classify(WithoutBreadth(signals), price)
           quotes == {SyntheticQuote(q) : q \in {x \in Priced(chain) : x.type = "call"}}
           thesis == Baseline(signals, setup)
           spread == Select(quotes, price, thesis)
           long == Quote(chain, spread.long)
           short == Quote(chain, spread.short)
           account == [equity |-> StartEquity, power |-> StartEquity]
           entry == Enters(d, signals, group, chain)
<1>1. \/ entry.fill = 0
      \/ entry.fill = long.fill - short.fill /\ Approves(quotes, account, setup, thesis, spread)
  BY DEF Enters
<1>2. \A contract \in {q.contract : q \in quotes} : Quote(chain, contract) \in chain
  <2> SUFFICES ASSUME NEW q \in quotes
               PROVE  Quote(chain, q.contract) \in chain
    OBVIOUS
  <2>1. PICK x \in chain : q = SyntheticQuote(x)
    BY DEF Priced
  <2>2. q.contract = x.contract
    BY <2>1 DEF SyntheticQuote
  <2> QED
    BY <2>2 DEF Quote
<1> HIDE DEF quotes, setup, thesis, account, spread, entry
<1>3. CASE Approves(quotes, account, setup, thesis, spread)
  <2>1. long \in chain /\ short \in chain
    BY <1>2, <1>3 DEF Approves
  <2>2. long.fill \in Int /\ short.fill \in Int
    BY <2>1, InputAssumption
  <2> HIDE DEF long, short
  <2> QED
    BY <1>1, <2>2 DEF entry
<1> QED
  BY <1>1, <1>3 DEF entry

Untriggered == {"open", "no_trigger", "no_path"}

\* What a trade of an entry of day d may be.
TradeOk(d, t) ==
  /\ t = [status |-> t.status, trigger |-> t.trigger, triggeredAt |-> t.triggeredAt,
          exitedAt |-> t.exitedAt, held |-> t.held, result |-> t.result]
  /\ t.status \in Untriggered \cup {"triggered", "closed", "no_exit_fill"}
  /\ t.status \in Untriggered <=> t.trigger = "none"
  /\ {t.triggeredAt, t.exitedAt, t.held} \subseteq Nat
  /\ t.held <= SessionStop
  /\ t.status = "closed" => t.triggeredAt < t.exitedAt /\ FilledAt(d) <= t.exitedAt
  /\ t.status = "no_trigger" => Cardinality({x \in Days : d < x}) < SessionStop

\* A trade the walk has taken to moment m.
Walked(d, t, m) ==
  /\ t.status \in {"open", "triggered", "closed"}
  /\ t.triggeredAt <= m
  /\ t.status = "open" => SessionsAt(d, m) < SessionStop

\* What a walk has reached.
Reached(d, m) == m \in Nat /\ FilledAt(d) <= m /\ (m = FilledAt(d) \/ m \in Observations(d))

LEMMA TriggerIs ==
  ASSUME NEW x
  PROVE  /\ EvaluateExit(x) # "none"
         /\ x.sessions >= SessionStop => ShouldClose(EvaluateExit(x))
         /\ EvaluateExit(x) = "stop_loss" => x.readable /\ x.value <= StopLevel(x)
         /\ x.readable /\ x.value <= StopLevel(x) => ShouldClose(EvaluateExit(x))
BY DEF EvaluateExit, ShouldClose, Unmeasurable

LEMMA ObservedIs ==
  ASSUME NEW e, e.day \in Days, NEW f, NEW bars, NEW p, Reached(e.day, p),
         NEW m \in Observations(e.day), p < m, \A o \in Observations(e.day) : p < o => m <= o,
         TradeOk(e.day, e.trades[f]), Walked(e.day, e.trades[f], p)
  PROVE  LET t == Observed(e, f, bars, m)
         IN TradeOk(e.day, t) /\ Walked(e.day, t, m)
<1> DEFINE d == e.day
           t == e.trades[f]
           x == Seen(e, f, bars, m)
           trigger == EvaluateExit(x)
           n == Observed(e, f, bars, m)
<1>1. x.sessions = SessionsAt(d, m)
  BY DEF Seen, SessionsAt
<1>2. /\ m \in Nat /\ p \in Nat /\ FilledAt(d) <= p /\ FilledAt(d) \in Nat
      /\ SessionsAt(d, m) \in Nat /\ SessionsAt(d, p) \in Nat /\ SessionStop \in Nat \ {0}
  BY LooksAre, FillIs, SessionsAtIs, ExitAssumption DEF Reached
<1>3. SessionsAt(d, m) <= SessionsAt(d, p) + 1
  BY <1>2, OneCloseBetween
<1>4. trigger # "none" /\ (~ShouldClose(trigger) => SessionsAt(d, m) < SessionStop)
  <2>1. x.sessions >= SessionStop => ShouldClose(trigger)
    BY TriggerIs
  <2>2. trigger # "none"
    BY TriggerIs
  <2> HIDE DEF x
  <2> QED
    BY <1>1, <1>2, <2>1, <2>2
<1>5. /\ n = IF t.status = "open" /\ ShouldClose(trigger)
             THEN [t EXCEPT !.status = "triggered", !.trigger = trigger, !.triggeredAt = m,
                            !.held = x.sessions]
             ELSE IF t.status = "triggered" /\ BothTraded(bars, m)
             THEN [t EXCEPT !.status = "closed", !.exitedAt = m,
                            !.result = (Mark(bars, f) - Debit(e, f)) * Multiplier]
             ELSE t
  BY DEF Observed
<1> DEFINE profit == (Mark(bars, f) - Debit(e, f)) * Multiplier
<1> HIDE DEF x, trigger, n, profit
<1>6. CASE t.status = "open" /\ ShouldClose(trigger)
  <2>1. n = [status |-> "triggered", trigger |-> trigger, triggeredAt |-> m,
             exitedAt |-> t.exitedAt, held |-> SessionsAt(d, m), result |-> t.result]
    BY <1>1, <1>5, <1>6 DEF TradeOk
  <2>2. SessionsAt(d, m) <= SessionStop
    <3>1. SessionsAt(d, p) < SessionStop
      BY <1>6 DEF Walked
    <3> QED
      BY <1>2, <1>3, <3>1
  <2>3. TradeOk(d, n)
    BY <1>2, <1>4, <2>1, <2>2 DEF TradeOk, Untriggered
  <2>4. Walked(d, n, m)
    BY <1>2, <2>1 DEF Walked
  <2> QED
    BY <2>3, <2>4 DEF n
<1>7. CASE t.status = "triggered" /\ BothTraded(bars, m)
  <2>1. n = [status |-> "closed", trigger |-> t.trigger, triggeredAt |-> t.triggeredAt,
             exitedAt |-> m, held |-> t.held, result |-> profit]
    BY <1>5, <1>7 DEF TradeOk, profit
  <2>2. t.triggeredAt \in Nat /\ t.triggeredAt <= p /\ t.trigger # "none"
    BY <1>7 DEF TradeOk, Walked, Untriggered
  <2>3. TradeOk(d, n)
    BY <1>2, <2>1, <2>2 DEF TradeOk, Untriggered
  <2>4. Walked(d, n, m)
    BY <1>2, <2>1, <2>2 DEF Walked
  <2> QED
    BY <2>3, <2>4 DEF n
<1>8. CASE /\ ~(t.status = "open" /\ ShouldClose(trigger))
           /\ ~(t.status = "triggered" /\ BothTraded(bars, m))
  <2>1. n = t
    BY <1>5, <1>8
  <2>2. t.triggeredAt \in Nat /\ t.triggeredAt <= p
    BY DEF TradeOk, Walked
  <2>3. Walked(d, t, m)
    BY <1>2, <1>4, <1>8, <2>2 DEF Walked
  <2> QED
    BY <2>1, <2>3 DEF n
<1> QED
  BY <1>6, <1>7, <1>8

\* A case that pays more has the higher stop and the lower mark.
LEMMA HalvesGrow ==
  ASSUME NEW a \in Int, NEW b \in Int, a < b
  PROVE  HalfEven(a * 50, 100) <= HalfEven(b * 50, 100)
BY SMTT(30) DEF HalfEven

LEMMA DearerIsStopped ==
  ASSUME NEW e, e.fill \in Int, NEW f \in Frictions, NEW g \in Frictions, f < g,
         NEW bars, bars.long.price \in Nat, bars.short.price \in Nat, NEW m,
         EvaluateExit(Seen(e, f, bars, m)) = "stop_loss"
  PROVE  ShouldClose(EvaluateExit(Seen(e, g, bars, m)))
<1> DEFINE x == Seen(e, f, bars, m)
           y == Seen(e, g, bars, m)
           gross == bars.long.price - bars.short.price
<1>1. x.readable /\ x.value <= StopLevel(x)
  BY TriggerIs
<1>2. Measurable(bars, m) /\ y.readable
  BY <1>1 DEF Seen
<1>3. x.value = gross - f /\ y.value = gross - g /\ x.debit = e.fill + f /\ y.debit = e.fill + g
  BY <1>2 DEF Seen, Mark, Debit
<1>4. f \in Nat /\ g \in Nat /\ gross \in Int
  BY BacktestAssumption
<1>5. StopLevel(x) <= StopLevel(y) /\ StopLevel(x) \in Int /\ StopLevel(y) \in Int
  <2>1. e.fill + f \in Int /\ e.fill + g \in Int /\ e.fill + f < e.fill + g
    BY <1>4
  <2>2. HalfEven((e.fill + f) * 50, 100) \in Int /\ HalfEven((e.fill + g) * 50, 100) \in Int
    <3>1. (e.fill + f) * 50 \in Int /\ (e.fill + g) * 50 \in Int
      BY <2>1
    <3> QED
      BY <3>1, HalfEvenInt
  <2>3. HalfEven((e.fill + f) * 50, 100) <= HalfEven((e.fill + g) * 50, 100)
    BY <2>1, HalvesGrow
  <2> QED
    BY <1>3, <2>2, <2>3 DEF StopLevel
<1> HIDE DEF x, y, gross
<1>6. y.value <= StopLevel(y)
  BY <1>1, <1>3, <1>4, <1>5
<1> QED
  BY <1>2, <1>6, TriggerIs DEF y

\* Where a cheaper case hit its stop a dearer one has had its trigger.
DearerFirst(trades) ==
  \A f, g \in Frictions :
    (f < g /\ trades[f].trigger = "stop_loss") =>
      /\ trades[g].trigger # "none"
      /\ trades[g].triggeredAt <= trades[f].triggeredAt

LEMMA DearerStep ==
  ASSUME NEW e, e.fill \in Int, e.day \in Days,
         NEW bars, bars.long.price \in Nat, bars.short.price \in Nat,
         NEW p \in Nat, NEW m \in Nat, p < m, DearerFirst(e.trades),
         \A f \in Frictions : TradeOk(e.day, e.trades[f]) /\ Walked(e.day, e.trades[f], p)
  PROVE  DearerFirst([f \in Frictions |-> Observed(e, f, bars, m)])
<1> DEFINE new == [f \in Frictions |-> Observed(e, f, bars, m)]
           said(f) == EvaluateExit(Seen(e, f, bars, m))
<1>1. ASSUME NEW f \in Frictions
      PROVE  /\ e.trades[f].status = "open" /\ ShouldClose(said(f)) =>
                  new[f].trigger = said(f) /\ new[f].triggeredAt = m
             /\ ~(e.trades[f].status = "open" /\ ShouldClose(said(f))) =>
                  new[f].trigger = e.trades[f].trigger /\ new[f].triggeredAt = e.trades[f].triggeredAt
             /\ e.trades[f].trigger # "none" <=> e.trades[f].status # "open"
             /\ e.trades[f].triggeredAt \in Nat /\ e.trades[f].triggeredAt < m
             /\ said(f) # "none"
  <2>1. TradeOk(e.day, e.trades[f]) /\ Walked(e.day, e.trades[f], p)
    OBVIOUS
  <2>2. said(f) # "none"
    BY TriggerIs
  <2>3. e.trades[f].trigger # "none" <=> e.trades[f].status # "open"
    BY <2>1 DEF TradeOk, Walked, Untriggered
  <2>4. e.trades[f].triggeredAt \in Nat /\ e.trades[f].triggeredAt < m
    BY <2>1 DEF TradeOk, Walked
  <2> DEFINE t == e.trades[f]
             profit == (Mark(bars, f) - Debit(e, f)) * Multiplier
             x == Seen(e, f, bars, m)
  <2>5. new[f] = IF t.status = "open" /\ ShouldClose(said(f))
                 THEN [t EXCEPT !.status = "triggered", !.trigger = said(f), !.triggeredAt = m,
                                !.held = x.sessions]
                 ELSE IF t.status = "triggered" /\ BothTraded(bars, m)
                 THEN [t EXCEPT !.status = "closed", !.exitedAt = m, !.result = profit]
                 ELSE t
    BY DEF Observed
  <2> HIDE DEF profit, x, said, new
  <2>6. t.status = "open" /\ ShouldClose(said(f)) =>
          new[f].trigger = said(f) /\ new[f].triggeredAt = m
    BY <2>1, <2>5 DEF TradeOk
  <2>7. ~(t.status = "open" /\ ShouldClose(said(f))) =>
          new[f].trigger = t.trigger /\ new[f].triggeredAt = t.triggeredAt
    BY <2>1, <2>5 DEF TradeOk
  <2> QED
    BY <2>2, <2>3, <2>4, <2>6, <2>7
<1> HIDE DEF new
<1> SUFFICES ASSUME NEW f \in Frictions, NEW g \in Frictions, f < g, new[f].trigger = "stop_loss"
             PROVE  new[g].trigger # "none" /\ new[g].triggeredAt <= new[f].triggeredAt
  BY DEF DearerFirst, new
<1>2. CASE e.trades[f].status = "open" /\ ShouldClose(said(f))
  <2>1. said(f) = "stop_loss" /\ new[f].triggeredAt = m
    BY <1>1, <1>2
  <2>2. ShouldClose(said(g))
    BY <2>1, DearerIsStopped
  <2> HIDE DEF said
  <2>3. CASE e.trades[g].status = "open"
    BY <1>1, <2>1, <2>2, <2>3
  <2>4. CASE e.trades[g].status # "open"
    <3>1. new[g].trigger # "none" /\ new[g].triggeredAt \in Nat /\ new[g].triggeredAt < m
      BY <1>1, <2>4
    <3> QED
      BY <2>1, <3>1
  <2> QED
    BY <2>3, <2>4
<1>3. CASE ~(e.trades[f].status = "open" /\ ShouldClose(said(f)))
  <2>1. e.trades[f].trigger = "stop_loss" /\ new[f].triggeredAt = e.trades[f].triggeredAt
    BY <1>1, <1>3
  <2>2. e.trades[g].trigger # "none" /\ e.trades[g].triggeredAt <= e.trades[f].triggeredAt
    BY <2>1 DEF DearerFirst
  <2>3. new[g].trigger = e.trades[g].trigger /\ new[g].triggeredAt = e.trades[g].triggeredAt
    BY <1>1, <2>2
  <2> QED
    BY <2>1, <2>2, <2>3
<1> QED
  BY <1>2, <1>3

EntryOk(e) ==
  /\ e.fill \in Int
  /\ \A f \in Frictions : TradeOk(e.day, e.trades[f])
  /\ DearerFirst(e.trades)

\* Every entry's trades are in order, and those of the walk have come to its moment.
TradesInv ==
  /\ \A i \in DOMAIN entries : EntryOk(entries[i])
  /\ legs.long.price \in Nat /\ legs.short.price \in Nat
  /\ stage = "walk" =>
       /\ Reached(day, moment)
       /\ \A f \in Frictions : Walked(day, Latest.trades[f], moment)

LEMMA NewTradesOk ==
  ASSUME NEW d \in Days, NEW status \in {"open", "no_path"}
  PROVE  TradeOk(d, [NoTrade EXCEPT !.status = status]) /\ TradeOk(d, NoTrade)
BY ExitAssumption DEF TradeOk, NoTrade, Untriggered

LEMMA UnresolvedIs ==
  ASSUME NEW d \in Days, NEW m, Reached(d, m), \A o \in Observations(d) : ~(m < o),
         NEW t, TradeOk(d, t), Walked(d, t, m)
  PROVE  /\ TradeOk(d, Unresolved(t))
         /\ Unresolved(t).trigger = t.trigger /\ Unresolved(t).triggeredAt = t.triggeredAt
<1>1. CASE t.status = "open"
  <2>1. Unresolved(t) = [status |-> "no_trigger", trigger |-> t.trigger,
          triggeredAt |-> t.triggeredAt, exitedAt |-> t.exitedAt, held |-> t.held, result |-> t.result]
    BY <1>1 DEF Unresolved, TradeOk
  <2>2. Cardinality({x \in Days : d < x}) < SessionStop
    <3>1. SessionsAt(d, m) < SessionStop
      BY <1>1 DEF Walked
    <3>2. m \in Nat /\ FilledAt(d) <= m
      BY DEF Reached
    <3>3. \A o \in Observations(d) : o <= m
      BY <3>2, LooksAre
    <3> QED
      BY <3>1, <3>2, <3>3, WindowIsSeen
  <2> QED
    BY <1>1, <2>1, <2>2 DEF TradeOk, Untriggered
<1>2. CASE t.status # "open"
  <2>1. Unresolved(t) = [status |-> IF t.status = "triggered" THEN "no_exit_fill" ELSE t.status,
          trigger |-> t.trigger, triggeredAt |-> t.triggeredAt, exitedAt |-> t.exitedAt,
          held |-> t.held, result |-> t.result]
    BY <1>2 DEF Unresolved, TradeOk
  <2>2. t.status \in {"triggered", "closed"}
    BY <1>2 DEF Walked
  <2> QED
    BY <1>2, <2>1, <2>2 DEF TradeOk, Untriggered
<1> QED
  BY <1>1, <1>2

LEMMA NewestIs ==
  ASSUME legs.long.price \in Nat, legs.short.price \in Nat,
         NEW m, NEW long \in LongPrices \cup {0}, NEW short \in ShortPrices \cup {0}
  PROVE  Newest(legs, m, long, short).long.price \in Nat /\ Newest(legs, m, long, short).short.price \in Nat
BY BacktestAssumption DEF Newest

\* What a step of the walk makes of the trades.
LEMMA WalkSteps ==
  ASSUME OrderInv, TradesInv, Steps
  PROVE  LET trades == [f \in Frictions |-> Observed(Latest, f, legs', moment')]
         IN /\ EntryOk(Retraded(Latest, trades)) /\ Reached(day, moment')
            /\ \A f \in Frictions : Walked(day, trades[f], moment')
            /\ legs'.long.price \in Nat /\ legs'.short.price \in Nat
            /\ entries' = [entries EXCEPT ![Len(entries)] = Retraded(Latest, trades)]
<1> DEFINE trades == [f \in Frictions |-> Observed(Latest, f, legs', moment')]
           e == Latest
<1>1. /\ stage = "walk" /\ Len(entries) \in DOMAIN entries /\ IsEntry(e) /\ EntryOk(e)
      /\ e.day = day /\ day \in Days /\ Reached(day, moment)
      /\ \A f \in Frictions : Walked(day, e.trades[f], moment)
  BY ListIs DEF OrderInv, TradesInv, Steps, Latest
<1>2. PICK m : m = moment' /\ m \in Observations(day) /\ moment < m
               /\ \A o \in Observations(day) : moment < o => m <= o
  <2>1. \A o \in Observations(day) : o \in Nat
    BY <1>1, LooksAre
  <2>2. Ahead \subseteq Nat /\ Ahead # {} /\ moment' = Min(Ahead)
    BY <1>1, <2>1 DEF Steps, Ahead
  <2>3. Min(Ahead) \in Ahead /\ \A o \in Ahead : Min(Ahead) <= o
    BY <2>2, LeastOf
  <2>4. \A o : o \in Ahead <=> o \in Observations(day) /\ moment < o
    <3>1. \A o \in Observations(day) : o > moment <=> moment < o
      OBVIOUS
    <3> QED
      BY <1>1, <3>1 DEF Ahead
  <2> QED
    BY <2>2, <2>3, <2>4
<1>3. PICK bars : bars = legs' /\ bars.long.price \in Nat /\ bars.short.price \in Nat
  BY NewestIs DEF Steps, TradesInv
<1>4. trades = [f \in Frictions |-> Observed(e, f, bars, m)]
  BY <1>2, <1>3
<1>5. Reached(day, m) /\ m \in Nat /\ moment \in Nat
  BY <1>1, <1>2, LooksAre, FillIs DEF Reached
<1>6. ASSUME NEW f \in Frictions
      PROVE  TradeOk(day, Observed(e, f, bars, m)) /\ Walked(day, Observed(e, f, bars, m), m)
  BY <1>1, <1>2, ObservedIs DEF EntryOk
<1>7. DearerFirst([f \in Frictions |-> Observed(e, f, bars, m)])
  BY <1>1, <1>2, <1>3, <1>5, DearerStep DEF EntryOk
<1>8. EntryOk(Retraded(e, trades))
  <2>1. /\ Retraded(e, trades).trades = trades /\ Retraded(e, trades).day = day
        /\ Retraded(e, trades).fill = e.fill
    BY <1>1, RetradedIs
  <2>2. \A f \in Frictions : TradeOk(day, trades[f])
    BY <1>4, <1>6
  <2> QED
    BY <1>1, <1>4, <1>7, <2>1, <2>2 DEF EntryOk
<1>9. entries' = [entries EXCEPT ![Len(entries)] = Retraded(e, trades)]
  BY DEF Steps, SetTrades, Retraded, Latest
<1>10. \A f \in Frictions : Walked(day, trades[f], m)
  BY <1>4, <1>6
<1> HIDE DEF trades, e
<1> QED
  BY <1>2, <1>3, <1>5, <1>8, <1>9, <1>10 DEF trades, e

\* What the end of a walk makes of them.
LEMMA WalkEndsIs ==
  ASSUME OrderInv, TradesInv, WalkEnds
  PROVE  \/ UNCHANGED entries
         \/ \E trades : /\ EntryOk(Retraded(Latest, trades))
                        /\ entries' = [entries EXCEPT ![Len(entries)] = Retraded(Latest, trades)]
<1> DEFINE e == Latest
           over == [f \in Frictions |-> Unresolved(e.trades[f])]
           none == [f \in Frictions |-> [NoTrade EXCEPT !.status = "no_path"]]
<1>1. /\ Len(entries) \in DOMAIN entries /\ IsEntry(e) /\ EntryOk(e)
      /\ e.day = day /\ day \in Days /\ Reached(day, moment)
      /\ \A f \in Frictions : Walked(day, e.trades[f], moment)
  BY ListIs DEF OrderInv, TradesInv, WalkEnds, Latest
<1>2. \A trades : SetTrades(trades) <=>
        entries' = [entries EXCEPT ![Len(entries)] = Retraded(Latest, trades)]
  BY DEF SetTrades, Retraded, Latest
<1>3. \A trades : /\ Retraded(e, trades).trades = trades /\ Retraded(e, trades).day = day
                  /\ Retraded(e, trades).fill = e.fill
  BY <1>1, RetradedIs
<1>4. ASSUME Ahead = {} PROVE EntryOk(Retraded(e, over))
  <2>1. \A o \in Observations(day) : ~(moment < o)
    <3>1. \A o \in Observations(day) : o > moment <=> moment < o
      OBVIOUS
    <3> QED
      BY <1>1, <1>4, <3>1 DEF Ahead
  <2>2. \A f \in Frictions :
          /\ TradeOk(day, over[f]) /\ over[f].trigger = e.trades[f].trigger
          /\ over[f].triggeredAt = e.trades[f].triggeredAt
    BY <1>1, <2>1, UnresolvedIs DEF EntryOk
  <2> HIDE DEF over, e
  <2>3. DearerFirst(over)
    BY <1>1, <2>2 DEF EntryOk, DearerFirst
  <2> QED
    BY <1>1, <1>3, <2>2, <2>3 DEF EntryOk
<1>5. EntryOk(Retraded(e, none))
  <2>1. \A f \in Frictions : none[f].trigger = "none" /\ TradeOk(day, none[f])
    BY <1>1, NewTradesOk DEF NoTrade
  <2> HIDE DEF none, e
  <2>2. DearerFirst(none)
    BY <2>1 DEF DearerFirst
  <2> QED
    BY <1>1, <1>3, <2>1, <2>2 DEF EntryOk
<1>6. UNCHANGED entries \/ (Ahead = {} /\ SetTrades(over)) \/ SetTrades(none)
  BY DEF WalkEnds
<1> QED
  BY <1>2, <1>4, <1>5, <1>6

LEMMA SelectsIs ==
  ASSUME OrderInv, NEW entry, Selected(entry)
  PROVE  EntryOk(entry) /\ entry.day = day /\ \A f \in Frictions : entry.trades[f] = NoTrade
<1>1. PICK reading \in Readings, chain \in Chains :
        entry = Enters(day, BuildSignals(reading), Bucket(day, reading), chain)
  BY DEF Selected
<1>2. entry.day = day /\ entry.trades = [f \in Frictions |-> NoTrade] /\ entry.fill \in Int
  BY <1>1, EntersIs, FillIsNumber
<1>3. DearerFirst(entry.trades)
  BY <1>2 DEF DearerFirst, NoTrade
<1> QED
  BY <1>2, <1>3, NewTradesOk DEF EntryOk, OrderInv

LEMMA TradesInit == Init => TradesInv
BY DEF Init, TradesInv, NoBars

LEMMA TradesStep == OrderInv /\ TradesInv /\ [Next]_vars => TradesInv'
<1> SUFFICES ASSUME OrderInv, TradesInv, [Next]_vars PROVE TradesInv'
  OBVIOUS
<1> DEFINE n == Len(entries)
<1>a. /\ IsListOf(entries) /\ n \in Nat /\ DOMAIN entries = 1..n /\ day \in Days
  BY ListIs DEF OrderInv
<1>1. ASSUME NEW entry, EntryOk(entry), entries' = [entries EXCEPT ![n] = entry], n > 0
      PROVE  /\ \A i \in DOMAIN entries' : EntryOk(entries'[i])
             /\ Latest' = entry
  <2>1. n \in DOMAIN entries
    BY <1>a, <1>1
  <2>2. /\ DOMAIN entries' = DOMAIN entries /\ Len(entries') = n /\ entries'[n] = entry
        /\ \A j \in DOMAIN entries : j # n => entries'[j] = entries[j]
    BY <1>1, <1>a, <2>1, ReplacedIs
  <2> QED
    BY <1>1, <2>2 DEF TradesInv, Latest
<1>2. CASE Steps
  <2>1. stage = "walk" /\ UNCHANGED <<stage, day>> /\ n > 0
    BY <1>2 DEF Steps, OrderInv
  <2> DEFINE trades == [f \in Frictions |-> Observed(Latest, f, legs', moment')]
  <2>2. PICK t : t = trades
    OBVIOUS
  <2>3. /\ EntryOk(Retraded(Latest, t)) /\ Reached(day, moment')
        /\ \A f \in Frictions : Walked(day, t[f], moment')
        /\ legs'.long.price \in Nat /\ legs'.short.price \in Nat
        /\ entries' = [entries EXCEPT ![n] = Retraded(Latest, t)]
    BY <1>2, <2>2, WalkSteps
  <2>4. /\ \A i \in DOMAIN entries' : EntryOk(entries'[i])
        /\ Latest' = Retraded(Latest, t)
    BY <1>1, <2>1, <2>3
  <2>5. Retraded(Latest, t).trades = t
    BY <1>a, <2>1, RetradedIs DEF OrderInv, Latest
  <2> HIDE DEF trades
  <2> QED
    BY <2>1, <2>3, <2>4, <2>5 DEF TradesInv
<1>3. CASE WalkEnds
  <2>1. stage' # "walk" /\ legs' = NoBars /\ n > 0
    BY <1>3, <1>a, NextDayIs DEF WalkEnds, OrderInv
  <2>2. \A i \in DOMAIN entries' : EntryOk(entries'[i])
    BY <1>1, <1>3, <2>1, WalkEndsIs DEF TradesInv
  <2> QED
    BY <2>1, <2>2 DEF TradesInv, NoBars
<1>4. CASE Selects
  <2>1. PICK entry : Selected(entry) /\ entries' = Append(entries, entry)
                     /\ (stage' = "walk" => moment' = FilledAt(day) /\ UNCHANGED day)
                     /\ UNCHANGED legs
    <3>1. NextDay => stage' # "walk"
      BY <1>a, NextDayIs
    <3> QED
      BY <1>4, <3>1 DEF Selects, Selected
  <2>2. /\ EntryOk(entry) /\ entry.day = day
        /\ \A f \in Frictions : entry.trades[f] = NoTrade
    BY <2>1, SelectsIs
  <2>3. /\ IsListOf(entries') /\ DOMAIN entries' = 1..(n + 1)
        /\ \A i \in 1..n : entries'[i] = entries[i]
        /\ entries'[n + 1] = entry
    BY <2>1, <1>a, AppendedIs
  <2>4. Len(entries') = n + 1
    BY <2>3, <1>a, ListIs
  <2>5. \A i \in DOMAIN entries' : EntryOk(entries'[i])
    <3>1. \A i \in DOMAIN entries' : i = n + 1 \/ i \in 1..n
      BY <2>3, <1>a
    <3> HIDE DEF n
    <3> QED
      BY <2>2, <2>3, <3>1, <1>a DEF TradesInv
  <2>6. Latest' = entry
    BY <2>3, <2>4 DEF Latest
  <2>7. FilledAt(day) \in Nat /\ SessionsAt(day, FilledAt(day)) = 0
    BY <1>a, FillIs, SessionsAtIs
  <2>8. Reached(day, FilledAt(day)) /\ Walked(day, NoTrade, FilledAt(day))
    BY <2>7, ExitAssumption DEF Reached, Walked, NoTrade
  <2> QED
    BY <2>1, <2>2, <2>5, <2>6, <2>8 DEF TradesInv
<1>5. CASE PassesOver \/ Books
  <2>1. UNCHANGED <<entries, legs>> /\ stage' # "walk"
    BY <1>5, <1>a, NextDayIs DEF PassesOver, Books
  <2> QED
    BY <2>1 DEF TradesInv
<1>6. CASE UNCHANGED vars
  BY <1>6 DEF vars, TradesInv, Latest
<1> QED
  BY <1>2, <1>3, <1>4, <1>5, <1>6 DEF Next

LEMMA TradesAlways == Spec => [](OrderInv /\ TradesInv)
BY OrderInit, OrderStep, TradesInit, TradesStep, PTL DEF Spec

\* Every trigger comes within the bars downloaded for the entry, none later than the
\* first look past the session stop, and no exit fills in the bar that told it.
\* (veto_export.py: "the session stop acts at the open after the third completed close,
\* so five sessions hold every exit"; what they hold for sure is the trigger.)
THEOREM TriggersAreSeen == Spec => []TriggersInWindow
<1>1. OrderInv /\ TradesInv => TriggersInWindow
  <2> SUFFICES ASSUME OrderInv, TradesInv, NEW e \in Range(entries), NEW f \in Frictions
               PROVE  LET t == e.trades[f] IN
                      /\ t.held <= SessionStop
                      /\ t.status = "no_trigger" => Cardinality({d \in Days : e.day < d}) < SessionStop
                      /\ t.status = "closed" => t.triggeredAt < t.exitedAt
    BY DEF TriggersInWindow
  <2>1. EntryOk(e)
    BY ListIs DEF OrderInv, TradesInv
  <2> QED
    BY <2>1 DEF EntryOk, TradeOk
<1> QED
  BY <1>1, TradesAlways, PTL

\* A dearer case is stopped no later than a cheaper one: the costs move both the stop,
\* which is half the debit paid, and the mark, and both towards an earlier exit.
THEOREM DearerIsFirst == Spec => []DearerStopsFirst
<1>1. OrderInv /\ TradesInv => DearerStopsFirst
  <2> SUFFICES ASSUME OrderInv, TradesInv, NEW i \in DOMAIN entries
               PROVE  DearerFirst(entries[i].trades)
    BY ListIs DEF OrderInv, DearerStopsFirst, DearerFirst
  <2> QED
    BY DEF TradesInv, EntryOk
<1> QED
  BY <1>1, TradesAlways, PTL

----------------------------------------------------------------------------
(* The backtest: the portfolios.                                            *)

\* A position is out of the way on a day of its own or later.
LEMMA EndIs ==
  ASSUME NEW e, e.day \in Days, NEW f, TradeOk(e.day, e.trades[f])
  PROVE  EndOf(e, f) \in Nat /\ e.day <= EndOf(e, f)
<1> DEFINE t == e.trades[f]
<1>1. CASE t.status = "closed"
  <2>1. t.exitedAt \in Nat /\ e.day * DayLen <= t.exitedAt /\ e.day \in Nat /\ DayLen \in Nat \ {0}
    <3>1. FilledAt(e.day) <= t.exitedAt /\ t.exitedAt \in Nat
      BY <1>1 DEF TradeOk
    <3>2. e.day * DayLen \in Nat
      BY FillIs, DayStarts
    <3> QED
      BY <3>1, <3>2, FillIs, CalendarAssumption
  <2> DEFINE q == t.exitedAt \div DayLen
             r == t.exitedAt % DayLen
  <2>2. q \in Nat /\ t.exitedAt = DayLen * q + r /\ r \in 0..(DayLen - 1)
    BY <2>1
  <2>3. EndOf(e, f) = q
    BY <1>1 DEF EndOf, DayOf
  <2> HIDE DEF q, r
  <2>4. (q + 1) * DayLen = DayLen * q + DayLen
    BY <2>1, <2>2
  <2>5. e.day * DayLen < (q + 1) * DayLen
    <3>1. e.day * DayLen \in Nat
      BY <2>1
    <3> QED
      BY <2>1, <2>2, <2>4, <3>1
  <2> QED
    BY <2>1, <2>2, <2>3, <2>5, DayStarts
<1>2. CASE t.status # "closed"
  BY <1>2, WindowEndIs, DaysAre DEF EndOf
<1> QED
  BY <1>1, <1>2

\* A book holds entries of days gone by, one at a time, and knows when the last ends.
BookOk(book, f) ==
  /\ book.busyUntil \in Int
  /\ \A i \in DOMAIN entries :
       entries[i].day \in book.traded => EndOf(entries[i], f) <= book.busyUntil
  /\ \A i, j \in DOMAIN entries :
       ({entries[i].day, entries[j].day} \subseteq book.traded /\ entries[i].day < entries[j].day)
         => EndOf(entries[i], f) < entries[j].day

BooksInv ==
  /\ stage \in {"sessions", "walk"} =>
       books = [arm \in Arms |-> [f \in Frictions |-> NewBook]]
  /\ \A arm \in Arms, f \in Frictions :
       /\ BookOk(books[arm][f], f)
       /\ stage = "portfolio" => \A d \in books[arm][f].traded : d \in Nat /\ d < day

\* Booking the entry of the session, when every earlier one was of an earlier day.
LEMMA BookedOk ==
  ASSUME OrderInv, TradesInv, NEW arm, NEW f \in Frictions, NEW book, BookOk(book, f),
         \A d \in book.traded : d \in Nat /\ d < day,
         NEW k \in DOMAIN entries, entries[k].day = day
  PROVE  LET new == Booked(arm, f, book, entries[k])
         IN BookOk(new, f) /\ \A d \in new.traded : d \in book.traded \cup {day}
<1> DEFINE new == Booked(arm, f, book, entries[k])
<1>a. \A i \in DOMAIN entries :
        entries[i].day \in Nat /\ EndOf(entries[i], f) \in Nat /\ entries[i].day <= EndOf(entries[i], f)
  BY EndIs, DaysAre DEF OrderInv, TradesInv, EntryOk
<1>1. CASE new = book
  BY <1>1
<1>2. CASE new # book
  <2>1. /\ book.busyUntil < day /\ new.busyUntil = EndOf(entries[k], f)
        /\ new.traded = book.traded \cup {day}
    BY <1>2 DEF Booked, Free
  <2> HIDE DEF new
  <2>2. new.busyUntil \in Int /\ book.busyUntil \in Int /\ book.busyUntil < new.busyUntil /\ day \in Nat
    BY <2>1, <1>a DEF BookOk
  <2>3. \A i \in DOMAIN entries : entries[i].day = day => i = k
    <3> SUFFICES ASSUME NEW i \in DOMAIN entries, entries[i].day = day PROVE i = k
      OBVIOUS
    <3>1. i \in Nat /\ k \in Nat
      BY ListIs DEF OrderInv
    <3>2. (i < k => entries[i].day < entries[k].day) /\ (k < i => entries[k].day < entries[i].day)
      BY DEF OrderInv
    <3> QED
      BY <2>2, <3>1, <3>2
  <2>4. ASSUME NEW i \in DOMAIN entries, entries[i].day \in new.traded
        PROVE  EndOf(entries[i], f) <= new.busyUntil
    <3>1. CASE entries[i].day \in book.traded
      <4>1. EndOf(entries[i], f) <= book.busyUntil
        BY <3>1 DEF BookOk
      <4> QED
        BY <1>a, <2>2, <4>1
    <3>2. CASE entries[i].day = day
      BY <1>a, <2>1, <2>3, <3>2
    <3> QED
      BY <2>1, <2>4, <3>1, <3>2
  <2>5. ASSUME NEW i \in DOMAIN entries, NEW j \in DOMAIN entries, entries[i].day \in new.traded,
               entries[j].day \in new.traded, entries[i].day < entries[j].day
        PROVE  EndOf(entries[i], f) < entries[j].day
    <3>1. CASE entries[i].day \in book.traded /\ entries[j].day \in book.traded
      BY <2>5, <3>1 DEF BookOk
    <3>2. CASE entries[i].day \in book.traded /\ entries[j].day = day
      <4>1. EndOf(entries[i], f) <= book.busyUntil
        BY <3>2 DEF BookOk
      <4> QED
        BY <1>a, <2>1, <2>2, <3>2, <4>1
    <3>3. CASE entries[i].day = day
      <4>1. entries[j].day <= day
        BY <2>1, <2>2, <2>5, <1>a
      <4> QED
        BY <1>a, <2>2, <2>5, <3>3, <4>1
    <3> QED
      BY <2>1, <2>5, <3>1, <3>2, <3>3
  <2> QED
    BY <2>1, <2>2, <2>4, <2>5 DEF BookOk, new
<1> QED
  BY <1>1, <1>2

LEMMA BooksStep == OrderInv /\ TradesInv /\ BooksInv /\ [Next]_vars => BooksInv'
<1> SUFFICES ASSUME OrderInv, TradesInv, BooksInv, [Next]_vars PROVE BooksInv'
  OBVIOUS
<1>1. ASSUME books' = [arm \in Arms |-> [f \in Frictions |-> NewBook]] PROVE BooksInv'
  BY <1>1 DEF BooksInv, BookOk, NewBook
<1>2. CASE PassesOver \/ Selects \/ Steps \/ WalkEnds
  BY <1>1, <1>2 DEF BooksInv, PassesOver, Selects, Steps, WalkEnds
<1>3. CASE UNCHANGED vars
  BY <1>3 DEF vars, BooksInv, BookOk, EndOf
<1>4. CASE Books
  <2>1. UNCHANGED entries /\ stage = "portfolio" /\ stage' \in {"portfolio", "done"}
    BY <1>4 DEF Books
  <2>2. stage' = "portfolio" => day' \in Nat /\ day \in Nat /\ day < day'
    <3> SUFFICES ASSUME stage' = "portfolio" PROVE day' \in Nat /\ day \in Nat /\ day < day'
      OBVIOUS
    <3>1. {d \in Days : d > day} # {} /\ day' = Min({d \in Days : d > day})
      BY <1>4 DEF Books
    <3>2. Min({d \in Days : d > day}) \in {d \in Days : d > day}
      BY <3>1, DaysAre, LeastOf
    <3> QED
      BY <3>1, <3>2, DaysAre DEF OrderInv
  <2>3. ASSUME NEW arm \in Arms, NEW f \in Frictions
        PROVE  /\ BookOk(books'[arm][f], f)
               /\ \A d \in books'[arm][f].traded : d \in books[arm][f].traded \cup {day}
    <3>1. BookOk(books[arm][f], f) /\ \A d \in books[arm][f].traded : d \in Nat /\ d < day
      BY <2>1 DEF BooksInv
    <3>2. CASE \E i \in DOMAIN entries : entries[i].day = day
      <4>1. books'[arm][f] = Booked(arm, f, books[arm][f], CHOOSE e \in Range(entries) : e.day = day)
        BY <1>4, <3>2 DEF Books
      <4>2. PICK k \in DOMAIN entries : entries[k] = (CHOOSE e \in Range(entries) : e.day = day)
                                        /\ entries[k].day = day
        <5>1. \E e \in Range(entries) : e.day = day
          BY <3>2, ListIs DEF OrderInv
        <5>2. PICK e \in Range(entries) : e = (CHOOSE o \in Range(entries) : o.day = day) /\ e.day = day
          BY <5>1
        <5> QED
          BY <5>2, ListIs DEF OrderInv
      <4>3. books'[arm][f] = Booked(arm, f, books[arm][f], entries[k])
        BY <4>1, <4>2
      <4>4. /\ BookOk(Booked(arm, f, books[arm][f], entries[k]), f)
            /\ \A d \in Booked(arm, f, books[arm][f], entries[k]).traded :
                 d \in books[arm][f].traded \cup {day}
        BY <3>1, <4>2, BookedOk
      <4> QED
        BY <4>3, <4>4
    <3>3. CASE ~\E i \in DOMAIN entries : entries[i].day = day
      <4>1. books'[arm][f] = books[arm][f]
        BY <1>4, <3>3 DEF Books
      <4> QED
        BY <3>1, <4>1
    <3> QED
      BY <3>2, <3>3
  <2>4. \A arm \in Arms, f \in Frictions : BookOk(books[arm][f], f)'
    BY <2>1, <2>3 DEF BookOk, EndOf
  <2>5. ASSUME stage' = "portfolio", NEW arm \in Arms, NEW f \in Frictions,
               NEW d \in books'[arm][f].traded
        PROVE  d \in Nat /\ d < day'
    <3>1. d = day \/ d \in books[arm][f].traded
      BY <2>3
    <3>2. d \in books[arm][f].traded => d \in Nat /\ d < day
      BY <2>1 DEF BooksInv
    <3> QED
      BY <2>2, <2>5, <3>1, <3>2
  <2> QED
    BY <2>1, <2>4, <2>5 DEF BooksInv
<1> QED
  BY <1>2, <1>3, <1>4 DEF Next

\* In each portfolio a position is opened only after the session the one before it went
\* out, or after the end of its window when no exit was seen. (veto_portfolio.py: "one
\* position at a time and re-entry no earlier than the session after an exit fill".)
THEOREM PositionsOneByOne == Spec => []OnePositionAtATime
<1>1. Init => BooksInv
  BY DEF Init, BooksInv, BookOk, NewBook
<1>2. OrderInv /\ BooksInv => OnePositionAtATime
  <2> SUFFICES ASSUME OrderInv, BooksInv, NEW arm \in Arms, NEW f \in Frictions,
                      NEW e \in Range(entries), NEW o \in Range(entries),
                      {e.day, o.day} \subseteq books[arm][f].traded, e.day < o.day
               PROVE  EndOf(e, f) < o.day
    BY DEF OnePositionAtATime
  <2>1. PICK i \in DOMAIN entries, j \in DOMAIN entries : e = entries[i] /\ o = entries[j]
    BY ListIs DEF OrderInv
  <2> QED
    BY <2>1 DEF BooksInv, BookOk
<1> QED
  BY <1>1, <1>2, BooksStep, OrderInit, OrderStep, TradesInit, TradesStep, PTL DEF Spec

----------------------------------------------------------------------------
(* The lab. What its gate promises for every case: the one revision it      *)
(* allows always succeeds, and no candidate spends more than the budget,    *)
(* whatever thesis it rests on and whichever pair was proposed.             *)

IsQuote(q) == q.ask \in Int /\ q.bid \in Int /\ q.strike \in Int

\* What case_from_dict leaves of a case: whole numbers, and a sequence of quotes.
IsLabCase(case) ==
  /\ case.equity \in Int /\ case.policy.risk \in Int /\ case.policy.contracts \in Int
  /\ \A i \in DOMAIN case.chain : IsQuote(case.chain[i])

----------------------------------------------------------------------------
(* Whole lots of a budget.                                                  *)

LEMMA WholeLots == ASSUME NEW b \in Int, NEW lot \in Nat \ {0} PROVE lot * (b \div lot) <= b
BY SMT

LEMMA FewerCostLess ==
  ASSUME NEW lot \in Nat \ {0}, NEW n \in Int, NEW m \in Int, n <= m PROVE n * lot <= m * lot
BY SMT

\* As many whole lots as a budget pays for cost no more than the budget.
LEMMA LotsWithinBudget ==
  ASSUME NEW b \in Int, NEW lot \in Nat \ {0}, NEW n \in Int, n <= b \div lot
  PROVE  n * lot <= b
<1>1. b \div lot \in Int
  BY SMT
<1>2. n * lot <= (b \div lot) * lot
  BY <1>1, FewerCostLess
<1>3. (b \div lot) * lot <= b
  BY <1>1, WholeLots, SMT
<1> DEFINE spent == (b \div lot) * lot
<1>4. spent \in Int /\ n * lot \in Int
  BY <1>1, SMT
<1>5. n * lot <= spent /\ spent <= b
  BY <1>2, <1>3
<1> HIDE DEF spent
<1> QED BY <1>4, <1>5, SMT

----------------------------------------------------------------------------
(* The legs.                                                                *)

\* A leg the gate has no complaint about is a quote of the chain.
LEMMA CleanLegIsQuoted ==
  ASSUME NEW case, NEW leg, ValidateSnapshotLeg(case, leg) = {}
  PROVE  \E i \in DOMAIN case.chain : case.chain[i] = leg
BY Zenon DEF ValidateSnapshotLeg, ObservedQuote

\* A spread the gate has no complaint about costs what its legs quote, less than its width.
LEMMA CleanSpread ==
  ASSUME NEW case, IsLabCase(case), NEW thesis, NEW spread,
         SpreadReasons(case, thesis, spread) = {}
  PROVE  /\ spread.debit \in Int /\ spread.debit > 0
         /\ spread.debit < Distance(spread.long.strike - spread.short.strike)
         /\ \E i, j \in DOMAIN case.chain :
              case.chain[i] = spread.long /\ case.chain[j] = spread.short
<1>1. /\ ValidateSnapshotLeg(case, spread.long) = {}
      /\ ValidateSnapshotLeg(case, spread.short) = {}
  BY Zenon DEF SpreadReasons, LegReasons
<1>2. PICK i, j \in DOMAIN case.chain : case.chain[i] = spread.long /\ case.chain[j] = spread.short
  BY <1>1, CleanLegIsQuoted
<1>3. IsQuote(spread.long) /\ IsQuote(spread.short)
  BY <1>2 DEF IsLabCase
<1>4. /\ ~(spread.debit # spread.long.ask - spread.short.bid)
      /\ ~(spread.debit <= 0)
      /\ ~(spread.debit >= Distance(spread.long.strike - spread.short.strike))
  BY Zenon DEF SpreadReasons, DebitReasons, When
<1> QED BY <1>2, <1>3, <1>4, SMT DEF IsQuote, Distance
----------------------------------------------------------------------------
(* The verdict.                                                             *)

LEMMA Suggests ==
  ASSUME NEW case, IsLabCase(case), NEW thesis, NEW proposal,
         proposal.quantity = case.policy.contracts,
         Evaluate(case, thesis, proposal).suggested # 0
  PROVE  /\ proposal # NoProposal
         /\ ThesisReasons(case, thesis) = {}
         /\ SpreadReasons(case, thesis, proposal.spread) = {}
         /\ Evaluate(case, thesis, proposal).suggested \in 1..case.policy.contracts
         /\ Evaluate(case, thesis, proposal).suggested <= AffordableContracts(case, proposal.spread)
<1> DEFINE reasons == ThesisReasons(case, thesis)
                        \cup SpreadReasons(case, thesis, proposal.spread)
                        \cup QuantityReasons(case, proposal)
                        \cup When(Overspends(case, proposal), "max_loss_above_risk_budget")
           answer == Suggested(case, proposal, reasons)
<1>1. proposal # NoProposal
  BY Zenon DEF Evaluate, RiskResult
<1>2. Evaluate(case, thesis, proposal).suggested = answer
  BY <1>1, Zenon DEF Evaluate, RiskResult
<1>3. /\ Overspends(case, proposal)
      /\ reasons \subseteq Resizable
      /\ PerContract(proposal.spread) > 0
      /\ AffordableContracts(case, proposal.spread) >= 1
  BY <1>2, Zenon DEF Suggested
<1>4. ThesisReasons(case, thesis) = {}
  BY <1>3, Zenon DEF ThesisReasons, When, Resizable
<1>5. SpreadReasons(case, thesis, proposal.spread) = {}
  BY <1>3, Zenon DEF SpreadReasons, LegReasons, ValidateQuote, ValidateSnapshotLeg,
     ShapeReasons, DebitReasons, When, Resizable
<1>6. proposal.spread.debit \in Int
  BY <1>5, CleanSpread
<1>7. case.policy.contracts \in Int /\ case.policy.contracts > 0
  BY <1>3 DEF Overspends, IsLabCase
<1>8. /\ AffordableContracts(case, proposal.spread) \in Int
      /\ answer = IF AffordableContracts(case, proposal.spread) < case.policy.contracts
                  THEN AffordableContracts(case, proposal.spread) ELSE case.policy.contracts
  <2>1. AffordableContracts(case, proposal.spread) \in Int
    BY <1>3, <1>6, SMT DEF AffordableContracts, PerContract, Budget, IsLabCase
  <2> QED BY <1>3, <2>1, Zenon DEF Suggested
<1> QED
  <2> HIDE DEF answer
  <2> QED BY <1>1, <1>2, <1>3, <1>4, <1>5, <1>7, <1>8, SMT

\* A quantity the budget affords does not overspend it.
LEMMA AffordableFits ==
  ASSUME NEW case, IsLabCase(case), NEW proposal,
         proposal.spread.debit \in Int, proposal.spread.debit > 0,
         proposal.quantity \in Nat, proposal.quantity <= AffordableContracts(case, proposal.spread)
  PROVE  ~Overspends(case, proposal)
<1> DEFINE each == PerContract(proposal.spread)
           lot == each * 10000
           n == proposal.quantity
<1>1. each \in Int /\ lot \in Nat \ {0}
  BY SMT DEF PerContract
<1>2. Budget(case) \in Int
  BY SMT DEF Budget, IsLabCase
<1>3. n <= Budget(case) \div lot
  BY DEF AffordableContracts
<1>4. Overspends(case, proposal) => each * n * 10000 > Budget(case)
  BY DEF Overspends, Loss
<1>5. n \in Nat
  OBVIOUS
<1>6. each * n * 10000 = n * lot /\ n * lot \in Int
  <2> HIDE DEF n
  <2>1. \A e, m \in Int : e * m * 10000 = m * (e * 10000) /\ m * (e * 10000) \in Int
    BY SMT
  <2> HIDE DEF each
  <2> QED BY <1>1, <1>5, <2>1
<1>7. n * lot <= Budget(case)
  <2> HIDE DEF lot, n
  <2> QED BY <1>1, <1>2, <1>3, <1>5, LotsWithinBudget
<1> HIDE DEF n, lot, each
<1> QED BY <1>2, <1>4, <1>6, <1>7, SMT

\* The one revision run_experiment allows: a quantity the gate suggests for the first
\* proposal is one it approves, so the feedback ends there. (orchestrator.py:58-59.)
THEOREM RevisionApproved ==
  ASSUME NEW case, IsLabCase(case), NEW thesis,
         NEW n, n = Evaluate(case, thesis, Propose(case, thesis, case.policy.contracts)).suggested,
         n # 0
  PROVE  Evaluate(case, thesis, Propose(case, thesis, n)).approved
<1> DEFINE first == Propose(case, thesis, case.policy.contracts)
           revised == Propose(case, thesis, n)
<1>1. first # NoProposal
  BY Zenon DEF Evaluate, RiskResult
<1>2. /\ first.quantity = case.policy.contracts
      /\ revised.spread = first.spread /\ revised.quantity = n
  BY <1>1, SMT DEF Propose
<1>3. n = Evaluate(case, thesis, first).suggested
  OBVIOUS
<1> HIDE DEF first, revised
<1>4. /\ ThesisReasons(case, thesis) = {}
      /\ SpreadReasons(case, thesis, revised.spread) = {}
      /\ n \in 1..case.policy.contracts
      /\ n <= AffordableContracts(case, revised.spread)
  BY <1>2, <1>3, Suggests
<1>5. revised.spread.debit \in Int /\ revised.spread.debit > 0
  BY <1>4, CleanSpread
<1>6. n \in Nat /\ n >= 1 /\ n <= case.policy.contracts /\ case.policy.contracts \in Int
  BY <1>4, SMT DEF IsLabCase
<1>7. QuantityReasons(case, revised) = {}
  <2>1. ~(n < 1) /\ ~(n > case.policy.contracts)
    BY <1>6, SMT
  <2> QED BY <1>2, <2>1, Zenon DEF QuantityReasons, When
<1>8. ~Overspends(case, revised)
  BY <1>2, <1>4, <1>5, <1>6, AffordableFits, Zenon
<1>9. revised # NoProposal
  BY <1>2, <1>6, SMT DEF NoProposal
<1>10. When(Overspends(case, revised), "max_loss_above_risk_budget") = {}
  BY <1>8, Zenon DEF When
<1> DEFINE reasons == ThesisReasons(case, thesis)
                        \cup SpreadReasons(case, thesis, revised.spread)
                        \cup QuantityReasons(case, revised)
                        \cup When(Overspends(case, revised), "max_loss_above_risk_budget")
<1>11. Evaluate(case, thesis, revised).approved = (reasons = {})
  BY <1>9, Zenon DEF Evaluate, RiskResult
<1>12. reasons = {}
  BY <1>4, <1>7, <1>10, Zenon
<1> QED
  BY <1>11, <1>12 DEF revised

\* A candidate, revised or not, costs less than its width, asks for a quantity the policy
\* allows, rests on quotes of the chain, and can lose no more than the budget.
THEOREM CandidateWithinBudget ==
  ASSUME NEW case, IsLabCase(case), NEW thesis,
         NEW result, result = RunExperiment(case, thesis),
         result.decision = "TRADE_CANDIDATE"
  PROVE  /\ ~Overspends(case, result.proposal)
         /\ ~(result.proposal.quantity < 1)
         /\ ~(result.proposal.quantity > case.policy.contracts)
         /\ 0 < result.proposal.spread.debit
         /\ result.proposal.spread.debit <
              Distance(result.proposal.spread.long.strike - result.proposal.spread.short.strike)
         /\ \E i, j \in DOMAIN case.chain : /\ case.chain[i] = result.proposal.spread.long
                                            /\ case.chain[j] = result.proposal.spread.short
<1> DEFINE proposal == result.proposal
<1>1. /\ result.decision = Decide(result.risk)
      /\ result.risk = Evaluate(case, thesis, proposal)
  BY Zenon DEF RunExperiment
<1> HIDE DEF proposal
<1>2. Evaluate(case, thesis, proposal).approved
  BY <1>1, Zenon DEF Decide
<1>3. proposal # NoProposal
  BY <1>2, Zenon DEF Evaluate, RiskResult
<1>4. /\ SpreadReasons(case, thesis, proposal.spread) = {}
      /\ QuantityReasons(case, proposal) = {}
      /\ ~Overspends(case, proposal)
  BY <1>2, <1>3, Zenon DEF Evaluate, RiskResult, When
<1>5. ~(proposal.quantity < 1) /\ ~(proposal.quantity > case.policy.contracts)
  BY <1>4, Zenon DEF QuantityReasons, When
<1> USE DEF proposal
<1> QED BY <1>4, <1>5, CleanSpread
=============================================================================

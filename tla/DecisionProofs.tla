---------------------------- MODULE DecisionProofs ----------------------------
(***************************************************************************)
(* What holds of the gates and of the exit policy for every input, and     *)
(* what the decision cycle keeps for every value of its constants.         *)
(***************************************************************************)
EXTENDS DecisionCycle, FiniteSetTheorems, TLAPS

----------------------------------------------------------------------------
(* The exit policy.                                                         *)

\* The winner evaluate_exit acts on is the first rule, in the declared order,
\* whose row in evaluate_triggers says that it fired: the two functions of
\* exits.py, written separately, agree.
THEOREM WinnerFiredFirst ==
  ASSUME NEW x, NEW i \in 1..5
  PROVE  EvaluateExit(x) = Precedence[i]
           <=> Rows(x)[i] = "fired" /\ \A j \in 1..5 : j < i => Rows(x)[j] # "fired"
<1>1. i \in {1, 2, 3, 4, 5}
  OBVIOUS
<1>2. Verifiable(x) => x.rule # NoRule
  BY DEF Verifiable
<1> QED
  BY <1>1, <1>2 DEF EvaluateExit, Precedence, Rows, Said, Unmeasurable

\* EXIT-004: without a readable premium the rules that do not need one decide as
\* they would with it, and a position none of them closes is reported, not held.
THEOREM MissingPremium ==
  ASSUME NEW x, Unmeasurable(x)
  PROVE  /\ ShouldClose(EvaluateExit(x)) <=>
              \/ x.dte <= ExpiryGuard
              \/ Verifiable(x) /\ RuleBroken(x)
              \/ x.sessions >= SessionStop
         /\ ~ShouldClose(EvaluateExit(x)) => EvaluateExit(x) = "unmeasurable"
  BY DEF EvaluateExit, ShouldClose

----------------------------------------------------------------------------
(* The model.                                                               *)

\* Whatever the model replies, the thesis is neutral or the setup's own, cites
\* only signals that exist, and keeps the setup's level.
THEOREM MemoIsBounded ==
  ASSUME NEW signals, NEW setup, NEW reply
  PROVE  LET thesis == Synthesize(signals, setup, reply)
         IN /\ thesis.direction \in {"neutral", setup.direction}
            /\ thesis.evidence \cup thesis.counter \subseteq Ids(signals)
            /\ thesis.level = setup.level
  BY DEF Synthesize

\* An options position has the setup's direction, both legs in the chain, and a
\* loss recomputed from it within the budget and the buying power.
LEMMA PositionApproved ==
  ASSUME NEW signals, NEW chain, NEW price, NEW account, NEW setup, NEW thesis,
         NEW o, o = Conclude(signals, chain, price, account, setup, thesis),
         o.action = "OPTIONS_POSITION"
  PROVE  /\ o.direction = setup.direction
         /\ Approves(chain, account, setup, thesis, o.spread)
         /\ o.spread.maxLoss = o.spread.debit * Multiplier
<1> DEFINE spread == Select(chain, price, thesis)
           eligible == Eligible(Legs(Usable(chain, thesis.direction)), price, thesis.direction)
<1>1. spread # NoSpread => eligible # {}
  BY DEF Select
<1>2. spread # NoSpread => spread.maxLoss = spread.debit * Multiplier
  BY <1>1 DEF Select
<1>3. spread # NoSpread /\ thesis.direction = setup.direction
        /\ Approves(chain, account, setup, thesis, spread)
        /\ o.direction = thesis.direction /\ o.spread = spread
  BY DEF Conclude
<1> QED
  BY <1>2, <1>3

\* A setup is one only on the word of a structure strong enough.
LEMMA StructureLeads ==
  ASSUME NEW r, r.separation \in Int, NEW price,
         NEW signals, signals \in {{}, BuildSignals(r)},
         Classify(signals, price) # NoSetup
  PROVE  \E s \in signals : /\ s.family = "structure" /\ s.strength >= MinStructure
                            /\ s.direction = Classify(signals, price).direction
<1> DEFINE structure == Sig("structure", Trend(r), 55 + HalfEven(Size(r.separation) * 8, 100))
<1>1. Structures(signals) # {}
  BY DEF Classify
<1>2. signals = BuildSignals(r)
  BY <1>1 DEF Structures
<1>3. Structures(signals) = {structure}
  <2>1. \A s \in BuildSignals(r) : s.family = "structure" => s = structure
    BY DEF BuildSignals, VolatilitySignals, BreadthSignals, MomentumSignals, Sig
  <2> QED
    BY <1>1, <1>2, <2>1 DEF Structures
<1>4. structure.strength * 10 + Rank(structure) \in Int
  <2>1. Size(r.separation) \in Int
    BY DEF Size
  <2>2. HalfEven(Size(r.separation) * 8, 100) \in Int
    BY <2>1 DEF HalfEven
  <2>3. structure.strength \in Int /\ structure.family = "structure"
    BY <2>2 DEF Sig, Bounded
  <2> QED
    BY <2>3 DEF Rank
<1>5. Strongest(Structures(signals)) = structure
  BY <1>3, <1>4 DEF Strongest
<1>6. Classify(signals, price).direction = structure.direction
  BY <1>5 DEF Classify
<1> QED
  BY <1>3, <1>6 DEF Structures

----------------------------------------------------------------------------
(* What is sent is what the gates approved.                                 *)

StructureOf(s, direction) ==
  \E x \in s.signals : /\ x.family = "structure" /\ x.direction = direction
                       /\ x.strength >= MinStructure

Priced(s, o) ==
  /\ \E l, r \in s.chain : /\ l.contract = o.spread.long /\ r.contract = o.spread.short
                           /\ CrossingDebit(l, r) * Multiplier = o.spread.debit * Multiplier
  /\ o.spread.debit * Multiplier <= RiskBudget(s.account)
  /\ o.spread.debit * Multiplier <= s.account.power

\* The envelope along the tick: the setup rests on a structure when the model is
\* asked, and a position is approved before it is recorded and sent.
EnvelopeInv ==
  /\ pc = "memo" => StructureOf(snapshot, snapshot.setup.direction)
  /\ pc \in {"record", "submit"} /\ outcome.action = "OPTIONS_POSITION" =>
       StructureOf(snapshot, outcome.direction) /\ Priced(snapshot, outcome)
  /\ pc = "submit" => outcome.action = "OPTIONS_POSITION" /\ mode = "paper_execute"

LEMMA ApprovedIsPriced ==
  ASSUME NEW s, NEW o, NEW setup, NEW thesis,
         Approves(s.chain, s.account, setup, thesis, o.spread),
         o.spread.maxLoss = o.spread.debit * Multiplier
  PROVE  Priced(s, o)
<1> DEFINE l == Quote(s.chain, o.spread.long)
           r == Quote(s.chain, o.spread.short)
<1>1. /\ l \in s.chain /\ l.contract = o.spread.long
      /\ r \in s.chain /\ r.contract = o.spread.short
  BY DEF Approves, Quote
<1>2. CrossingDebit(l, r) * Multiplier = o.spread.debit * Multiplier
  BY DEF Approves, RecomputedLoss
<1> QED
  BY <1>1, <1>2 DEF Priced, Approves, RecomputedLoss

LEMMA EnvelopeStep ==
  ASSUME EnvelopeInv, [Next]_vars
  PROVE  EnvelopeInv'
<1>1. CASE UNCHANGED <<pc, mode, snapshot, outcome>>
  BY <1>1 DEF EnvelopeInv
<1>2. CASE Ends
  BY <1>2 DEF EnvelopeInv, Ends
<1>3. CASE TickStarts \/ ReadsClock \/ ReadsBars
  BY <1>3 DEF EnvelopeInv, TickStarts, ReadsClock, ReadsBars
<1>4. CASE Considers
  <2>1. PICK reading \in Readings, chain \in Chains, account \in Accounts :
          /\ snapshot' = Snapshot(reading, chain, account)
          /\ \/ /\ snapshot'.setup # NoSetup
                /\ pc' = "memo"
             \/ /\ pc' = "record"
                /\ outcome' = [NoOutcome EXCEPT !.action = "NO_TRADE", !.reason = "no_qualified_setup"]
    BY <1>4 DEF Considers
  <2> DEFINE signals == IF chain = {} THEN {} ELSE BuildSignals(reading)
             price == CloseOf[Max(ParseBars(bars, clock.open, time))]
  <2>2. snapshot'.signals = signals /\ snapshot'.setup = Classify(signals, price)
    BY <2>1 DEF Snapshot
  <2>3. CASE pc' = "memo"
    <3>1. snapshot'.setup # NoSetup
      BY <2>1, <2>3
    <3>2. reading.separation \in Int
      BY CycleAssumption
    <3>3. signals \in {{}, BuildSignals(reading)}
      OBVIOUS
    <3>4. \E x \in signals : /\ x.family = "structure" /\ x.strength >= MinStructure
                             /\ x.direction = Classify(signals, price).direction
      <4> HIDE DEF signals, price
      <4> QED
        BY <2>2, <3>1, <3>2, <3>3, StructureLeads
    <3>5. StructureOf(snapshot', snapshot'.setup.direction)
      BY <2>2, <3>4 DEF StructureOf
    <3> QED
      BY <2>3, <3>5 DEF EnvelopeInv
  <2>4. CASE pc' = "record"
    <3>1. outcome'.action = "NO_TRADE"
      BY <2>1, <2>4 DEF NoOutcome
    <3> QED
      BY <2>4, <3>1 DEF EnvelopeInv
  <2> QED
    BY <2>1, <2>3, <2>4
<1>5. CASE Concludes
  <2>1. PICK thesis :
          outcome' = Conclude(snapshot.signals, snapshot.chain, CloseOf[snapshot.session],
                              snapshot.account, snapshot.setup, thesis)
    BY <1>5 DEF Concludes
  <2>2. snapshot' = snapshot /\ pc = "memo" /\ pc' = "record"
    BY <1>5 DEF Concludes
  <2>3. ASSUME outcome'.action = "OPTIONS_POSITION"
        PROVE  StructureOf(snapshot, outcome'.direction) /\ Priced(snapshot, outcome')
    <3>1. /\ outcome'.direction = snapshot.setup.direction
          /\ Approves(snapshot.chain, snapshot.account, snapshot.setup, thesis, outcome'.spread)
          /\ outcome'.spread.maxLoss = outcome'.spread.debit * Multiplier
      BY <2>1, <2>3, PositionApproved
    <3>2. Priced(snapshot, outcome')
      BY <3>1, ApprovedIsPriced
    <3> QED
      BY <2>2, <3>1, <3>2 DEF EnvelopeInv
  <2> QED
    BY <2>2, <2>3 DEF EnvelopeInv
<1>6. CASE Records
  <2>1. pc = "record" /\ UNCHANGED mode
    BY <1>6 DEF Records
  <2>2. CASE outcome.action = "OPTIONS_POSITION" /\ mode = "paper_execute"
    <3>1. pc' = "submit" /\ UNCHANGED <<snapshot, outcome>>
      BY <1>6, <2>2 DEF Records
    <3> QED
      BY <2>1, <2>2, <3>1 DEF EnvelopeInv
  <2>3. CASE ~(outcome.action = "OPTIONS_POSITION" /\ mode = "paper_execute")
    BY <1>6, <2>3, <1>2 DEF Records
  <2> QED
    BY <2>2, <2>3
<1>7. CASE ReadFails \/ DeclinesEarly \/ Manages \/ TickRaises \/ Submits \/ IsRefused \/ Crashes
  BY <1>7, <1>2 DEF ReadFails, DeclinesEarly, Manages, TickRaises, Submits, IsRefused, Crashes
<1>8. CASE Reviews \/ EntryFills \/ StrategyEnds \/ CloseDies \/ TimePasses \/ UNCHANGED vars
  BY <1>8, <1>1 DEF Reviews, EntryFills, StrategyEnds, CloseDies, TimePasses, tick, vars
<1> QED
  BY <1>3, <1>4, <1>5, <1>6, <1>7, <1>8 DEF Next, TickStep

\* No entry is sent outside the envelope the deterministic gates drew, whatever
\* the market, the account and the model sent.
THEOREM EnvelopeKept == Spec => []ApprovedInEnvelope
<1>1. Init => EnvelopeInv
  BY DEF Init, EnvelopeInv
<1>2. EnvelopeInv /\ [Next]_vars => EnvelopeInv'
  BY EnvelopeStep
<1>3. EnvelopeInv => ApprovedInEnvelope
  BY DEF EnvelopeInv, ApprovedInEnvelope, StructureOf, Priced
<1> QED
  BY <1>1, <1>2, <1>3, PTL DEF Spec

----------------------------------------------------------------------------
(* Time: the window, and the horizon of the position.                       *)

LEMMA WindowIsInSession ==
  ASSUME NEW begun \in Nat, NEW t \in Nat, EvaluateEntry(begun) = "open",
         begun <= t, t <= begun + IntentTtl
  PROVE  InSession(t)
<1> DEFINE s == SessionFor(begun)
           cutoff == s.day * DayLen + AbsoluteCutoff
           relative == s.close - CloseBuffer
<1>1. s \in Sessions
  BY DEF EvaluateEntry, SessionFor
<1>2. /\ s.open \in Nat /\ s.close \in Nat /\ CloseBuffer \in Nat /\ OpenBuffer \in Nat
      /\ cutoff \in Int /\ relative \in Int
  BY <1>1, CalendarAssumption
<1>3. EntryCutoff(s) \in Int /\ EntryCutoff(s) <= relative
  <2>1. EntryCutoff(s) = Min({cutoff, relative})
    BY DEF EntryCutoff
  <2> HIDE DEF cutoff, relative
  <2>2. \A y \in {cutoff, relative} : Min({cutoff, relative}) <= y
    <3>1. \E x \in {cutoff, relative} : \A y \in {cutoff, relative} : x <= y
      BY <1>2
    <3> QED
      BY <3>1 DEF Min
  <2>3. Min({cutoff, relative}) \in {cutoff, relative}
    <3>1. \E x \in {cutoff, relative} : \A y \in {cutoff, relative} : x <= y
      BY <1>2
    <3> QED
      BY <3>1 DEF Min
  <2> QED
    BY <1>2, <2>1, <2>2, <2>3
<1>4. ~(begun < s.open + OpenBuffer) /\ ~(EntryCutoff(s) < begun)
  BY DEF EvaluateEntry
<1>5. s.open <= t
  BY <1>2, <1>4
<1>6. begun <= s.close - CloseBuffer
  BY <1>2, <1>3, <1>4
<1>7. IntentTtl \in Nat /\ IntentTtl < CloseBuffer
  BY CycleAssumption, TtlAssumption
<1>8. t < s.close
  BY <1>2, <1>6, <1>7
<1> QED
  BY <1>1, <1>5, <1>8 DEF InSession

\* The window was open when the tick that is deciding began.
WindowInv ==
  /\ time \in Nat /\ now \in Nat
  /\ pc # "idle" => now <= time
  /\ pc \in {"memo", "record", "submit"} => EvaluateEntry(now) = "open"

LEMMA WindowStep ==
  ASSUME WindowInv, [Next]_vars
  PROVE  WindowInv'
<1>1. CASE Ends /\ UNCHANGED time
  BY <1>1 DEF WindowInv, Ends
<1>2. CASE TickStarts
  BY <1>2 DEF WindowInv, TickStarts
<1>3. CASE ReadsClock \/ ReadsBars
  BY <1>3 DEF WindowInv, ReadsClock, ReadsBars
<1>4. CASE Considers
  <2>1. pc = "chain" /\ EvaluateEntry(now) = "open" /\ UNCHANGED <<time, now>>
    BY <1>4 DEF Considers, Observed
  <2> QED
    BY <2>1 DEF WindowInv
<1>5. CASE Concludes
  BY <1>5 DEF WindowInv, Concludes
<1>6. CASE Records
  <2>1. pc = "record" /\ UNCHANGED time /\ ((pc' = "submit" /\ UNCHANGED now) \/ Ends)
    BY <1>6 DEF Records
  <2> QED
    BY <2>1, <1>1 DEF WindowInv
<1>7. CASE ReadFails \/ DeclinesEarly \/ Manages \/ TickRaises \/ Submits \/ IsRefused \/ Crashes
  BY <1>7, <1>1 DEF ReadFails, DeclinesEarly, Manages, TickRaises, Submits, IsRefused, Crashes
<1>8. CASE Reviews \/ EntryFills \/ StrategyEnds \/ CloseDies \/ UNCHANGED vars
  BY <1>8 DEF WindowInv, Reviews, EntryFills, StrategyEnds, CloseDies, tick, vars
<1>9. CASE TimePasses
  BY <1>9 DEF WindowInv, TimePasses, tick
<1> QED
  BY <1>2, <1>3, <1>4, <1>5, <1>6, <1>7, <1>8, <1>9 DEF Next, TickStep

\* The age limit of an intent is shorter than the margin of the window, so no
\* entry leaves after the close, however long the tick before it took.
THEOREM EntryLeavesInSession == Spec => EntryBeforeClose
<1>1. Init => WindowInv
  BY DEF Init, WindowInv
<1>2. WindowInv /\ [Next]_vars => WindowInv'
  BY WindowStep
<1>3. WindowInv /\ [Next]_vars => [slot = "free" /\ slot' = "in_flight" => InSession(time)]_vars
  <2> SUFFICES ASSUME WindowInv, Next, slot = "free", slot' = "in_flight"
               PROVE  InSession(time)
    OBVIOUS
  <2>1. Submits
    BY DEF Next, TickStep, TickStarts, ReadsClock, ReadsBars, ReadFails, DeclinesEarly, Considers,
           Manages, Concludes, TickRaises, Records, IsRefused, Reviews, EntryFills, StrategyEnds,
           CloseDies, Crashes, TimePasses, strategy
  <2>2. pc = "submit" /\ ~(time > now + IntentTtl)
    BY <2>1 DEF Submits, Expired
  <2>3. now \in Nat /\ time \in Nat /\ now <= time /\ EvaluateEntry(now) = "open"
    BY <2>2 DEF WindowInv
  <2>4. time <= now + IntentTtl
    BY <2>2, <2>3, CycleAssumption
  <2> QED
    BY <2>3, <2>4, WindowIsInSession
<1> QED
  BY <1>1, <1>2, <1>3, PTL DEF Spec, EntryBeforeClose

\* The fields a position has.
IsPosition(p) ==
  p = [filledAt |-> p.filledAt, direction |-> p.direction, rule |-> p.rule, debit |-> p.debit,
       width |-> p.width, expiry |-> p.expiry, seen |-> p.seen, said |-> p.said]

\* A close is only working for a position that was told to close, and one that
\* has not filled has not been looked at.
HorizonInv ==
  /\ slot \in {"free", "in_flight"} => position.seen = 0
  /\ slot \in {"held", "closing"} /\ position.seen >= SessionStop => ShouldClose(position.said)
  /\ slot \in {"free", "in_flight", "held", "closing"}
  /\ IsPosition(position)

LEMMA HorizonStep ==
  ASSUME HorizonInv, [Next]_vars
  PROVE  HorizonInv'
<1>1. CASE UNCHANGED <<slot, position>>
  BY <1>1 DEF HorizonInv
<1>2. CASE Manages
  <2>1. PICK value \in Values, readable \in BOOLEAN :
          LET x == ExitInputs(value, readable) IN
          /\ position' = [position EXCEPT !.seen = x.sessions, !.said = EvaluateExit(x)]
          /\ slot' \in {"closing", "held"}
    BY <1>2 DEF Manages
  <2> DEFINE x == ExitInputs(value, readable)
  <2>2. position'.seen = x.sessions /\ position'.said = EvaluateExit(x)
    BY <2>1 DEF HorizonInv, IsPosition
  <2>3. x.sessions >= SessionStop => ShouldClose(EvaluateExit(x))
    BY DEF EvaluateExit, ShouldClose
  <2>4. IsPosition(position')
    BY <2>1 DEF HorizonInv, IsPosition
  <2> QED
    BY <2>1, <2>2, <2>3, <2>4 DEF HorizonInv
<1>3. CASE Submits
  <2>1. position'.seen = 0 /\ IsPosition(position') /\ slot' = "in_flight"
    <3>1. position'.seen = 0 /\ IsPosition(position')
      BY <1>3 DEF Submits, NoPosition, IsPosition
    <3> QED
      BY <1>3, <3>1 DEF Submits
  <2> QED
    BY <2>1 DEF HorizonInv
<1>4. CASE EntryFills
  <2>1. position'.seen = 0
    BY <1>4 DEF EntryFills, HorizonInv, IsPosition
  <2>2. ~(0 >= SessionStop)
    BY ExitAssumption
  <2> QED
    BY <1>4, <2>1, <2>2 DEF HorizonInv, EntryFills, IsPosition
<1>5. CASE StrategyEnds
  BY <1>5 DEF HorizonInv, StrategyEnds, NoPosition, IsPosition
<1>6. CASE CloseDies
  BY <1>6 DEF HorizonInv, CloseDies
<1> QED
  BY <1>1, <1>2, <1>3, <1>4, <1>5, <1>6 DEF Next, TickStep, TickStarts, ReadsClock, ReadsBars,
     ReadFails, DeclinesEarly, Considers, Concludes, TickRaises, Records, IsRefused, Reviews,
     Crashes, TimePasses, strategy, vars

\* Wherever the worker looked at a position after its session horizon, it told it
\* to close, with or without a premium and through every close that died.
THEOREM HorizonIsAsked == Spec => []HorizonAsked
<1>1. Init => HorizonInv
  BY DEF Init, HorizonInv, NoPosition, IsPosition
<1>2. HorizonInv /\ [Next]_vars => HorizonInv'
  BY HorizonStep
<1>3. HorizonInv => HorizonAsked
  BY DEF HorizonInv, HorizonAsked
<1> QED
  BY <1>1, <1>2, <1>3, PTL DEF Spec

\* No position the worker records carries a rule that runs against it, so the exit
\* policy is never asked what it would raise at.
THEOREM RuleRunsWithPosition ==
  Spec => [](\A value \in Values, readable \in BOOLEAN : ~Conflicts(ExitInputs(value, readable)))
<1> DEFINE Agrees == IsPosition(position) /\ position.rule.direction = position.direction
<1>1. Init => Agrees
  BY DEF Init, NoPosition, NoRule, IsPosition
<1>2. Agrees /\ [Next]_vars => Agrees'
  <2> SUFFICES ASSUME Agrees, [Next]_vars
               PROVE  Agrees'
    OBVIOUS
  <2>1. CASE UNCHANGED position
    BY <2>1 DEF IsPosition
  <2>2. CASE Manages
    BY <2>2 DEF Manages, IsPosition
  <2>3. CASE Submits
    BY <2>3 DEF Submits, NoPosition, IsPosition
  <2>4. CASE EntryFills
    BY <2>4 DEF EntryFills, IsPosition
  <2>5. CASE StrategyEnds
    BY <2>5 DEF StrategyEnds, NoPosition, NoRule, IsPosition
  <2> QED
    BY <2>1, <2>2, <2>3, <2>4, <2>5 DEF Next, TickStep, TickStarts, ReadsClock, ReadsBars,
       ReadFails, DeclinesEarly, Considers, Concludes, TickRaises, Records, IsRefused, Reviews,
       CloseDies, Crashes, TimePasses, strategy, vars
<1>3. Agrees => \A value \in Values, readable \in BOOLEAN : ~Conflicts(ExitInputs(value, readable))
  BY DEF Conflicts, ExitInputs
<1> QED
  BY <1>1, <1>2, <1>3, PTL DEF Spec

----------------------------------------------------------------------------
(* The least and the greatest number of a set.                              *)

LEMMA MinIsLeast ==
  ASSUME NEW S, S \subseteq Nat, S # {}
  PROVE  Min(S) \in S /\ \A y \in S : Min(S) <= y
<1> DEFINE R == {ss \in Nat \X Nat : ss[1] < ss[2]}
<1>1. IsWellFoundedOn(R, Nat)
  BY NatLessThanWellFounded DEF OpToRel
<1>2. \E x \in S : \A y \in S : x <= y
  <2>1. \A x, y \in Nat : y < x => <<y, x>> \in R
    <3> SUFFICES ASSUME NEW x \in Nat, NEW y \in Nat, y < x
                 PROVE  <<y, x>> \in Nat \X Nat /\ <<y, x>>[1] < <<y, x>>[2]
      OBVIOUS
    <3> QED
      OBVIOUS
  <2> HIDE DEF R
  <2>2. PICK x \in S : \A y \in S : ~ (<<y, x>> \in R)
    BY <1>1, WFMin
  <2>3. \A y \in S : ~(y < x)
    BY <2>1, <2>2
  <2>4. \A y \in S : x <= y
    BY <2>3
  <2> QED
    BY <2>4
<1> QED
  BY <1>2 DEF Min

LEMMA MaxIsGreatest ==
  ASSUME NEW S, S \subseteq Nat, S # {}, NEW b \in Nat, \A x \in S : x <= b
  PROVE  Max(S) \in S /\ \A y \in S : y <= Max(S)
<1> DEFINE T == {n \in Nat : \E x \in S : n = b - x}
<1>1. T \subseteq Nat /\ T # {}
  <2>1. PICK x \in S : TRUE
    OBVIOUS
  <2>2. b - x \in T
    BY <2>1
  <2> QED
    BY <2>2
<1>2. Min(T) \in T /\ \A y \in T : Min(T) <= y
  <2> HIDE DEF T
  <2> QED
    BY <1>1, MinIsLeast
<1>3. PICK x \in S : Min(T) = b - x
  BY <1>2
<1>4. \A y \in S : y <= x
  <2> TAKE y \in S
  <2>1. b - y \in T
    OBVIOUS
  <2>2. Min(T) <= b - y
    BY <1>2, <2>1
  <2> HIDE DEF T
  <2> QED
    BY <1>3, <2>2
<1>5. \E z \in S : \A y \in S : z >= y
  BY <1>4
<1>6. Max(S) \in S /\ \A y \in S : Max(S) >= y
  BY <1>5 DEF Max
<1> QED
  BY <1>6

----------------------------------------------------------------------------
(* What was over when it was read.                                          *)

\* The day of an instant is that of the session it falls in, and never before
\* that of a session that has begun.
LEMMA DayOfSession ==
  ASSUME NEW t \in Nat, NEW s \in Sessions, s.open <= t
  PROVE  /\ DayOf(t) \in Nat /\ s.day \in Nat /\ s.day <= DayOf(t)
         /\ t < s.close => DayOf(t) = s.day
<1> DEFINE q == t \div DayLen
           r == t % DayLen
<1>1. /\ DayLen \in Nat \ {0} /\ s.day \in Nat /\ s.open \in Nat /\ s.close \in Nat
      /\ s.day * DayLen <= s.open /\ s.close < (s.day + 1) * DayLen
  BY CalendarAssumption
<1>2. t = DayLen * q + r /\ r \in 0..(DayLen - 1) /\ q \in Nat
  BY <1>1
<1> HIDE DEF q, r
<1>3. DayLen * s.day < DayLen * (q + 1)
  BY <1>1, <1>2
<1>4. s.day <= q
  BY <1>1, <1>2, <1>3
<1>5. ASSUME t < s.close PROVE q <= s.day
  <2>1. DayLen * q < DayLen * (s.day + 1)
    BY <1>1, <1>2, <1>5
  <2> QED
    BY <1>1, <1>2, <2>1
<1>6. DayOf(t) = q
  BY DEF DayOf, q
<1> QED
  BY <1>1, <1>2, <1>4, <1>5, <1>6

\* The bars a tick has read are of sessions that had begun.
Begun(d) == \E s \in Sessions : s.day = d /\ s.open <= time

Over(day, t) == \E s \in Sessions : s.day = day /\ s.close <= t

\* While the market is open, the last bar that is left once the one in progress
\* is removed belongs to a session that is over.
LEMMA LastBarIsOver ==
  ASSUME time \in Nat, \A d \in bars : Begun(d), clock.open,
         ParseBars(bars, clock.open, time) # {}
  PROVE  Over(Max(ParseBars(bars, clock.open, time)), time)
<1> DEFINE kept == ParseBars(bars, clock.open, time)
           today == DayOf(time)
<1>1. today \in Nat /\ bars \subseteq Nat /\ \A d \in bars : d <= today
  <2>1. today \in Nat
    BY CalendarAssumption DEF DayOf
  <2>2. \A d \in bars : d \in Nat /\ d <= today
    BY DayOfSession DEF Begun
  <2> QED
    BY <2>1, <2>2
<1>2. kept \subseteq bars /\ kept # {} /\ bars # {}
  BY DEF ParseBars
<1>3. Max(bars) \in bars /\ \A d \in bars : d <= Max(bars)
  BY <1>1, <1>2, MaxIsGreatest
<1>4. \A d \in kept : d < today
  <2>1. CASE Max(bars) >= today
    <3>1. kept = bars \ {Max(bars)}
      BY <1>2, <2>1 DEF ParseBars
    <3> HIDE DEF kept, today
    <3>2. Max(bars) = today
      <4>1. Max(bars) \in Nat /\ Max(bars) <= today
        BY <1>1, <1>3
      <4> QED
        BY <1>1, <2>1, <4>1
    <3>3. ASSUME NEW d \in kept PROVE d < today
      <4>1. d \in bars /\ d # today
        BY <3>1, <3>2, <3>3
      <4>2. d \in Nat /\ d <= today
        BY <1>1, <4>1
      <4> QED
        BY <1>1, <4>1, <4>2
    <3> QED
      BY <3>3
  <2>2. CASE ~(Max(bars) >= today)
    <3> HIDE DEF kept, today
    <3> QED
      BY <1>1, <1>2, <1>3, <2>2
  <2> QED
    BY <2>1, <2>2
<1>5. Max(kept) \in kept
  <2> HIDE DEF kept, today
  <2> QED
    BY <1>1, <1>2, MaxIsGreatest
<1>6. PICK s \in Sessions : s.day = Max(kept) /\ s.open <= time
  BY <1>2, <1>5 DEF Begun
<1>7. s.close <= time
  <2>1. s.day < today
    BY <1>4, <1>5, <1>6
  <2>2. s.close \in Nat /\ s.day \in Nat
    BY CalendarAssumption
  <2>3. time < s.close => today = s.day
    BY <1>6, DayOfSession
  <2> HIDE DEF today
  <2> QED
    BY <1>1, <2>1, <2>2, <2>3
<1> QED
  BY <1>6, <1>7 DEF Over

Decision == [asOf : Nat, session : Nat, decidedAt : Nat, traded : BOOLEAN]

\* What is recorded rests on a close that was over, and the table is in order: a
\* decision is taken after its observation, and observed after the one before.
RecordInv ==
  /\ time \in Nat
  /\ decisions \in Seq(Decision)
  /\ \A d \in bars : Begun(d)
  /\ pc \in {"memo", "record", "submit"} =>
       /\ snapshot.asOf \in Nat /\ snapshot.session \in Nat /\ snapshot.asOf <= time
       /\ Over(snapshot.session, snapshot.asOf)
  /\ pc \in {"memo", "record"} =>
       \A i \in 1..Len(decisions) : decisions[i].decidedAt <= snapshot.asOf
  /\ \A i \in 1..Len(decisions) :
       /\ Over(decisions[i].session, decisions[i].asOf)
       /\ decisions[i].asOf <= decisions[i].decidedAt /\ decisions[i].decidedAt <= time
       /\ \A j \in 1..Len(decisions) : i < j => decisions[i].decidedAt <= decisions[j].asOf

LEMMA RecordStep ==
  ASSUME RecordInv, [Next]_vars
  PROVE  RecordInv'
<1>1. CASE Ends /\ UNCHANGED <<time, decisions>>
  BY <1>1 DEF RecordInv, Ends
<1>2. CASE UNCHANGED <<time, pc, bars, snapshot, decisions>>
  BY <1>2 DEF RecordInv, Begun
<1>3. CASE TickStarts \/ ReadsClock
  <2>1. /\ pc' \in {"clock", "bars"} /\ UNCHANGED <<time, bars, decisions>>
    BY <1>3 DEF TickStarts, ReadsClock, database
  <2> QED
    BY <2>1 DEF RecordInv, Begun
<1>4. CASE ReadsBars
  <2>1. \A d \in bars' : Begun(d)
    BY <1>4 DEF ReadsBars, Begun
  <2>2. pc' = "chain" /\ UNCHANGED <<time, decisions>>
    BY <1>4 DEF ReadsBars, database
  <2> QED
    BY <2>1, <2>2 DEF RecordInv, Begun
<1>5. CASE Considers
  <2>1. PICK reading \in Readings, chain \in Chains, account \in Accounts :
          snapshot' = Snapshot(reading, chain, account)
    BY <1>5 DEF Considers
  <2>2. /\ clock.open /\ ParseBars(bars, clock.open, time) # {}
        /\ UNCHANGED <<time, bars, decisions>> /\ pc' \in {"memo", "record"}
    BY <1>5 DEF Considers, Observed, database
  <2>3. /\ snapshot'.asOf = time
        /\ snapshot'.session = Max(ParseBars(bars, clock.open, time))
    BY <2>1 DEF Snapshot
  <2>4. Over(snapshot'.session, snapshot'.asOf)
    BY <2>2, <2>3, LastBarIsOver DEF RecordInv
  <2>5. snapshot'.session \in Nat
    BY <2>4, CalendarAssumption DEF Over
  <2>6. /\ snapshot'.asOf \in Nat /\ snapshot'.asOf <= time'
        /\ \A i \in 1..Len(decisions') : decisions'[i].decidedAt <= snapshot'.asOf
    BY <2>2, <2>3 DEF RecordInv
  <2>7. /\ time' \in Nat /\ decisions' \in Seq(Decision)
        /\ \A d \in bars' : Begun(d)'
        /\ \A i \in 1..Len(decisions') :
             /\ Over(decisions'[i].session, decisions'[i].asOf)
             /\ decisions'[i].asOf <= decisions'[i].decidedAt /\ decisions'[i].decidedAt <= time'
             /\ \A j \in 1..Len(decisions') : i < j => decisions'[i].decidedAt <= decisions'[j].asOf
    BY <2>2 DEF RecordInv, Begun
  <2> QED
    BY <2>4, <2>5, <2>6, <2>7 DEF RecordInv
<1>6. CASE Concludes
  <2>1. /\ pc = "memo" /\ pc' = "record"
        /\ UNCHANGED <<time, bars, snapshot, decisions>>
    BY <1>6 DEF Concludes, database
  <2> QED
    BY <2>1 DEF RecordInv, Begun
<1>7. CASE Records
  <2> DEFINE d == [asOf |-> snapshot.asOf, session |-> snapshot.session, decidedAt |-> time,
                   traded |-> outcome.action = "OPTIONS_POSITION"]
  <2>1. /\ pc = "record" /\ time' = time /\ decisions' = Append(decisions, d)
        /\ \/ pc' = "submit" /\ UNCHANGED <<bars, snapshot>>
           \/ Ends
    BY <1>7 DEF Records
  <2>2. /\ d \in Decision /\ d.asOf = snapshot.asOf /\ d.session = snapshot.session
        /\ d.decidedAt = time
    BY <2>1 DEF RecordInv, Decision
  <2>3. /\ snapshot.asOf <= time /\ Over(snapshot.session, snapshot.asOf)
        /\ \A i \in 1..Len(decisions) : decisions[i].decidedAt <= snapshot.asOf
    BY <2>1 DEF RecordInv
  <2> HIDE DEF d
  <2>4. /\ decisions' \in Seq(Decision) /\ Len(decisions') = Len(decisions) + 1
        /\ \A i \in 1..Len(decisions) : decisions'[i] = decisions[i]
        /\ decisions'[Len(decisions) + 1] = d
    BY <2>1, <2>2 DEF RecordInv
  <2>5. \A i \in 1..Len(decisions') : i \in 1..Len(decisions) \/ i = Len(decisions) + 1
    BY <2>4 DEF RecordInv
  <2>6. \A i \in 1..Len(decisions') :
          /\ Over(decisions'[i].session, decisions'[i].asOf)
          /\ decisions'[i].asOf <= decisions'[i].decidedAt /\ decisions'[i].decidedAt <= time
          /\ \A j \in 1..Len(decisions') : i < j => decisions'[i].decidedAt <= decisions'[j].asOf
    <3> SUFFICES ASSUME NEW i \in 1..Len(decisions')
                 PROVE  /\ Over(decisions'[i].session, decisions'[i].asOf)
                        /\ decisions'[i].asOf <= decisions'[i].decidedAt
                        /\ decisions'[i].decidedAt <= time
                        /\ \A j \in 1..Len(decisions') :
                             i < j => decisions'[i].decidedAt <= decisions'[j].asOf
      OBVIOUS
    <3>1. Len(decisions) \in Nat /\ time \in Nat
      BY DEF RecordInv
    <3>2. CASE i \in 1..Len(decisions)
      <4>1. decisions'[i] = decisions[i]
        BY <2>4, <3>2
      <4>2. \A j \in 1..Len(decisions') : i < j => decisions[i].decidedAt <= decisions'[j].asOf
        BY <2>2, <2>3, <2>4, <2>5, <3>2 DEF RecordInv
      <4> QED
        BY <3>2, <4>1, <4>2 DEF RecordInv
    <3>3. CASE i = Len(decisions) + 1
      <4>1. decisions'[i] = d
        BY <2>4, <3>3
      <4>2. \A j \in 1..Len(decisions') : ~(i < j)
        BY <2>4, <3>1, <3>3
      <4> QED
        BY <2>2, <2>3, <3>1, <4>1, <4>2
    <3> QED
      BY <2>5, <3>2, <3>3
  <2>7. CASE pc' = "submit" /\ UNCHANGED <<bars, snapshot>>
    BY <2>1, <2>3, <2>4, <2>6, <2>7 DEF RecordInv, Begun
  <2>8. CASE Ends
    BY <2>1, <2>4, <2>6, <2>8 DEF RecordInv, Ends
  <2> QED
    BY <2>1, <2>7, <2>8
<1>8. CASE ReadFails \/ DeclinesEarly \/ Manages \/ TickRaises \/ Submits \/ IsRefused \/ Crashes
  BY <1>8, <1>1
     DEF ReadFails, DeclinesEarly, Manages, TickRaises, Submits, IsRefused, Crashes, database
<1>9. CASE Reviews \/ EntryFills \/ StrategyEnds \/ CloseDies \/ UNCHANGED vars
  BY <1>9, <1>2 DEF Reviews, EntryFills, StrategyEnds, CloseDies, tick, database, vars
<1>10. CASE TimePasses
  <2>1. \A d \in bars : Begun(d)'
    <3>1. \A s \in Sessions : s.open \in Nat
      BY CalendarAssumption
    <3> QED
      BY <1>10, <3>1 DEF TimePasses, tick, Begun, RecordInv
  <2>2. time' = time + 1 /\ UNCHANGED <<pc, bars, snapshot, decisions>>
    BY <1>10 DEF TimePasses, tick, database
  <2>3. \A i \in 1..Len(decisions) :
          decisions[i].decidedAt \in Nat /\ decisions[i].decidedAt <= time + 1
    <3> TAKE i \in 1..Len(decisions)
    <3>1. decisions[i] \in Decision
      BY DEF RecordInv
    <3>2. decisions[i].decidedAt \in Nat
      BY <3>1 DEF Decision
    <3> QED
      BY <3>2 DEF RecordInv
  <2> QED
    BY <2>1, <2>2, <2>3 DEF RecordInv
<1> QED
  BY <1>3, <1>4, <1>5, <1>6, <1>7, <1>8, <1>9, <1>10 DEF Next, TickStep

LEMMA RecordAlways == Spec => []RecordInv
<1>1. Init => RecordInv
  BY DEF Init, RecordInv
<1>2. RecordInv /\ [Next]_vars => RecordInv'
  BY RecordStep
<1> QED
  BY <1>1, <1>2, PTL DEF Spec

\* No decision looks ahead: the close it rests on was over when its bars were
\* judged, for any calendar, any lag of the bars and any time between the reads of
\* the clock, the bars and the chain. market/parse.py, evidence.py.
THEOREM NoLookAhead == Spec => []CompletedCloses
<1>1. RecordInv => CompletedCloses
  <2> SUFFICES ASSUME RecordInv PROVE CompletedCloses
    OBVIOUS
  <2>1. DOMAIN decisions = 1..Len(decisions)
    BY DEF RecordInv
  <2> QED
    BY <2>1 DEF RecordInv, CompletedCloses, Over
<1> QED
  BY <1>1, RecordAlways, PTL

----------------------------------------------------------------------------
(* The review of what became of a decision.                                 *)

ClosesIn(a, b) == {s \in Sessions : a < s.close /\ s.close <= b}

\* Counting the closes between two instants, as the property does, and comparing
\* the closes through each, as outcomes.py does, is the same.
LEMMA HorizonCounted ==
  ASSUME NEW a \in Nat, NEW b \in Nat, NEW h \in Nat \ {0}
  PROVE  Cardinality(ClosesIn(a, b)) >= h <=> ClosesThrough(b) >= ClosesThrough(a) + h
<1> DEFINE A == {s \in Sessions : s.close <= a}
           B == {s \in Sessions : s.close <= b}
           D == ClosesIn(a, b)
<1>1. /\ IsFiniteSet(A) /\ Cardinality(A) \in Nat
      /\ IsFiniteSet(B) /\ Cardinality(B) \in Nat
      /\ IsFiniteSet(D) /\ Cardinality(D) \in Nat
  <2>1. IsFiniteSet(Sessions) /\ A \in SUBSET Sessions /\ B \in SUBSET Sessions
        /\ D \in SUBSET Sessions
    BY CalendarAssumption DEF ClosesIn
  <2> HIDE DEF A, B, D
  <2> QED
    BY <2>1, FS_Subset, FS_CardinalityType
<1>2. \A s \in Sessions : s.close \in Nat
  BY CalendarAssumption
<1>3. CASE a <= b
  <2>1. B = A \cup D /\ A \cap D = {}
    BY <1>2, <1>3 DEF ClosesIn
  <2> HIDE DEF A, B, D
  <2>2. Cardinality(B) = Cardinality(A) + Cardinality(D) - Cardinality({})
    BY <1>1, <2>1, FS_Union
  <2>3. Cardinality(B) = Cardinality(A) + Cardinality(D)
    BY <1>1, <2>2, FS_EmptySet
  <2> QED
    BY <1>1, <2>3 DEF ClosesThrough, A, B, D
<1>4. CASE b < a
  <2>1. D = {} /\ B \in SUBSET A
    BY <1>2, <1>4 DEF ClosesIn
  <2> HIDE DEF A, B, D
  <2>2. Cardinality(D) = 0 /\ Cardinality(B) <= Cardinality(A)
    BY <1>1, <2>1, FS_EmptySet, FS_Subset
  <2> QED
    BY <1>1, <2>2 DEF ClosesThrough, A, B, D
<1> QED
  BY <1>3, <1>4

SameQuestion(x, y) == x.decision = y.decision /\ x.horizon = y.horizon

\* An answer is the first observation past its horizon, and its question is not
\* open any more.
Answers(o) ==
  /\ o = [decision |-> o.decision, horizon |-> o.horizon, observed |-> o.observed]
  /\ o.decision \in 1..Len(decisions) /\ o.horizon \in Horizons
  /\ o.observed \in After(o) /\ \A i \in After(o) : o.observed <= i

ReviewInv ==
  /\ \A j \in jobs : j.decision \in 1..Len(decisions) /\ j.horizon \in Horizons
  /\ \A o \in outcomes : Answers(o)
  /\ \A o \in outcomes : \A j \in jobs : ~SameQuestion(o, j)
  /\ \A o, other \in outcomes : SameQuestion(o, other) => other = o

\* The observations of a longer table that a question has not seen come later.
LEMMA AfterGrows ==
  ASSUME RecordInv, NEW d, decisions' = Append(decisions, d), NEW o,
         o.decision \in 1..Len(decisions)
  PROVE  /\ After(o) \subseteq 1..Len(decisions) /\ After(o) \subseteq After(o)'
         /\ \A i \in After(o)' : i \in After(o) \/ i = Len(decisions) + 1
<1>1. /\ DOMAIN decisions = 1..Len(decisions) /\ Len(decisions) \in Nat
      /\ DOMAIN decisions' = 1..(Len(decisions) + 1)
      /\ \A i \in 1..Len(decisions) : decisions'[i] = decisions[i]
  BY DEF RecordInv
<1> QED
  BY <1>1 DEF After

LEMMA ReviewStep ==
  ASSUME RecordInv, ReviewInv, [Next]_vars
  PROVE  ReviewInv'
<1>1. CASE UNCHANGED database
  BY <1>1 DEF database, ReviewInv, Answers, After
<1>2. CASE Records
  <2> DEFINE d == [asOf |-> snapshot.asOf, session |-> snapshot.session, decidedAt |-> time,
                   traded |-> outcome.action = "OPTIONS_POSITION"]
             n == Len(decisions)
  <2>1. /\ decisions' = Append(decisions, d) /\ jobs' = jobs \cup JobsOf(n + 1)
        /\ outcomes' = outcomes
    BY <1>2 DEF Records
  <2>2. n \in Nat /\ Len(decisions') = n + 1
    BY <2>1 DEF RecordInv
  <2> HIDE DEF d
  <2>3. \A j \in JobsOf(n + 1) : j.decision = n + 1 /\ j.horizon \in Horizons
    BY DEF JobsOf
  <2>4. \A j \in jobs' : j.decision \in 1..Len(decisions') /\ j.horizon \in Horizons
    BY <2>1, <2>2, <2>3 DEF ReviewInv
  <2>5. ASSUME NEW o \in outcomes PROVE Answers(o)'
    <3>1. Answers(o)
      BY DEF ReviewInv
    <3>2. /\ After(o) \subseteq 1..n /\ After(o) \subseteq After(o)'
          /\ \A i \in After(o)' : i \in After(o) \/ i = n + 1
      BY <2>1, <3>1, AfterGrows DEF Answers
    <3> QED
      BY <2>2, <3>1, <3>2 DEF Answers
  <2>6. ASSUME NEW o \in outcomes, NEW j \in jobs' PROVE ~SameQuestion(o, j)
    <3>1. o.decision \in 1..n
      BY DEF ReviewInv, Answers
    <3> QED
      BY <2>1, <2>2, <2>3, <3>1 DEF ReviewInv, SameQuestion
  <2> QED
    BY <2>1, <2>4, <2>5, <2>6 DEF ReviewInv
<1>3. CASE Reviews
  <2>1. /\ outcomes' = outcomes \cup {Outcome(job) : job \in Resolvable}
        /\ jobs' = jobs \ Resolvable /\ decisions' = decisions
    BY <1>3 DEF Reviews
  <2>2. ASSUME NEW job \in Resolvable
        PROVE  /\ Answers(Outcome(job)) /\ SameQuestion(Outcome(job), job)
               /\ job \in jobs
    <3> DEFINE o == Outcome(job)
    <3>1. job \in jobs /\ After(job) # {}
      BY DEF Resolvable
    <3>2. /\ o.decision = job.decision /\ o.horizon = job.horizon
          /\ o.observed = Min(After(job))
          /\ o = [decision |-> o.decision, horizon |-> o.horizon, observed |-> o.observed]
      BY DEF Outcome
    <3> HIDE DEF o
    <3>3. After(o) = After(job)
      BY <3>2 DEF After
    <3>4. After(job) \subseteq Nat
      BY DEF After, RecordInv
    <3>5. Min(After(job)) \in After(job) /\ \A i \in After(job) : Min(After(job)) <= i
      BY <3>1, <3>4, MinIsLeast
    <3>6. Answers(o) /\ SameQuestion(o, job)
      BY <3>1, <3>2, <3>3, <3>5 DEF Answers, SameQuestion, ReviewInv
    <3> QED
      BY <3>1, <3>6 DEF o
  <2>3. ASSUME NEW a \in Resolvable, NEW b \in Resolvable, SameQuestion(Outcome(a), Outcome(b))
        PROVE  Outcome(a) = Outcome(b)
    <3>1. SameQuestion(a, b)
      BY <2>3 DEF SameQuestion, Outcome
    <3>2. After(a) = After(b)
      BY <3>1 DEF After, SameQuestion
    <3> QED
      BY <3>1, <3>2 DEF Outcome, SameQuestion
  <2>4. ASSUME NEW a \in Resolvable, NEW b \in jobs', SameQuestion(Outcome(a), b)
        PROVE  FALSE
    <3>1. SameQuestion(a, b) /\ b \in jobs /\ b \notin Resolvable
      BY <2>1, <2>4 DEF SameQuestion, Outcome
    <3>2. After(a) = After(b) /\ (Elapsed(a) <=> Elapsed(b))
      BY <3>1 DEF After, Elapsed, SameQuestion
    <3> QED
      BY <3>1, <3>2 DEF Resolvable
  <2>5. \A o \in outcomes' : Answers(o)'
    <3>1. \A o \in outcomes' : Answers(o)
      BY <2>1, <2>2 DEF ReviewInv
    <3> QED
      BY <2>1, <3>1 DEF Answers, After
  <2>6. \A o \in outcomes' : \A j \in jobs' : ~SameQuestion(o, j)
    BY <2>1, <2>4 DEF ReviewInv
  <2>7. \A o, other \in outcomes' : SameQuestion(o, other) => other = o
    <3>1. ASSUME NEW o \in outcomes, NEW a \in Resolvable
          PROVE  ~SameQuestion(o, Outcome(a)) /\ ~SameQuestion(Outcome(a), o)
      BY <2>2 DEF ReviewInv, SameQuestion
    <3> QED
      BY <2>1, <2>3, <3>1 DEF ReviewInv
  <2> QED
    BY <2>1, <2>5, <2>6, <2>7 DEF ReviewInv
<1> QED
  BY <1>1, <1>2, <1>3
     DEF Next, TickStep, TickStarts, ReadsClock, ReadsBars, ReadFails, DeclinesEarly, Considers,
         Manages, Concludes, TickRaises, Submits, IsRefused, EntryFills, StrategyEnds,
         CloseDies, Crashes, TimePasses, vars, database

\* A decision is reviewed once per horizon, and with the first observation that
\* follows it by the horizon's closes, however long the job waited, whatever else
\* was pending and whichever pass answered it. outcomes.py.
THEOREM ReviewsAtHorizon == Spec => []ReviewedAtHorizon
<1>1. Init => ReviewInv
  BY DEF Init, ReviewInv
<1>2. RecordInv /\ ReviewInv /\ [Next]_vars => ReviewInv'
  BY ReviewStep
<1>3. RecordInv /\ ReviewInv => ReviewedAtHorizon
  <2> SUFFICES ASSUME RecordInv, ReviewInv, NEW o \in outcomes
               PROVE  /\ Cardinality(ClosesIn(decisions[o.decision].decidedAt,
                                              decisions[o.observed].asOf)) >= o.horizon
                      /\ \A i \in DOMAIN decisions :
                           Cardinality(ClosesIn(decisions[o.decision].decidedAt,
                                                decisions[i].asOf)) >= o.horizon
                             => decisions[o.observed].asOf <= decisions[i].asOf
                      /\ \A other \in outcomes :
                           other.decision = o.decision /\ other.horizon = o.horizon => other = o
    BY DEF ReviewedAtHorizon, ClosesIn
  <2>1. /\ Answers(o) /\ o.horizon \in Nat \ {0}
        /\ DOMAIN decisions = 1..Len(decisions) /\ Len(decisions) \in Nat
    BY CycleAssumption DEF ReviewInv, Answers, RecordInv
  <2>2. \A i \in 1..Len(decisions) : decisions[i].asOf \in Nat /\ decisions[i].decidedAt \in Nat
    <3> TAKE i \in 1..Len(decisions)
    <3>1. decisions[i] \in Decision
      BY DEF RecordInv
    <3> QED
      BY <3>1 DEF Decision
  <2>3. \A i \in 1..Len(decisions) :
          i \in After(o) <=>
            Cardinality(ClosesIn(decisions[o.decision].decidedAt, decisions[i].asOf)) >= o.horizon
    <3> TAKE i \in 1..Len(decisions)
    <3>1. o.decision \in 1..Len(decisions)
      BY <2>1 DEF Answers
    <3> QED
      BY <2>1, <2>2, <3>1, HorizonCounted DEF After
  <2>4. o.observed \in 1..Len(decisions)
    BY <2>1 DEF Answers, After
  <2>5. ASSUME NEW i \in 1..Len(decisions), o.observed <= i
        PROVE  decisions[o.observed].asOf <= decisions[i].asOf
    <3>1. CASE o.observed = i
      BY <2>2, <3>1
    <3>2. CASE o.observed < i
      <4>1. /\ decisions[o.observed].asOf <= decisions[o.observed].decidedAt
            /\ decisions[o.observed].decidedAt <= decisions[i].asOf
        BY <2>4, <3>2 DEF RecordInv
      <4> QED
        BY <2>2, <2>4, <4>1
    <3> QED
      BY <2>4, <2>5, <3>1, <3>2
  <2> QED
    BY <2>1, <2>3, <2>4, <2>5 DEF Answers, ReviewInv, SameQuestion
<1> QED
  BY <1>1, <1>2, <1>3, RecordAlways, PTL DEF Spec
=============================================================================

---------------------------- MODULE DecisionGates ----------------------------
(***************************************************************************)
(* The deterministic gates of a decision, as operators: the signals of     *)
(* evidence.py, the classifier, selector and risk governor of              *)
(* components.py, the bounded memo of providers/openai_thesis.py, and the  *)
(* order architecture/workflow.py puts them in. Prices are in cents,       *)
(* strengths and implied volatility in percent, returns in basis points.   *)
(***************************************************************************)
EXTENDS Integers, FiniteSets

\* Decimal.quantize of n/d: the nearest integer, and the even one of two.
HalfEven(n, d) ==
  LET q == n \div d
      r == 2 * (n % d)
  IN IF r < d \/ (r = d /\ q % 2 = 0) THEN q ELSE q + 1

Size(x) == IF x < 0 THEN -x ELSE x

Bounded(percent) == IF percent > 100 THEN 100 ELSE percent

Opposite(direction) == IF direction = "bullish" THEN "bearish" ELSE "bullish"

----------------------------------------------------------------------------
(* The signals. A reading is what the bars and the chain measure: the       *)
(* separation of the two averages, the side the last close is on, whether   *)
(* price came back to the average, the at-the-money volatility (-1 when     *)
(* unread), the change of breadth (0 when unread) and the 5-session return. *)

Trend(r) ==
  IF r.separation >= 20 /\ r.side = "above" /\ r.retest THEN "bullish"
  ELSE IF r.separation <= -20 /\ r.side = "below" /\ r.retest THEN "bearish"
  ELSE "neutral"

Sig(family, direction, strength) ==
  [family |-> family, direction |-> direction, strength |-> Bounded(strength)]

VolatilitySignals(r) ==
  IF r.iv \in 0..22 THEN {Sig("volatility", Trend(r), 50 + 2 * (22 - r.iv))}
  ELSE IF r.iv >= 32 THEN {Sig("volatility", Opposite(Trend(r)), 55 + 2 * (r.iv - 32))}
  ELSE {}

BreadthSignals(r) ==
  IF Size(r.breadth) < 20 THEN {}
  ELSE {Sig("participation", IF r.breadth > 0 THEN "bullish" ELSE "bearish",
            50 + HalfEven(Size(r.breadth) * 25, 100))}

MomentumSignals(r) ==
  IF (Trend(r) = "bullish" /\ r.momentum > 0) \/ (Trend(r) = "bearish" /\ r.momentum < 0)
  THEN {}
  ELSE {Sig("momentum", Opposite(Trend(r)), 50 + HalfEven(Size(r.momentum) * 6, 100))}

\* Nothing at all without a structure: the other signals only confirm or contradict it.
BuildSignals(r) ==
  IF Trend(r) = "neutral" THEN {}
  ELSE {Sig("structure", Trend(r), 55 + HalfEven(Size(r.separation) * 8, 100))}
         \cup VolatilitySignals(r) \cup BreadthSignals(r) \cup MomentumSignals(r)

\* At most one signal of a family, so its family identifies it.
Ids(signals) == {s.family : s \in signals}

----------------------------------------------------------------------------
(* The setup.                                                               *)

MinStructure == 60
MinConfirmation == 50
ContradictionVeto == 70

NoSetup == [direction |-> "neutral", evidence |-> {}, level |-> 0]

\* Of equal strengths the last identifier in the alphabet.
Rank(s) == [momentum |-> 1, participation |-> 2, structure |-> 3, volatility |-> 4][s.family]

Strongest(signals) ==
  CHOOSE s \in signals : \A o \in signals : o.strength * 10 + Rank(o) <= s.strength * 10 + Rank(s)

Structures(signals) ==
  {s \in signals : s.family = "structure" /\ s.direction # "neutral" /\ s.strength >= MinStructure}

Contradictions(signals, direction) ==
  {s \in signals : s.direction = Opposite(direction) /\ s.strength >= ContradictionVeto}

Confirmations(signals, direction) ==
  {s \in signals : s.direction = direction /\ s.family # "structure" /\ s.strength >= MinConfirmation}

\* 1.5 per cent against the trend, from the price of the snapshot.
InvalidationLevel(price, direction) ==
  HalfEven(price * (IF direction = "bullish" THEN 985 ELSE 1015), 1000)

Classify(signals, price) ==
  LET anchor == Strongest(Structures(signals))
      confirmation == Strongest(Confirmations(signals, anchor.direction))
  IN IF \/ Structures(signals) = {}
        \/ Contradictions(signals, anchor.direction) # {}
        \/ Confirmations(signals, anchor.direction) = {}
     THEN NoSetup
     ELSE [direction |-> anchor.direction, evidence |-> {anchor.family, confirmation.family},
           level |-> InvalidationLevel(price, anchor.direction)]

----------------------------------------------------------------------------
(* The thesis. A reply is what the model sent: whether the call failed, and *)
(* else its direction, the signals it cites for and against, and whether it *)
(* said anything. What it cites need not exist.                             *)

Baseline(signals, setup) ==
  [direction |-> setup.direction, evidence |-> setup.evidence, level |-> setup.level,
   counter |-> {s.family : s \in {x \in signals : x.direction = Opposite(setup.direction)}}]

\* Anything but the setup's own direction, said in words and resting on evidence
\* that exists, is an abstention. The level is copied: the model never saw it.
Synthesize(signals, setup, reply) ==
  LET cited == reply.evidence \cap Ids(signals)
      invented == ~((reply.evidence \cup reply.counter) \subseteq Ids(signals))
      abstains == \/ reply.status = "failed"
                  \/ reply.direction # setup.direction
                  \/ invented
                  \/ reply.summary = ""
                  \/ cited = {}
  IN [direction |-> IF abstains THEN "neutral" ELSE setup.direction,
      evidence |-> IF abstains THEN {} ELSE cited,
      counter |-> IF reply.status = "failed" THEN {}
                  ELSE (reply.counter \cap Ids(signals)) \ reply.evidence,
      level |-> setup.level]

----------------------------------------------------------------------------
(* The spread. A quote has a contract, its type, expiry (as its days to go), *)
(* strike, bid, ask and delta (in percent, -1 when the feed sent none).      *)

MinDte == 14
MaxDte == 45
Multiplier == 100

NoSpread == [strategy |-> "none", long |-> "none", short |-> "none", debit |-> 0, maxLoss |-> 0]

\* The quoted width is at most a quarter of the midpoint.
Tradeable(q) == q.bid > 0 /\ q.ask >= q.bid /\ 8 * (q.ask - q.bid) <= q.bid + q.ask

\* What to assume the spread costs: across the market, and half of each leg's own width.
CrossingDebit(l, s) ==
  (l.ask - s.bid) + ((l.ask - l.bid) + (s.ask - s.bid) + 1) \div 2

Usable(chain, direction) ==
  {q \in chain : /\ q.type = (IF direction = "bullish" THEN "call" ELSE "put")
                 /\ q.dte \in MinDte..MaxDte /\ Tradeable(q)}

\* A vertical shares its expiry: the nearest one that has a usable quote.
Legs(usable) == {q \in usable : \A o \in usable : q.dte <= o.dte}

Width(pair) == Size(pair.long.strike - pair.short.strike)

\* The quoted price per unit of width, in ten-thousandths.
Ratio(pair) == HalfEven((pair.long.ask - pair.short.bid) * 10000, Width(pair))

Eligible(legs, price, direction) ==
  {pair \in [long : {q \in legs : q.delta \in 55..70}, short : {q \in legs : q.delta \in 25..40}] :
     /\ IF direction = "bullish" THEN pair.short.strike > pair.long.strike
                                 ELSE pair.short.strike < pair.long.strike
     /\ Width(pair) * 1000 >= price * 5
     /\ 0 < pair.long.ask - pair.short.bid
     /\ pair.long.ask - pair.short.bid < Width(pair)
     /\ Ratio(pair) <= 6000
     /\ CrossingDebit(pair.long, pair.short) < Width(pair)}

\* The narrowest, then the cheapest per unit of width, then the lowest strike.
Before(p, q) ==
  \/ Width(p) < Width(q)
  \/ Width(p) = Width(q) /\ Ratio(p) < Ratio(q)
  \/ Width(p) = Width(q) /\ Ratio(p) = Ratio(q) /\ p.long.strike <= q.long.strike

Select(chain, price, thesis) ==
  LET usable == Usable(chain, thesis.direction)
      eligible == Eligible(Legs(usable), price, thesis.direction)
      best == CHOOSE p \in eligible : \A q \in eligible : Before(p, q)
      debit == CrossingDebit(best.long, best.short)
  IN IF eligible = {} THEN NoSpread
     ELSE [strategy |-> IF thesis.direction = "bullish" THEN "bull_call" ELSE "bear_put",
           long |-> best.long.contract, short |-> best.short.contract,
           debit |-> debit, maxLoss |-> debit * Multiplier]

----------------------------------------------------------------------------
(* The risk governor. It trusts no number it is handed.                      *)

RiskBudget(account) == HalfEven(account.equity * 75, 10000)

\* The chain is keyed by contract.
Quote(chain, contract) == CHOOSE q \in chain : q.contract = contract

RecomputedLoss(chain, spread) ==
  CrossingDebit(Quote(chain, spread.long), Quote(chain, spread.short)) * Multiplier

\* Mutant: the candidate's own loss is held against the buying power only.
ApprovesUnbudgeted(chain, account, setup, thesis, spread) ==
  /\ {spread.long, spread.short} \subseteq {q.contract : q \in chain}
  /\ spread.maxLoss <= account.power
  /\ thesis.direction = setup.direction

Approves(chain, account, setup, thesis, spread) ==
  /\ {spread.long, spread.short} \subseteq {q.contract : q \in chain}
  /\ RecomputedLoss(chain, spread) = spread.maxLoss
  /\ RecomputedLoss(chain, spread) <= RiskBudget(account)
  /\ RecomputedLoss(chain, spread) <= account.power
  /\ thesis.direction = setup.direction

----------------------------------------------------------------------------
(* The workflow after the thesis: every gate in its order, the first that    *)
(* declines giving the reason.                                               *)

Conclude(signals, chain, price, account, setup, thesis) ==
  LET spread == Select(chain, price, thesis)
      reason ==
        IF ~(thesis.evidence \cup thesis.counter \subseteq Ids(signals)) THEN "unknown_evidence"
        ELSE IF thesis.direction = "neutral" THEN "thesis_neutral"
        ELSE IF thesis.direction # setup.direction THEN "direction_outside_setup"
        ELSE IF thesis.level # setup.level THEN "changed_invalidation"
        ELSE IF spread = NoSpread THEN "no_eligible_spread"
        ELSE IF spread.strategy # (IF thesis.direction = "bullish" THEN "bull_call" ELSE "bear_put")
          THEN "spread_direction_mismatch"
        ELSE IF ~Approves(chain, account, setup, thesis, spread) THEN "risk_rejected"
        ELSE "none"
  IN [action |-> IF reason = "none" THEN "OPTIONS_POSITION" ELSE "NO_TRADE",
      reason |-> reason, direction |-> thesis.direction,
      spread |-> IF reason = "none" THEN spread ELSE NoSpread]
=============================================================================

--------------------------- MODULE LabExperiment ---------------------------
(***************************************************************************)
(* The legacy lab: run_experiment of orchestrator.py, the two agents and   *)
(* the arbiter of agents.py, and the deterministic gate of risk.py, as     *)
(* operators on one case. Prices and strikes are in cents, confidence in   *)
(* percent, the risk of an account and the width of a quote in basis       *)
(* points, so a budget (equity times risk) is in ten-thousandths of a cent. *)
(***************************************************************************)
EXTENDS Integers, Sequences, FiniteSets

Distance(x) == IF x < 0 THEN -x ELSE x

(* A quote has its symbol, type, expiration, days to go, strike, bid and ask; *)
(* a policy its risk, confidence, evidence, minDte, maxDte, ratio and         *)
(* contracts; a case its direction, confidence, evidence and conditions, the  *)
(* underlying's price, the equity, the chain (a sequence) and the policy.     *)

TwoSided(quote) == quote.bid > 0 /\ quote.ask > 0
Crossed(quote) == quote.bid > quote.ask

\* The width over the midpoint, against a ratio.
TooWide(quote, ratio) == 20000 * (quote.ask - quote.bid) > ratio * (quote.bid + quote.ask)

----------------------------------------------------------------------------
(* The agents.                                                              *)

\* What the event agent says is what the fixture says. A model may say anything else.
EventThesis(case) ==
  [direction |-> case.direction, confidence |-> case.confidence,
   evidence |-> case.evidence, conditions |-> case.conditions]

OptionType(thesis) == IF thesis.direction = "bearish" THEN "put" ELSE "call"
Strategy(thesis) == IF thesis.direction = "bearish" THEN "put_debit_spread" ELSE "call_debit_spread"

WithinDte(policy, quote) == quote.dte \in policy.minDte..policy.maxDte

EligibleQuotes(case, thesis) ==
  {i \in DOMAIN case.chain : /\ case.chain[i].type = OptionType(thesis)
                             /\ WithinDte(case.policy, case.chain[i])}

\* Two eligible quotes of one expiration and different strikes, the leg to buy first.
Candidates(case, thesis) ==
  {pair \in EligibleQuotes(case, thesis) \X EligibleQuotes(case, thesis) :
     LET long == case.chain[pair[1]]
         short == case.chain[pair[2]]
     IN /\ long.expiration = short.expiration /\ long.dte = short.dte
        /\ IF thesis.direction = "bearish" THEN long.strike > short.strike
                                           ELSE long.strike < short.strike}

\* The pair nearest the money. Equal ones keep the order of the chain.
SelectKey(case, pair) ==
  LET long == case.chain[pair[1]]
      short == case.chain[pair[2]]
      earlier == IF pair[1] < pair[2] THEN pair[1] ELSE pair[2]
  IN <<Distance(long.strike - case.price) + Distance(short.strike - case.price),
       Distance(long.strike - case.price), long.dte, long.expiration, long.strike, short.strike,
       earlier, pair[1] + pair[2] - earlier>>

Precedes(key, other) ==
  \E n \in DOMAIN key : key[n] < other[n] /\ \A m \in 1..(n - 1) : key[m] = other[m]

SelectPair(case, thesis) ==
  CHOOSE pair \in Candidates(case, thesis) :
    \A other \in Candidates(case, thesis) \ {pair} :
      Precedes(SelectKey(case, pair), SelectKey(case, other))

NoProposal == [spread |-> [strategy |-> "none"], quantity |-> 0]

\* The first proposal asks for all the policy allows, a revision for what the gate suggested.
Propose(case, thesis, quantity) ==
  LET pair == SelectPair(case, thesis)
      long == case.chain[pair[1]]
      short == case.chain[pair[2]]
  IN IF Candidates(case, thesis) = {} \/ long.ask - short.bid <= 0 THEN NoProposal
     ELSE [spread |-> [strategy |-> Strategy(thesis), long |-> long, short |-> short,
                       debit |-> long.ask - short.bid],
           quantity |-> quantity]

----------------------------------------------------------------------------
(* The gate. It recomputes whatever the proposal states.                    *)

Budget(case) == case.equity * case.policy.risk
PerContract(spread) == spread.debit * 100
Loss(proposal) == PerContract(proposal.spread) * proposal.quantity

When(condition, reason) == IF condition THEN {reason} ELSE {}

ThesisReasons(case, thesis) ==
  When(thesis.confidence \notin 0..100, "confidence_outside_valid_range")
    \cup When(thesis.confidence \in 0..100 /\ thesis.confidence < case.policy.confidence,
              "confidence_below_policy")
    \cup When(Cardinality(thesis.evidence) < case.policy.evidence, "insufficient_evidence")
    \cup When(thesis.conditions = {}, "missing_invalidation_conditions")

ValidateQuote(quote, ratio) ==
  IF ~TwoSided(quote) THEN {"quote_not_two_sided"}
  ELSE IF Crossed(quote) THEN {"quote_crossed"}
  ELSE IF TooWide(quote, ratio) THEN {"spread_too_wide"}
  ELSE {}

\* The place of the first quote of the chain under a symbol, if there is one.
ObservedQuote(case, symbol) ==
  {i \in DOMAIN case.chain : /\ case.chain[i].symbol = symbol
                             /\ \A j \in 1..(i - 1) : case.chain[j].symbol # symbol}

ValidateSnapshotLeg(case, quote) ==
  IF ObservedQuote(case, quote.symbol) = {} THEN {"not_in_option_chain"}
  ELSE IF \A i \in ObservedQuote(case, quote.symbol) : case.chain[i] # quote
    THEN {"quote_snapshot_mismatch"}
  ELSE {}

LegReasons(case, quote) ==
  ValidateQuote(quote, case.policy.ratio) \cup ValidateSnapshotLeg(case, quote)

ShapeReasons(case, thesis, spread) ==
  LET long == spread.long
      short == spread.short
  IN When(~(WithinDte(case.policy, long) /\ WithinDte(case.policy, short)), "dte_outside_policy")
       \cup When(long.symbol = short.symbol, "spread_uses_same_contract_twice")
       \cup When(long.expiration # short.expiration, "legs_expiration_mismatch")
       \cup When(long.dte # short.dte, "legs_dte_mismatch")
       \cup When({long.type, short.type} # {OptionType(thesis)}, "legs_option_type_mismatch")
       \cup When(spread.strategy # Strategy(thesis), "strategy_direction_mismatch")
       \cup When(IF thesis.direction = "bearish" THEN ~(long.strike > short.strike)
                                                ELSE ~(long.strike < short.strike),
                 "invalid_spread_shape")

DebitReasons(spread) ==
  When(spread.debit # spread.long.ask - spread.short.bid, "estimated_debit_mismatch")
    \cup When(spread.debit <= 0, "non_positive_debit")
    \cup When(spread.debit >= Distance(spread.long.strike - spread.short.strike),
              "debit_not_below_spread_width")

SpreadReasons(case, thesis, spread) ==
  LegReasons(case, spread.long) \cup LegReasons(case, spread.short)
    \cup ShapeReasons(case, thesis, spread) \cup DebitReasons(spread)

QuantityReasons(case, proposal) ==
  When(proposal.quantity < 1, "quantity_below_policy")
    \cup When(proposal.quantity > case.policy.contracts, "quantity_above_policy")

Overspends(case, proposal) ==
  proposal.quantity > 0 /\ Loss(proposal) * 10000 > Budget(case)

Resizable == {"max_loss_above_risk_budget", "quantity_above_policy"}

AffordableContracts(case, spread) == Budget(case) \div (PerContract(spread) * 10000)

\* No suggestion is 0. Only a quantity can be revised: any other reason rules a revision out.
Suggested(case, proposal, reasons) ==
  LET affordable == AffordableContracts(case, proposal.spread)
  IN IF /\ Overspends(case, proposal)
        /\ PerContract(proposal.spread) > 0
        /\ reasons \subseteq Resizable
        /\ affordable >= 1
     THEN IF affordable < case.policy.contracts THEN affordable ELSE case.policy.contracts
     ELSE 0

RiskResult(reasons, loss, suggested) ==
  [approved |-> reasons = {}, reasons |-> reasons, loss |-> loss, suggested |-> suggested]

Evaluate(case, thesis, proposal) ==
  LET reasons == ThesisReasons(case, thesis)
                   \cup SpreadReasons(case, thesis, proposal.spread)
                   \cup QuantityReasons(case, proposal)
                   \cup When(Overspends(case, proposal), "max_loss_above_risk_budget")
  IN IF proposal = NoProposal
     THEN RiskResult(ThesisReasons(case, thesis) \cup {"no_valid_spread"}, 0, 0)
     ELSE RiskResult(reasons, Loss(proposal), Suggested(case, proposal, reasons))

Decide(risk) == IF risk.approved THEN "TRADE_CANDIDATE" ELSE "NO_TRADE"

----------------------------------------------------------------------------
(* The experiment: one proposal, one verdict, and at most one revision.     *)

Message(sender, recipient, kind) == [sender |-> sender, recipient |-> recipient, kind |-> kind]

RunExperiment(case, thesis) ==
  LET first == Propose(case, thesis, case.policy.contracts)
      verdict == Evaluate(case, thesis, first)
      revises == ~verdict.approved /\ verdict.suggested # 0
      proposal == IF revises THEN Propose(case, thesis, verdict.suggested) ELSE first
      risk == IF revises THEN Evaluate(case, thesis, proposal) ELSE verdict
  IN [decision |-> Decide(risk), proposal |-> proposal, risk |-> risk,
      trace |-> <<Message("thesis", "structure", "thesis"),
                  Message("structure", "gate", "spread_proposal"),
                  Message("gate", IF verdict.suggested # 0 THEN "structure" ELSE "arbiter",
                          "risk_result")>>
                \o (IF revises
                    THEN <<Message("structure", "gate", "revised_spread_proposal"),
                           Message("gate", "arbiter", "final_risk_result")>>
                    ELSE <<>>)
                \o <<Message("arbiter", "output", "decision")>>]
=============================================================================

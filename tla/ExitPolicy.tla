------------------------------ MODULE ExitPolicy ------------------------------
(***************************************************************************)
(* exits.py: the rules that close a position, their precedence, and the    *)
(* record of what every rule said. Prices are in cents.                    *)
(***************************************************************************)
EXTENDS DecisionGates, Sequences

CONSTANTS
  SessionStop,   \* SESSION_STOP, in completed sessions since the fill
  ExpiryGuard    \* EXPIRY_GUARD_DTE, in days

ASSUME ExitAssumption == SessionStop \in Nat \ {0} /\ ExpiryGuard \in Nat

(* What the policy may look at: the position's direction, filled debit and   *)
(* width, the days to expiry, the underlying's price and what that price is, *)
(* the stored rule, the value of the spread if its legs could be read, and the   *)
(* sessions since the fill.                                                  *)

NoLimit == 0
NoRule == [direction |-> "neutral", level |-> 0, source |-> "none"]

StopLevel(x) == HalfEven(x.debit * 50, 100)
ProfitTarget(x) == x.debit + HalfEven((x.width - x.debit) * 60, 100)

\* A rule written for completed closes is judged against nothing else.
Verifiable(x) == x.rule # NoRule /\ x.rule.source = x.source

\* The rule's own direction says which side of its level is the wrong one.
RuleBroken(x) ==
  IF x.rule.direction = "bullish" THEN x.price <= x.rule.level ELSE x.price >= x.rule.level

\* The policy raises instead of judging a rule that runs against the position. Nothing is
\* evaluated then: EvaluateExit and Rows speak of the positions that do not conflict, which
\* are all the worker records (DecisionProofs, RuleRunsWithPosition).
Conflicts(x) == Verifiable(x) /\ x.rule.direction # x.direction

Unmeasurable(x) == ~x.readable
Unverifiable(x) == x.rule # NoRule /\ ~Verifiable(x)

\* Mutant: without a premium nothing fires after the invalidation.
EvaluateExitPriced(x) ==
  IF x.dte <= ExpiryGuard THEN "expiry_guard"
  ELSE IF Verifiable(x) /\ RuleBroken(x) THEN "invalidation_breached"
  ELSE IF Unmeasurable(x) THEN "unmeasurable"
  ELSE IF x.value <= StopLevel(x) THEN "stop_loss"
  ELSE IF x.sessions >= SessionStop THEN "session_stop"
  ELSE "hold"

\* EXIT-004: what the premium decides is skipped without one, and nothing else is.
EvaluateExit(x) ==
  IF x.dte <= ExpiryGuard THEN "expiry_guard"
  ELSE IF Verifiable(x) /\ RuleBroken(x) THEN "invalidation_breached"
  ELSE IF ~Unmeasurable(x) /\ x.value <= StopLevel(x) THEN "stop_loss"
  ELSE IF x.sessions >= SessionStop THEN "session_stop"
  ELSE IF ~Unmeasurable(x) /\ x.value >= ProfitTarget(x) THEN "profit_capture"
  ELSE IF Unmeasurable(x) \/ Unverifiable(x) THEN "unmeasurable"
  ELSE "hold"

ShouldClose(trigger) == trigger \notin {"unmeasurable", "hold"}

\* A close crosses the market by a tenth; without a premium it has no price.
SuggestedLimit(x) ==
  IF Unmeasurable(x) THEN NoLimit
  ELSE IF HalfEven(x.value * 90, 100) < 1 THEN 1 ELSE HalfEven(x.value * 90, 100)

Precedence ==
  <<"expiry_guard", "invalidation_breached", "stop_loss", "session_stop", "profit_capture">>

Said(fired) == IF fired THEN "fired" ELSE "quiet"

\* evaluate_triggers: one row per rule, "unknown" where it could not be evaluated.
Rows(x) ==
  <<Said(x.dte <= ExpiryGuard),
    IF x.rule = NoRule THEN "quiet" ELSE IF ~Verifiable(x) THEN "unknown" ELSE Said(RuleBroken(x)),
    IF Unmeasurable(x) THEN "unknown" ELSE Said(x.value <= StopLevel(x)),
    Said(x.sessions >= SessionStop),
    IF Unmeasurable(x) THEN "unknown" ELSE Said(x.value >= ProfitTarget(x))>>
=============================================================================

---------------------------- MODULE OrderLifecycle ----------------------------
(***************************************************************************)
(* The durable order and position rows of execution/lifecycle.py, and the  *)
(* transition each LifecycleStore method applies to one row.  Every        *)
(* operator is a pure function on a row; TradingAgent.tla decides when a   *)
(* row is written, in which order, and what can happen in between.         *)
(*                                                                         *)
(* Abstracted: prices, timestamps and texts.  The age of submitted_at      *)
(* against the post-submission deadline (90 s or 120 s) and against the    *)
(* order clock's ten-minute window is all that the code reads from it.     *)
(***************************************************************************)
EXTENDS Integers

CONSTANTS
  MaxPositions,   \* bound: how many entries the agent may prepare
  Quantity,       \* strategy quantity of an entry (the selector sets 1)
  CloseTerms,     \* distinct (exit trigger, limit price) pairs of a close
  Symbols,        \* option contract symbols
  Spreads         \* <<long leg, short leg>> pairs the selector may choose

ASSUME LifecycleAssumption ==
  /\ MaxPositions \in Nat \ {0}
  /\ Quantity \in Nat \ {0}
  /\ CloseTerms \subseteq STRING \ {"entry", "none"}
  /\ Spreads \subseteq Symbols \X Symbols
  /\ Spreads # {}
  /\ \A s \in Spreads : s[1] # s[2]

-----------------------------------------------------------------------------
(* Identity.  A client order id is derived from the intent's payload, so   *)
(* an entry is identified by its decision (one position each) and a close  *)
(* by the position, the quantity closed and its terms.                     *)

Positions == 1 .. MaxPositions

Entry(p) == <<p, Quantity, "entry">>

CloseId(p, q, t) == <<p, q, t>>

EntryIds == {Entry(p) : p \in Positions}

\* A close takes the quantity of its row.  The row follows the broker's count of
\* the legs, which rows naming the same contracts share.
MaxClose == MaxPositions * Quantity

CloseIds == Positions \X (1 .. MaxClose) \X CloseTerms

OrderIds == EntryIds \cup CloseIds

NoOrder == <<0, 0, "none">>

Owner(c) == c[1]

OrderQuantity(c) == c[2]

IsEntry(c) == c[3] = "entry"

-----------------------------------------------------------------------------
(* Rows. *)

OrderState == {"PREPARED", "SUBMITTED", "PARTIALLY_FILLED", "FILLED",
               "CANCELED", "REJECTED", "EXPIRED", "AMBIGUOUS"}

TerminalButExpired == {"FILLED", "CANCELED", "REJECTED"}   \* mutant of Terminal

Terminal == {"FILLED", "CANCELED", "REJECTED", "EXPIRED"}

PositionState == {"PENDING", "OPEN", "CLOSING", "CLOSED", "ABANDONED", "INCIDENT"}

\* LIVE_STATES: may still hold, or come to hold, exposure at the broker.
Live == {"PENDING", "OPEN", "CLOSING", "INCIDENT"}

Age == {"unset", "fresh", "due", "old"}

OrderRow == [state  : OrderState \cup {"NONE"},
             filled : Nat,
             sent   : Age,         \* age of submitted_at
             known  : BOOLEAN]     \* broker_order_id is recorded

PositionRow == [state  : PositionState \cup {"NONE"},
                filled : Nat,
                spread : Spreads,
                close  : CloseIds \cup {NoOrder}]

NoOrderRow == [state |-> "NONE", filled |-> 0, sent |-> "unset", known |-> FALSE]

NoPositionRow == [state |-> "NONE", filled |-> 0,
                  spread |-> CHOOSE s \in Spreads : TRUE, close |-> NoOrder]

-----------------------------------------------------------------------------
(* Broker statuses.  An unrecognised one is ambiguous, never assumed. *)

BrokerStatusMap ==
  [accepted         |-> "SUBMITTED",
   pending_cancel   |-> "SUBMITTED",
   partially_filled |-> "PARTIALLY_FILLED",
   filled           |-> "FILLED",
   canceled         |-> "CANCELED",
   rejected         |-> "REJECTED",
   expired          |-> "EXPIRED"]

MapBrokerStatus(raw) ==
  IF raw \in DOMAIN BrokerStatusMap THEN BrokerStatusMap[raw] ELSE "AMBIGUOUS"

-----------------------------------------------------------------------------
(* LifecycleStore, one operator per write. *)

\* prepare_entry: the order row and the PENDING position, before the send.
PreparedOrder == [NoOrderRow EXCEPT !.state = "PREPARED"]

PreparedPosition(s) ==
  [state |-> "PENDING", filled |-> 0, spread |-> s, close |-> NoOrder]

\* prepare_close: the position follows its close order into CLOSING.
ClosingPosition(row, c) == [row EXCEPT !.state = "CLOSING", !.close = c]

\* record_submission: acceptance is SUBMITTED, whatever the response claims.
RecordSubmission(row, status, ambiguous, hasId) ==
  LET mapped == IF ambiguous THEN "AMBIGUOUS" ELSE MapBrokerStatus(status)
  IN [row EXCEPT
       !.state = IF mapped \in {"FILLED", "PARTIALLY_FILLED"} THEN "SUBMITTED" ELSE mapped,
       !.sent  = "fresh",
       !.known = hasId]

\* Mutant of ReconciledState: the broker's word is stored as it is.
ReconciledStateUnmapped(read) == read.status

\* The state an authoritative read establishes.
ReconciledState(read) ==
  LET mapped == MapBrokerStatus(read.status)
  IN IF mapped = "SUBMITTED" /\ read.filled > 0 THEN "PARTIALLY_FILLED" ELSE mapped

\* Mutant of ApplyOrderReconciliation: every read adds what it reports.
ApplyOrderReconciliationTwice(row, read) ==
  [row EXCEPT !.state = ReconciledState(read), !.filled = @ + read.filled]

\* apply_order_reconciliation: the only write that records a fill.
ApplyOrderReconciliation(row, read) ==
  [row EXCEPT !.state = ReconciledState(read), !.filled = read.filled]

\* Mutant of ApplyEntryOutcome: acceptance opens the position.
ApplyEntryOutcomeOnAcceptance(row, state, filled) ==
  IF filled > 0 \/ state = "SUBMITTED" THEN [row EXCEPT !.state = "OPEN", !.filled = 1]
  ELSE IF state \in Terminal THEN [row EXCEPT !.state = "ABANDONED"]
  ELSE [row EXCEPT !.state = "PENDING"]

\* apply_entry_outcome.
ApplyEntryOutcome(row, state, filled) ==
  IF filled > 0 THEN [row EXCEPT !.state = "OPEN", !.filled = filled]
  ELSE IF state \in Terminal THEN [row EXCEPT !.state = "ABANDONED"]
  ELSE [row EXCEPT !.state = "PENDING"]

\* Mutants of ReleaseClose: an ended close counts as done; it is not released.
ReleaseCloseAsClosed(row) == [row EXCEPT !.state = "CLOSED", !.filled = 0]

ReleaseCloseNever(row) == row

\* release_close: a close that ended without flattening returns to OPEN.
ReleaseClose(row) ==
  IF row.state = "CLOSING" THEN [row EXCEPT !.state = "OPEN", !.close = NoOrder] ELSE row

\* Mutant of ApplyCloseOutcome: a close that is still working is forgotten.
ApplyCloseOutcomeReopens(row, flat, remaining) ==
  IF flat /\ remaining = 0
  THEN [row EXCEPT !.state = "CLOSED", !.filled = 0]
  ELSE [row EXCEPT !.state = "OPEN", !.filled = remaining]

\* apply_close_outcome: only a flat broker releases responsibility.
ApplyCloseOutcome(row, flat, remaining) ==
  IF flat /\ remaining = 0
  THEN [row EXCEPT !.state = "CLOSED", !.filled = 0]
  ELSE [row EXCEPT !.state = "CLOSING", !.filled = remaining]

\* open_incident, for a halting incident of a position.
MarkIncident(row) ==
  IF row.state \in {"CLOSED", "ABANDONED", "NONE"} THEN row
  ELSE [row EXCEPT !.state = "INCIDENT"]

\* The order a deadline or the order clock watches for a position.
WatchedOrder(p, row) ==
  IF row.state = "CLOSING" /\ row.close # NoOrder THEN row.close ELSE Entry(p)
===============================================================================

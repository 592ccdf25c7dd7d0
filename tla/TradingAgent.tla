------------------------------ MODULE TradingAgent ------------------------------
(***************************************************************************)
(* One trading process and the broker it reconciles with.  The process of  *)
(* agent.py runs its clocks one after another: the strategy tick, the      *)
(* order clock and the position clock.  Each starts with a reconciliation  *)
(* pass (execution/reconcile.py), may enforce order deadlines              *)
(* (execution/deadline.py), and may submit through the gateway             *)
(* (execution/gateway.py).  The broker is external: between any two of the *)
(* process's broker calls it may accept, fill, cancel or end orders.       *)
(*                                                                         *)
(* A step of the process is what happens between two calls that can be     *)
(* interleaved with the broker or separated by a crash.                    *)
(***************************************************************************)
EXTENDS OrderLifecycle, FiniteSets

CONSTANTS
  Modes,        \* values may_write_orders may take when a process starts
  Approved,     \* an operator approval is supplied, or none is required
  Ends,         \* statuses with which the broker ends an order nobody canceled
  Tracked,      \* incident kinds whose rows are kept, the others leave no row
  MaxFaults,    \* bound: failed calls, and intents that outlive their 90 s
  MaxCrashes,   \* bound: process deaths
  MaxLate,      \* bound: fills the broker reports on an ended entry
  MaxMoves      \* bound: contracts moved by an operator or an assignment

ASSUME AgentAssumption ==
  /\ Modes \subseteq BOOLEAN /\ Modes # {}
  /\ Approved \in BOOLEAN
  /\ Ends \subseteq {"canceled", "rejected", "expired"}
  /\ Tracked \subseteq STRING
  /\ MaxFaults \in Nat /\ MaxCrashes \in Nat /\ MaxLate \in Nat /\ MaxMoves \in Nat

VARIABLES
  order,      \* broker_orders rows
  pos,        \* positions rows
  incidents,  \* open incidents: <<kind, position>>, position 0 for none
  bOrder,     \* the broker's orders
  held,       \* the broker's signed quantity per symbol
  pc,         \* where the process is
  ret,        \* where it goes after a reconciliation pass
  writes,     \* may_write_orders of this process
  exec,       \* execution_state, which agent and gateway set together
  view,       \* reconcile: exposure not yet claimed by a position
  listed,     \* reconcile: the open orders, as read at the start of the pass
  report,     \* reconcile: kinds of mismatch found so far
  todo,       \* positions the running pass has still to visit
  batch,      \* positions the management cycle has still to visit
  cur,        \* the order being submitted
  reply,      \* what the gateway answered
  acted,      \* the deadline pass acted
  budget      \* what is left of each bound

store  == <<order, pos, incidents>>
broker == <<bOrder, held>>
pass   == <<view, listed, report, todo>>
mind   == <<ret, exec, batch, cur, reply, acted>>
vars   == <<order, pos, incidents, bOrder, held, pc, ret, writes, exec, view,
            listed, report, todo, batch, cur, reply, acted, budget>>

-----------------------------------------------------------------------------
(* Types. *)

BrokerStatus == {"absent", "transit", "accepted", "partially_filled", "pending_cancel",
                 "filled", "canceled", "rejected", "expired"}

Working == {"accepted", "partially_filled", "pending_cancel"}

\* No read returns an order the broker has not registered.
Invisible == {"absent", "transit"}

BrokerRead == [status : BrokerStatus, filled : 0 .. MaxClose]

NoRead == [status |-> "absent", filled |-> 0]

Labels == {"down", "idle", "rec_positions", "rec_orders", "rec_one",
           "tick_deadlines", "order_deadlines", "observe", "valuation", "manage",
           "preflight", "send", "lookup", "record", "refused"}

ReturnLabels == {"idle", "tick_deadlines", "order_deadlines", "valuation", "manage"}

TypeOK ==
  /\ order \in [OrderIds -> OrderRow]
  /\ pos \in [Positions -> PositionRow]
  /\ incidents \subseteq STRING \X (0 .. MaxPositions)
  /\ bOrder \in [OrderIds -> BrokerRead]
  /\ held \in [Symbols -> Int]
  /\ pc \in Labels
  /\ ret \in ReturnLabels
  /\ writes \in BOOLEAN
  /\ exec \in {"NORMAL", "NO_NEW_RISK"}
  /\ view \in [Symbols -> Int]
  /\ listed \in [OrderIds -> BrokerRead]
  /\ report \subseteq {"contested_exposure", "unexpected_exposure", "position"}
  /\ todo \subseteq Positions
  /\ batch \subseteq Positions
  /\ cur \in OrderIds \cup {NoOrder}
  /\ reply \in {"none", "accepted", "located", "ambiguous", "refused"}
  /\ acted \in BOOLEAN
  /\ budget \in [{"fault", "crash", "late", "move"} -> Nat]

-----------------------------------------------------------------------------
(* Helpers. *)

Spend(what) ==
  /\ budget[what] > 0
  /\ budget' = [budget EXCEPT ![what] = @ - 1]

Note(kinds, p) == (kinds \cap Tracked) \X {p}

Legs(p) == {pos[p].spread[1], pos[p].spread[2]}

\* active_positions, with and without include_abandoned.
Active == {p \in Positions : pos[p].state \in Live}

ManagedLive == Active   \* mutant of Managed

Managed == {p \in Positions : pos[p].state \in Live \cup {"ABANDONED"}}

\* active_position: what the exit policy manages.
Valuable == {p \in Positions : pos[p].state \in {"OPEN", "CLOSING"}}

Nothing == [s \in Symbols |-> 0]

NothingListed == [c \in OrderIds |-> NoRead]

Init ==
  /\ order = [c \in OrderIds |-> NoOrderRow]
  /\ pos = [p \in Positions |-> NoPositionRow]
  /\ incidents = {}
  /\ bOrder = [c \in OrderIds |-> NoRead]
  /\ held = Nothing
  /\ pc = "down" /\ ret = "idle" /\ writes = FALSE /\ exec = "NORMAL"
  /\ view = Nothing /\ listed = NothingListed /\ report = {} /\ todo = {}
  /\ batch = {} /\ cur = NoOrder /\ reply = "none" /\ acted = FALSE
  /\ budget = [fault |-> MaxFaults, crash |-> MaxCrashes,
               late |-> MaxLate, move |-> MaxMoves]

-----------------------------------------------------------------------------
(* The broker (external). *)

\* One strategy more of the legs the order trades: an entry opens the spread, a
\* close sells it back.
Traded(c) ==
  LET spread == pos[Owner(c)].spread
      sign   == IF IsEntry(c) THEN 1 ELSE -1
  IN [s \in Symbols |-> IF s = spread[1] THEN held[s] + sign
                        ELSE IF s = spread[2] THEN held[s] - sign
                        ELSE held[s]]

\* A close never opens: it needs both legs.
Tradable(c) ==
  \/ IsEntry(c)
  \/ held[pos[Owner(c)].spread[1]] > 0 /\ held[pos[Owner(c)].spread[2]] < 0

BrokerRegisters(c) ==
  /\ bOrder[c].status = "transit"
  /\ bOrder' = [bOrder EXCEPT ![c].status = "accepted"]
  /\ UNCHANGED <<store, held, pc, writes, mind, pass, budget>>

BrokerLoses(c) ==
  /\ bOrder[c].status = "transit"
  /\ bOrder' = [bOrder EXCEPT ![c].status = "absent"]
  /\ UNCHANGED <<store, held, pc, writes, mind, pass, budget>>

BrokerFills(c) ==
  /\ bOrder[c].status \in Working
  /\ bOrder[c].filled < OrderQuantity(c)
  /\ Tradable(c)
  /\ bOrder' = [bOrder EXCEPT
       ![c] = [status |-> IF @.filled + 1 = OrderQuantity(c) THEN "filled"
                          ELSE IF @.status = "pending_cancel" THEN "pending_cancel"
                          ELSE "partially_filled",
               filled |-> @.filled + 1]]
  /\ held' = Traded(c)
  /\ UNCHANGED <<store, pc, writes, mind, pass, budget>>

\* Day orders: an order that does not fill is ended by the broker.
BrokerEnds(c) ==
  /\ bOrder[c].status \in Working
  /\ \E end \in Ends :
       bOrder' = [bOrder EXCEPT
         ![c].status = IF @ = "pending_cancel" THEN "canceled" ELSE end]
  /\ UNCHANGED <<store, held, pc, writes, mind, pass, budget>>

\* The late fill deadline.py is written for.
BrokerFillsLate(c) ==
  /\ IsEntry(c)
  /\ bOrder[c].status \in {"canceled", "expired"}
  /\ bOrder[c].filled < OrderQuantity(c)
  /\ Spend("late")
  /\ bOrder' = [bOrder EXCEPT ![c].filled = @ + 1]
  /\ held' = Traded(c)
  /\ UNCHANGED <<store, pc, writes, mind, pass>>

\* An operator closes, or an assignment removes, one contract of one leg.
ContractLeaves(s) ==
  /\ held[s] # 0
  /\ Spend("move")
  /\ held' = [held EXCEPT ![s] = IF @ > 0 THEN @ - 1 ELSE @ + 1]
  /\ UNCHANGED <<store, bOrder, pc, writes, mind, pass>>

Broker ==
  \/ \E c \in OrderIds :
       \/ BrokerRegisters(c)
       \/ BrokerLoses(c)
       \/ BrokerFills(c)
       \/ BrokerEnds(c)
       \/ BrokerFillsLate(c)
  \/ \E s \in Symbols : ContractLeaves(s)

\* An order passes its deadline (due), then the order clock's window (old).  Each
\* pass reads the clock once, so time moves between passes.
TimePasses(c) ==
  /\ pc = "idle"
  /\ order[c].sent \in {"fresh", "due"}
  /\ order' = [order EXCEPT ![c].sent = IF @ = "fresh" THEN "due" ELSE "old"]
  /\ UNCHANGED <<pos, incidents, broker, pc, writes, mind, pass, budget>>

-----------------------------------------------------------------------------
(* Reconciliation (execution/reconcile.py). *)

\* What a caller finds when the pass is over.  A process without write authority
\* has no deadline enforcer.
EndPass ==
  /\ pc' = ret
  /\ ret' = "idle"
  /\ todo' = IF writes /\ ret \in {"tick_deadlines", "order_deadlines"}
             THEN Managed ELSE {}
  /\ view' = Nothing
  /\ listed' = NothingListed
  /\ report' = {}

\* A failed read halts new risk: not knowing what we hold is not holding nothing.
Unreachable ==
  /\ Spend("fault")
  /\ incidents' = incidents \cup Note({"broker_unreachable"}, 0)
  /\ exec' = "NO_NEW_RISK"
  /\ EndPass
  /\ UNCHANGED <<order, pos>>

ReadPositions ==
  /\ pc = "rec_positions"
  /\ \/ /\ view' = held
        /\ pc' = "rec_orders"
        /\ UNCHANGED <<store, ret, exec, listed, report, todo, budget>>
     \/ Unreachable
  /\ UNCHANGED <<broker, writes, batch, cur, reply, acted>>

\* Symbols named by more than one row that may hold exposure.
Contested ==
  {s \in Symbols : \E p, q \in Active : p # q /\ s \in Legs(p) \cap Legs(q)}

Unclaimed == {s \in Symbols : view[s] # 0 /\ \A p \in Managed : s \notin Legs(p)}

HeldOutNone == {}   \* mutant of HeldOut

HeldOut == {p \in Positions : Legs(p) \cap Contested # {}}

WithoutHealing(open) == open   \* mutant of WithoutOutage

\* resolve_open: both reads succeeded, so the broker is reachable.
WithoutOutage(open) == open \ {<<"broker_unreachable", 0>>}

\* The second read, and what is settled before any position is judged: rows that
\* contest a symbol are held out of the per-position path.
ReadOrders ==
  /\ pc = "rec_orders"
  /\ \/ /\ listed' = [c \in OrderIds |->
                       IF bOrder[c].status \in Working THEN bOrder[c] ELSE NoRead]
        /\ todo' = Managed \ HeldOut
        /\ report' = {k \in {"contested_exposure", "unexpected_exposure"} :
                       \/ k = "contested_exposure" /\ Contested # {}
                       \/ k = "unexpected_exposure" /\ Unclaimed # {}}
        /\ incidents' = WithoutOutage(incidents)
        /\ pc' = "rec_one"
        /\ UNCHANGED <<order, pos, ret, exec, view, budget>>
     \/ Unreachable
  /\ UNCHANGED <<broker, writes, batch, cur, reply, acted>>

\* _fetch_order: the open orders first, then a live lookup that does not tell a
\* missing order from a failed call.
Lookup(c, blind) ==
  IF c = NoOrder THEN NoRead
  ELSE IF listed[c] # NoRead THEN listed[c]
  ELSE IF c \in blind \/ bOrder[c].status \in Invisible THEN NoRead
  ELSE bOrder[c]

Lookable(p) ==
  {c \in {Entry(p), pos[p].close} \ {NoOrder} :
     listed[c] = NoRead /\ bOrder[c].status \notin Invisible}

\* An order row after the read of its order.
Applied(orders, c, read) ==
  IF read = NoRead THEN orders
  ELSE [orders EXCEPT ![c] = ApplyOrderReconciliation(@, read)]

Holds(p) == \E s \in Legs(p) : view[s] # 0

Matches(p) ==
  /\ view[pos[p].spread[1]] = pos[p].filled
  /\ view[pos[p].spread[2]] = -pos[p].filled

Abs(n) == IF n < 0 THEN -n ELSE n

Observed(p) ==
  LET long == Abs(view[pos[p].spread[1]])
      short == Abs(view[pos[p].spread[2]])
  IN IF long > short THEN long ELSE short

\* _consume: same-signed exposure, never past zero.  The row's quantity is the one
\* read before this pass reconciled it.
Consumed(p) ==
  LET q == pos[p].filled
  IN [s \in Symbols |->
       IF s = pos[p].spread[1] /\ view[s] > 0 /\ q > 0
       THEN IF q < view[s] THEN view[s] - q ELSE 0
       ELSE IF s = pos[p].spread[2] /\ view[s] < 0 /\ q > 0
       THEN IF q < -view[s] THEN view[s] + q ELSE 0
       ELSE view[s]]

Mismatch(p, kind) ==
  /\ report' = report \cup {"position"}
  /\ incidents' = incidents \cup Note({kind}, p)
  /\ pos' = [pos EXCEPT ![p] = MarkIncident(@)]

NoMismatch == UNCHANGED <<report, incidents>>

\* Exposure left over for an abandoned position is a late fill; the order itself
\* is then not read again.
ReconcileAbandoned(p, entry) ==
  /\ pos[p].state = "ABANDONED"
  /\ IF Holds(p)
     THEN Mismatch(p, "late_fill_after_terminal") /\ UNCHANGED order
     ELSE order' = Applied(order, Entry(p), entry) /\ UNCHANGED pos /\ NoMismatch

\* An unresolved entry, and an incident, are settled from the entry order.
ReconcileEntry(p, entry) ==
  /\ pos[p].state \in {"PENDING", "INCIDENT"}
  /\ order' = Applied(order, Entry(p), entry)
  /\ IF entry # NoRead
     THEN /\ pos' = [pos EXCEPT ![p] =
                      ApplyEntryOutcome(@, ReconciledState(entry), entry.filled)]
          /\ NoMismatch
     ELSE IF order[Entry(p)].state = "AMBIGUOUS"
     THEN Mismatch(p, "ambiguous_entry")
     ELSE /\ report' = IF pos[p].state = "INCIDENT" THEN report \cup {"position"} ELSE report
          /\ UNCHANGED <<pos, incidents>>

ReconcileOpen(p, entry) ==
  /\ pos[p].state = "OPEN"
  /\ order' = Applied(order, Entry(p), entry)
  /\ IF ~Holds(p) THEN Mismatch(p, "position_vanished")
     ELSE IF ~Matches(p) THEN Mismatch(p, "leg_imbalance")
     ELSE UNCHANGED pos /\ NoMismatch

\* A close is complete only when the broker is flat; one that ended without
\* flattening is released for another attempt.
ReconcileClosing(p, entry, close) ==
  /\ pos[p].state = "CLOSING"
  /\ order' = Applied(Applied(order, Entry(p), entry), pos[p].close, close)
  /\ LET ended == close # NoRead /\ ReconciledState(close) \in Terminal
     IN /\ pos' = [pos EXCEPT ![p] =
                    IF ~Holds(p) THEN ApplyCloseOutcome(@, TRUE, 0)
                    ELSE IF ended THEN ReleaseClose(@)
                    ELSE ApplyCloseOutcome(@, FALSE, Observed(p))]
        /\ incidents' = IF Holds(p) /\ ended
                        THEN incidents \cup Note({"close_did_not_flatten"}, p)
                        ELSE incidents
        /\ UNCHANGED report

\* Live rows are settled before abandoned ones, in the order of the query.
NextToVisit(p) ==
  /\ p \in todo
  /\ \A q \in todo \ {p} :
       IF pos[q].state = "ABANDONED" THEN pos[p].state # "ABANDONED" \/ p < q
       ELSE pos[p].state # "ABANDONED" /\ p < q

ReconcileOne(p) ==
  /\ pc = "rec_one"
  /\ NextToVisit(p)
  /\ \E blind \in SUBSET Lookable(p) :
       /\ IF blind = {} THEN UNCHANGED budget ELSE Spend("fault")
       /\ LET entry == Lookup(Entry(p), blind)
              close == Lookup(pos[p].close, blind)
          IN \/ ReconcileAbandoned(p, entry)
             \/ ReconcileEntry(p, entry)
             \/ ReconcileOpen(p, entry)
             \/ ReconcileClosing(p, entry, close)
  /\ view' = IF pos[p].state = "ABANDONED" THEN view ELSE Consumed(p)
  /\ todo' = todo \ {p}
  /\ UNCHANGED <<broker, pc, writes, mind, listed>>

\* The report is complete: it decides the execution state of agent and gateway.
ReconcileEnds ==
  /\ pc = "rec_one"
  /\ todo = {}
  /\ incidents' = incidents \cup Note(report \ {"position"}, 0)
  /\ exec' = IF report = {} THEN "NORMAL" ELSE "NO_NEW_RISK"
  /\ EndPass
  /\ UNCHANGED <<order, pos, broker, writes, batch, cur, reply, acted, budget>>

Reconcile(to) == pc' = "rec_positions" /\ ret' = to

-----------------------------------------------------------------------------
(* Deadlines (execution/deadline.py). *)

Enforcing == pc \in {"tick_deadlines", "order_deadlines"}

PastDeadline(c) ==
  /\ order[c].state \notin Terminal \cup {"PREPARED"}
  /\ order[c].sent \in {"due", "old"}

\* A fill on an abandoned entry is exposure we own, reinstated under an incident.
EnforceLateFill(p) ==
  /\ pos[p].state = "ABANDONED"
  /\ order[Entry(p)].filled > 0
  /\ incidents' = incidents \cup Note({"late_fill_after_terminal"}, p)
  /\ pos' = [pos EXCEPT ![p] = ApplyEntryOutcome(@, "FILLED", order[Entry(p)].filled)]
  /\ acted' = TRUE
  /\ exec' = "NO_NEW_RISK"
  /\ UNCHANGED <<order, bOrder, budget>>

LateFill(p) == pos[p].state = "ABANDONED" /\ order[Entry(p)].filled > 0

EnforceNothing(p) ==
  /\ ~LateFill(p)
  /\ ~PastDeadline(WatchedOrder(p, pos[p]))
  /\ UNCHANGED <<order, pos, incidents, bOrder, acted, exec, budget>>

PartialNote(p, c) ==
  IF order[c].filled > 0 THEN Note({"partial_fill_at_deadline"}, p) ELSE {}

\* The cancel did not go through, or nobody knows: the position becomes an
\* incident and new risk halts.
CancelFailed(p, c, kind) ==
  /\ incidents' = incidents \cup PartialNote(p, c) \cup Note({kind}, p)
  /\ pos' = [pos EXCEPT ![p] = MarkIncident(@)]
  /\ exec' = "NO_NEW_RISK"

EnforceUncancellable(p) ==
  LET c == WatchedOrder(p, pos[p])
  IN /\ ~LateFill(p)
     /\ PastDeadline(c)
     /\ ~order[c].known
     /\ CancelFailed(p, c, "uncancellable_order")
     /\ acted' = TRUE
     /\ UNCHANGED <<order, bOrder, budget>>

\* A requested cancel is not a confirmed one: the order row keeps its state.  The
\* broker refuses to cancel an order that has ended.
EnforceCancel(p) ==
  LET c == WatchedOrder(p, pos[p])
      requested == [bOrder EXCEPT ![c].status = "pending_cancel"]
  IN /\ ~LateFill(p)
     /\ PastDeadline(c)
     /\ order[c].known
     /\ \/ /\ bOrder[c].status \in Working
           /\ bOrder' = requested
           /\ incidents' = incidents \cup PartialNote(p, c)
           /\ UNCHANGED <<pos, exec, budget>>
        \/ /\ bOrder[c].status \in Working
           /\ Spend("fault")
           /\ bOrder' \in {bOrder, requested}
           /\ CancelFailed(p, c, "cancel_ambiguous")
        \/ /\ bOrder[c].status \notin Working
           /\ CancelFailed(p, c, "cancel_ambiguous")
           /\ UNCHANGED <<bOrder, budget>>
     /\ acted' = TRUE
     /\ UNCHANGED order

EnforceOne(p) ==
  /\ Enforcing
  /\ p \in todo
  /\ \A q \in todo : p <= q
  /\ \/ EnforceLateFill(p)
     \/ EnforceNothing(p)
     \/ EnforceUncancellable(p)
     \/ EnforceCancel(p)
  /\ todo' = todo \ {p}
  /\ UNCHANGED <<held, pc, ret, writes, batch, cur, reply, view, listed, report>>

\* An enforcement that acted reconciles, and the clock's turn ends there.
EnforceEnds ==
  /\ Enforcing
  /\ todo = {}
  /\ IF acted THEN Reconcile("idle")
     ELSE /\ pc' = IF pc = "tick_deadlines" THEN "observe" ELSE "idle"
          /\ UNCHANGED ret
  /\ acted' = FALSE
  /\ UNCHANGED <<store, broker, writes, exec, batch, cur, reply, pass, budget>>

-----------------------------------------------------------------------------
(* The gateway (execution/gateway.py). *)

\* open_strategy_count: open orders plus positions.
StrategyCountIsZero ==
  /\ \A c \in OrderIds : bOrder[c].status \notin Working
  /\ \A s \in Symbols : held[s] = 0

RefusesNewRisk == exec # "NORMAL" \/ ~Approved \/ ~StrategyCountIsZero

\* Every guard passes.  A close is exempt from the halt, approval and
\* one-strategy guards.
PreflightPasses ==
  /\ pc = "preflight"
  /\ writes
  /\ IsEntry(cur) => ~RefusesNewRisk
  /\ pc' = "send"
  /\ UNCHANGED <<store, broker, writes, mind, pass, budget>>

\* A guard refuses, or the intent has outlived its 90 seconds.
PreflightRefuses ==
  /\ pc = "preflight"
  /\ IF ~writes \/ (IsEntry(cur) /\ RefusesNewRisk)
     THEN UNCHANGED budget ELSE Spend("fault")
  /\ reply' = "refused"
  /\ pc' = "record"
  /\ UNCHANGED <<store, broker, writes, ret, exec, batch, cur, acted, pass>>

\* The reads behind open_strategy_count raise.  Nothing catches that before the
\* worker's loop, which goes on with the next clock.
PreflightRaises ==
  /\ pc = "preflight"
  /\ IsEntry(cur) /\ writes /\ exec = "NORMAL" /\ Approved
  /\ Spend("fault")
  /\ pc' = "idle"
  /\ cur' = NoOrder
  /\ UNCHANGED <<store, broker, writes, ret, exec, batch, reply, acted, pass>>

SendAccepted ==
  /\ pc = "send"
  /\ Tradable(cur)
  /\ bOrder' = [bOrder EXCEPT ![cur] = [status |-> "accepted", filled |-> 0]]
  /\ reply' = "accepted"
  /\ pc' = "record"
  /\ UNCHANGED <<store, held, writes, ret, exec, batch, cur, acted, pass, budget>>

\* The response is lost, before or after the broker registered the order, or the
\* broker rejects the request.
SendRaises ==
  /\ pc = "send"
  /\ \/ Spend("fault") /\ bOrder' \in
          {[bOrder EXCEPT ![cur] = [status |-> s, filled |-> 0]] :
             s \in {"absent"} \cup (IF Tradable(cur) THEN {"accepted", "transit"} ELSE {})}
     \/ ~Tradable(cur) /\ UNCHANGED <<bOrder, budget>>
  /\ pc' = "lookup"
  /\ UNCHANGED <<store, held, writes, mind, pass>>

\* An ambiguous response is resolved by lookup, never by retry.
LookUp ==
  /\ pc = "lookup"
  /\ \/ /\ reply' = IF bOrder[cur].status \in Invisible THEN "ambiguous" ELSE "located"
        /\ UNCHANGED budget
     \/ /\ bOrder[cur].status \notin Invisible
        /\ Spend("fault")
        /\ reply' = "ambiguous"
  /\ pc' = "record"
  /\ UNCHANGED <<store, broker, writes, ret, exec, batch, cur, acted, pass>>

-----------------------------------------------------------------------------
(* After the submission (agent.py).  The row is written in one commit, what    *)
(* follows for the position in another.                                        *)

Submitted ==
  CASE reply = "accepted" -> RecordSubmission(order[cur], "accepted", FALSE, TRUE)
    [] reply = "located"  -> RecordSubmission(order[cur], "accepted", TRUE, TRUE)
    [] reply = "ambiguous" /\ IsEntry(cur)
                          -> RecordSubmission(order[cur], "none", TRUE, FALSE)
    [] OTHER              -> RecordSubmission(order[cur], "refused", FALSE, FALSE)

AfterSubmission == IF IsEntry(cur) THEN "idle" ELSE "manage"

RecordSent ==
  /\ pc = "record"
  /\ reply \in {"accepted", "located"}
  /\ order' = [order EXCEPT ![cur] = Submitted]
  /\ Reconcile(AfterSubmission)
  /\ cur' = NoOrder
  /\ reply' = "none"
  /\ UNCHANGED <<pos, incidents, broker, writes, exec, batch, acted, pass, budget>>

RecordUnsent ==
  /\ pc = "record"
  /\ reply \in {"ambiguous", "refused"}
  /\ order' = [order EXCEPT ![cur] = Submitted]
  /\ pc' = "refused"
  /\ UNCHANGED <<pos, incidents, broker, writes, mind, pass, budget>>

\* Mutant of EntryRefused: the broader of the two exceptions is caught first.
EntryRefusedOrAmbiguous ==
  /\ pc = "refused"
  /\ IsEntry(cur)
  /\ pos' = [pos EXCEPT ![Owner(cur)] = ApplyEntryOutcome(@, "REJECTED", 0)]
  /\ pc' = "idle"
  /\ cur' = NoOrder
  /\ reply' = "none"
  /\ UNCHANGED <<order, incidents, broker, writes, ret, exec, batch, acted, pass, budget>>

\* Refused before anything was sent: the entry is abandoned and the tick is over.
EntryRefused ==
  /\ pc = "refused"
  /\ IsEntry(cur) /\ reply = "refused"
  /\ pos' = [pos EXCEPT ![Owner(cur)] = ApplyEntryOutcome(@, "REJECTED", 0)]
  /\ pc' = "idle"
  /\ cur' = NoOrder
  /\ reply' = "none"
  /\ UNCHANGED <<order, incidents, broker, writes, ret, exec, batch, acted, pass, budget>>

EntryAmbiguous ==
  /\ pc = "refused"
  /\ IsEntry(cur) /\ reply = "ambiguous"
  /\ pos' = [pos EXCEPT ![Owner(cur)] = MarkIncident(@)]
  /\ incidents' = incidents \cup Note({"ambiguous_entry_submission"}, Owner(cur))
  /\ exec' = "NO_NEW_RISK"
  /\ Reconcile("idle")
  /\ cur' = NoOrder
  /\ reply' = "none"
  /\ UNCHANGED <<order, broker, writes, batch, acted, pass, budget>>

\* A refused and an ambiguous close are one case: an incident, and the cycle goes
\* on with the next position.
CloseRefused ==
  /\ pc = "refused"
  /\ ~IsEntry(cur)
  /\ pos' = [pos EXCEPT ![Owner(cur)] = MarkIncident(@)]
  /\ incidents' = incidents \cup Note({"close_submission_failed"}, Owner(cur))
  /\ exec' = "NO_NEW_RISK"
  /\ pc' = "manage"
  /\ cur' = NoOrder
  /\ reply' = "none"
  /\ UNCHANGED <<order, broker, writes, ret, batch, acted, pass, budget>>

-----------------------------------------------------------------------------
(* The clocks (agent.py). *)

\* A new process knows nothing but the database, and reconciles first.
Start ==
  /\ pc = "down"
  /\ writes' \in Modes
  /\ Reconcile("idle")
  /\ UNCHANGED <<store, broker, exec, batch, cur, reply, acted, pass, budget>>

Crash ==
  /\ pc # "down"
  /\ Spend("crash")
  /\ pc' = "down" /\ ret' = "idle" /\ writes' = FALSE /\ exec' = "NORMAL"
  /\ view' = Nothing /\ listed' = NothingListed /\ report' = {} /\ todo' = {}
  /\ batch' = {} /\ cur' = NoOrder /\ reply' = "none" /\ acted' = FALSE
  /\ UNCHANGED <<store, broker>>

Tick ==
  /\ pc = "idle"
  /\ Reconcile("tick_deadlines")
  /\ UNCHANGED <<store, broker, writes, exec, batch, cur, reply, acted, pass, budget>>

\* working_order_deadline: a submitted order that is not terminal, for ten minutes.
OrderIsWorking ==
  \E p \in Active :
    LET row == order[WatchedOrder(p, pos[p])]
    IN row.state \notin Terminal \cup {"PREPARED"} /\ row.sent \in {"fresh", "due"}

OrderClock ==
  /\ pc = "idle"
  /\ OrderIsWorking
  /\ Reconcile("order_deadlines")
  /\ UNCHANGED <<store, broker, writes, exec, batch, cur, reply, acted, pass, budget>>

PositionClock ==
  /\ pc = "idle"
  /\ Valuable # {}
  /\ Reconcile("valuation")
  /\ UNCHANGED <<store, broker, writes, exec, batch, cur, reply, acted, pass, budget>>

\* Market data, and exits before entries.
BeginCycle ==
  /\ pc \in {"observe", "valuation"}
  /\ Valuable # {}
  /\ batch' = Valuable
  /\ pc' = "manage"
  /\ UNCHANGED <<store, broker, writes, ret, exec, cur, reply, acted, pass, budget>>

\* The turn ends here: the observation failed, the market is closed, nothing is
\* owned, an entry is in flight, new risk is halted, or there is no trade.
TurnEnds ==
  /\ pc \in {"observe", "valuation"}
  /\ pc' = "idle"
  /\ UNCHANGED <<store, broker, writes, mind, pass, budget>>

\* What blocks a new entry: any unresolved position, a pending one included.
SlotTakenByExposure == Valuable # {}   \* mutant of SlotTaken

SlotTaken == Active # {}

\* Unusable market data halts new risk until the next pass.
DataHalts ==
  /\ pc = "observe"
  /\ ~SlotTaken
  /\ exec = "NORMAL"
  /\ exec' = "NO_NEW_RISK"
  /\ pc' = "idle"
  /\ UNCHANGED <<store, broker, writes, ret, batch, cur, reply, acted, pass, budget>>

\* A qualified decision is persisted before it is sent.  A clean report left the
\* execution state NORMAL.
PrepareEntry(p) ==
  /\ pc = "observe"
  /\ writes
  /\ ~SlotTaken
  /\ exec = "NORMAL"
  /\ pos[p].state = "NONE"
  /\ \A q \in Positions : q < p => pos[q].state # "NONE"
  /\ \E s \in Spreads : pos' = [pos EXCEPT ![p] = PreparedPosition(s)]
  /\ order' = [order EXCEPT ![Entry(p)] = PreparedOrder]
  /\ cur' = Entry(p)
  /\ pc' = "preflight"
  /\ UNCHANGED <<incidents, broker, writes, ret, exec, batch, reply, acted, pass, budget>>

Managing(p) ==
  /\ pc = "manage"
  /\ p \in batch
  /\ batch' = batch \ {p}

Keep ==
  UNCHANGED <<broker, writes, ret, reply, acted, pass, budget>>

\* The position is held, its close is already working, an earlier close resolved
\* it, or the process may not write.
ManageHolds(p) ==
  /\ Managing(p)
  /\ UNCHANGED <<store, pc, exec, cur>> /\ Keep

\* An exit that cannot be judged, or that fires and cannot be priced: an incident
\* and a halt.
Troubles == {"invalidation_direction_conflict", "unmeasurable_position_value",
             "unverifiable_invalidation_source", "close_submission_failed"}

ManageFails(p, kind) ==
  /\ Managing(p)
  /\ pos[p].state = "OPEN"
  /\ kind = "close_submission_failed" => writes
  /\ pos' = [pos EXCEPT ![p] = MarkIncident(@)]
  /\ incidents' = incidents \cup Note({kind}, p)
  /\ exec' = "NO_NEW_RISK"
  /\ UNCHANGED <<order, pc, cur>> /\ Keep

\* The client order id of a close is unique.  Preparing one that exists raises,
\* which the cycle contains.
ManageCollides(p, t) ==
  LET c == CloseId(p, pos[p].filled, t)
  IN /\ writes
     /\ c \in CloseIds /\ order[c].state # "NONE"
     /\ ManageFails(p, "position_management_failed")

\* The exit policy fires: the close is persisted, then submitted.  A rule that
\* could not be judged (warned) is an incident that does not stop the others.
ManageCloses(p, t, warned) ==
  LET c == CloseId(p, pos[p].filled, t)
  IN /\ Managing(p)
     /\ writes
     /\ pos[p].state = "OPEN"
     /\ c \in CloseIds /\ order[c].state = "NONE"
     /\ order' = [order EXCEPT ![c] = PreparedOrder]
     /\ pos' = [pos EXCEPT ![p] = ClosingPosition(@, c)]
     /\ incidents' = incidents \cup
          (IF warned THEN Note({"unverifiable_invalidation_source"}, p) ELSE {})
     /\ exec' = IF warned THEN "NO_NEW_RISK" ELSE exec
     /\ cur' = c
     /\ pc' = "preflight"
     /\ Keep

Manage(p) ==
  \/ ManageHolds(p)
  \/ \E kind \in Troubles : ManageFails(p, kind)
  \/ \E t \in CloseTerms : \/ ManageCollides(p, t)
                           \/ \E warned \in BOOLEAN : ManageCloses(p, t, warned)

CycleEnds ==
  /\ pc = "manage"
  /\ batch = {}
  /\ pc' = "idle"
  /\ UNCHANGED <<store, broker, writes, mind, pass, budget>>

-----------------------------------------------------------------------------
Pass ==
  \/ ReadPositions
  \/ ReadOrders
  \/ \E p \in Positions : ReconcileOne(p)
  \/ ReconcileEnds
  \/ \E p \in Positions : EnforceOne(p)
  \/ EnforceEnds

Gateway ==
  \/ PreflightPasses
  \/ PreflightRefuses
  \/ PreflightRaises
  \/ SendAccepted
  \/ SendRaises
  \/ LookUp
  \/ RecordSent
  \/ RecordUnsent
  \/ EntryRefused
  \/ EntryAmbiguous
  \/ CloseRefused

Turn ==
  \/ BeginCycle
  \/ TurnEnds
  \/ DataHalts
  \/ \E p \in Positions : PrepareEntry(p) \/ Manage(p)
  \/ CycleEnds

Clocks == Tick \/ OrderClock \/ PositionClock

Next ==
  \/ Broker
  \/ \E c \in OrderIds : TimePasses(c)
  \/ Start
  \/ Crash
  \/ Clocks
  \/ Pass
  \/ Gateway
  \/ Turn

Spec == Init /\ [][Next]_vars

\* The worker's loop calls the tick again and again, whatever its other clocks
\* do, and every turn runs on.  A day order does not work for ever.
Fairness ==
  /\ WF_vars(Start)
  /\ SF_vars(Tick)
  /\ WF_vars(Pass \/ Gateway \/ Turn)
  /\ \A c \in OrderIds : /\ WF_vars(BrokerRegisters(c) \/ BrokerLoses(c))
                         /\ WF_vars(BrokerFills(c) \/ BrokerEnds(c))

FairSpec == Spec /\ Fairness

-----------------------------------------------------------------------------
(* Properties. *)

\* Acceptance is SUBMITTED, never FILLED: a position is managed as exposure only
\* when its entry order really filled at the broker, whatever a submission
\* response claimed and whichever pass, late fill or healed incident opened it.
NoPhantomExposure ==
  \A p \in Positions :
    pos[p].state \in {"OPEN", "CLOSING"} => bOrder[Entry(p)].filled > 0

\* What the database says of an order is never ahead of the broker: neither the
\* recorded fill nor, within a pass, the listing read at its start.
NeverAheadOfBroker ==
  \A c \in OrderIds : /\ order[c].filled <= bOrder[c].filled
                      /\ listed[c].filled <= bOrder[c].filled

Dead(c) ==
  /\ bOrder[c].status \in {"absent", "canceled", "rejected", "expired"}
  /\ bOrder[c].filled = 0

\* An entry is abandoned only when it can no longer create exposure: refused
\* before it was sent, or ended by the broker without a fill.  An ambiguous
\* submission is not a refusal.
AbandonedMeansDead ==
  \A p \in Positions : pos[p].state = "ABANDONED" => Dead(Entry(p))

\* Responsibility is never dropped while the broker holds a leg: some row that is
\* still managed names the symbol.
ExposureOwned ==
  \A s \in Symbols : held[s] # 0 => \E p \in Active : s \in Legs(p)

\* H0 permits one open or pending strategy at a time.
OneStrategy ==
  /\ Cardinality(Active) <= 1
  /\ \A p, q \in Positions :
       p # q => ~(bOrder[Entry(p)].status \in Working \cup {"transit"}
                  /\ bOrder[Entry(q)].status \in Working \cup {"transit"})

\* A fill once recorded is never taken back by a later, staler read.
FillsNeverRegress ==
  [][\A c \in OrderIds : order'[c].filled >= order[c].filled]_vars

WorkingCloses(p) ==
  {c \in CloseIds : Owner(c) = p /\ bOrder[c].status \in Working \cup {"transit"}}

\* One exposure, one close: a second close is not sent while one is working.
OneCloseWorking ==
  \A p \in Positions : Cardinality(WorkingCloses(p)) <= 1

\* An entry whose submission was recorded is settled: opened, abandoned or raised
\* as an incident.  Only contested contracts keep it waiting, for an operator.
EntrySettles ==
  \A p \in Positions :
    pos[p].state = "PENDING" /\ order[Entry(p)].state # "PREPARED"
      ~> pos[p].state # "PENDING" \/ <<"contested_exposure", 0>> \in incidents

CloseState(p) == IF pos[p].close = NoOrder THEN "NONE" ELSE order[pos[p].close].state

\* A close whose submission was recorded does not trap the position in CLOSING.
CloseSettles ==
  \A p \in Positions :
    pos[p].state = "CLOSING" /\ CloseState(p) # "PREPARED"
      ~> pos[p].state # "CLOSING"

\* A late fill on an abandoned entry is never ignored: an incident names it, its
\* symbols are contested, or the position is reinstated or flat again.
LateFillNoticed ==
  \A p \in Positions :
    pos[p].state = "ABANDONED" /\ bOrder[Entry(p)].filled > 0
      ~> \/ <<"late_fill_after_terminal", p>> \in incidents
         \/ <<"contested_exposure", 0>> \in incidents
         \/ pos[p].state # "ABANDONED"
         \/ \A s \in Legs(p) : held[s] = 0

\* Two live rows that name one contract cannot be told apart by the broker's
\* quantity: a pass judges neither.
ContestedNotJudged ==
  [][pc = "rec_one" =>
       \A p, q \in Active :
         p # q /\ Legs(p) \cap Legs(q) # {} => pos'[p] = pos[p]]_vars

\* The incident that recorded an outage is resolved.
OutageHeals ==
  <<"broker_unreachable", 0>> \in incidents
    ~> <<"broker_unreachable", 0>> \notin incidents

-----------------------------------------------------------------------------
(* What the repository's comments and tests say, and the code does not keep.    *)

\* release_close: "when its close ended without flattening".
ReleasedCloseDidNotFill ==
  [][\A p \in Positions :
       pos[p].state = "CLOSING" /\ pos'[p].state = "OPEN" /\ pos[p].close # NoOrder
         => bOrder[pos[p].close].status # "filled"]_vars

\* "A process that dies mid-submit must be recoverable by reading the database":
\* a PENDING row does not hold the strategy slot for ever.
DeadSubmitRecovers ==
  \A p \in Positions : pos[p].state = "PENDING" ~> pos[p].state # "PENDING"

\* DeadlineEnforcer "cancels working orders": it has nothing to say about an order
\* that was refused before it was sent.
UncancellableWasSent ==
  \A p \in Positions :
    <<"uncancellable_order", p>> \in incidents =>
      \E c \in OrderIds : Owner(c) = p /\ bOrder[c].status # "absent"

\* "If the broker later reports a fill on an order we abandoned, that is exposure
\* we own, and it is reinstated".
LateFillReinstated ==
  \A p \in Positions :
    pos[p].state = "ABANDONED" /\ bOrder[Entry(p)].filled > 0
      ~> pos[p].state # "ABANDONED"

\* "an abandoned position sees only what is genuinely left over".
NoFalseLateFill ==
  \A p \in Positions :
    <<"late_fill_after_terminal", p>> \in incidents => bOrder[Entry(p)].filled > 0
===============================================================================

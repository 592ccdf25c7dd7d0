----------------------------- MODULE StrategyProofs -----------------------------
(***************************************************************************)
(* Theorems about the strategy slot of TradingAgent: one strategy at a     *)
(* time, exposure that some row answers for, abandoned entries that are    *)
(* dead, one close at a time, and rows that contest a contract left alone. *)
(*                                                                         *)
(* First what any step may do to a bound, to an order of the broker, to    *)
(* the broker's quantities and to a position row.  The invariants are then *)
(* proved from these summaries and not from the actions.                   *)
(***************************************************************************)
EXTENDS TradingAgentProofs, FiniteSetTheorems

-----------------------------------------------------------------------------
(* What a step may do. *)

\* A bound is only ever spent.
LEMMA BudgetFalls ==
  ASSUME TypeOK, [Next]_vars, NEW what \in {"fault", "crash", "late", "move"}
  PROVE  /\ budget[what] \in Nat /\ budget'[what] \in Nat
         /\ budget'[what] <= budget[what]
         /\ Spend(what) => budget'[what] < budget[what]
<1> USE DEF store, broker, pass, mind
<1>1. budget \in [{"fault", "crash", "late", "move"} -> Nat]
  BY DEF TypeOK
<1>2. UNCHANGED budget \/ Spend("fault") \/ Spend("crash") \/ Spend("late") \/ Spend("move")
  <2>1. CASE Broker
    BY <2>1 DEF Broker, BrokerRegisters, BrokerLoses, BrokerFills, BrokerEnds, BrokerFillsLate,
                ContractLeaves
  <2>2. CASE Pass
    BY <2>2 DEF Pass, ReadPositions, ReadOrders, Unreachable, ReconcileOne, ReconcileEnds,
                EnforceOne, EnforceLateFill, EnforceNothing, EnforceUncancellable,
                EnforceCancel, EnforceEnds
  <2>3. CASE Gateway
    BY <2>3 DEF Gateway, PreflightPasses, PreflightRefuses, PreflightRaises, SendAccepted,
                SendRaises, LookUp, RecordSent, RecordUnsent, EntryRefused, EntryAmbiguous,
                CloseRefused
  <2>4. CASE Turn
    BY <2>4 DEF Turn, BeginCycle, TurnEnds, DataHalts, CycleEnds, PrepareEntry, Manage,
                ManageHolds, ManageFails, ManageCollides, ManageCloses, Keep
  <2>5. CASE \/ \E c \in OrderIds : TimePasses(c)
             \/ Start \/ Crash \/ Clocks \/ UNCHANGED vars
    BY <2>5 DEF TimePasses, Start, Crash, Clocks, Tick, OrderClock, PositionClock, vars
  <2> QED BY <2>1, <2>2, <2>3, <2>4, <2>5 DEF Next
<1> QED BY <1>1, <1>2 DEF Spend

\* An order at the broker that is accepted, being worked on, or on its way there.
InFlight(c) == bOrder[c].status \in Working \cup {"transit"}

\* The ways a step changes an order at the broker: the send; the broker registers or
\* loses what is on its way; a fill; the end of a working order or a request to
\* cancel it; a fill on an order that had ended.
Sent(c) ==
  /\ pc = "send" /\ c = cur
  /\ bOrder'[c].status \in {"absent", "accepted", "transit"} /\ bOrder'[c].filled = 0
  /\ bOrder'[c].status = "transit" => Spend("fault")
  /\ UNCHANGED <<pos, held, order>> /\ pc' \in {"lookup", "record"}
  /\ pc' = "record" => reply' = "accepted"
  /\ pc' = "lookup" => Spend("fault") \/ UNCHANGED bOrder

Registered(c) ==
  /\ bOrder[c].status = "transit"
  /\ bOrder'[c].status \in {"accepted", "absent"} /\ bOrder'[c].filled = bOrder[c].filled
  /\ UNCHANGED <<pos, held>>

Filled(c) ==
  /\ bOrder[c].status \in Working /\ bOrder[c].filled < OrderQuantity(c)
  /\ bOrder'[c].filled = bOrder[c].filled + 1
  /\ IF bOrder'[c].filled = OrderQuantity(c) THEN bOrder'[c].status = "filled"
     ELSE bOrder'[c].status \in Working
  /\ UNCHANGED pos

Ended(c) ==
  /\ bOrder[c].status \in Working
  /\ bOrder'[c].status \in {"pending_cancel", "canceled", "rejected", "expired"}
  /\ bOrder'[c].filled = bOrder[c].filled
  /\ UNCHANGED held

FilledLate(c) ==
  /\ IsEntry(c) /\ bOrder[c].status \in {"canceled", "expired"}
  /\ bOrder'[c].status = bOrder[c].status /\ bOrder'[c].filled = bOrder[c].filled + 1
  /\ Spend("late")
  /\ UNCHANGED pos

OrderStep(c) ==
  bOrder'[c] = bOrder[c] \/ Sent(c) \/ Registered(c) \/ Filled(c) \/ Ended(c) \/ FilledLate(c)

\* No step changes an order at the broker in another way.
LEMMA OrderSteps ==
  ASSUME IInv, [Next]_vars, NEW c \in OrderIds
  PROVE  OrderStep(c)
<1> USE DEF store, broker, pass, mind
<1>1. /\ bOrder \in [OrderIds -> BrokerRead]
      /\ \A d \in OrderIds : bOrder[d] \in [status : BrokerStatus, filled : Nat]
  BY TypeFacts DEF IInv, TypeOK, BrokerRead
<1>2. CASE UNCHANGED bOrder
  BY <1>2 DEF OrderStep
<1>3. ASSUME NEW d \in OrderIds,
             \/ BrokerRegisters(d) \/ BrokerLoses(d) \/ BrokerFills(d)
             \/ BrokerEnds(d) \/ BrokerFillsLate(d)
      PROVE  OrderStep(c)
  <2>1. CASE BrokerRegisters(d) \/ BrokerLoses(d)
    BY <1>1, <2>1 DEF BrokerRegisters, BrokerLoses, OrderStep, Registered
  <2>2. CASE BrokerFills(d)
    <3>1. CASE c = d
      <4>1. Filled(c)
        BY <1>1, <2>2, <3>1 DEF BrokerFills, Filled, Working
      <4> QED BY <4>1 DEF OrderStep
    <3>2. CASE c # d
      BY <1>1, <2>2, <3>2 DEF BrokerFills, OrderStep
    <3> QED BY <3>1, <3>2
  <2>3. CASE BrokerEnds(d)
    BY <1>1, <2>3, AgentAssumption DEF BrokerEnds, OrderStep, Ended
  <2>4. CASE BrokerFillsLate(d)
    BY <1>1, <2>4 DEF BrokerFillsLate, OrderStep, FilledLate
  <2> QED BY <1>3, <2>1, <2>2, <2>3, <2>4
<1>4. ASSUME NEW p \in Positions, EnforceCancel(p), UNCHANGED held PROVE OrderStep(c)
  BY <1>1, <1>4 DEF EnforceCancel, OrderStep, Ended
<1>5. CASE SendAccepted \/ SendRaises
  <2>1. cur \in OrderIds
    BY <1>5 DEF IInv, Submitting, SendAccepted, SendRaises
  <2> QED BY <1>1, <1>5, <2>1 DEF SendAccepted, SendRaises, OrderStep, Sent
<1> QED
  <2>1. CASE Broker
    BY <1>2, <1>3, <2>1 DEF Broker, ContractLeaves
  <2>2. CASE Pass
    BY <1>2, <1>4, <2>2
       DEF Pass, ReadPositions, ReadOrders, ReconcileOne, ReconcileEnds, EnforceOne,
           EnforceLateFill, EnforceNothing, EnforceUncancellable, EnforceEnds
  <2>3. CASE Gateway
    BY <1>2, <1>5, <2>3
       DEF Gateway, PreflightPasses, PreflightRefuses, PreflightRaises, LookUp, RecordSent,
           RecordUnsent, EntryRefused, EntryAmbiguous, CloseRefused
  <2>4. CASE Turn
    BY <1>2, <2>4
       DEF Turn, BeginCycle, TurnEnds, DataHalts, CycleEnds, PrepareEntry, Manage, ManageHolds,
           ManageFails, ManageCollides, ManageCloses, Keep
  <2>5. CASE \/ \E d \in OrderIds : TimePasses(d)
             \/ Start \/ Crash \/ Clocks \/ UNCHANGED vars
    BY <1>2, <2>5 DEF TimePasses, Start, Crash, Clocks, Tick, OrderClock, PositionClock, vars
  <2> QED BY <2>1, <2>2, <2>3, <2>4, <2>5 DEF Next

\* Only the fill of an entry adds a symbol to what the broker holds: closes and
\* outside moves take away.
Shrinks == \A s \in Symbols : held'[s] # 0 => held[s] # 0

Opened(p) ==
  /\ Filled(Entry(p)) \/ FilledLate(Entry(p))
  /\ \A s \in Symbols : held'[s] # 0 => held[s] # 0 \/ s \in Legs(p)

LEMMA HeldSteps ==
  ASSUME IInv, [Next]_vars
  PROVE  /\ Shrinks \/ \E p \in Positions : Opened(p)
         /\ UNCHANGED held \/ UNCHANGED <<pos, view, pc, todo>>
<1> USE DEF store, broker, pass, mind
<1>1. /\ held \in [Symbols -> Int]
      /\ bOrder \in [OrderIds -> BrokerRead]
      /\ \A p \in Positions : /\ pos[p].spread[1] \in Symbols /\ pos[p].spread[2] \in Symbols
                              /\ pos[p].spread[1] # pos[p].spread[2]
  BY LifecycleAssumption, TypeFacts DEF IInv, TypeOK, PositionRow
<1>2. CASE UNCHANGED held
  BY <1>2 DEF Shrinks
<1>3. ASSUME NEW c \in OrderIds, BrokerFills(c) \/ BrokerFillsLate(c)
      PROVE  /\ Shrinks \/ \E p \in Positions : Opened(p)
             /\ UNCHANGED <<pos, view, pc, todo>>
  <2>1. /\ Owner(c) \in Positions
        /\ IsEntry(c) => c = Entry(Owner(c))
        /\ held' = Traded(c)
        /\ UNCHANGED <<pos, view, pc, todo>>
    BY <1>3, OrderId DEF BrokerFills, BrokerFillsLate
  <2>2. CASE IsEntry(c)
    <3>1. bOrder[c] \in [status : BrokerStatus, filled : Nat]
      BY TypeFacts DEF IInv, BrokerRead
    <3>2. Filled(c) \/ FilledLate(c)
      BY <1>1, <1>3, <3>1 DEF BrokerFills, BrokerFillsLate, Filled, FilledLate, Working
    <3>3. \A s \in Symbols : held'[s] # 0 => held[s] # 0 \/ s \in Legs(Owner(c))
      BY <1>1, <2>1 DEF Traded, Legs
    <3> QED BY <2>1, <2>2, <3>2, <3>3 DEF Opened
  <2>3. CASE ~IsEntry(c)
    <3>1. held[pos[Owner(c)].spread[1]] > 0 /\ held[pos[Owner(c)].spread[2]] < 0
      BY <1>3, <2>3 DEF BrokerFills, BrokerFillsLate, Tradable
    <3>2. Shrinks
      BY <1>1, <2>1, <2>3, <3>1 DEF Traded, Shrinks
    <3> QED BY <2>1, <3>2
  <2> QED BY <2>2, <2>3
<1>4. ASSUME NEW s \in Symbols, ContractLeaves(s)
      PROVE  Shrinks /\ UNCHANGED <<pos, view, pc, todo>>
  BY <1>1, <1>4 DEF ContractLeaves, Shrinks
<1> QED
  <2>1. CASE Broker
    BY <1>2, <1>3, <1>4, <2>1 DEF Broker, BrokerRegisters, BrokerLoses, BrokerEnds
  <2>2. CASE Pass
    BY <1>2, <2>2
       DEF Pass, ReadPositions, ReadOrders, ReconcileOne, ReconcileEnds, EnforceOne, EnforceEnds
  <2>3. CASE Gateway
    BY <1>2, <2>3
       DEF Gateway, PreflightPasses, PreflightRefuses, PreflightRaises, SendAccepted, SendRaises,
           LookUp, RecordSent, RecordUnsent, EntryRefused, EntryAmbiguous, CloseRefused
  <2>4. CASE Turn
    BY <1>2, <2>4
       DEF Turn, BeginCycle, TurnEnds, DataHalts, CycleEnds, PrepareEntry, Manage, ManageHolds,
           ManageFails, ManageCollides, ManageCloses, Keep
  <2>5. CASE \/ \E c \in OrderIds : TimePasses(c)
             \/ Start \/ Crash \/ Clocks \/ UNCHANGED vars
    BY <1>2, <2>5 DEF TimePasses, Start, Crash, Clocks, Tick, OrderClock, PositionClock, vars
  <2> QED BY <2>1, <2>2, <2>3, <2>4, <2>5 DEF Next

\* The ways a step changes the row of an order: its prepare, the record of its
\* submission, a read of a pass, and time.
RowPrepared(c) ==
  /\ order[c].state = "NONE" /\ order'[c] = PreparedOrder
  /\ pc' = "preflight" /\ cur' = c /\ pc \notin {"preflight", "send", "lookup", "record", "refused"}

RowRecorded(c) ==
  /\ pc = "record" /\ c = cur
  /\ order'[c].state \in OrderState
  /\ order'[c].known <=> reply \in {"accepted", "located"}
  /\ pc' \in {"rec_positions", "refused"}

RowRead(c) ==
  /\ pc = "rec_one"
  /\ order'[c].state \in OrderState
  /\ order'[c].sent = order[c].sent /\ order'[c].known = order[c].known

RowAged(c) ==
  /\ pc = "idle" /\ order[c].sent # "unset"
  /\ order'[c].state = order[c].state /\ order'[c].known = order[c].known

RowStep(c) ==
  order'[c] = order[c] \/ RowPrepared(c) \/ RowRecorded(c) \/ RowRead(c) \/ RowAged(c)

\* A read of a pass leaves what is known of the submission.
LEMMA AppliedSubmission ==
  ASSUME NEW orders \in [OrderIds -> OrderRow], NEW c \in OrderIds \cup {NoOrder},
         NEW read \in BrokerRead, NEW d \in OrderIds
  PROVE  \/ Applied(orders, c, read)[d] = orders[d]
         \/ /\ Applied(orders, c, read)[d].state \in OrderState
            /\ Applied(orders, c, read)[d].sent = orders[d].sent
            /\ Applied(orders, c, read)[d].known = orders[d].known
<1>1. orders[d] \in OrderRow
  OBVIOUS
<1>2. ReconciledState(read) \in OrderState
  BY ReconciledStateIsState
<1> QED BY <1>1, <1>2 DEF Applied, ApplyOrderReconciliation, OrderRow

LEMMA RowSteps ==
  ASSUME IInv, [Next]_vars, NEW c \in OrderIds
  PROVE  RowStep(c)
<1> USE DEF store, broker, pass, mind
<1>1. order \in [OrderIds -> OrderRow] /\ TypeOK
  BY DEF IInv, TypeOK
<1>2. CASE UNCHANGED order
  BY <1>2 DEF RowStep
<1>3. ASSUME NEW d \in OrderIds, TimePasses(d) PROVE RowStep(c)
  BY <1>1, <1>3 DEF TimePasses, RowStep, RowAged, OrderRow
<1>4. ASSUME NEW p \in Positions, ReconcileOne(p) PROVE RowStep(c)
  <2>1. PICK blind \in SUBSET Lookable(p) :
          \/ ReconcileAbandoned(p, Lookup(Entry(p), blind))
          \/ ReconcileEntry(p, Lookup(Entry(p), blind))
          \/ ReconcileOpen(p, Lookup(Entry(p), blind))
          \/ ReconcileClosing(p, Lookup(Entry(p), blind), Lookup(pos[p].close, blind))
    BY <1>4 DEF ReconcileOne
  <2> DEFINE entry == Lookup(Entry(p), blind)
             close == Lookup(pos[p].close, blind)
             first == Applied(order, Entry(p), entry)
             second == Applied(first, pos[p].close, close)
  <2>2. /\ Entry(p) \in OrderIds \cup {NoOrder} /\ pos[p].close \in OrderIds \cup {NoOrder}
        /\ entry \in BrokerRead /\ close \in BrokerRead
    <3>1. Entry(p) \in OrderIds \cup {NoOrder} /\ pos[p].close \in OrderIds \cup {NoOrder}
      BY <1>1, EntryId, TypeFacts DEF OrderIds
    <3> QED BY <1>1, <3>1, LookupType
  <2>3. first \in [OrderIds -> OrderRow]
    BY <1>1, <2>2, AppliedType
  <2>4. order' \in {order, first, second}
    BY <2>1 DEF ReconcileAbandoned, ReconcileEntry, ReconcileOpen, ReconcileClosing
  <2>5. pc = "rec_one"
    BY <1>4 DEF ReconcileOne
  <2>6. \/ first[c] = order[c]
        \/ /\ first[c].state \in OrderState
           /\ first[c].sent = order[c].sent /\ first[c].known = order[c].known
    BY <1>1, <2>2, AppliedSubmission
  <2> HIDE DEF entry, first
  <2>7. \/ second[c] = first[c]
        \/ /\ second[c].state \in OrderState
           /\ second[c].sent = first[c].sent /\ second[c].known = first[c].known
    <3> HIDE DEF close
    <3> QED BY <2>2, <2>3, AppliedSubmission
  <2> HIDE DEF second
  <2> QED BY <2>4, <2>5, <2>6, <2>7 DEF RowStep, RowRead
<1>5. CASE RecordSent \/ RecordUnsent
  <2>1. /\ cur \in OrderIds /\ order[cur] \in OrderRow /\ pc = "record"
        /\ order' = [order EXCEPT ![cur] = Submitted]
        /\ pc' \in {"rec_positions", "refused"}
    BY <1>1, <1>5 DEF RecordSent, RecordUnsent, Reconcile, IInv, Submitting
  <2>2. /\ Submitted.state \in OrderState
        /\ Submitted.known <=> reply \in {"accepted", "located"}
    <3>1. \E status, ambiguous : \E hasId \in BOOLEAN :
            /\ Submitted = RecordSubmission(order[cur], status, ambiguous, hasId)
            /\ hasId <=> reply \in {"accepted", "located"}
      BY DEF Submitted
    <3>2. \A status, ambiguous : \A hasId \in BOOLEAN :
            RecordSubmission(order[cur], status, ambiguous, hasId).known = hasId
      BY <2>1 DEF RecordSubmission, OrderRow
    <3> QED BY <2>1, <3>1, <3>2, OrderWrites
  <2> QED BY <1>1, <2>1, <2>2 DEF RowStep, RowRecorded
<1>6. ASSUME NEW p \in Positions, PrepareEntry(p) PROVE RowStep(c)
  BY <1>1, <1>6, EntryId DEF PrepareEntry, RowStep, RowPrepared, IInv, Unprepared
<1>7. ASSUME NEW p \in Positions, NEW t \in CloseTerms, NEW warned \in BOOLEAN,
             ManageCloses(p, t, warned)
      PROVE  RowStep(c)
  BY <1>1, <1>7 DEF ManageCloses, Managing, RowStep, RowPrepared
<1> QED
  <2>1. CASE Broker
    BY <1>2, <2>1 DEF Broker, BrokerRegisters, BrokerLoses, BrokerFills, BrokerEnds,
                      BrokerFillsLate, ContractLeaves
  <2>2. CASE Pass
    BY <1>2, <1>4, <2>2
       DEF Pass, ReadPositions, ReadOrders, Unreachable, ReconcileEnds, EnforceOne,
           EnforceLateFill, EnforceNothing, EnforceUncancellable, EnforceCancel, EnforceEnds
  <2>3. CASE Gateway
    BY <1>2, <1>5, <2>3
       DEF Gateway, PreflightPasses, PreflightRefuses, PreflightRaises, SendAccepted, SendRaises,
           LookUp, EntryRefused, EntryAmbiguous, CloseRefused
  <2>4. CASE Turn
    BY <1>2, <1>6, <1>7, <2>4
       DEF Turn, BeginCycle, TurnEnds, DataHalts, CycleEnds, Manage, ManageHolds, ManageFails,
           ManageCollides
  <2>5. CASE Start \/ Crash \/ Clocks \/ UNCHANGED vars
    BY <1>2, <2>5 DEF Start, Crash, Clocks, Tick, OrderClock, PositionClock, vars
  <2> QED BY <1>3, <2>1, <2>2, <2>3, <2>4, <2>5 DEF Next

\* The labels of a submission, and how a step gets to each of them.
Submission == {"preflight", "send", "lookup", "record", "refused"}

SubmissionStep ==
  /\ pc' \in Submission =>
       \/ pc \in Submission /\ cur' = cur
       \/ /\ pc \notin Submission /\ pc' = "preflight" /\ RowPrepared(cur')
          /\ ~IsEntry(cur') => pos'[Owner(cur')].state = "CLOSING"
                               /\ pos'[Owner(cur')].close = cur'
  /\ pc' = "preflight" => pc = "preflight" \/ pc \notin Submission
  /\ pc' = "send" => \/ pc = "send"
                     \/ pc = "preflight" /\ UNCHANGED bOrder /\ (IsEntry(cur) => StrategyCountIsZero)
  /\ pc' = "lookup" => \/ pc = "lookup"
                       \/ pc = "send" /\ (Spend("fault") \/ UNCHANGED bOrder)
  /\ pc' = "record" =>
       \/ pc = "record" /\ reply' = reply
       \/ pc = "preflight" /\ UNCHANGED bOrder /\ reply' = "refused"
       \/ pc = "send" /\ reply' = "accepted"
       \/ /\ pc = "lookup" /\ UNCHANGED bOrder
          /\ \/ reply' = "located" /\ bOrder[cur].status \notin Invisible
             \/ reply' = "ambiguous" /\ (bOrder[cur].status \in Invisible \/ Spend("fault"))
  /\ pc' = "refused" =>
       /\ pc \in {"record", "refused"} /\ reply' = reply
       /\ pc = "record" => reply \in {"ambiguous", "refused"} /\ UNCHANGED bOrder

\* A submission starts with the prepare of its order and follows one path.
LEMMA SubmissionSteps ==
  ASSUME IInv, [Next]_vars
  PROVE  SubmissionStep
<1> USE DEF store, broker, pass, mind, Submission
<1>1. CASE UNCHANGED <<pc, cur, reply>>
  BY <1>1 DEF SubmissionStep
<1>2. CASE pc' \notin Submission
  BY <1>2 DEF SubmissionStep
<1>3. ASSUME NEW p \in Positions, PrepareEntry(p) PROVE SubmissionStep
  <2>1. pc' = "preflight" /\ pc = "observe" /\ RowPrepared(cur')
    <3>1. pos[p].state = "NONE" /\ Entry(p) \in OrderIds /\ order \in [OrderIds -> OrderRow]
      BY <1>3, EntryId DEF PrepareEntry, IInv, TypeOK
    <3> QED BY <1>3, <3>1 DEF PrepareEntry, RowPrepared, IInv, Unprepared
  <2>2. IsEntry(cur')
    BY <1>3, EntryId DEF PrepareEntry
  <2> QED BY <2>1, <2>2 DEF SubmissionStep
<1>4. ASSUME NEW p \in Positions, NEW t \in CloseTerms, NEW warned \in BOOLEAN,
             ManageCloses(p, t, warned)
      PROVE  SubmissionStep
  <2>1. pc' = "preflight" /\ pc = "manage" /\ RowPrepared(cur')
    BY <1>4 DEF ManageCloses, Managing, RowPrepared, IInv, TypeOK, OrderIds
  <2>2. /\ Owner(cur') = p /\ pos' = [pos EXCEPT ![p] = ClosingPosition(@, cur')]
        /\ pos[p] \in PositionRow /\ pos \in [Positions -> PositionRow]
    BY <1>4 DEF ManageCloses, CloseId, Owner, IInv, TypeOK
  <2>3. pos'[Owner(cur')].state = "CLOSING" /\ pos'[Owner(cur')].close = cur'
    BY <2>2 DEF ClosingPosition, PositionRow
  <2> QED BY <2>1, <2>3 DEF SubmissionStep
<1>5. CASE Gateway
  <2>1. CASE PreflightPasses
    BY <2>1 DEF PreflightPasses, RefusesNewRisk, SubmissionStep
  <2>2. CASE PreflightRefuses
    BY <2>2 DEF PreflightRefuses, SubmissionStep
  <2>3. CASE SendAccepted \/ SendRaises
    BY <2>3 DEF SendAccepted, SendRaises, SubmissionStep
  <2>4. CASE LookUp
    BY <2>4 DEF LookUp, SubmissionStep
  <2>5. CASE RecordUnsent
    BY <2>5 DEF RecordUnsent, SubmissionStep
  <2>6. CASE PreflightRaises \/ RecordSent \/ EntryRefused \/ EntryAmbiguous \/ CloseRefused
    BY <1>2, <2>6 DEF PreflightRaises, RecordSent, EntryRefused, EntryAmbiguous, CloseRefused,
                      Reconcile
  <2> QED BY <1>5, <2>1, <2>2, <2>3, <2>4, <2>5, <2>6 DEF Gateway
<1>6. CASE Pass
  <2>1. EndPass => pc' \notin Submission
    BY DEF EndPass, IInv, TypeOK, ReturnLabels
  <2> QED
    BY <1>1, <1>2, <1>6, <2>1
       DEF Pass, ReadPositions, ReadOrders, Unreachable, ReconcileOne, ReconcileEnds, EnforceOne,
           EnforceEnds, Reconcile
<1>7. CASE Turn
  BY <1>1, <1>2, <1>3, <1>4, <1>7
     DEF Turn, BeginCycle, TurnEnds, DataHalts, CycleEnds, Manage, ManageHolds, ManageFails,
         ManageCollides, Managing, Keep
<1>8. CASE Broker
  BY <1>1, <1>8 DEF Broker, BrokerRegisters, BrokerLoses, BrokerFills, BrokerEnds,
                    BrokerFillsLate, ContractLeaves
<1>9. CASE \/ \E c \in OrderIds : TimePasses(c)
           \/ Start \/ Crash \/ Clocks \/ UNCHANGED vars
  BY <1>1, <1>2, <1>9
     DEF TimePasses, Start, Crash, Clocks, Tick, OrderClock, PositionClock, Reconcile, vars
<1> QED BY <1>5, <1>6, <1>7, <1>8, <1>9 DEF Next

\* How a step reads the broker into a pass, and which positions the pass leaves.
PassStep ==
  /\ \/ listed' = listed
     \/ listed' = NothingListed
     \/ listed' = [c \in OrderIds |-> IF bOrder[c].status \in Working THEN bOrder[c] ELSE NoRead]
  /\ pc' = "rec_orders" =>
       \/ pc = "rec_orders" /\ view' = view
       \/ pc = "rec_positions" /\ view' = held /\ UNCHANGED <<held, pos>>
  /\ pc' = "rec_one" =>
       \/ /\ pc = "rec_orders" /\ view' = view /\ UNCHANGED <<held, pos>>
          /\ todo' = Managed \ HeldOut
       \/ pc = "rec_one" /\ UNCHANGED <<view, todo>>
       \/ \E p \in Positions : ReconcileOne(p)

LEMMA PassSteps ==
  ASSUME IInv, [Next]_vars
  PROVE  PassStep
<1> USE DEF store, broker, pass, mind
<1>1. CASE pc' \notin {"rec_orders", "rec_one"} /\ (listed' = listed \/ listed' = NothingListed)
  BY <1>1 DEF PassStep
<1>2. CASE UNCHANGED <<pc, view, listed, todo>>
  BY <1>2 DEF PassStep
<1>3. CASE Pass
  <2>1. EndPass => pc' \notin {"rec_orders", "rec_one"} /\ listed' = NothingListed
    BY DEF EndPass, IInv, TypeOK, ReturnLabels
  <2>2. CASE ReadPositions \/ ReadOrders
    BY <1>1, <2>1, <2>2 DEF ReadPositions, ReadOrders, Unreachable, PassStep
  <2>3. ASSUME NEW p \in Positions, ReconcileOne(p) PROVE PassStep
    BY <2>3 DEF ReconcileOne, PassStep
  <2>4. CASE ReconcileEnds \/ EnforceEnds \/ \E p \in Positions : EnforceOne(p)
    BY <1>1, <2>1, <2>4 DEF ReconcileEnds, EnforceEnds, EnforceOne, Enforcing, Reconcile
  <2> QED BY <1>3, <2>2, <2>3, <2>4 DEF Pass
<1>4. CASE Gateway
  BY <1>1, <1>4
     DEF Gateway, PreflightPasses, PreflightRefuses, PreflightRaises, SendAccepted, SendRaises,
         LookUp, RecordSent, RecordUnsent, EntryRefused, EntryAmbiguous, CloseRefused, Reconcile
<1>5. CASE Turn
  <2>1. ASSUME NEW p \in Positions, Manage(p)
        PROVE  UNCHANGED <<view, listed, todo>> /\ pc' \in {pc, "preflight"} /\ pc = "manage"
    BY <2>1 DEF Manage, ManageHolds, ManageFails, ManageCollides, ManageCloses, Managing, Keep
  <2>2. CASE \/ BeginCycle \/ TurnEnds \/ DataHalts \/ CycleEnds
             \/ \E p \in Positions : PrepareEntry(p)
    BY <1>1, <2>2 DEF BeginCycle, TurnEnds, DataHalts, CycleEnds, PrepareEntry
  <2> QED BY <1>1, <1>5, <2>1, <2>2 DEF Turn
<1>6. CASE Broker
  BY <1>2, <1>6 DEF Broker, BrokerRegisters, BrokerLoses, BrokerFills, BrokerEnds,
                    BrokerFillsLate, ContractLeaves
<1>7. CASE \/ \E c \in OrderIds : TimePasses(c)
           \/ Start \/ Crash \/ Clocks \/ UNCHANGED vars
  BY <1>1, <1>2, <1>7
     DEF TimePasses, Start, Crash, Clocks, Tick, OrderClock, PositionClock, Reconcile, vars
<1> QED BY <1>3, <1>4, <1>5, <1>6, <1>7 DEF Next

-----------------------------------------------------------------------------
(* What holds of orders and submissions, whatever the bounds. *)

\* An order exists at the broker only after its row; what the broker has not
\* registered it has not filled; a working order has a remainder and a filled one
\* a fill; and the listing of a pass has working orders only.
OrderFacts ==
  \A c \in OrderIds :
    /\ order[c].state = "NONE" => bOrder[c] = NoRead
    /\ bOrder[c].status \in Invisible => bOrder[c].filled = 0
    /\ bOrder[c].status \in Working => bOrder[c].filled < OrderQuantity(c)
    /\ bOrder[c].status = "filled" => bOrder[c].filled > 0
    /\ listed[c] # NoRead => listed[c].status \in Working

\* Until an order is sent the broker knows nothing of it, and a refused one never
\* was.
NotYetSent ==
  /\ pc \in {"preflight", "send"} => bOrder[cur] = NoRead
  /\ pc \in {"record", "refused"} /\ reply = "refused" => bOrder[cur] = NoRead
  /\ pc \in {"preflight", "send", "lookup", "record"} =>
       order[cur].state # "NONE" /\ order[cur].sent = "unset"

OrdersInv == IInv /\ OrderFacts /\ NotYetSent

LEMMA OrdersStep == OrdersInv /\ [Next]_vars => OrdersInv'
<1> SUFFICES ASSUME OrdersInv, [Next]_vars PROVE OrdersInv'
  OBVIOUS
<1>1. IInv /\ IInv'
  BY StepInv DEF OrdersInv
<1>2. /\ \A c \in OrderIds : OrderStep(c) /\ RowStep(c)
      /\ SubmissionStep
  BY <1>1, OrderSteps, RowSteps, SubmissionSteps
<1>3. \A c \in OrderIds :
        /\ bOrder[c] \in [status : BrokerStatus, filled : Nat]
        /\ bOrder'[c] \in [status : BrokerStatus, filled : Nat]
        /\ OrderQuantity(c) \in Nat /\ OrderQuantity(c) > 0
  <2>1. \A c \in OrderIds : OrderQuantity(c) \in Nat /\ OrderQuantity(c) > 0
    BY OrderId, QuantityBounded
  <2>2. TypeOK /\ TypeOK'
    BY <1>1 DEF IInv
  <2> QED BY <2>1, <2>2, TypeFacts, QuantityBounded DEF TypeOK, BrokerRead
<1>4. \A c \in OrderIds : bOrder[c] = NoRead =>
        bOrder'[c] = NoRead \/ (pc = "send" /\ c = cur /\ pc' \in {"lookup", "record"})
  BY <1>2 DEF OrderStep, Sent, Registered, Filled, Ended, FilledLate, NoRead, Working
<1>5. OrderFacts'
  <2> SUFFICES ASSUME NEW c \in OrderIds
               PROVE  /\ order'[c].state = "NONE" => bOrder'[c] = NoRead
                      /\ bOrder'[c].status \in Invisible => bOrder'[c].filled = 0
                      /\ bOrder'[c].status \in Working => bOrder'[c].filled < OrderQuantity(c)
                      /\ bOrder'[c].status = "filled" => bOrder'[c].filled > 0
                      /\ listed'[c] # NoRead => listed'[c].status \in Working
    BY DEF OrderFacts
  <2>1. order'[c].state = "NONE" => bOrder'[c] = NoRead
    <3>1. order'[c].state = "NONE" => order[c].state = "NONE"
      BY <1>2 DEF RowStep, RowPrepared, RowRecorded, RowRead, RowAged, OrderState
    <3>2. pc = "send" => order[cur].state # "NONE"
      BY DEF OrdersInv, NotYetSent
    <3> QED BY <1>4, <3>1, <3>2 DEF OrdersInv, OrderFacts
  <2>2. /\ bOrder'[c].status \in Invisible => bOrder'[c].filled = 0
        /\ bOrder'[c].status \in Working => bOrder'[c].filled < OrderQuantity(c)
        /\ bOrder'[c].status = "filled" => bOrder'[c].filled > 0
    <3>1. /\ bOrder[c].status \in Invisible => bOrder[c].filled = 0
          /\ bOrder[c].status \in Working => bOrder[c].filled < OrderQuantity(c)
          /\ bOrder[c].status = "filled" => bOrder[c].filled > 0
      BY DEF OrdersInv, OrderFacts
    <3> QED
      BY <1>2, <1>3, <3>1
         DEF OrderStep, Sent, Registered, Filled, Ended, FilledLate, Invisible, Working
  <2>3. listed'[c] # NoRead => listed'[c].status \in Working
    BY <1>1, PassSteps DEF PassStep, NothingListed, OrdersInv, OrderFacts
  <2> QED BY <2>1, <2>2, <2>3
<1>6. NotYetSent'
  <2>1. pc' \in Submission => cur' \in OrderIds
    BY <1>1 DEF IInv, Submitting, Submission
  <2>2. CASE pc' \in Submission /\ pc \notin Submission
    <3>1. pc' = "preflight" /\ RowPrepared(cur')
      BY <1>2, <2>2 DEF SubmissionStep
    <3>2. bOrder'[cur'] = NoRead
      BY <1>4, <2>1, <2>2, <3>1 DEF RowPrepared, OrdersInv, OrderFacts, Submission
    <3>3. order'[cur'].state # "NONE" /\ order'[cur'].sent = "unset"
      BY <3>1 DEF RowPrepared, PreparedOrder, NoOrderRow
    <3> QED BY <3>1, <3>2, <3>3 DEF NotYetSent
  <2>3. CASE pc' \in Submission /\ pc \in Submission
    <3>1. cur' = cur /\ cur \in OrderIds
      BY <1>2, <2>1, <2>3 DEF SubmissionStep
    <3>2. pc' \in {"preflight", "send"} => bOrder'[cur] = NoRead
      BY <1>2, <1>4, <2>3, <3>1 DEF SubmissionStep, OrdersInv, NotYetSent, Submission
    <3>3. pc' \in {"record", "refused"} /\ reply' = "refused" => bOrder'[cur] = NoRead
      BY <1>2, <1>4, <2>3, <3>1 DEF SubmissionStep, OrdersInv, NotYetSent, Submission
    <3>4. pc' \in {"preflight", "send", "lookup", "record"} =>
            order'[cur].state # "NONE" /\ order'[cur].sent = "unset"
      <4>1. pc' \in {"preflight", "send", "lookup", "record"} => order'[cur] = order[cur]
        BY <1>2, <2>3, <3>1
           DEF RowStep, RowPrepared, RowRecorded, RowRead, RowAged, Submission
      <4> QED
        BY <1>2, <2>3, <4>1 DEF SubmissionStep, OrdersInv, NotYetSent, Submission
    <3> QED BY <3>1, <3>2, <3>3, <3>4 DEF NotYetSent
  <2> QED BY <2>2, <2>3 DEF NotYetSent, Submission
<1> QED BY <1>1, <1>5, <1>6 DEF OrdersInv

LEMMA OrdersInit == Init => OrdersInv
<1> SUFFICES ASSUME Init PROVE OrdersInv
  OBVIOUS
<1>1. IInv
  BY InitInv
<1>2. \A c \in OrderIds : OrderQuantity(c) \in Nat /\ OrderQuantity(c) > 0
  BY OrderId, QuantityBounded
<1>3. OrderFacts
  BY <1>2 DEF Init, OrderFacts, NothingListed, NoRead, NoOrderRow, Working
<1>4. NotYetSent
  BY DEF Init, NotYetSent
<1> QED BY <1>1, <1>3, <1>4 DEF OrdersInv

-----------------------------------------------------------------------------
(* What a step may do to a position row.  Only its prepare gives it legs. *)

Same(p) == pos'[p].close = pos[p].close /\ pos'[p].spread = pos[p].spread

PosPrepared(p) ==
  /\ pc = "observe" /\ Active = {}
  /\ pos[p].state = "NONE" /\ pos'[p].state = "PENDING" /\ pos'[p].close = NoOrder
  /\ cur' = Entry(p)
  /\ UNCHANGED <<bOrder, held>>

\* An incident of a closing position is raised by the refusal of its close or by the
\* deadline of it.
PosRaised(p) ==
  /\ pos[p].state \in Live /\ pos'[p].state = "INCIDENT"
  /\ Same(p)
  /\ pos[p].state = "CLOSING" =>
       \/ /\ pc = "refused" /\ pc' \notin Submission
          /\ ~IsEntry(cur) /\ Owner(cur) = p
       \/ LET c == WatchedOrder(p, pos[p])
          IN /\ Enforcing
             /\ order[c].sent # "unset"
             /\ ~order[c].known \/ bOrder[c].status \notin Working \/ Spend("fault")
  /\ UNCHANGED held

PosSettled(p) ==
  /\ pos[p].state \in {"PENDING", "INCIDENT"}
  /\ pos'[p].state \in {"OPEN", "PENDING", "ABANDONED"}
  /\ pos'[p].state = "OPEN" => bOrder[Entry(p)].filled > 0
  /\ pos'[p].state = "ABANDONED" => bOrder[Entry(p)].filled = 0 /\ ~InFlight(Entry(p))
  /\ Same(p)
  /\ UNCHANGED <<bOrder, held>>

PosFollowed(p) ==
  /\ pc = "rec_one"
  /\ pos[p].state = "CLOSING" /\ pos'[p].state \in {"CLOSING", "CLOSED"}
  /\ pos'[p].state = "CLOSED" => p \in todo /\ ~Holds(p)
  /\ Same(p)
  /\ UNCHANGED <<bOrder, held>>

PosReleased(p) ==
  /\ pc = "rec_one"
  /\ pos[p].state = "CLOSING" /\ pos'[p].state = "OPEN"
  /\ pos'[p].close = NoOrder /\ pos'[p].spread = pos[p].spread
  /\ pos[p].close \in OrderIds => ~InFlight(pos[p].close)
  /\ UNCHANGED <<bOrder, held>>

PosCloses(p) ==
  /\ pc = "manage"
  /\ pos[p].state = "OPEN" /\ pos'[p].state = "CLOSING"
  /\ cur' \in CloseIds /\ Owner(cur') = p /\ pos'[p].close = cur'
  /\ pos'[p].spread = pos[p].spread
  /\ pc' = "preflight"
  /\ UNCHANGED <<bOrder, held>>

PosReinstated(p) ==
  /\ Enforcing
  /\ pos[p].state = "ABANDONED" /\ pos'[p].state = "OPEN" /\ order[Entry(p)].filled > 0
  /\ Same(p)
  /\ UNCHANGED <<bOrder, held>>

PosStep(p) ==
  \/ pos'[p] = pos[p]
  \/ PosPrepared(p) \/ PosRaised(p) \/ PosSettled(p) \/ PosFollowed(p) \/ PosReleased(p)
  \/ PosCloses(p) \/ PosReinstated(p)

\* A read that ends an order comes from the broker itself, not from the listing.
LEMMA TerminalRead ==
  ASSUME OrdersInv, NEW c \in OrderIds \cup {NoOrder}, NEW blind,
         Lookup(c, blind) # NoRead, ReconciledState(Lookup(c, blind)) \in Terminal
  PROVE  /\ c \in OrderIds /\ Lookup(c, blind) = bOrder[c]
         /\ bOrder[c].status \in {"filled", "canceled", "rejected", "expired"}
<1> DEFINE read == Lookup(c, blind)
<1>1. c \in OrderIds
  BY DEF Lookup
<1>2. read.status \notin Working \cup Invisible
  BY DEF ReconciledState, MapBrokerStatus, BrokerStatusMap, Terminal, Working, Invisible
<1>3. listed[c] = NoRead
  BY <1>1, <1>2, NoOrderIsNone DEF Lookup, OrdersInv, OrderFacts
<1>4. read = bOrder[c]
  BY <1>1, <1>3, NoOrderIsNone DEF Lookup
<1>5. bOrder[c].status \in BrokerStatus
  BY <1>1, TypeFacts DEF OrdersInv, IInv, BrokerRead
<1> QED BY <1>1, <1>2, <1>4, <1>5 DEF BrokerStatus, Working, Invisible

\* A visit of a pass changes the row it visits in one of these ways.
LEMMA VisitStep ==
  ASSUME OrdersInv, NEW p \in Positions, ReconcileOne(p), NEW q \in Positions
  PROVE  PosStep(q)
<1>1. /\ IInv /\ TypeOK
      /\ pos \in [Positions -> PositionRow] /\ pos[p] \in PositionRow
      /\ pc = "rec_one" /\ p \in todo
      /\ UNCHANGED <<bOrder, held>>
  BY DEF OrdersInv, IInv, TypeOK, ReconcileOne, NextToVisit, broker
<1>2. PICK blind \in SUBSET Lookable(p) :
        \/ ReconcileAbandoned(p, Lookup(Entry(p), blind))
        \/ ReconcileEntry(p, Lookup(Entry(p), blind))
        \/ ReconcileOpen(p, Lookup(Entry(p), blind))
        \/ ReconcileClosing(p, Lookup(Entry(p), blind), Lookup(pos[p].close, blind))
  BY DEF ReconcileOne
<1> DEFINE entry == Lookup(Entry(p), blind)
           close == Lookup(pos[p].close, blind)
<1>3. /\ Entry(p) \in OrderIds /\ Entry(p) \in OrderIds \cup {NoOrder}
      /\ pos[p].close \in OrderIds \cup {NoOrder}
  BY <1>1, EntryId, TypeFacts DEF OrderIds
<1>4. /\ entry # NoRead => entry.filled <= bOrder[Entry(p)].filled
      /\ entry.filled \in Nat /\ bOrder[Entry(p)].filled \in Nat
  <2>1. entry \in BrokerRead /\ bOrder[Entry(p)].filled \in Nat
    BY <1>1, <1>3, LookupType, TypeFacts
  <2> HIDE DEF entry
  <2>2. entry.filled \in Nat
    BY <2>1, QuantityBounded DEF BrokerRead
  <2> QED BY <1>1, <1>3, <2>1, <2>2, LookupCurrent DEF entry
<1>5. entry # NoRead /\ ReconciledState(entry) \in Terminal =>
        ~InFlight(Entry(p)) /\ entry = bOrder[Entry(p)]
  BY <1>3, TerminalRead DEF InFlight, Working
<1>6. close # NoRead /\ ReconciledState(close) \in Terminal =>
        pos[p].close \in OrderIds /\ ~InFlight(pos[p].close)
  BY <1>3, TerminalRead DEF InFlight, Working
<1>7. \/ ReconcileAbandoned(p, entry)
      \/ ReconcileEntry(p, entry)
      \/ ReconcileOpen(p, entry)
      \/ ReconcileClosing(p, entry, close)
  BY <1>2
<1> HIDE DEF entry, close
<1>8. q # p => pos'[q] = pos[q]
  BY <1>1, <1>7
     DEF ReconcileAbandoned, ReconcileEntry, ReconcileOpen, ReconcileClosing, Mismatch
<1>9. CASE ReconcileAbandoned(p, entry)
  BY <1>1, <1>8, <1>9 DEF ReconcileAbandoned, Mismatch, MarkIncident, PosStep
<1>10. CASE ReconcileEntry(p, entry)
  <2>1. CASE entry # NoRead
    <3>1. pos'[p] = ApplyEntryOutcome(pos[p], ReconciledState(entry), entry.filled)
      BY <1>1, <1>10, <2>1 DEF ReconcileEntry
    <3>2. Same(p) /\ pos'[p].state \in {"OPEN", "PENDING", "ABANDONED"}
      BY <1>1, <3>1 DEF ApplyEntryOutcome, Same, PositionRow
    <3>3. pos'[p].state = "OPEN" => entry.filled > 0
      BY <1>1, <3>1 DEF ApplyEntryOutcome, PositionRow
    <3>4. pos'[p].state = "ABANDONED" => entry.filled = 0 /\ ReconciledState(entry) \in Terminal
      BY <1>1, <1>4, <3>1 DEF ApplyEntryOutcome, PositionRow
    <3>5. PosSettled(p)
      BY <1>1, <1>4, <1>5, <1>10, <2>1, <3>2, <3>3, <3>4 DEF PosSettled, ReconcileEntry
    <3> QED BY <1>8, <3>5 DEF PosStep
  <2>2. CASE entry = NoRead
    <3>1. pos'[p] = pos[p] \/ pos'[p] = MarkIncident(pos[p])
      BY <1>1, <1>10, <2>2 DEF ReconcileEntry, Mismatch
    <3>2. pos'[p] = pos[p] \/ PosRaised(p)
      BY <1>1, <1>10, <3>1 DEF ReconcileEntry, MarkIncident, PosRaised, Same, PositionRow, Live
    <3> QED BY <1>8, <3>2 DEF PosStep
  <2> QED BY <2>1, <2>2
<1>11. CASE ReconcileOpen(p, entry)
  <2>1. pos'[p] = pos[p] \/ pos'[p] = MarkIncident(pos[p])
    BY <1>1, <1>11 DEF ReconcileOpen, Mismatch
  <2>2. pos'[p] = pos[p] \/ PosRaised(p)
    BY <1>1, <1>11, <2>1 DEF ReconcileOpen, MarkIncident, PosRaised, Same, PositionRow, Live
  <2> QED BY <1>8, <2>2 DEF PosStep
<1>12. CASE ReconcileClosing(p, entry, close)
  <2>1. pos[p].state = "CLOSING"
    BY <1>12 DEF ReconcileClosing
  <2>2. CASE ~Holds(p)
    <3>1. pos'[p] = ApplyCloseOutcome(pos[p], TRUE, 0)
      BY <1>1, <1>12, <2>2 DEF ReconcileClosing
    <3>2. PosFollowed(p)
      BY <1>1, <2>1, <2>2, <3>1 DEF ApplyCloseOutcome, PosFollowed, Same, PositionRow
    <3> QED BY <1>8, <3>2 DEF PosStep
  <2>3. CASE Holds(p) /\ close # NoRead /\ ReconciledState(close) \in Terminal
    <3>1. pos'[p] = ReleaseClose(pos[p])
      BY <1>1, <1>12, <2>3 DEF ReconcileClosing
    <3>2. PosReleased(p)
      BY <1>1, <1>6, <2>1, <2>3, <3>1 DEF ReleaseClose, PosReleased, PositionRow
    <3> QED BY <1>8, <3>2 DEF PosStep
  <2>4. CASE Holds(p) /\ ~(close # NoRead /\ ReconciledState(close) \in Terminal)
    <3>1. pos'[p] = ApplyCloseOutcome(pos[p], FALSE, Observed(p))
      BY <1>1, <1>12, <2>4 DEF ReconcileClosing
    <3>2. PosFollowed(p)
      BY <1>1, <2>1, <3>1 DEF ApplyCloseOutcome, PosFollowed, Same, PositionRow
    <3> QED BY <1>8, <3>2 DEF PosStep
  <2> QED BY <2>2, <2>3, <2>4
<1> QED BY <1>7, <1>9, <1>10, <1>11, <1>12

\* The deadline pass raises incidents and reinstates late fills.
LEMMA DeadlineStep ==
  ASSUME OrdersInv, NEW p \in Positions, EnforceOne(p), NEW q \in Positions
  PROVE  PosStep(q)
<1>1. /\ pos \in [Positions -> PositionRow] /\ pos[p] \in PositionRow
      /\ UNCHANGED held
  BY DEF OrdersInv, IInv, TypeOK, EnforceOne
<1> DEFINE c == WatchedOrder(p, pos[p])
<1>2. CASE EnforceLateFill(p)
  <2>1. /\ pos' = [pos EXCEPT ![p] = ApplyEntryOutcome(@, "FILLED", order[Entry(p)].filled)]
        /\ pos[p].state = "ABANDONED" /\ order[Entry(p)].filled > 0 /\ UNCHANGED bOrder
        /\ Enforcing
    BY <1>2 DEF EnforceLateFill, EnforceOne
  <2>2. PosReinstated(p) /\ (q # p => pos'[q] = pos[q])
    BY <1>1, <2>1 DEF ApplyEntryOutcome, PosReinstated, Same, PositionRow
  <2> QED BY <2>2 DEF PosStep
<1>3. CASE EnforceNothing(p)
  BY <1>3 DEF EnforceNothing, PosStep
<1>4. CASE EnforceUncancellable(p) \/ EnforceCancel(p)
  <2>1. CASE UNCHANGED pos
    BY <2>1 DEF PosStep
  <2>2. CASE ~UNCHANGED pos
    <3>1. \E kind : CancelFailed(p, c, kind)
      BY <1>4, <2>2 DEF EnforceUncancellable, EnforceCancel
    <3>2. pos' = [pos EXCEPT ![p] = MarkIncident(@)]
      BY <3>1 DEF CancelFailed
    <3>3. order[c].sent # "unset"
      BY <1>4 DEF EnforceUncancellable, EnforceCancel, PastDeadline
    <3>4. /\ ~order[c].known \/ bOrder[c].status \notin Working \/ Spend("fault")
          /\ Enforcing
      BY <1>4, <2>2 DEF EnforceUncancellable, EnforceCancel, EnforceOne
    <3> HIDE DEF c
    <3>5. pos'[p] = MarkIncident(pos[p]) /\ (q # p => pos'[q] = pos[q])
      BY <1>1, <3>2
    <3>6. CASE pos[p].state \in {"CLOSED", "ABANDONED", "NONE"}
      BY <3>5, <3>6 DEF MarkIncident, PosStep
    <3>7. CASE pos[p].state \notin {"CLOSED", "ABANDONED", "NONE"}
      <4>1. pos[p].state \in Live
        BY <1>1, <3>7 DEF PositionRow, PositionState, Live
      <4>2. pos'[p].state = "INCIDENT" /\ Same(p)
        BY <1>1, <3>5, <3>7 DEF MarkIncident, Same, PositionRow
      <4>3. PosRaised(p)
        BY <1>1, <3>3, <3>4, <4>1, <4>2 DEF PosRaised, c
      <4> QED BY <3>5, <4>3 DEF PosStep
    <3> QED BY <3>6, <3>7
  <2> QED BY <2>1, <2>2
<1> QED BY <1>2, <1>3, <1>4 DEF EnforceOne

\* What follows a submission for the position of its order.
LEMMA OutcomeStep ==
  ASSUME OrdersInv, EntryRefused \/ EntryAmbiguous \/ CloseRefused, NEW q \in Positions
  PROVE  PosStep(q)
<1> DEFINE p == Owner(cur)
<1>1. /\ pos \in [Positions -> PositionRow] /\ pc = "refused"
      /\ UNCHANGED <<bOrder, held>>
  BY DEF OrdersInv, IInv, TypeOK, EntryRefused, EntryAmbiguous, CloseRefused, broker
<1>2. /\ cur \in OrderIds /\ p \in Positions
      /\ IsEntry(cur) => pos[p].state = "PENDING" /\ cur = Entry(p)
  BY <1>1, OrderId DEF OrdersInv, IInv, Submitting
<1> HIDE DEF p
<1>3. pos[p] \in PositionRow
  BY <1>1, <1>2
<1>4. CASE EntryRefused
  <2>1. pos' = [pos EXCEPT ![p] = ApplyEntryOutcome(@, "REJECTED", 0)]
    BY <1>4 DEF EntryRefused, p
  <2>2. Same(p) /\ pos'[p].state = "ABANDONED" /\ (q # p => pos'[q] = pos[q])
    BY <1>1, <1>2, <1>3, <2>1 DEF ApplyEntryOutcome, Terminal, Same, PositionRow
  <2>3. bOrder[cur] = NoRead
    BY <1>4 DEF EntryRefused, OrdersInv, NotYetSent
  <2>4. PosSettled(p)
    BY <1>1, <1>2, <1>4, <2>2, <2>3 DEF EntryRefused, PosSettled, InFlight, NoRead, Working
  <2> QED BY <2>2, <2>4 DEF PosStep
<1>5. CASE EntryAmbiguous \/ CloseRefused
  <2>1. pos' = [pos EXCEPT ![p] = MarkIncident(@)]
    BY <1>5 DEF EntryAmbiguous, CloseRefused, p
  <2>2. pos'[p] = MarkIncident(pos[p]) /\ (q # p => pos'[q] = pos[q])
    BY <1>1, <1>2, <2>1
  <2>3. CASE pos[p].state \in {"CLOSED", "ABANDONED", "NONE"}
    BY <2>2, <2>3 DEF MarkIncident, PosStep
  <2>4. CASE pos[p].state \notin {"CLOSED", "ABANDONED", "NONE"}
    <3>1. pos[p].state \in Live
      BY <1>3, <2>4 DEF PositionRow, PositionState, Live
    <3>2. pos'[p].state = "INCIDENT" /\ Same(p)
      BY <1>3, <2>2, <2>4 DEF MarkIncident, Same, PositionRow
    <3>3. pos[p].state = "CLOSING" => ~IsEntry(cur) /\ pc' \notin Submission
      BY <1>2, <1>5 DEF EntryAmbiguous, CloseRefused, Submission
    <3>4. PosRaised(p)
      BY <1>1, <3>1, <3>2, <3>3 DEF PosRaised, p
    <3> QED BY <2>2, <3>4 DEF PosStep
  <2> QED BY <2>3, <2>4
<1> QED BY <1>4, <1>5

\* A management cycle and an entry decision.
LEMMA DecisionStep ==
  ASSUME OrdersInv, Turn, NEW q \in Positions
  PROVE  PosStep(q)
<1> USE DEF store, broker, pass, mind
<1>1. /\ pos \in [Positions -> PositionRow] /\ \A p \in Positions : pos[p] \in PositionRow
  BY DEF OrdersInv, IInv, TypeOK
<1>2. CASE UNCHANGED pos
  BY <1>2 DEF PosStep
<1>3. ASSUME NEW p \in Positions, PrepareEntry(p) PROVE PosStep(q)
  <2>1. /\ \E s \in Spreads : pos' = [pos EXCEPT ![p] = PreparedPosition(s)]
        /\ pc = "observe" /\ Active = {} /\ pos[p].state = "NONE" /\ UNCHANGED <<bOrder, held>>
        /\ cur' = Entry(p)
    BY <1>3 DEF PrepareEntry, SlotTaken
  <2>2. PosPrepared(p) /\ (q # p => pos'[q] = pos[q])
    BY <1>1, <2>1 DEF PreparedPosition, PosPrepared
  <2> QED BY <2>2 DEF PosStep
<1>4. ASSUME NEW p \in Positions, NEW kind, ManageFails(p, kind) PROVE PosStep(q)
  <2>1. /\ pos' = [pos EXCEPT ![p] = MarkIncident(@)] /\ pos[p].state = "OPEN" /\ UNCHANGED held
    BY <1>4 DEF ManageFails, Keep
  <2>2. PosRaised(p) /\ (q # p => pos'[q] = pos[q])
    BY <1>1, <2>1 DEF MarkIncident, PosRaised, Same, PositionRow, Live
  <2> QED BY <2>2 DEF PosStep
<1>5. ASSUME NEW p \in Positions, NEW t \in CloseTerms, NEW warned \in BOOLEAN,
             ManageCloses(p, t, warned)
      PROVE  PosStep(q)
  <2> DEFINE c == CloseId(p, pos[p].filled, t)
  <2>1. /\ c \in CloseIds /\ pos[p].state = "OPEN" /\ cur' = c /\ pc' = "preflight"
        /\ pc = "manage"
        /\ pos' = [pos EXCEPT ![p] = ClosingPosition(@, c)]
        /\ UNCHANGED <<bOrder, held>>
    BY <1>5 DEF ManageCloses, Managing, Keep
  <2>2. Owner(c) = p
    BY DEF CloseId, Owner
  <2> HIDE DEF c
  <2>3. PosCloses(p) /\ (q # p => pos'[q] = pos[q])
    BY <1>1, <2>1, <2>2 DEF ClosingPosition, PosCloses, PositionRow
  <2> QED BY <2>3 DEF PosStep
<1>6. ASSUME NEW p \in Positions, Manage(p) PROVE PosStep(q)
  BY <1>2, <1>4, <1>5, <1>6 DEF Manage, ManageHolds, ManageCollides
<1> QED BY <1>2, <1>3, <1>6 DEF Turn, BeginCycle, TurnEnds, DataHalts, CycleEnds

\* No step changes the row of a position in another way.
LEMMA PosSteps ==
  ASSUME OrdersInv, [Next]_vars, NEW q \in Positions
  PROVE  PosStep(q)
<1> USE DEF store, broker, pass, mind
<1>1. CASE UNCHANGED pos
  BY <1>1 DEF PosStep
<1>2. CASE Broker
  BY <1>1, <1>2 DEF Broker, BrokerRegisters, BrokerLoses, BrokerFills, BrokerEnds,
                    BrokerFillsLate, ContractLeaves
<1>3. CASE Pass
  BY <1>1, <1>3, VisitStep, DeadlineStep
     DEF Pass, ReadPositions, ReadOrders, Unreachable, ReconcileEnds, EnforceEnds
<1>4. CASE Gateway
  BY <1>1, <1>4, OutcomeStep
     DEF Gateway, PreflightPasses, PreflightRefuses, PreflightRaises, SendAccepted, SendRaises,
         LookUp, RecordSent, RecordUnsent
<1>5. CASE Turn
  BY <1>5, DecisionStep
<1>6. CASE \/ \E c \in OrderIds : TimePasses(c)
           \/ Start \/ Crash \/ Clocks \/ UNCHANGED vars
  BY <1>1, <1>6 DEF TimePasses, Start, Crash, Clocks, Tick, OrderClock, PositionClock, vars
<1> QED BY <1>2, <1>3, <1>4, <1>5, <1>6 DEF Next

-----------------------------------------------------------------------------
(* One strategy at a time, as long as the broker reports no fill on an entry it  *)
(* had ended.  A late fill is what lets two strategies exist: deadline.py then   *)
(* reinstates the first while the second is live.                               *)

NoLateFill == budget["late"] = MaxLate

\* A position that was closed had been open.
ClosedFilled ==
  \A p \in Positions : pos[p].state = "CLOSED" => bOrder[Entry(p)].filled > 0

OneActive == \A p, q \in Active : p = q

\* No two entries are in flight, and none is when one is about to be sent.
EntriesApart ==
  /\ \A p, q \in Positions : InFlight(Entry(p)) /\ InFlight(Entry(q)) => p = q
  /\ pc = "send" /\ IsEntry(cur) => \A p \in Positions : ~InFlight(Entry(p))

SlotInv ==
  /\ OrdersInv
  /\ budget["late"] <= MaxLate
  /\ ClosedFilled
  /\ NoLateFill => AbandonedMeansDead /\ OneActive /\ EntriesApart

\* What the broker filled stays filled.
LEMMA BrokerKeepsFills ==
  ASSUME OrdersInv, [Next]_vars, NEW c \in OrderIds
  PROVE  /\ bOrder[c].filled \in Nat /\ bOrder'[c].filled \in Nat
         /\ bOrder'[c].filled >= bOrder[c].filled
<1>1. OrderStep(c) /\ TypeOK /\ TypeOK'
  BY OrderSteps, StepInv DEF OrdersInv, IInv
<1>2. bOrder[c].filled \in Nat /\ bOrder'[c].filled \in Nat
  BY <1>1, TypeFacts, QuantityBounded DEF TypeOK, BrokerRead
<1>3. Sent(c) => bOrder[c].filled = 0
  BY DEF Sent, OrdersInv, NotYetSent, NoRead
<1> QED BY <1>1, <1>2, <1>3 DEF OrderStep, Sent, Registered, Filled, Ended, FilledLate

\* An entry on its way or working without a fill belongs to a position that waits
\* for it.
LEMMA InFlightWaits ==
  ASSUME SlotInv, NoLateFill, NEW p \in Positions,
         InFlight(Entry(p)), bOrder[Entry(p)].filled = 0
  PROVE  pos[p].state \in {"PENDING", "INCIDENT"} /\ p \in Active
<1>1. Entry(p) \in OrderIds /\ pos[p] \in PositionRow
  BY EntryId, TypeFacts DEF SlotInv, OrdersInv, IInv
<1>2. pos[p].state # "NONE"
  BY <1>1 DEF SlotInv, OrdersInv, IInv, Unprepared, OrderFacts, InFlight, NoRead, Working
<1>3. pos[p].state \notin {"OPEN", "CLOSING", "CLOSED"}
  BY DEF SlotInv, OrdersInv, IInv, NoPhantomExposure, ClosedFilled
<1>4. pos[p].state # "ABANDONED"
  BY DEF SlotInv, AbandonedMeansDead, Dead, InFlight, Working
<1> QED BY <1>1, <1>2, <1>3, <1>4 DEF PositionRow, PositionState, Active, Live

LEMMA SlotInit == Init => SlotInv
<1> SUFFICES ASSUME Init PROVE SlotInv
  OBVIOUS
<1>1. OrdersInv
  BY OrdersInit
<1>2. budget["late"] <= MaxLate
  BY AgentAssumption DEF Init
<1>3. ClosedFilled /\ AbandonedMeansDead /\ OneActive
  BY DEF Init, ClosedFilled, AbandonedMeansDead, OneActive, Active, NoPositionRow, Live
<1>4. EntriesApart
  BY EntryId DEF Init, EntriesApart, InFlight, NoRead, Working
<1> QED BY <1>1, <1>2, <1>3, <1>4 DEF SlotInv

LEMMA SlotStep == SlotInv /\ [Next]_vars => SlotInv'
<1> SUFFICES ASSUME SlotInv, [Next]_vars PROVE SlotInv'
  OBVIOUS
<1>1. OrdersInv /\ OrdersInv' /\ IInv /\ TypeOK
  BY OrdersStep DEF SlotInv, OrdersInv, IInv
<1>2. /\ \A c \in OrderIds : OrderStep(c)
      /\ \A p \in Positions : PosStep(p)
      /\ SubmissionStep
  BY <1>1, OrderSteps, PosSteps, SubmissionSteps
<1>3. /\ budget'["late"] <= MaxLate
      /\ NoLateFill' => NoLateFill /\ ~Spend("late")
  <2>1. budget["late"] <= MaxLate /\ MaxLate \in Nat
    BY AgentAssumption DEF SlotInv
  <2> QED BY <1>1, <2>1, BudgetFalls DEF NoLateFill
<1>4. ClosedFilled'
  <2> SUFFICES ASSUME NEW p \in Positions, pos'[p].state = "CLOSED"
               PROVE  bOrder'[Entry(p)].filled > 0
    BY DEF ClosedFilled
  <2>1. pos[p].state \in {"CLOSED", "CLOSING"}
    BY <1>2 DEF PosStep, PosPrepared, PosRaised, PosSettled, PosFollowed, PosReleased,
                PosCloses, PosReinstated
  <2>2. bOrder[Entry(p)].filled > 0
    BY <2>1 DEF SlotInv, ClosedFilled, OrdersInv, IInv, NoPhantomExposure
  <2> QED BY <1>1, <2>2, EntryId, BrokerKeepsFills
<1>5. ASSUME NoLateFill' PROVE AbandonedMeansDead' /\ OneActive' /\ EntriesApart'
  <2>1. NoLateFill /\ AbandonedMeansDead /\ OneActive /\ EntriesApart
    BY <1>3, <1>5 DEF SlotInv
  <2>2. \A p \in Positions : ~FilledLate(Entry(p))
    BY <1>3, <1>5 DEF FilledLate
  <2>3. \A p \in Positions : ~PosReinstated(p)
    <3> SUFFICES ASSUME NEW p \in Positions, pos[p].state = "ABANDONED"
                 PROVE  ~(order[Entry(p)].filled > 0)
      BY DEF PosReinstated
    <3>1. bOrder[Entry(p)].filled = 0
      BY <2>1 DEF AbandonedMeansDead, Dead
    <3>2. order[Entry(p)].filled <= bOrder[Entry(p)].filled /\ order[Entry(p)].filled \in Nat
      BY <1>1, EntryId, TypeFacts DEF IInv, NeverAheadOfBroker
    <3> QED BY <3>1, <3>2
  <2>4. AbandonedMeansDead'
    <3> SUFFICES ASSUME NEW p \in Positions, pos'[p].state = "ABANDONED"
                 PROVE  Dead(Entry(p))'
      BY DEF AbandonedMeansDead
    <3> DEFINE e == Entry(p)
    <3>1. e \in OrderIds /\ IsEntry(e) /\ Owner(e) = p /\ bOrder[e] \in BrokerRead
      BY <1>1, EntryId, TypeFacts
    <3>2. CASE pos[p].state = "ABANDONED"
      <4>1. Dead(e)
        BY <2>1, <3>2 DEF AbandonedMeansDead
      <4>2. ~Sent(e)
        BY <1>1, <3>1, <3>2 DEF Sent, IInv, Submitting
      <4> HIDE DEF e
      <4>3. bOrder'[e] = bOrder[e]
        BY <1>2, <2>2, <3>1, <4>1, <4>2
           DEF OrderStep, Registered, Filled, Ended, Dead, Working, e
      <4> QED BY <4>1, <4>3 DEF Dead, e
    <3>3. CASE pos[p].state # "ABANDONED"
      <4>1. PosSettled(p)
        BY <1>2, <3>3 DEF PosStep, PosPrepared, PosRaised, PosFollowed, PosReleased, PosCloses,
                          PosReinstated
      <4>2. bOrder' = bOrder /\ bOrder[e].filled = 0 /\ ~InFlight(e)
        BY <4>1 DEF PosSettled
      <4>3. bOrder[e].status # "filled"
        BY <1>1, <3>1, <4>2 DEF OrdersInv, OrderFacts
      <4> HIDE DEF e
      <4> QED BY <3>1, <4>2, <4>3 DEF Dead, InFlight, BrokerRead, BrokerStatus, Working, e
    <3> QED BY <3>2, <3>3
  <2>5. \A p \in Positions : p \in Active' => p \in Active \/ PosPrepared(p)
    BY <1>2, <2>3 DEF PosStep, PosRaised, PosSettled, PosFollowed, PosReleased,
                      PosCloses, Active, Live
  <2>6. OneActive'
    <3> SUFFICES ASSUME NEW p \in Positions, NEW q \in Positions, p \in Active', q \in Active'
                 PROVE  p = q
      BY DEF OneActive, Active
    <3>1. CASE p \in Active /\ q \in Active
      BY <2>1, <3>1 DEF OneActive
    <3>2. CASE PosPrepared(p) /\ PosPrepared(q)
      BY <3>2, EntryId DEF PosPrepared
    <3> QED BY <2>5, <3>1, <3>2 DEF PosPrepared
  <2>7. \A p \in Positions : InFlight(Entry(p))' => InFlight(Entry(p)) \/ Sent(Entry(p))
    <3> SUFFICES ASSUME NEW p \in Positions, InFlight(Entry(p))', ~Sent(Entry(p))
                 PROVE  InFlight(Entry(p))
      OBVIOUS
    <3>1. OrderStep(Entry(p))
      BY <1>2, EntryId
    <3> QED BY <2>2, <3>1 DEF OrderStep, Registered, Filled, Ended, InFlight, Working
  <2>8. \A p, q \in Positions : InFlight(Entry(p))' /\ InFlight(Entry(q))' => p = q
    <3> SUFFICES ASSUME NEW p \in Positions, NEW q \in Positions,
                        InFlight(Entry(p))', InFlight(Entry(q))'
                 PROVE  p = q
      OBVIOUS
    <3>1. CASE InFlight(Entry(p)) /\ InFlight(Entry(q))
      BY <2>1, <3>1 DEF EntriesApart
    <3>2. CASE Sent(Entry(p)) \/ Sent(Entry(q))
      <4>1. pc = "send" /\ IsEntry(cur)
        BY <3>2, EntryId DEF Sent
      <4>2. Sent(Entry(p)) /\ Sent(Entry(q))
        BY <2>1, <2>7, <4>1 DEF EntriesApart
      <4> QED BY <4>2, EntryId DEF Sent
    <3> QED BY <2>7, <3>1, <3>2
  <2>9. ASSUME pc' = "send", IsEntry(cur'), NEW p \in Positions PROVE ~InFlight(Entry(p))'
    <3>1. cur' = cur /\ cur \in OrderIds /\ ~Sent(Entry(p))
      BY <1>1, <1>2, <2>9
         DEF SubmissionStep, Submission, Sent, IInv, Submitting
    <3>2. CASE pc = "send"
      BY <2>1, <2>7, <2>9, <3>1, <3>2 DEF EntriesApart
    <3>3. CASE pc = "preflight" /\ StrategyCountIsZero
      <4>1. bOrder[Entry(p)].status \notin Working
        BY <3>3, EntryId DEF StrategyCountIsZero
      <4>2. ASSUME InFlight(Entry(p)) PROVE FALSE
        <5>1. bOrder[Entry(p)].filled = 0
          BY <1>1, <4>1, <4>2, EntryId DEF InFlight, OrdersInv, OrderFacts, Invisible
        <5>2. p \in Active
          BY <2>1, <4>2, <5>1, InFlightWaits
        <5>3. Owner(cur) \in Positions /\ Owner(cur) \in Active /\ cur = Entry(Owner(cur))
          BY <1>1, <2>9, <3>1, <3>3, OrderId DEF IInv, Submitting, Active, Live
        <5>4. cur = Entry(p)
          BY <2>1, <5>2, <5>3 DEF OneActive
        <5> QED BY <1>1, <3>3, <4>2, <5>4 DEF OrdersInv, NotYetSent, InFlight, NoRead, Working
      <4> QED BY <2>7, <3>1, <4>2
    <3> QED BY <1>2, <2>9, <3>1, <3>2, <3>3 DEF SubmissionStep
  <2>10. EntriesApart'
    BY <2>8, <2>9 DEF EntriesApart
  <2> QED BY <2>4, <2>6, <2>10
<1> QED BY <1>1, <1>3, <1>4, <1>5 DEF SlotInv

LEMMA SlotInductive == Spec => []SlotInv
BY SlotInit, SlotStep, PTL DEF Spec

\* A set of one element at most.
LEMMA AtMostOne ==
  ASSUME NEW S, \A x, y \in S : x = y
  PROVE  Cardinality(S) <= 1
<1>1. CASE S = {}
  BY <1>1, FS_EmptySet
<1>2. CASE S # {}
  <2>1. PICK x : x \in S
    BY <1>2
  <2>2. S = {x}
    BY <2>1
  <2> QED BY <2>2, FS_Singleton
<1> QED BY <1>1, <1>2

LEMMA SlotHolds == SlotInv /\ NoLateFill => OneStrategy /\ AbandonedMeansDead
<1> SUFFICES ASSUME SlotInv, NoLateFill PROVE OneStrategy /\ AbandonedMeansDead
  OBVIOUS
<1>1. AbandonedMeansDead /\ OneActive /\ EntriesApart
  BY DEF SlotInv
<1>2. Cardinality(Active) <= 1
  BY <1>1, AtMostOne DEF OneActive
<1> QED BY <1>1, <1>2 DEF OneStrategy, EntriesApart, InFlight

\* Whatever the quantity of an entry, however often the process crashes and however
\* many responses are lost: until the broker fills an entry it had ended, at most
\* one position may hold exposure and at most one entry is in flight.
THEOREM OneStrategyUntilLateFill == Spec => [](NoLateFill => OneStrategy)
BY SlotInductive, SlotHolds, PTL

\* Until then a position is abandoned only when its entry is dead at the broker: an
\* entry that was refused was never sent, and one that ended was read after it ended.
THEOREM AbandonedUntilLateFill == Spec => [](NoLateFill => AbandonedMeansDead)
BY SlotInductive, SlotHolds, PTL

-----------------------------------------------------------------------------
(* Exposure that some row answers for, with one contract per strategy.  With more *)
(* an entry may fill in part, its first contracts be closed and the rest arrive   *)
(* for a row that no pass visits any more.                                        *)

\* Before its entry fills there is nothing at the broker.
FlatUntilFilled ==
  \A p \in Active : bOrder[Entry(p)].filled = 0 => \A s \in Symbols : held[s] = 0

\* The positions read at the start of a pass still cover what is held of the legs of
\* a closing position when the pass judges it.
ViewCovers ==
  \A p \in Positions :
    /\ pos[p].state = "CLOSING"
    /\ pc = "rec_orders" \/ (pc = "rec_one" /\ p \in todo)
    => \A s \in Legs(p) : held[s] # 0 => view[s] # 0

ExposureInv ==
  /\ SlotInv
  /\ NoLateFill => ExposureOwned /\ FlatUntilFilled /\ ViewCovers

LEMMA ExposureInit == Init => ExposureInv
<1> SUFFICES ASSUME Init PROVE ExposureInv
  OBVIOUS
<1>1. ExposureOwned /\ FlatUntilFilled /\ ViewCovers
  BY DEF Init, ExposureOwned, FlatUntilFilled, ViewCovers, Nothing
<1> QED BY <1>1, SlotInit DEF ExposureInv

\* Legs are symbols.
LEMMA LegsAreSymbols ==
  ASSUME TypeOK, NEW p \in Positions
  PROVE  Legs(p) \subseteq Symbols
BY LifecycleAssumption DEF TypeOK, PositionRow, Legs

\* A step that fills an entry for the first time fills the one of a waiting position.
LEMMA OpenedWaits ==
  ASSUME ExposureInv, NoLateFill, Quantity = 1, [Next]_vars, ~Spend("late"),
         NEW p \in Positions, Opened(p)
  PROVE  /\ pos[p].state \in {"PENDING", "INCIDENT"} /\ p \in Active
         /\ bOrder'[Entry(p)].filled = 1
<1>1. Filled(Entry(p))
  BY DEF Opened, FilledLate
<1>2. OrderQuantity(Entry(p)) = 1 /\ bOrder[Entry(p)].filled \in Nat
  BY EntryId, TypeFacts DEF ExposureInv, SlotInv, OrdersInv, IInv
<1>3. bOrder[Entry(p)].filled = 0 /\ InFlight(Entry(p))
  BY <1>1, <1>2 DEF Filled, InFlight
<1> QED BY <1>1, <1>3, InFlightWaits DEF ExposureInv, Filled

LEMMA ExposureStep ==
  ASSUME Quantity = 1
  PROVE  ExposureInv /\ [Next]_vars => ExposureInv'
<1> SUFFICES ASSUME ExposureInv, [Next]_vars, NoLateFill'
             PROVE  ExposureOwned' /\ FlatUntilFilled' /\ ViewCovers'
  BY SlotStep DEF ExposureInv
<1>1. /\ SlotInv /\ SlotInv' /\ OrdersInv /\ IInv /\ TypeOK /\ TypeOK'
      /\ NoLateFill /\ ~Spend("late")
  <2>1. SlotInv /\ SlotInv' /\ OrdersInv /\ OrdersInv' /\ IInv /\ IInv'
    BY SlotStep DEF ExposureInv, SlotInv, OrdersInv
  <2>2. TypeOK /\ TypeOK' /\ budget["late"] <= MaxLate /\ MaxLate \in Nat
    BY <2>1, AgentAssumption DEF IInv, SlotInv
  <2> QED BY <2>1, <2>2, BudgetFalls DEF NoLateFill
<1>2. /\ ExposureOwned /\ FlatUntilFilled /\ ViewCovers
      /\ OneActive /\ OneActive' /\ AbandonedMeansDead
  BY <1>1 DEF ExposureInv, SlotInv
<1>3. /\ \A p \in Positions : PosStep(p) /\ ~PosReinstated(p)
      /\ Shrinks \/ \E p \in Positions : Opened(p)
      /\ UNCHANGED held \/ UNCHANGED <<pos, view, pc, todo>>
  <2>1. \A p \in Positions : ~PosReinstated(p)
    <3> SUFFICES ASSUME NEW p \in Positions, pos[p].state = "ABANDONED"
                 PROVE  ~(order[Entry(p)].filled > 0)
      BY DEF PosReinstated
    <3>1. bOrder[Entry(p)].filled = 0
      BY <1>2 DEF AbandonedMeansDead, Dead
    <3>2. order[Entry(p)].filled <= bOrder[Entry(p)].filled /\ order[Entry(p)].filled \in Nat
      BY <1>1, EntryId, TypeFacts DEF IInv, NeverAheadOfBroker
    <3> QED BY <3>1, <3>2
  <2> QED BY <1>1, <2>1, PosSteps, HeldSteps
<1>4. \A p \in Positions : Opened(p) =>
        /\ pos[p].state \in {"PENDING", "INCIDENT"} /\ p \in Active
        /\ bOrder'[Entry(p)].filled = 1
  BY <1>1, OpenedWaits
<1>5. ExposureOwned'
  <2> SUFFICES ASSUME NEW s \in Symbols, held'[s] # 0
               PROVE  \E p \in Active' : s \in Legs(p)'
    BY DEF ExposureOwned
  <2>1. CASE ~UNCHANGED held
    <3>1. Active' = Active /\ \A p \in Positions : Legs(p)' = Legs(p)
      BY <1>3, <2>1 DEF Active, Legs
    <3>2. CASE held[s] # 0
      BY <1>2, <3>1, <3>2 DEF ExposureOwned, Active
    <3>3. CASE held[s] = 0
      BY <1>3, <1>4, <3>1, <3>3 DEF Shrinks, Opened, Active
    <3> QED BY <3>2, <3>3
  <2>2. CASE UNCHANGED held
    <3>1. PICK p \in Positions : p \in Active /\ s \in Legs(p)
      BY <1>2, <2>2 DEF ExposureOwned, Active
    <3>2. pos'[p].spread = pos[p].spread
      BY <1>3, <3>1 DEF PosStep, PosPrepared, PosRaised, PosSettled, PosFollowed, PosReleased,
                        PosCloses, Same, Active, Live
    <3>3. pos'[p].state \in Live
      <4>1. CASE PosSettled(p) /\ pos'[p].state = "ABANDONED"
        BY <1>2, <2>2, <3>1, <4>1 DEF PosSettled, FlatUntilFilled
      <4>2. CASE PosFollowed(p) /\ pos'[p].state = "CLOSED"
        BY <1>2, <2>2, <3>1, <4>2 DEF PosFollowed, ViewCovers, Holds
      <4> QED
        BY <1>3, <3>1, <4>1, <4>2
           DEF PosStep, PosPrepared, PosRaised, PosSettled, PosFollowed, PosReleased,
               PosCloses, Active, Live
    <3> QED BY <3>1, <3>2, <3>3 DEF Active, Legs
  <2> QED BY <2>1, <2>2
<1>6. FlatUntilFilled'
  <2> SUFFICES ASSUME NEW p \in Positions, p \in Active', bOrder'[Entry(p)].filled = 0,
                      NEW s \in Symbols
               PROVE  held'[s] = 0
    BY DEF FlatUntilFilled, Active
  <2>1. bOrder[Entry(p)].filled = 0
    BY <1>1, EntryId, BrokerKeepsFills
  <2>2. CASE p \in Active
    <3>1. \A t \in Symbols : held[t] = 0
      BY <1>2, <2>1, <2>2 DEF FlatUntilFilled
    <3>2. \A q \in Positions : ~Opened(q)
      BY <1>2, <1>4, <2>2 DEF OneActive
    <3> QED BY <1>3, <3>1, <3>2 DEF Shrinks
  <2>3. CASE p \notin Active
    <3>1. PosPrepared(p)
      BY <1>3, <2>3 DEF PosStep, PosRaised, PosSettled, PosFollowed, PosReleased, PosCloses,
                        Active, Live
    <3> QED BY <1>2, <3>1 DEF PosPrepared, ExposureOwned
  <2> QED BY <2>2, <2>3
<1>7. ViewCovers'
  <2> SUFFICES ASSUME NEW p \in Positions, pos'[p].state = "CLOSING",
                      pc' = "rec_orders" \/ (pc' = "rec_one" /\ p \in todo'),
                      NEW s, s \in Legs(p)', held'[s] # 0
               PROVE  view'[s] # 0
    BY DEF ViewCovers
  <2>1. PassStep
    BY <1>1, PassSteps
  <2>2. CASE pc = "rec_positions" /\ view' = held /\ UNCHANGED held
    BY <2>2
  <2>3. CASE \/ pc \in {"rec_orders", "rec_one"} /\ view' = view
             \/ \E q \in Positions : ReconcileOne(q)
    <3>1. pc \in {"rec_orders", "rec_one"}
      BY <2>3 DEF ReconcileOne
    <3>2. pos[p].state = "CLOSING" /\ pos'[p].spread = pos[p].spread /\ p \in Active
      BY <1>3, <3>1 DEF PosStep, PosPrepared, PosRaised, PosSettled, PosFollowed, PosReleased,
                        PosCloses, Same, Active, Live
    <3>3. s \in Legs(p) /\ s \in Symbols
      BY <1>1, <3>2, LegsAreSymbols DEF Legs
    <3>4. held[s] # 0
      <4>1. \A q \in Positions : ~Opened(q)
        BY <1>2, <1>4, <3>2 DEF OneActive
      <4> QED BY <1>3, <3>3, <4>1 DEF Shrinks
    <3>5. pc = "rec_orders" \/ (pc = "rec_one" /\ p \in todo)
      BY <2>1, <2>3, <3>1 DEF PassStep, ReconcileOne
    <3>6. view[s] # 0
      BY <1>2, <3>2, <3>3, <3>4, <3>5 DEF ViewCovers
    <3>7. view' = view
      <4> SUFFICES ASSUME NEW q \in Positions, ReconcileOne(q) PROVE view' = view
        BY <2>3
      <4>1. q \in todo /\ todo' = todo \ {q} /\ pc' = "rec_one"
        BY DEF ReconcileOne, NextToVisit
      <4>2. q # p
        BY <4>1
      <4>3. pos[q].state = "ABANDONED"
        <5>1. q \notin Active
          BY <1>2, <3>2, <4>2 DEF OneActive
        <5> QED BY <5>1 DEF ReconcileOne, ReconcileAbandoned, ReconcileEntry, ReconcileOpen,
                            ReconcileClosing, Active, Live
      <4> QED BY <4>3 DEF ReconcileOne
    <3> QED BY <3>6, <3>7
  <2> QED BY <2>1, <2>2, <2>3 DEF PassStep
<1> QED BY <1>5, <1>6, <1>7

\* With one contract per strategy, and until the broker fills an entry it had ended,
\* no leg the broker holds is without a live row that names it: through crashes,
\* failed reads, stale views and contracts moved from outside.
THEOREM ExposureOwnedUntilLateFill ==
  ASSUME Quantity = 1
  PROVE  Spec => [](NoLateFill => ExposureOwned)
<1>1. ExposureInv /\ [Next]_vars => ExposureInv'
  BY ExposureStep
<1>2. ExposureInv => (NoLateFill => ExposureOwned)
  BY DEF ExposureInv
<1> QED BY <1>1, <1>2, ExposureInit, PTL DEF Spec

\* With a broker that never fills an ended entry the three hold for ever.
THEOREM WithoutLateFills ==
  ASSUME MaxLate = 0, Quantity = 1
  PROVE  Spec => [](OneStrategy /\ AbandonedMeansDead /\ ExposureOwned)
<1>1. SlotInv => NoLateFill
  BY AgentAssumption DEF SlotInv, OrdersInv, IInv, TypeOK, NoLateFill
<1>2. Spec => [](NoLateFill => ExposureOwned)
  BY ExposureOwnedUntilLateFill
<1> QED BY <1>1, <1>2, SlotInductive, SlotHolds, PTL

-----------------------------------------------------------------------------
(* One close at a time, as long as no call of the process fails.  A failed send   *)
(* leaves a close working that the position, an incident by then, does not name. *)

NoFault == budget["fault"] = MaxFaults

\* A close being submitted is the one its position waits for.
CloseSubmitting ==
  pc \in Submission /\ ~IsEntry(cur) =>
    pos[Owner(cur)].state = "CLOSING" /\ pos[Owner(cur)].close = cur

\* Nothing is on its way unseen, and a close in flight is the one its row names.
CloseFollowed ==
  /\ \A c \in OrderIds : bOrder[c].status # "transit"
  /\ \A c \in CloseIds :
       InFlight(c) => /\ pos[Owner(c)].close = c
                      /\ pos[Owner(c)].state \in {"CLOSING", "CLOSED"}

\* What was not accepted is not at the broker.
UnsentIsAbsent ==
  \/ pc \in {"preflight", "send", "lookup", "refused"}
  \/ pc = "record" /\ reply \notin {"accepted", "located"}
  => bOrder[cur] = NoRead

\* An order recorded without the broker's id is not in flight.
UnknownNotInFlight ==
  \A c \in OrderIds : order[c].sent # "unset" /\ ~order[c].known => ~InFlight(c)

CloseInv ==
  /\ OrdersInv
  /\ budget["fault"] <= MaxFaults
  /\ CloseSubmitting
  /\ NoFault => CloseFollowed /\ UnsentIsAbsent /\ UnknownNotInFlight

LEMMA CloseInit == Init => CloseInv
<1> SUFFICES ASSUME Init PROVE CloseInv
  OBVIOUS
<1>1. OrdersInv
  BY OrdersInit
<1>2. budget["fault"] <= MaxFaults
  BY AgentAssumption DEF Init
<1>3. CloseSubmitting /\ UnsentIsAbsent
  BY DEF Init, CloseSubmitting, UnsentIsAbsent, Submission
<1>4. CloseFollowed /\ UnknownNotInFlight
  BY DEF Init, CloseFollowed, UnknownNotInFlight, InFlight, NoRead, NoOrderRow, Working, OrderIds
<1> QED BY <1>1, <1>2, <1>3, <1>4 DEF CloseInv

\* An order the broker knows nothing of stays unknown until it is sent.
LEMMA UnknownUntilSent ==
  ASSUME IInv, [Next]_vars, NEW c \in OrderIds, bOrder[c] = NoRead, pc # "send" \/ c # cur
  PROVE  bOrder'[c] = NoRead
BY OrderSteps DEF OrderStep, Sent, Registered, Filled, Ended, FilledLate, NoRead, Working

LEMMA CloseStep == CloseInv /\ [Next]_vars => CloseInv'
<1> SUFFICES ASSUME CloseInv, [Next]_vars PROVE CloseInv'
  OBVIOUS
<1>1. OrdersInv /\ OrdersInv' /\ IInv /\ IInv' /\ TypeOK
  BY OrdersStep DEF CloseInv, OrdersInv, IInv
<1>2. /\ \A c \in OrderIds : OrderStep(c) /\ RowStep(c)
      /\ \A p \in Positions : PosStep(p)
      /\ SubmissionStep
  BY <1>1, OrderSteps, RowSteps, PosSteps, SubmissionSteps
<1>3. /\ budget'["fault"] <= MaxFaults
      /\ NoFault' => NoFault /\ ~Spend("fault")
  <2>1. budget["fault"] <= MaxFaults /\ MaxFaults \in Nat
    BY AgentAssumption DEF CloseInv
  <2> QED BY <1>1, <2>1, BudgetFalls DEF NoFault
<1>4. /\ pc \in Submission => cur \in OrderIds /\ Owner(cur) \in Positions
      /\ pc' \in Submission => cur' \in OrderIds /\ Owner(cur') \in Positions
  BY <1>1, OrderId DEF IInv, Submitting, Submission
<1>5. CloseSubmitting'
  <2> SUFFICES ASSUME pc' \in Submission, ~IsEntry(cur')
               PROVE  pos'[Owner(cur')].state = "CLOSING" /\ pos'[Owner(cur')].close = cur'
    BY DEF CloseSubmitting
  <2>1. CASE pc \notin Submission
    BY <1>2, <2>1 DEF SubmissionStep
  <2>2. CASE pc \in Submission
    <3> DEFINE p == Owner(cur)
    <3>1. cur' = cur /\ p \in Positions /\ pos[p].state = "CLOSING" /\ pos[p].close = cur
      BY <1>2, <1>4, <2>2 DEF SubmissionStep, CloseInv, CloseSubmitting
    <3> HIDE DEF p
    <3>2. pos'[p] = pos[p]
      BY <1>2, <2>2, <3>1
         DEF PosStep, PosPrepared, PosRaised, PosSettled, PosFollowed, PosReleased, PosCloses,
             PosReinstated, Enforcing, Submission
    <3> QED BY <3>1, <3>2 DEF p
  <2> QED BY <2>1, <2>2
<1>6. ASSUME NoFault' PROVE CloseFollowed' /\ UnsentIsAbsent' /\ UnknownNotInFlight'
  <2>1. NoFault /\ ~Spend("fault") /\ CloseFollowed /\ UnsentIsAbsent /\ UnknownNotInFlight
    BY <1>3, <1>6 DEF CloseInv
  <2>2. \A c \in OrderIds : bOrder'[c].status # "transit"
    BY <1>2, <2>1
       DEF OrderStep, Sent, Registered, Filled, Ended, FilledLate, CloseFollowed, Working
  <2>3. \A c \in OrderIds : InFlight(c)' => InFlight(c) \/ Sent(c)
    BY <1>2, <2>1
       DEF OrderStep, Registered, Filled, Ended, FilledLate, InFlight, CloseFollowed, Working
  <2>4. ASSUME NEW c \in CloseIds, InFlight(c)'
        PROVE  pos'[Owner(c)].close = c /\ pos'[Owner(c)].state \in {"CLOSING", "CLOSED"}
    <3> DEFINE p == Owner(c)
    <3>1. c \in OrderIds /\ p \in Positions /\ ~IsEntry(c) /\ c # NoOrder
      <4>1. c \in OrderIds
        BY DEF OrderIds
      <4>2. ~IsEntry(c)
        BY LifecycleAssumption DEF CloseIds, IsEntry
      <4> QED BY <4>1, <4>2, OrderId, NoOrderIsNone
    <3>2. CASE Sent(c)
      <4>1. UNCHANGED pos /\ pc \in Submission /\ cur = c
        BY <3>2 DEF Sent, Submission
      <4> QED BY <3>1, <4>1 DEF CloseInv, CloseSubmitting
    <3>3. CASE InFlight(c)
      <4>1. pos[p].close = c /\ pos[p].state \in {"CLOSING", "CLOSED"}
        BY <2>1, <3>3 DEF CloseFollowed
      <4>2. ~PosRaised(p)
        <5> SUFFICES ASSUME PosRaised(p) PROVE FALSE
          OBVIOUS
        <5>1. pos[p].state = "CLOSING"
          BY <4>1 DEF PosRaised, Live
        <5>2. CASE pc = "refused" /\ ~IsEntry(cur) /\ Owner(cur) = p
          <6>1. cur = c
            BY <4>1, <5>2 DEF CloseInv, CloseSubmitting, Submission
          <6> QED BY <2>1, <3>3, <5>2, <6>1 DEF UnsentIsAbsent, InFlight, NoRead, Working
        <5>3. CASE /\ order[c].sent # "unset"
                   /\ ~order[c].known \/ bOrder[c].status \notin Working \/ Spend("fault")
          BY <2>1, <3>1, <3>3, <5>3 DEF UnknownNotInFlight, CloseFollowed, InFlight
        <5> QED BY <3>1, <4>1, <5>1, <5>2, <5>3 DEF PosRaised, WatchedOrder
      <4> HIDE DEF p
      <4>3. pos'[p].close = c /\ pos'[p].state \in {"CLOSING", "CLOSED"}
        BY <1>2, <3>1, <3>3, <4>1, <4>2
           DEF PosStep, PosPrepared, PosSettled, PosFollowed, PosReleased, PosCloses,
               PosReinstated, Same
      <4> QED BY <4>3 DEF p
    <3> QED BY <2>3, <2>4, <3>1, <3>2, <3>3
  <2>5. UnsentIsAbsent'
    <3>1. pc' \in {"preflight", "send"} => bOrder'[cur'] = NoRead
      BY <1>1 DEF OrdersInv, NotYetSent
    <3>2. ASSUME \/ pc' \in {"lookup", "refused"}
                 \/ pc' = "record" /\ reply' \notin {"accepted", "located"}
          PROVE  bOrder'[cur'] = NoRead
      <4>1. cur' = cur /\ cur \in OrderIds
        BY <1>2, <1>4, <3>2 DEF SubmissionStep, Submission
      <4>2. /\ bOrder[cur] = NoRead
            /\ pc = "send" => UNCHANGED bOrder
        BY <1>2, <2>1, <3>2 DEF SubmissionStep, UnsentIsAbsent
      <4> QED BY <1>1, <4>1, <4>2, UnknownUntilSent
    <3> QED BY <3>1, <3>2 DEF UnsentIsAbsent
  <2>6. UnknownNotInFlight'
    <3> SUFFICES ASSUME NEW c \in OrderIds, order'[c].sent # "unset", ~order'[c].known,
                        InFlight(c)'
                 PROVE  FALSE
      BY DEF UnknownNotInFlight
    <3>1. ~Sent(c)
      BY <1>1 DEF Sent, OrdersInv, NotYetSent
    <3>2. InFlight(c)
      BY <2>3, <3>1
    <3>3. ~RowRecorded(c)
      BY <2>1, <3>2 DEF RowRecorded, UnsentIsAbsent, InFlight, NoRead, Working
    <3>4. ~RowPrepared(c)
      BY DEF RowPrepared, PreparedOrder, NoOrderRow
    <3> QED BY <1>2, <2>1, <3>2, <3>3, <3>4 DEF RowStep, RowRead, RowAged, UnknownNotInFlight
  <2> QED BY <2>2, <2>4, <2>5, <2>6 DEF CloseFollowed
<1> QED BY <1>1, <1>3, <1>5, <1>6 DEF CloseInv

LEMMA CloseHolds == CloseInv /\ NoFault => OneCloseWorking
<1> SUFFICES ASSUME CloseInv, NoFault, NEW p \in Positions
             PROVE  Cardinality(WorkingCloses(p)) <= 1
  BY DEF OneCloseWorking
<1>1. \A c \in WorkingCloses(p) : c = pos[p].close
  BY DEF CloseInv, CloseFollowed, WorkingCloses, InFlight
<1> QED BY <1>1, AtMostOne

\* Whatever the quantity, however often the process dies between the steps of a
\* submission and whatever is filled late or moved from outside: until a call of the
\* process fails, no position has two closes at the broker.
THEOREM OneCloseUntilFault ==
  Spec => [](NoFault => OneCloseWorking)
BY CloseInit, CloseStep, CloseHolds, PTL DEF Spec

-----------------------------------------------------------------------------
(* Rows that contest a symbol are held out of a pass.  The set is computed once, *)
(* and the visits of the pass do not make it grow.                              *)

ContestInv == OrdersInv /\ (pc = "rec_one" => todo \cap HeldOut = {})

\* Within the visits of a pass no row becomes live and no legs change.
LEMMA HeldOutShrinks ==
  ASSUME OrdersInv, [Next]_vars, pc = "rec_one"
  PROVE  HeldOut' \subseteq HeldOut
<1>1. \A p \in Positions : /\ p \in Active' => p \in Active
                           /\ Legs(p)' = Legs(p)
  BY PosSteps DEF PosStep, PosPrepared, PosRaised, PosSettled, PosFollowed, PosReleased, PosCloses,
                  PosReinstated, Same, Enforcing, Active, Live, Legs
<1>2. Contested' \subseteq Contested
  BY <1>1 DEF Contested, Active
<1> QED BY <1>1, <1>2 DEF HeldOut

LEMMA ContestStep == ContestInv /\ [Next]_vars => ContestInv'
<1> SUFFICES ASSUME ContestInv, [Next]_vars, pc' = "rec_one" PROVE todo' \cap HeldOut' = {}
  BY OrdersStep DEF ContestInv
<1>1. PassStep
  BY PassSteps DEF ContestInv, OrdersInv
<1>2. CASE pc = "rec_orders" /\ UNCHANGED pos /\ todo' = Managed \ HeldOut
  <2>1. HeldOut' = HeldOut
    BY <1>2 DEF HeldOut, Contested, Active, Legs
  <2> QED BY <1>2, <2>1
<1>3. CASE pc = "rec_one" /\ todo' \subseteq todo
  BY <1>3, HeldOutShrinks DEF ContestInv
<1> QED BY <1>1, <1>2, <1>3 DEF PassStep, ReconcileOne

\* A position changes within the visits of a pass by its own visit only.
LEMMA OwnVisit ==
  ASSUME OrdersInv, [Next]_vars, pc = "rec_one", NEW p \in Positions, pos'[p] # pos[p]
  PROVE  ReconcileOne(p)
<1> USE DEF store, broker, pass, mind
<1>1. pos \in [Positions -> PositionRow]
  BY DEF OrdersInv, IInv, TypeOK
<1>2. CASE Broker
  BY <1>2 DEF Broker, BrokerRegisters, BrokerLoses, BrokerFills, BrokerEnds, BrokerFillsLate,
              ContractLeaves
<1>3. CASE Pass
  <2>1. ASSUME NEW q \in Positions, ReconcileOne(q) PROVE q = p
    BY <1>1, <2>1 DEF ReconcileOne, ReconcileAbandoned, ReconcileEntry, ReconcileOpen,
                      ReconcileClosing, Mismatch
  <2> QED
    BY <1>3, <2>1
       DEF Pass, ReadPositions, ReadOrders, ReconcileEnds, EnforceOne, EnforceEnds, Enforcing
<1>4. CASE Gateway
  BY <1>4 DEF Gateway, PreflightPasses, PreflightRefuses, PreflightRaises, SendAccepted, SendRaises,
              LookUp, RecordSent, RecordUnsent, EntryRefused, EntryAmbiguous, CloseRefused
<1>5. CASE Turn
  BY <1>5 DEF Turn, BeginCycle, TurnEnds, DataHalts, CycleEnds, PrepareEntry, Manage, ManageHolds,
              ManageFails, ManageCollides, ManageCloses, Managing
<1>6. CASE \/ \E c \in OrderIds : TimePasses(c)
           \/ Start \/ Crash \/ Clocks \/ UNCHANGED vars
  BY <1>6 DEF TimePasses, Start, Crash, Clocks, Tick, OrderClock, PositionClock, vars
<1> QED BY <1>2, <1>3, <1>4, <1>5, <1>6 DEF Next

\* Two live rows that name one contract are left alone by every pass, also when the
\* pass settled other rows since it looked.
THEOREM ContestedLeftAlone == Spec => ContestedNotJudged
<1>1. Init => ContestInv
  BY OrdersInit DEF Init, ContestInv
<1>2. ContestInv /\ [Next]_vars =>
        [pc = "rec_one" => \A p, q \in Active :
           p # q /\ Legs(p) \cap Legs(q) # {} => pos'[p] = pos[p]]_vars
  <2> SUFFICES ASSUME ContestInv, [Next]_vars, pc = "rec_one",
                      NEW p \in Active, NEW q \in Active, p # q, Legs(p) \cap Legs(q) # {},
                      pos'[p] # pos[p]
               PROVE  FALSE
    OBVIOUS
  <2>1. p \in todo
    BY OwnVisit DEF ContestInv, Active, ReconcileOne, NextToVisit
  <2>2. p \in HeldOut
    BY LegsAreSymbols DEF ContestInv, OrdersInv, IInv, HeldOut, Contested, Active
  <2> QED BY <2>1, <2>2 DEF ContestInv
<1> QED BY <1>1, <1>2, ContestStep, PTL DEF Spec, ContestedNotJudged
===============================================================================

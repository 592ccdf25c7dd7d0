--------------------------- MODULE TradingAgentProofs ---------------------------
(***************************************************************************)
(* Theorems about TradingAgent, for every value of its constants.          *)
(*                                                                         *)
(* First what the row operators of OrderLifecycle return, then the type    *)
(* invariant, then the inductive invariant behind NoPhantomExposure,       *)
(* NeverAheadOfBroker and FillsNeverRegress.                               *)
(***************************************************************************)
EXTENDS TradingAgent, TLAPS

-----------------------------------------------------------------------------
(* Order ids. *)

\* A product of positive naturals is no smaller than either factor.
LEMMA ProductBounds ==
  ASSUME NEW m \in Nat \ {0}, NEW n \in Nat
  PROVE  m * n \in Nat /\ n <= m * n
<1>1. m * n = n + (m - 1) * n
  OBVIOUS
<1>2. (m - 1) * n \in Nat
  OBVIOUS
<1> QED BY <1>1, <1>2

\* The most a close can be prepared for bounds the quantity of an entry.
LEMMA QuantityBounded == MaxClose \in Nat /\ Quantity \in 1 .. MaxClose
BY LifecycleAssumption, ProductBounds DEF MaxClose

\* The id of an entry names its position, quantity and kind.
LEMMA EntryId ==
  ASSUME NEW p \in Positions
  PROVE  /\ Entry(p) \in OrderIds
         /\ Entry(p) \notin CloseIds
         /\ Owner(Entry(p)) = p
         /\ OrderQuantity(Entry(p)) = Quantity
         /\ IsEntry(Entry(p))
BY LifecycleAssumption
   DEF Entry, OrderIds, EntryIds, CloseIds, Owner, OrderQuantity, IsEntry, Positions

\* Every order belongs to a position and trades a bounded quantity, and the entry
\* of its position is the only entry a position has.
LEMMA OrderId ==
  ASSUME NEW c \in OrderIds
  PROVE  /\ Owner(c) \in Positions
         /\ OrderQuantity(c) \in 1 .. MaxClose
         /\ IsEntry(c) => c = Entry(Owner(c))
         /\ ~IsEntry(c) => c \in CloseIds
<1>1. CASE c \in EntryIds
  BY <1>1, QuantityBounded
     DEF Entry, EntryIds, Owner, OrderQuantity, IsEntry, Positions
<1>2. CASE c \in CloseIds
  BY <1>2, LifecycleAssumption
     DEF CloseIds, Owner, OrderQuantity, IsEntry, Positions
<1> QED BY <1>1, <1>2 DEF OrderIds

\* No order is the absence of one.
LEMMA NoOrderIsNone == NoOrder \notin OrderIds /\ Owner(NoOrder) = 0
BY DEF NoOrder, OrderIds, EntryIds, CloseIds, Entry, Positions, Owner

-----------------------------------------------------------------------------
(* Rows. *)

\* A broker status always maps to a state of an order row.
LEMMA MapsToState ==
  ASSUME NEW raw
  PROVE  MapBrokerStatus(raw) \in OrderState
BY DEF MapBrokerStatus, BrokerStatusMap, OrderState

\* A read establishes a state of an order row, never the absence of a row.
LEMMA ReconciledStateIsState ==
  ASSUME NEW read \in BrokerRead
  PROVE  ReconciledState(read) \in OrderState
BY MapsToState DEF ReconciledState, OrderState

\* The writes of an order row yield an order row that exists, and only a
\* reconciliation changes its fill.
LEMMA OrderWrites ==
  ASSUME NEW row \in OrderRow
  PROVE  /\ PreparedOrder \in OrderRow
         /\ PreparedOrder.state = "PREPARED" /\ PreparedOrder.filled = 0
         /\ \A status, ambiguous : \A hasId \in BOOLEAN :
              LET after == RecordSubmission(row, status, ambiguous, hasId)
              IN after \in OrderRow /\ after.state \in OrderState /\ after.filled = row.filled
         /\ \A read \in BrokerRead :
              LET after == ApplyOrderReconciliation(row, read)
              IN after \in OrderRow /\ after.state \in OrderState /\ after.filled = read.filled
<1>1. /\ PreparedOrder \in OrderRow
      /\ PreparedOrder.state = "PREPARED" /\ PreparedOrder.filled = 0
  BY DEF PreparedOrder, NoOrderRow, OrderRow, OrderState, Age
<1>2. ASSUME NEW status, NEW ambiguous, NEW hasId \in BOOLEAN
      PROVE  LET after == RecordSubmission(row, status, ambiguous, hasId)
             IN after \in OrderRow /\ after.state \in OrderState /\ after.filled = row.filled
  <2> DEFINE mapped == IF ambiguous THEN "AMBIGUOUS" ELSE MapBrokerStatus(status)
             state == IF mapped \in {"FILLED", "PARTIALLY_FILLED"} THEN "SUBMITTED" ELSE mapped
  <2>1. mapped \in OrderState
    BY MapsToState DEF OrderState
  <2>2. state \in OrderState
    BY <2>1 DEF OrderState
  <2>3. RecordSubmission(row, status, ambiguous, hasId)
          = [row EXCEPT !.state = state, !.sent = "fresh", !.known = hasId]
    BY DEF RecordSubmission
  <2> HIDE DEF state
  <2> QED BY <2>2, <2>3 DEF OrderRow, Age
<1>3. ASSUME NEW read \in BrokerRead
      PROVE  LET after == ApplyOrderReconciliation(row, read)
             IN after \in OrderRow /\ after.state \in OrderState /\ after.filled = read.filled
  <2>1. read.filled \in Nat
    BY QuantityBounded DEF BrokerRead
  <2> QED BY <2>1, ReconciledStateIsState DEF ApplyOrderReconciliation, OrderRow
<1> QED BY <1>1, <1>2, <1>3

\* The writes of a position row yield a position row.
LEMMA PositionWrites ==
  ASSUME NEW row \in PositionRow
  PROVE  /\ \A s \in Spreads : PreparedPosition(s) \in PositionRow
         /\ \A c \in CloseIds : ClosingPosition(row, c) \in PositionRow
         /\ \A state : \A filled \in Nat : ApplyEntryOutcome(row, state, filled) \in PositionRow
         /\ ReleaseClose(row) \in PositionRow
         /\ \A flat : \A remaining \in Nat :
              ApplyCloseOutcome(row, flat, remaining) \in PositionRow
         /\ MarkIncident(row) \in PositionRow
<1>1. \A s \in Spreads : PreparedPosition(s) \in PositionRow
  BY DEF PreparedPosition, PositionRow, PositionState
<1>2. \A c \in CloseIds : ClosingPosition(row, c) \in PositionRow
  BY DEF ClosingPosition, PositionRow, PositionState
<1>3. \A state : \A filled \in Nat : ApplyEntryOutcome(row, state, filled) \in PositionRow
  BY DEF ApplyEntryOutcome, PositionRow, PositionState
<1>4. ReleaseClose(row) \in PositionRow
  BY DEF ReleaseClose, PositionRow, PositionState
<1>5. \A flat : \A remaining \in Nat : ApplyCloseOutcome(row, flat, remaining) \in PositionRow
  BY DEF ApplyCloseOutcome, PositionRow, PositionState
<1>6. MarkIncident(row) \in PositionRow
  BY DEF MarkIncident, PositionRow, PositionState
<1> QED BY <1>1, <1>2, <1>3, <1>4, <1>5, <1>6

-----------------------------------------------------------------------------
(* Types of what a pass computes. *)

\* A lookup returns a broker read, and NoRead is one.
LEMMA LookupType ==
  ASSUME TypeOK, NEW c \in OrderIds \cup {NoOrder}, NEW blind
  PROVE  NoRead \in BrokerRead /\ Lookup(c, blind) \in BrokerRead
<1>1. NoRead \in BrokerRead
  BY QuantityBounded DEF NoRead, BrokerRead, BrokerStatus
<1> QED BY <1>1 DEF Lookup, TypeOK

\* Applying a read rewrites one order row and leaves a row.
LEMMA AppliedType ==
  ASSUME NEW orders \in [OrderIds -> OrderRow], NEW c \in OrderIds \cup {NoOrder},
         NEW read \in BrokerRead
  PROVE  Applied(orders, c, read) \in [OrderIds -> OrderRow]
BY OrderWrites DEF Applied

\* Incidents are noted for a position, or for none.
LEMMA NoteType ==
  ASSUME NEW kinds, NEW p \in 0 .. MaxPositions
  PROVE  Note(kinds, p) \subseteq STRING \X (0 .. MaxPositions)
BY AgentAssumption DEF Note

\* Claiming exposure leaves a quantity per symbol.
LEMMA ConsumedType ==
  ASSUME TypeOK, NEW p \in Positions
  PROVE  Consumed(p) \in [Symbols -> Int] /\ Observed(p) \in Nat
<1>1. pos[p] \in PositionRow /\ pos[p].filled \in Nat
      /\ pos[p].spread[1] \in Symbols /\ pos[p].spread[2] \in Symbols
      /\ \A s \in Symbols : view[s] \in Int
  BY LifecycleAssumption DEF TypeOK, PositionRow
<1>2. Observed(p) \in Nat
  BY <1>1 DEF Observed, Abs
<1>3. Consumed(p) \in [Symbols -> Int]
  BY <1>1 DEF Consumed
<1> QED BY <1>2, <1>3

\* Spending leaves a budget.
LEMMA SpendType ==
  ASSUME TypeOK, NEW what \in {"fault", "crash", "late", "move"}, Spend(what)
  PROVE  budget' \in [{"fault", "crash", "late", "move"} -> Nat]
BY DEF Spend, TypeOK

\* Ending a pass leaves every variable of the pass in its type.
LEMMA EndPassType ==
  ASSUME TypeOK, EndPass
  PROVE  /\ pc' \in Labels /\ ret' \in ReturnLabels
         /\ todo' \subseteq Positions
         /\ view' \in [Symbols -> Int]
         /\ listed' \in [OrderIds -> BrokerRead]
         /\ report' = {}
<1>1. NothingListed \in [OrderIds -> BrokerRead]
  BY QuantityBounded DEF NothingListed, NoRead, BrokerRead, BrokerStatus
<1> QED
  BY <1>1 DEF EndPass, TypeOK, ReturnLabels, Labels, Nothing, Managed

\* What one visit of a pass writes.
LEMMA ReconcileOneType ==
  ASSUME TypeOK, NEW p \in Positions, ReconcileOne(p)
  PROVE  TypeOK'
<1>1. /\ pos[p] \in PositionRow /\ Entry(p) \in OrderIds
      /\ pos[p].close \in OrderIds \cup {NoOrder} /\ p \in 0 .. MaxPositions
  BY EntryId DEF TypeOK, PositionRow, OrderIds, Positions
<1>2. budget' \in [{"fault", "crash", "late", "move"} -> Nat]
  BY SpendType DEF ReconcileOne, TypeOK
<1>3. PICK blind \in SUBSET Lookable(p) :
        \/ ReconcileAbandoned(p, Lookup(Entry(p), blind))
        \/ ReconcileEntry(p, Lookup(Entry(p), blind))
        \/ ReconcileOpen(p, Lookup(Entry(p), blind))
        \/ ReconcileClosing(p, Lookup(Entry(p), blind), Lookup(pos[p].close, blind))
  BY DEF ReconcileOne
<1> DEFINE entry == Lookup(Entry(p), blind)
           close == Lookup(pos[p].close, blind)
<1>4. entry \in BrokerRead /\ close \in BrokerRead /\ entry.filled \in Nat
  <2>1. entry \in BrokerRead /\ close \in BrokerRead
    BY <1>1, LookupType
  <2> HIDE DEF entry
  <2> QED BY <2>1, QuantityBounded DEF BrokerRead
<1> HIDE DEF entry, close
<1>5. order' \in [OrderIds -> OrderRow]
  <2>1. Applied(order, Entry(p), entry) \in [OrderIds -> OrderRow]
    BY <1>1, <1>4, AppliedType DEF TypeOK
  <2>2. Applied(Applied(order, Entry(p), entry), pos[p].close, close) \in [OrderIds -> OrderRow]
    BY <1>1, <1>4, <2>1, AppliedType
  <2> QED
    BY <1>3, <2>1, <2>2
       DEF entry, close, TypeOK, ReconcileAbandoned, ReconcileEntry, ReconcileOpen,
           ReconcileClosing
<1>6. pos' \in [Positions -> PositionRow]
  <2>1. /\ MarkIncident(pos[p]) \in PositionRow
        /\ ApplyEntryOutcome(pos[p], ReconciledState(entry), entry.filled) \in PositionRow
        /\ ApplyCloseOutcome(pos[p], TRUE, 0) \in PositionRow
        /\ ApplyCloseOutcome(pos[p], FALSE, Observed(p)) \in PositionRow
        /\ ReleaseClose(pos[p]) \in PositionRow
    BY <1>1, <1>4, ConsumedType, PositionWrites
  <2>2. PICK row \in PositionRow : pos' = [pos EXCEPT ![p] = row]
    <3>1. CASE ReconcileAbandoned(p, entry)
      BY <1>1, <2>1, <3>1 DEF ReconcileAbandoned, Mismatch, TypeOK
    <3>2. CASE ReconcileEntry(p, entry)
      BY <1>1, <2>1, <3>2 DEF ReconcileEntry, Mismatch, TypeOK
    <3>3. CASE ReconcileOpen(p, entry)
      BY <1>1, <2>1, <3>3 DEF ReconcileOpen, Mismatch, TypeOK
    <3>4. CASE ReconcileClosing(p, entry, close)
      <4>1. CASE ~Holds(p)
        BY <2>1, <3>4, <4>1 DEF ReconcileClosing
      <4>2. CASE Holds(p)
        BY <2>1, <3>4, <4>2 DEF ReconcileClosing
      <4> QED BY <4>1, <4>2
    <3> QED BY <1>3, <3>1, <3>2, <3>3, <3>4 DEF entry, close
  <2> QED BY <2>2 DEF TypeOK
<1>7. /\ report' \subseteq {"contested_exposure", "unexpected_exposure", "position"}
      /\ incidents' \subseteq STRING \X (0 .. MaxPositions)
  <2>1. \A kind : incidents \cup Note({kind}, p) \subseteq STRING \X (0 .. MaxPositions)
    BY <1>1, NoteType DEF TypeOK
  <2> QED
    BY <1>3, <2>1
       DEF ReconcileAbandoned, ReconcileEntry, ReconcileOpen, ReconcileClosing, Mismatch,
           NoMismatch, TypeOK
<1>8. view' \in [Symbols -> Int] /\ todo' \subseteq Positions
  BY ConsumedType DEF ReconcileOne, TypeOK
<1>9. UNCHANGED <<bOrder, held, pc, writes, ret, exec, batch, cur, reply, acted, listed>>
  BY DEF ReconcileOne, broker, mind
<1> QED BY <1>2, <1>5, <1>6, <1>7, <1>8, <1>9 DEF TypeOK
\* A quantity traded moves both legs by a whole contract.
LEMMA TradedType ==
  ASSUME TypeOK, NEW c \in OrderIds
  PROVE  Traded(c) \in [Symbols -> Int]
BY OrderId DEF Traded, TypeOK

\* The broker's steps keep every type.
LEMMA BrokerType == TypeOK /\ Broker => TypeOK'
<1> SUFFICES ASSUME TypeOK, Broker PROVE TypeOK'
  OBVIOUS
<1>1. ASSUME NEW c \in OrderIds,
             BrokerRegisters(c) \/ BrokerLoses(c) \/ BrokerEnds(c)
      PROVE  TypeOK'
  <2>1. PICK status \in BrokerStatus : bOrder' = [bOrder EXCEPT ![c].status = status]
    <3>1. CASE BrokerRegisters(c) \/ BrokerLoses(c)
      BY <3>1 DEF BrokerRegisters, BrokerLoses, BrokerStatus
    <3>2. CASE BrokerEnds(c)
      <4>1. PICK end \in Ends :
              bOrder' = [bOrder EXCEPT ![c].status = IF @ = "pending_cancel" THEN "canceled"
                                                     ELSE end]
        BY <3>2 DEF BrokerEnds
      <4>2. end \in BrokerStatus /\ "canceled" \in BrokerStatus
        BY AgentAssumption DEF BrokerStatus
      <4> QED BY <4>1, <4>2
    <3> QED BY <1>1, <3>1, <3>2
  <2>2. bOrder' \in [OrderIds -> BrokerRead]
    BY <2>1 DEF TypeOK, BrokerRead
  <2>3. UNCHANGED <<store, held, pc, writes, mind, pass, budget>>
    BY <1>1 DEF BrokerRegisters, BrokerLoses, BrokerEnds
  <2> QED BY <2>2, <2>3 DEF TypeOK, store, mind, pass
<1>2. ASSUME NEW c \in OrderIds, BrokerFills(c) PROVE TypeOK'
  <2>1. /\ bOrder[c].filled \in Nat /\ bOrder[c].filled + 1 \in 0 .. MaxClose
        /\ bOrder[c] \in BrokerRead
    BY <1>2, OrderId, QuantityBounded DEF BrokerFills, TypeOK, BrokerRead
  <2>2. PICK status \in BrokerStatus :
          bOrder' = [bOrder EXCEPT ![c] = [status |-> status, filled |-> @.filled + 1]]
    BY <1>2 DEF BrokerFills, BrokerStatus
  <2>3. bOrder' \in [OrderIds -> BrokerRead]
    BY <2>1, <2>2 DEF TypeOK, BrokerRead
  <2>4. held' \in [Symbols -> Int]
    BY <1>2, TradedType DEF BrokerFills
  <2> QED BY <1>2, <2>3, <2>4 DEF BrokerFills, TypeOK, store, mind, pass
<1>3. ASSUME NEW c \in OrderIds, BrokerFillsLate(c) PROVE TypeOK'
  <2>1. bOrder[c].filled \in Nat /\ bOrder[c].filled + 1 \in 0 .. MaxClose
    BY <1>3, OrderId, QuantityBounded DEF BrokerFillsLate, TypeOK, BrokerRead
  <2>2. bOrder' \in [OrderIds -> BrokerRead]
    BY <1>3, <2>1 DEF BrokerFillsLate, TypeOK, BrokerRead
  <2>3. held' \in [Symbols -> Int]
    BY <1>3, TradedType DEF BrokerFillsLate
  <2>4. budget' \in [{"fault", "crash", "late", "move"} -> Nat]
    BY <1>3, SpendType DEF BrokerFillsLate
  <2> QED BY <1>3, <2>2, <2>3, <2>4 DEF BrokerFillsLate, TypeOK, store, mind, pass
<1>4. ASSUME NEW s \in Symbols, ContractLeaves(s) PROVE TypeOK'
  <2>1. budget' \in [{"fault", "crash", "late", "move"} -> Nat]
    BY <1>4, SpendType DEF ContractLeaves
  <2>2. held' \in [Symbols -> Int]
    BY <1>4 DEF ContractLeaves, TypeOK
  <2> QED BY <1>4, <2>1, <2>2 DEF ContractLeaves, TypeOK, store, mind, pass
<1> QED BY <1>1, <1>2, <1>3, <1>4 DEF Broker

\* The steps of a pass keep every type: its two reads, its visits, and its end.
LEMMA ReconcileType ==
  ASSUME TypeOK,
         ReadPositions \/ ReadOrders \/ ReconcileEnds \/ \E p \in Positions : ReconcileOne(p)
  PROVE  TypeOK'
<1>1. 0 \in 0 .. MaxPositions
  BY LifecycleAssumption
<1>2. \A kinds : incidents \cup Note(kinds, 0) \subseteq STRING \X (0 .. MaxPositions)
  BY <1>1, NoteType DEF TypeOK
<1>3. ASSUME Unreachable, UNCHANGED <<broker, writes, batch, cur, reply, acted>>
      PROVE  TypeOK'
  <2>1. EndPass /\ Spend("fault")
    BY <1>3 DEF Unreachable
  <2>2. incidents' \subseteq STRING \X (0 .. MaxPositions)
    BY <1>2, <1>3 DEF Unreachable
  <2>3. budget' \in [{"fault", "crash", "late", "move"} -> Nat]
    BY <2>1, SpendType
  <2>4. /\ pc' \in Labels /\ ret' \in ReturnLabels /\ todo' \subseteq Positions
        /\ view' \in [Symbols -> Int] /\ listed' \in [OrderIds -> BrokerRead]
        /\ report' = {}
    BY <2>1, EndPassType
  <2> QED BY <1>3, <2>2, <2>3, <2>4 DEF Unreachable, TypeOK, broker
<1>4. ASSUME ReadPositions PROVE TypeOK'
  <2>1. CASE Unreachable
    BY <1>3, <1>4, <2>1 DEF ReadPositions
  <2>2. CASE ~Unreachable
    BY <1>4, <2>2 DEF ReadPositions, TypeOK, Labels, store, broker
  <2> QED BY <2>1, <2>2
<1>5. ASSUME ReadOrders PROVE TypeOK'
  <2>1. CASE Unreachable
    BY <1>3, <1>5, <2>1 DEF ReadOrders
  <2>2. CASE ~Unreachable
    <3>1. listed' \in [OrderIds -> BrokerRead]
      <4>1. NoRead \in BrokerRead
        BY QuantityBounded DEF NoRead, BrokerRead, BrokerStatus
      <4>2. listed' = [c \in OrderIds |->
                        IF bOrder[c].status \in Working THEN bOrder[c] ELSE NoRead]
        BY <1>5, <2>2 DEF ReadOrders
      <4> QED BY <4>1, <4>2 DEF TypeOK
    <3>2. incidents' \subseteq STRING \X (0 .. MaxPositions)
      BY <1>5, <2>2 DEF ReadOrders, WithoutOutage, TypeOK
    <3>3. /\ todo' \subseteq Positions
          /\ report' \subseteq {"contested_exposure", "unexpected_exposure", "position"}
          /\ pc' \in Labels
      BY <1>5, <2>2 DEF ReadOrders, Managed, Labels
    <3> QED BY <1>5, <2>2, <3>1, <3>2, <3>3 DEF ReadOrders, TypeOK, broker
  <2> QED BY <2>1, <2>2
<1>6. ASSUME ReconcileEnds PROVE TypeOK'
  <2>1. incidents' \subseteq STRING \X (0 .. MaxPositions)
    BY <1>2, <1>6 DEF ReconcileEnds
  <2>2. /\ pc' \in Labels /\ ret' \in ReturnLabels /\ todo' \subseteq Positions
        /\ view' \in [Symbols -> Int] /\ listed' \in [OrderIds -> BrokerRead]
        /\ report' = {}
    BY <1>6, EndPassType DEF ReconcileEnds
  <2> QED BY <1>6, <2>1, <2>2 DEF ReconcileEnds, TypeOK, broker
<1> QED BY <1>4, <1>5, <1>6, ReconcileOneType
\* The order a deadline watches is an order of the database.
LEMMA WatchedOrderType ==
  ASSUME TypeOK, NEW p \in Positions
  PROVE  WatchedOrder(p, pos[p]) \in OrderIds
BY EntryId DEF WatchedOrder, TypeOK, PositionRow, OrderIds

\* The deadline pass keeps every type.
LEMMA EnforceType ==
  ASSUME TypeOK, EnforceEnds \/ \E p \in Positions : EnforceOne(p)
  PROVE  TypeOK'
<1>1. ASSUME NEW p \in Positions, EnforceOne(p) PROVE TypeOK'
  <2>1. /\ pos[p] \in PositionRow /\ p \in 0 .. MaxPositions
        /\ WatchedOrder(p, pos[p]) \in OrderIds
        /\ order[Entry(p)].filled \in Nat
    <3>1. Entry(p) \in OrderIds /\ WatchedOrder(p, pos[p]) \in OrderIds
      BY EntryId, WatchedOrderType
    <3>2. order[Entry(p)] \in OrderRow /\ pos[p] \in PositionRow
      BY <3>1 DEF TypeOK
    <3>3. order[Entry(p)].filled \in Nat
      BY <3>2 DEF OrderRow
    <3> QED BY <3>1, <3>2, <3>3, LifecycleAssumption DEF Positions
  <2> DEFINE c == WatchedOrder(p, pos[p])
  <2>2. \A kind : incidents \cup PartialNote(p, c) \cup Note({kind}, p)
                    \subseteq STRING \X (0 .. MaxPositions)
    BY <2>1, NoteType DEF PartialNote, TypeOK
  <2>3. \A kind : CancelFailed(p, c, kind) =>
          /\ incidents' \subseteq STRING \X (0 .. MaxPositions)
          /\ pos' \in [Positions -> PositionRow]
          /\ exec' = "NO_NEW_RISK"
    BY <2>1, <2>2, PositionWrites DEF CancelFailed, TypeOK
  <2> HIDE DEF c
  <2>4. /\ todo' \subseteq Positions
        /\ UNCHANGED <<held, pc, ret, writes, batch, cur, reply, view, listed, report>>
    BY <1>1 DEF EnforceOne, TypeOK
  <2>5. CASE EnforceLateFill(p)
    <3>1. pos' \in [Positions -> PositionRow]
      BY <2>1, <2>5, PositionWrites DEF EnforceLateFill, TypeOK
    <3>2. incidents' \subseteq STRING \X (0 .. MaxPositions)
      BY <2>1, <2>5, NoteType DEF EnforceLateFill, TypeOK
    <3> QED BY <2>4, <2>5, <3>1, <3>2 DEF EnforceLateFill, TypeOK
  <2>6. CASE EnforceNothing(p)
    BY <2>4, <2>6 DEF EnforceNothing, TypeOK
  <2>7. CASE EnforceUncancellable(p)
    BY <2>3, <2>4, <2>7 DEF EnforceUncancellable, TypeOK, c
  <2>8. CASE EnforceCancel(p)
    <3>1. [bOrder EXCEPT ![c].status = "pending_cancel"] \in [OrderIds -> BrokerRead]
      BY DEF TypeOK, BrokerRead, BrokerStatus
    <3>2. bOrder' \in [OrderIds -> BrokerRead]
      BY <2>8, <3>1 DEF EnforceCancel, TypeOK, c
    <3>3. budget' \in [{"fault", "crash", "late", "move"} -> Nat]
      BY <2>8, SpendType DEF EnforceCancel, TypeOK
    <3>4. incidents \cup PartialNote(p, c) \subseteq STRING \X (0 .. MaxPositions)
      BY <2>2
    <3>5. /\ incidents' \subseteq STRING \X (0 .. MaxPositions)
          /\ pos' \in [Positions -> PositionRow]
          /\ exec' \in {"NORMAL", "NO_NEW_RISK"}
      BY <2>3, <2>8, <3>4 DEF EnforceCancel, TypeOK, c
    <3> QED BY <2>4, <2>8, <3>2, <3>3, <3>5 DEF EnforceCancel, TypeOK
  <2> QED BY <1>1, <2>5, <2>6, <2>7, <2>8 DEF EnforceOne
<1>2. ASSUME EnforceEnds PROVE TypeOK'
  <2>1. pc' \in Labels /\ ret' \in ReturnLabels
    BY <1>2 DEF EnforceEnds, Reconcile, TypeOK, Labels, ReturnLabels
  <2> QED BY <1>2, <2>1 DEF EnforceEnds, TypeOK, store, broker, pass
<1> QED BY <1>1, <1>2

\* A submission and its record keep every type.
LEMMA GatewayType == TypeOK /\ Gateway => TypeOK'
<1> SUFFICES ASSUME TypeOK, Gateway PROVE TypeOK'
  OBVIOUS
<1> USE DEF store, broker, pass, mind
<1>1. /\ Owner(cur) \in 0 .. MaxPositions
      /\ \A p \in Positions : pos[p] \in PositionRow
      /\ \A c \in OrderIds : order[c] \in OrderRow
  BY OrderId, NoOrderIsNone, LifecycleAssumption DEF TypeOK, Positions
<1>2. /\ \A kinds : incidents \cup Note(kinds, Owner(cur)) \subseteq STRING \X (0 .. MaxPositions)
      /\ \A row \in PositionRow : [pos EXCEPT ![Owner(cur)] = row] \in [Positions -> PositionRow]
      /\ \A row \in OrderRow : [order EXCEPT ![cur] = row] \in [OrderIds -> OrderRow]
  BY <1>1, NoteType DEF TypeOK
<1>3. \A status \in BrokerStatus :
        [bOrder EXCEPT ![cur] = [status |-> status, filled |-> 0]] \in [OrderIds -> BrokerRead]
  <2>1. \A status \in BrokerStatus : [status |-> status, filled |-> 0] \in BrokerRead
    BY QuantityBounded DEF BrokerRead
  <2> QED BY <2>1 DEF TypeOK
<1>4. CASE PreflightPasses \/ PreflightRefuses \/ PreflightRaises \/ LookUp
  <2>1. budget' \in [{"fault", "crash", "late", "move"} -> Nat]
    BY <1>4, SpendType DEF PreflightPasses, PreflightRefuses, PreflightRaises, LookUp, TypeOK
  <2> QED
    BY <1>4, <2>1
       DEF PreflightPasses, PreflightRefuses, PreflightRaises, LookUp, TypeOK, Labels
<1>5. CASE SendAccepted
  <2>1. bOrder' \in [OrderIds -> BrokerRead]
    BY <1>3, <1>5 DEF SendAccepted, BrokerStatus
  <2> QED BY <1>5, <2>1 DEF SendAccepted, TypeOK, Labels
<1>6. CASE SendRaises
  <2>1. bOrder' \in [OrderIds -> BrokerRead]
    BY <1>3, <1>6 DEF SendRaises, BrokerStatus, TypeOK
  <2>2. budget' \in [{"fault", "crash", "late", "move"} -> Nat]
    BY <1>6, SpendType DEF SendRaises, TypeOK
  <2> QED BY <1>6, <2>1, <2>2 DEF SendRaises, TypeOK, Labels
<1>7. CASE RecordSent \/ RecordUnsent
  <2>1. order' \in [OrderIds -> OrderRow]
    <3>1. CASE cur \in OrderIds
      <4>1. Submitted \in OrderRow
        BY <1>1, <3>1, OrderWrites DEF Submitted
      <4> QED BY <1>2, <1>7, <4>1 DEF RecordSent, RecordUnsent
    <3>2. CASE cur \notin OrderIds
      BY <1>7, <3>2 DEF RecordSent, RecordUnsent, TypeOK
    <3> QED BY <3>1, <3>2
  <2>2. pc' \in Labels /\ ret' \in ReturnLabels
    BY <1>7 DEF RecordSent, RecordUnsent, Reconcile, AfterSubmission, TypeOK, Labels, ReturnLabels
  <2> QED BY <1>7, <2>1, <2>2 DEF RecordSent, RecordUnsent, TypeOK
<1>8. CASE EntryRefused \/ EntryAmbiguous \/ CloseRefused
  <2>1. pos' \in [Positions -> PositionRow]
    <3>1. CASE Owner(cur) \in Positions
      BY <1>1, <1>2, <1>8, <3>1, PositionWrites DEF EntryRefused, EntryAmbiguous, CloseRefused
    <3>2. CASE Owner(cur) \notin Positions
      BY <1>8, <3>2 DEF EntryRefused, EntryAmbiguous, CloseRefused, TypeOK
    <3> QED BY <3>1, <3>2
  <2>2. incidents' \subseteq STRING \X (0 .. MaxPositions)
    BY <1>2, <1>8 DEF EntryRefused, EntryAmbiguous, CloseRefused, TypeOK
  <2>3. pc' \in Labels /\ ret' \in ReturnLabels
    BY <1>8 DEF EntryRefused, EntryAmbiguous, CloseRefused, Reconcile, TypeOK, Labels, ReturnLabels
  <2> QED BY <1>8, <2>1, <2>2, <2>3 DEF EntryRefused, EntryAmbiguous, CloseRefused, TypeOK
<1> QED BY <1>4, <1>5, <1>6, <1>7, <1>8 DEF Gateway

\* A management cycle and an entry decision keep every type.
LEMMA TurnType == TypeOK /\ Turn => TypeOK'
<1> SUFFICES ASSUME TypeOK, Turn PROVE TypeOK'
  OBVIOUS
<1> USE DEF store, broker, pass, mind
<1>1. CASE BeginCycle \/ TurnEnds \/ DataHalts \/ CycleEnds
  BY <1>1 DEF BeginCycle, TurnEnds, DataHalts, CycleEnds, TypeOK, Labels, Valuable
<1>2. ASSUME NEW p \in Positions, PrepareEntry(p) PROVE TypeOK'
  <2>1. pos' \in [Positions -> PositionRow]
    <3>1. PICK s \in Spreads : pos' = [pos EXCEPT ![p] = PreparedPosition(s)]
      BY <1>2 DEF PrepareEntry
    <3>2. pos[p] \in PositionRow
      BY DEF TypeOK
    <3> QED BY <3>1, <3>2, PositionWrites DEF TypeOK
  <2>2. order' \in [OrderIds -> OrderRow] /\ Entry(p) \in OrderIds
    <3>1. Entry(p) \in OrderIds /\ order[Entry(p)] \in OrderRow
      BY EntryId DEF TypeOK
    <3> QED BY <1>2, <3>1, OrderWrites DEF PrepareEntry, TypeOK
  <2> QED BY <1>2, <2>1, <2>2 DEF PrepareEntry, TypeOK, Labels
<1>3. ASSUME NEW p \in Positions, Manage(p) PROVE TypeOK'
  <2>1. pos[p] \in PositionRow /\ p \in 0 .. MaxPositions
    BY DEF TypeOK, Positions
  <2>2. \A kinds : incidents \cup Note(kinds, p) \subseteq STRING \X (0 .. MaxPositions)
    BY <2>1, NoteType DEF TypeOK
  <2>3. CASE ManageHolds(p)
    BY <2>3 DEF ManageHolds, Managing, Keep, TypeOK
  <2>4. ASSUME NEW kind, ManageFails(p, kind) PROVE TypeOK'
    <3>1. pos' \in [Positions -> PositionRow]
      BY <2>1, <2>4, PositionWrites DEF ManageFails, TypeOK
    <3>2. incidents' \subseteq STRING \X (0 .. MaxPositions)
      BY <2>2, <2>4 DEF ManageFails
    <3> QED BY <2>4, <3>1, <3>2 DEF ManageFails, Managing, Keep, TypeOK
  <2>5. ASSUME NEW t \in CloseTerms, NEW warned \in BOOLEAN, ManageCloses(p, t, warned)
        PROVE  TypeOK'
    <3> DEFINE c == CloseId(p, pos[p].filled, t)
    <3>1. c \in CloseIds /\ c \in OrderIds
      BY <2>5 DEF ManageCloses, OrderIds
    <3>2. pos' \in [Positions -> PositionRow]
      BY <2>1, <2>5, <3>1, PositionWrites DEF ManageCloses, TypeOK
    <3>3. order' \in [OrderIds -> OrderRow]
      <4>1. order[c] \in OrderRow
        BY <3>1 DEF TypeOK
      <4> QED BY <2>5, <3>1, <4>1, OrderWrites DEF ManageCloses, TypeOK
    <3>4. incidents' \subseteq STRING \X (0 .. MaxPositions)
      BY <2>2, <2>5 DEF ManageCloses, TypeOK
    <3> QED
      BY <2>5, <3>1, <3>2, <3>3, <3>4 DEF ManageCloses, Managing, Keep, TypeOK, Labels
  <2> QED BY <1>3, <2>3, <2>4, <2>5 DEF Manage, ManageCollides
<1> QED BY <1>1, <1>2, <1>3 DEF Turn

\* The initial state is in the types.
LEMMA InitType == Init => TypeOK
<1> SUFFICES ASSUME Init PROVE TypeOK
  OBVIOUS
<1>1. order \in [OrderIds -> OrderRow]
  BY DEF Init, NoOrderRow, OrderRow, Age
<1>2. NoPositionRow \in PositionRow
  BY LifecycleAssumption DEF NoPositionRow, PositionRow
<1>3. pos \in [Positions -> PositionRow]
  BY <1>2 DEF Init
<1>4. NothingListed \in [OrderIds -> BrokerRead]
  BY QuantityBounded DEF NothingListed, NoRead, BrokerRead, BrokerStatus
<1>5. budget \in [{"fault", "crash", "late", "move"} -> Nat]
  BY AgentAssumption DEF Init
<1>6. Nothing \in [Symbols -> Int]
  BY DEF Nothing
<1>7. bOrder \in [OrderIds -> BrokerRead]
  BY <1>4 DEF Init, NothingListed
<1> QED
  BY <1>1, <1>3, <1>4, <1>5, <1>6, <1>7 DEF Init, TypeOK, Labels, ReturnLabels

\* Every step keeps every type.
LEMMA StepType == TypeOK /\ [Next]_vars => TypeOK'
<1> SUFFICES ASSUME TypeOK, [Next]_vars PROVE TypeOK'
  OBVIOUS
<1> USE DEF store, broker, pass, mind
<1>1. CASE Broker
  BY <1>1, BrokerType
<1>2. ASSUME NEW c \in OrderIds, TimePasses(c) PROVE TypeOK'
  <2>1. order' \in [OrderIds -> OrderRow]
    BY <1>2 DEF TimePasses, TypeOK, OrderRow, Age
  <2> QED BY <1>2, <2>1 DEF TimePasses, TypeOK
<1>3. CASE Start
  BY <1>3, AgentAssumption DEF Start, Reconcile, TypeOK, Labels, ReturnLabels
<1>4. CASE Crash
  <2>1. budget' \in [{"fault", "crash", "late", "move"} -> Nat]
    BY <1>4, SpendType DEF Crash
  <2>2. NothingListed \in [OrderIds -> BrokerRead]
    BY QuantityBounded DEF NothingListed, NoRead, BrokerRead, BrokerStatus
  <2>3. Nothing \in [Symbols -> Int]
    BY DEF Nothing
  <2> QED BY <1>4, <2>1, <2>2, <2>3 DEF Crash, TypeOK, Labels, ReturnLabels
<1>5. CASE Clocks
  BY <1>5
     DEF Clocks, Tick, OrderClock, PositionClock, Reconcile, TypeOK, Labels, ReturnLabels
<1>6. CASE Pass
  BY <1>6, ReconcileType, EnforceType DEF Pass
<1>7. CASE Gateway
  BY <1>7, GatewayType
<1>8. CASE Turn
  BY <1>8, TurnType
<1>9. CASE UNCHANGED vars
  BY <1>9 DEF vars, TypeOK
<1> QED BY <1>1, <1>2, <1>3, <1>4, <1>5, <1>6, <1>7, <1>8, <1>9 DEF Next

\* Every variable stays in its type: no order or position row reaches a state the
\* schema does not name, no fill leaves the natural numbers, and the process is
\* always at one of its labels.
THEOREM TypeCorrect == Spec => []TypeOK
BY InitType, StepType, PTL DEF Spec
-----------------------------------------------------------------------------
(* The inductive invariant.  NoPhantomExposure is kept by the step that opens a *)
(* position only if the fill that opens it is really at the broker, so it needs *)
(* NeverAheadOfBroker.  That one is kept by the send, which starts an order at  *)
(* zero, only if nothing was recorded of the order before (Submitting), and by  *)
(* the visits of a pass only if the listing of its start is not older than the  *)
(* rows it is applied to (ListingCurrent).                                      *)

\* An order being submitted belongs to a position that waits for it, and until it
\* is sent nothing has been recorded of it.
Submitting ==
  /\ pc \in {"preflight", "send", "lookup", "record", "refused"} =>
       /\ cur \in OrderIds
       /\ IsEntry(cur) => pos[Owner(cur)].state = "PENDING"
  /\ pc \in {"preflight", "send"} => order[cur].filled = 0

\* The listing exists within a pass only, and no row is ahead of it.
ListingCurrent ==
  \A c \in OrderIds :
    listed[c] # NoRead => pc = "rec_one" /\ order[c].filled <= listed[c].filled

\* Before its prepare an order has no row and no fill, and a position has no entry.
Unprepared ==
  /\ \A c \in OrderIds : order[c].state = "NONE" => order[c] = NoOrderRow
  /\ \A p \in Positions : pos[p].state = "NONE" => order[Entry(p)].state = "NONE"

IInv ==
  /\ TypeOK
  /\ Submitting
  /\ ListingCurrent
  /\ Unprepared
  /\ NeverAheadOfBroker
  /\ NoPhantomExposure
\* What FillsNeverRegress asks of one step.
FillsGrow == \A c \in OrderIds : order'[c].filled >= order[c].filled

\* The facts of the types the steps below rest on.
LEMMA TypeFacts ==
  ASSUME TypeOK
  PROVE  /\ \A c \in OrderIds : /\ order[c] \in OrderRow /\ order[c].filled \in Nat
                                /\ bOrder[c] \in BrokerRead /\ bOrder[c].filled \in Nat
                                /\ listed[c] \in BrokerRead /\ listed[c].filled \in Nat
         /\ \A p \in Positions : /\ pos[p] \in PositionRow /\ pos[p].filled \in Nat
                                 /\ pos[p].close \in CloseIds \cup {NoOrder}
         /\ NoRead.filled = 0 /\ NoOrderRow.filled = 0
         /\ \A c \in OrderIds : NothingListed[c] = NoRead
<1>1. /\ \A c \in OrderIds : order[c] \in OrderRow /\ bOrder[c] \in BrokerRead
                             /\ listed[c] \in BrokerRead
      /\ \A p \in Positions : pos[p] \in PositionRow
  BY DEF TypeOK
<1>2. /\ \A row \in OrderRow : row.filled \in Nat
      /\ \A read \in BrokerRead : read.filled \in Nat
      /\ \A row \in PositionRow : row.filled \in Nat /\ row.close \in CloseIds \cup {NoOrder}
  BY QuantityBounded DEF OrderRow, BrokerRead, PositionRow
<1> QED BY <1>1, <1>2 DEF NoRead, NoOrderRow, NothingListed

\* A step that writes neither a row nor the broker, and keeps or drops the
\* listing with the pass.
LEMMA Quiet ==
  ASSUME IInv, TypeOK', UNCHANGED <<order, pos, bOrder>>, Submitting',
         \/ listed' = NothingListed
         \/ listed' = listed /\ (pc # "rec_one" \/ pc' = pc)
  PROVE  IInv' /\ FillsGrow
<1>1. NeverAheadOfBroker' /\ ListingCurrent'
  BY TypeFacts DEF IInv, NeverAheadOfBroker, ListingCurrent
<1>2. NoPhantomExposure' /\ Unprepared'
  BY DEF IInv, NoPhantomExposure, Unprepared
<1>3. FillsGrow
  BY TypeFacts DEF IInv, FillsGrow
<1> QED BY <1>1, <1>2, <1>3 DEF IInv

\* The broker's steps: what it has filled stays filled.
LEMMA BrokerInv == IInv /\ Broker => IInv' /\ FillsGrow
<1> SUFFICES ASSUME IInv, Broker PROVE IInv' /\ FillsGrow
  OBVIOUS
<1>1. TypeOK'
  BY BrokerType DEF IInv
<1>2. UNCHANGED <<order, pos, listed, pc, cur>>
  BY DEF Broker, BrokerRegisters, BrokerLoses, BrokerFills, BrokerEnds, BrokerFillsLate,
         ContractLeaves, store, pass, mind
<1>3. \A c \in OrderIds : bOrder'[c].filled >= bOrder[c].filled
  <2>1. \A d \in OrderIds : bOrder[d].filled \in Nat /\ bOrder[d] \in BrokerRead
    BY TypeFacts DEF IInv
  <2>2. ASSUME NEW c \in OrderIds, NEW d \in OrderIds,
               \/ BrokerRegisters(c) \/ BrokerLoses(c) \/ BrokerFills(c)
               \/ BrokerEnds(c) \/ BrokerFillsLate(c)
        PROVE  bOrder'[d].filled >= bOrder[d].filled
    <3>1. bOrder \in [OrderIds -> [status : BrokerStatus, filled : 0 .. MaxClose]]
      BY DEF IInv, TypeOK, BrokerRead
    <3>2. CASE BrokerRegisters(c) \/ BrokerLoses(c)
      BY <2>1, <3>1, <3>2 DEF BrokerRegisters, BrokerLoses
    <3>3. CASE BrokerFills(c)
      BY <2>1, <3>1, <3>3 DEF BrokerFills
    <3>4. CASE BrokerEnds(c)
      BY <2>1, <3>1, <3>4 DEF BrokerEnds
    <3>5. CASE BrokerFillsLate(c)
      BY <2>1, <3>1, <3>5 DEF BrokerFillsLate
    <3> QED BY <2>2, <3>2, <3>3, <3>4, <3>5
  <2>3. ASSUME NEW s \in Symbols, NEW d \in OrderIds, ContractLeaves(s)
        PROVE  bOrder'[d].filled >= bOrder[d].filled
    BY <2>1, <2>3 DEF ContractLeaves
  <2> QED BY <2>2, <2>3 DEF Broker
<1>4. \A c \in OrderIds : bOrder'[c].filled \in Nat
  BY <1>1, TypeFacts, QuantityBounded DEF TypeOK, BrokerRead
<1>5. NeverAheadOfBroker' /\ NoPhantomExposure'
  BY <1>2, <1>3, <1>4, TypeFacts, EntryId DEF IInv, NeverAheadOfBroker, NoPhantomExposure
<1>6. Submitting' /\ ListingCurrent' /\ Unprepared'
  BY <1>2 DEF IInv, Submitting, ListingCurrent, Unprepared
<1>7. FillsGrow
  BY <1>2, TypeFacts DEF IInv, FillsGrow
<1> QED BY <1>1, <1>5, <1>6, <1>7 DEF IInv

\* A lookup returns nothing, or a read that is neither behind the row nor ahead of
\* the broker.
LEMMA LookupCurrent ==
  ASSUME IInv, NEW c \in OrderIds \cup {NoOrder}, NEW blind, Lookup(c, blind) # NoRead
  PROVE  /\ c \in OrderIds
         /\ order[c].filled <= Lookup(c, blind).filled
         /\ Lookup(c, blind).filled <= bOrder[c].filled
         /\ listed[c] # NoRead => Lookup(c, blind) = listed[c]
<1>1. c \in OrderIds
  BY DEF Lookup
<1>2. CASE listed[c] # NoRead
  BY <1>1, <1>2, NoOrderIsNone DEF Lookup, IInv, ListingCurrent, NeverAheadOfBroker
<1>3. CASE listed[c] = NoRead
  <2>1. Lookup(c, blind) = bOrder[c]
    BY <1>1, <1>3, NoOrderIsNone DEF Lookup
  <2> QED BY <1>1, <1>3, <2>1, TypeFacts DEF IInv, NeverAheadOfBroker
<1> QED BY <1>1, <1>2, <1>3

\* Applying a read touches at most its own row, and the row takes its fill.
LEMMA AppliedRow ==
  ASSUME NEW orders \in [OrderIds -> OrderRow], NEW c \in OrderIds \cup {NoOrder},
         NEW read \in BrokerRead, NEW d \in OrderIds
  PROVE  \/ Applied(orders, c, read)[d] = orders[d]
         \/ /\ d = c /\ read # NoRead
            /\ Applied(orders, c, read)[d].state \in OrderState
            /\ Applied(orders, c, read)[d].filled = read.filled
BY OrderWrites DEF Applied

\* A visit of a pass.
LEMMA ReconcileOneInv ==
  ASSUME IInv, NEW p \in Positions, ReconcileOne(p)
  PROVE  IInv' /\ FillsGrow
<1>1. TypeOK'
  BY ReconcileOneType DEF IInv
<1>2. /\ pc = "rec_one" /\ pc' = pc
      /\ UNCHANGED <<bOrder, listed, cur>>
  BY DEF ReconcileOne, broker, mind
<1>3. PICK blind \in SUBSET Lookable(p) :
        \/ ReconcileAbandoned(p, Lookup(Entry(p), blind))
        \/ ReconcileEntry(p, Lookup(Entry(p), blind))
        \/ ReconcileOpen(p, Lookup(Entry(p), blind))
        \/ ReconcileClosing(p, Lookup(Entry(p), blind), Lookup(pos[p].close, blind))
  BY DEF ReconcileOne
<1> DEFINE entry == Lookup(Entry(p), blind)
           close == Lookup(pos[p].close, blind)
<1>4. /\ Entry(p) \in OrderIds /\ pos[p].close \in CloseIds \cup {NoOrder}
      /\ pos[p].close \in OrderIds \cup {NoOrder}
      /\ order \in [OrderIds -> OrderRow] /\ TypeOK
      /\ \A c \in OrderIds : order[c].filled \in Nat /\ bOrder[c].filled \in Nat
  BY EntryId, TypeFacts DEF IInv, OrderIds, TypeOK
<1>5. /\ entry \in BrokerRead /\ close \in BrokerRead
      /\ entry # NoRead => /\ order[Entry(p)].filled <= entry.filled
                           /\ entry.filled <= bOrder[Entry(p)].filled
                           /\ listed[Entry(p)] # NoRead => entry = listed[Entry(p)]
      /\ close # NoRead => /\ pos[p].close \in OrderIds
                           /\ order[pos[p].close].filled <= close.filled
                           /\ close.filled <= bOrder[pos[p].close].filled
                           /\ listed[pos[p].close] # NoRead => close = listed[pos[p].close]
  BY <1>4, LookupType, LookupCurrent
<1>6. entry.filled \in Nat /\ close.filled \in Nat
  <2> HIDE DEF entry, close
  <2> QED BY <1>5, QuantityBounded DEF BrokerRead
<1>7. \/ ReconcileAbandoned(p, entry)
      \/ ReconcileEntry(p, entry)
      \/ ReconcileOpen(p, entry)
      \/ ReconcileClosing(p, entry, close)
  BY <1>3
<1> HIDE DEF entry, close
\* The rows: each is as it was, or took the fill of its own read.
<1>8. \A d \in OrderIds :
        \/ order'[d] = order[d]
        \/ /\ d = Entry(p) /\ entry # NoRead
           /\ order'[d].state \in OrderState /\ order'[d].filled = entry.filled
        \/ /\ d = pos[p].close /\ close # NoRead
           /\ order'[d].state \in OrderState /\ order'[d].filled = close.filled
  <2> DEFINE first == Applied(order, Entry(p), entry)
  <2>1. first \in [OrderIds -> OrderRow]
    BY <1>4, <1>5, AppliedType
  <2>2. order' \in {order, first, Applied(first, pos[p].close, close)}
    BY <1>7
       DEF ReconcileAbandoned, ReconcileEntry, ReconcileOpen, ReconcileClosing
  <2>3. \A d \in OrderIds :
          \/ first[d] = order[d]
          \/ /\ d = Entry(p) /\ entry # NoRead
             /\ first[d].state \in OrderState /\ first[d].filled = entry.filled
    BY <1>4, <1>5, AppliedRow
  <2> HIDE DEF first
  <2>4. \A d \in OrderIds :
          \/ Applied(first, pos[p].close, close)[d] = first[d]
          \/ /\ d = pos[p].close /\ close # NoRead
             /\ Applied(first, pos[p].close, close)[d].state \in OrderState
             /\ Applied(first, pos[p].close, close)[d].filled = close.filled
    <3>1. pos[p].close \in OrderIds \cup {NoOrder} /\ close \in BrokerRead
      BY <1>4, <1>5
    <3> QED BY <2>1, <3>1, AppliedRow
  <2> QED BY <2>2, <2>3, <2>4
<1>9. FillsGrow
  BY <1>4, <1>5, <1>6, <1>8 DEF FillsGrow
<1>10. NeverAheadOfBroker' /\ ListingCurrent'
  BY <1>2, <1>4, <1>5, <1>6, <1>8 DEF IInv, NeverAheadOfBroker, ListingCurrent
\* The position: it is opened by the fill of its entry order or was open before.
<1>11. \A q \in Positions :
         /\ q # p => pos'[q] = pos[q]
         /\ q = p => /\ pos[p].state # "NONE" /\ pos'[p].state # "NONE"
                     /\ pos'[p].state \in {"OPEN", "CLOSING"} =>
                          pos[p].state \in {"OPEN", "CLOSING"} \/ entry.filled > 0
  <2>1. pos \in [Positions -> PositionRow]
    BY <1>4 DEF TypeOK
  <2>2. CASE ReconcileAbandoned(p, entry)
    BY <2>1, <2>2 DEF ReconcileAbandoned, Mismatch, MarkIncident
  <2>3. CASE ReconcileEntry(p, entry)
    <3>1. CASE entry # NoRead
      <4>1. pos' = [pos EXCEPT ![p] =
                     ApplyEntryOutcome(@, ReconciledState(entry), entry.filled)]
        BY <2>3, <3>1 DEF ReconcileEntry
      <4>2. pos'[p] = ApplyEntryOutcome(pos[p], ReconciledState(entry), entry.filled)
        BY <2>1, <4>1
      <4>3. /\ pos'[p].state \in {"OPEN", "ABANDONED", "PENDING"}
            /\ pos'[p].state = "OPEN" => entry.filled > 0
        BY <2>1, <4>2 DEF ApplyEntryOutcome, PositionRow
      <4> QED BY <2>1, <2>3, <4>1, <4>3 DEF ReconcileEntry
    <3>2. CASE entry = NoRead
      BY <2>1, <2>3, <3>2 DEF ReconcileEntry, Mismatch, MarkIncident, PositionRow
    <3> QED BY <3>1, <3>2
  <2>4. CASE ReconcileOpen(p, entry)
    BY <2>1, <2>4 DEF ReconcileOpen, Mismatch, MarkIncident, PositionRow
  <2>5. CASE ReconcileClosing(p, entry, close)
    BY <2>1, <2>5 DEF ReconcileClosing, ApplyCloseOutcome, ReleaseClose, PositionRow
  <2> QED BY <1>7, <2>2, <2>3, <2>4, <2>5
<1>12. NoPhantomExposure'
  <2>1. entry.filled > 0 => bOrder[Entry(p)].filled > 0
    BY <1>4, <1>5, <1>6 DEF NoRead
  <2> QED BY <1>2, <1>11, <2>1 DEF IInv, NoPhantomExposure
<1>13. Unprepared'
  <2>1. \A d \in OrderIds : order'[d].state = "NONE" => order'[d] = NoOrderRow
    BY <1>8 DEF IInv, Unprepared, OrderState
  <2>2. ASSUME NEW q \in Positions, pos'[q].state = "NONE"
        PROVE  order'[Entry(q)].state = "NONE"
    <3>1. q # p /\ pos[q].state = "NONE"
      BY <1>11, <2>2
    <3>2. Entry(q) \in OrderIds /\ Entry(q) # Entry(p) /\ Entry(q) # pos[p].close
      BY <1>4, <3>1, EntryId, NoOrderIsNone
    <3> QED BY <1>8, <3>1, <3>2 DEF IInv, Unprepared
  <2> QED BY <2>1, <2>2 DEF Unprepared
<1>14. Submitting'
  BY <1>2 DEF Submitting
<1> QED BY <1>1, <1>9, <1>10, <1>12, <1>13, <1>14 DEF IInv
\* The reads of a pass and its end.
LEMMA ReconcileInv ==
  ASSUME IInv, ReadPositions \/ ReadOrders \/ ReconcileEnds
  PROVE  IInv' /\ FillsGrow
<1> USE DEF store, broker, mind
<1>1. TypeOK'
  BY ReconcileType DEF IInv
<1>2. ASSUME EndPass, UNCHANGED <<order, pos, bOrder>> PROVE IInv' /\ FillsGrow
  <2>1. pc' \in ReturnLabels
    BY <1>2 DEF EndPass, IInv, TypeOK
  <2>2. Submitting'
    BY <2>1 DEF Submitting, ReturnLabels
  <2> QED BY <1>1, <1>2, <2>2, Quiet DEF EndPass
<1>3. CASE ReadPositions
  <2>1. CASE Unreachable
    BY <1>2, <1>3, <2>1 DEF ReadPositions, Unreachable
  <2>2. CASE ~Unreachable
    <3>1. /\ pc = "rec_positions" /\ pc' = "rec_orders"
          /\ UNCHANGED <<order, pos, bOrder, listed>>
      BY <1>3, <2>2 DEF ReadPositions
    <3>2. Submitting'
      BY <3>1 DEF Submitting
    <3> QED BY <1>1, <3>1, <3>2, Quiet
  <2> QED BY <2>1, <2>2
<1>4. CASE ReadOrders
  <2>1. CASE Unreachable
    BY <1>2, <1>4, <2>1 DEF ReadOrders, Unreachable
  <2>2. CASE ~Unreachable
    <3>1. /\ pc' = "rec_one" /\ UNCHANGED <<order, pos, bOrder>>
          /\ listed' = [c \in OrderIds |->
                         IF bOrder[c].status \in Working THEN bOrder[c] ELSE NoRead]
      BY <1>4, <2>2 DEF ReadOrders
    <3>2. NeverAheadOfBroker' /\ ListingCurrent' /\ FillsGrow
      BY <3>1, TypeFacts DEF IInv, NeverAheadOfBroker, ListingCurrent, FillsGrow
    <3>3. Submitting' /\ Unprepared' /\ NoPhantomExposure'
      BY <3>1 DEF IInv, Submitting, Unprepared, NoPhantomExposure
    <3> QED BY <1>1, <3>2, <3>3 DEF IInv
  <2> QED BY <2>1, <2>2
<1>5. CASE ReconcileEnds
  BY <1>2, <1>5 DEF ReconcileEnds
<1> QED BY <1>3, <1>4, <1>5

\* The deadline pass: it opens a position for a fill the database already has.
LEMMA EnforceInv ==
  ASSUME IInv, EnforceEnds \/ \E p \in Positions : EnforceOne(p)
  PROVE  IInv' /\ FillsGrow
<1>1. TypeOK' /\ TypeOK
  BY EnforceType DEF IInv
<1>2. CASE EnforceEnds
  <2>1. /\ pc # "rec_one" /\ pc' \in {"observe", "idle", "rec_positions"}
        /\ UNCHANGED <<order, pos, bOrder, listed>>
    BY <1>2 DEF EnforceEnds, Enforcing, Reconcile, store, broker, pass
  <2>2. Submitting'
    BY <2>1 DEF Submitting
  <2> QED BY <1>1, <2>1, <2>2, Quiet
<1>3. ASSUME NEW p \in Positions, EnforceOne(p) PROVE IInv' /\ FillsGrow
  <2> DEFINE c == WatchedOrder(p, pos[p])
  <2>1. /\ pc \in {"tick_deadlines", "order_deadlines"} /\ UNCHANGED <<pc, listed, order>>
        /\ \A d \in OrderIds : listed[d] = NoRead
    BY <1>3 DEF EnforceOne, Enforcing, EnforceLateFill, EnforceNothing, EnforceUncancellable,
                EnforceCancel, IInv, ListingCurrent
  <2>2. c \in OrderIds /\ Entry(p) \in OrderIds
    BY <1>1, WatchedOrderType, EntryId
  <2> HIDE DEF c
  <2>3. \A d \in OrderIds : bOrder'[d].filled = bOrder[d].filled
    <3>1. bOrder' \in {bOrder, [bOrder EXCEPT ![c].status = "pending_cancel"]}
      BY <1>3 DEF EnforceOne, EnforceLateFill, EnforceNothing, EnforceUncancellable,
                  EnforceCancel, c
    <3>2. bOrder \in [OrderIds -> [status : BrokerStatus, filled : 0 .. MaxClose]]
      BY <1>1 DEF TypeOK, BrokerRead
    <3> QED BY <2>2, <3>1, <3>2
  <2>4. \A q \in Positions :
          \/ pos'[q] = pos[q]
          \/ pos'[q].state = "INCIDENT"
          \/ pos'[q].state = "OPEN" /\ order[Entry(q)].filled > 0
    <3>1. pos \in [Positions -> PositionRow]
      BY <1>1 DEF TypeOK
    <3>2. CASE EnforceLateFill(p)
      BY <3>1, <3>2 DEF EnforceLateFill, ApplyEntryOutcome, PositionRow
    <3>3. \A kind : CancelFailed(p, c, kind) =>
            \A q \in Positions : pos'[q] = pos[q] \/ pos'[q].state = "INCIDENT"
      BY <3>1 DEF CancelFailed, MarkIncident, PositionRow
    <3>4. CASE EnforceNothing(p) \/ EnforceUncancellable(p) \/ EnforceCancel(p)
      BY <3>3, <3>4 DEF EnforceNothing, EnforceUncancellable, EnforceCancel, c
    <3> QED BY <1>3, <3>2, <3>4 DEF EnforceOne
  <2>5. NoPhantomExposure'
    BY <1>1, <2>1, <2>3, <2>4, EntryId, TypeFacts DEF IInv, NoPhantomExposure, NeverAheadOfBroker
  <2>6. NeverAheadOfBroker' /\ ListingCurrent' /\ FillsGrow
    BY <1>1, <2>1, <2>3, TypeFacts DEF IInv, NeverAheadOfBroker, ListingCurrent, FillsGrow
  <2>7. Submitting' /\ Unprepared'
    BY <2>1, <2>4 DEF IInv, Submitting, Unprepared
  <2> QED BY <1>1, <2>5, <2>6, <2>7 DEF IInv
<1> QED BY <1>2, <1>3

\* A submission: the order it sends starts at zero, and so does its row.
LEMMA GatewayInv == IInv /\ Gateway => IInv' /\ FillsGrow
<1> SUFFICES ASSUME IInv, Gateway PROVE IInv' /\ FillsGrow
  OBVIOUS
<1> USE DEF store, broker, pass, mind
<1>1. TypeOK /\ TypeOK'
  BY GatewayType DEF IInv
<1>2. /\ pc \in {"preflight", "send", "lookup", "record", "refused"} /\ pc # "rec_one"
      /\ UNCHANGED listed
      /\ \A d \in OrderIds : listed[d] = NoRead
      /\ cur \in OrderIds
      /\ IsEntry(cur) => pos[Owner(cur)].state = "PENDING"
      /\ Owner(cur) \in Positions
  <2>1. /\ pc \in {"preflight", "send", "lookup", "record", "refused"} /\ pc # "rec_one"
        /\ UNCHANGED listed
    BY DEF Gateway, PreflightPasses, PreflightRefuses, PreflightRaises, SendAccepted, SendRaises,
           LookUp, RecordSent, RecordUnsent, EntryRefused, EntryAmbiguous, CloseRefused
  <2> QED BY <2>1, OrderId DEF IInv, Submitting, ListingCurrent
<1>3. CASE PreflightPasses \/ PreflightRefuses \/ PreflightRaises \/ LookUp
  <2>1. UNCHANGED <<order, pos, bOrder>>
    BY <1>3 DEF PreflightPasses, PreflightRefuses, PreflightRaises, LookUp
  <2>2. Submitting'
    BY <1>2, <1>3
       DEF PreflightPasses, PreflightRefuses, PreflightRaises, LookUp, IInv, Submitting
  <2> QED BY <1>1, <1>2, <2>1, <2>2, Quiet
<1>4. CASE SendAccepted \/ SendRaises
  <2>1. /\ pc = "send" /\ pc' \in {"record", "lookup"} /\ UNCHANGED <<order, pos, cur>>
        /\ order[cur].filled = 0
    BY <1>4 DEF SendAccepted, SendRaises, IInv, Submitting
  <2>2. \A d \in OrderIds :
          \/ bOrder'[d] = bOrder[d]
          \/ d = cur /\ bOrder'[d].filled = 0
    BY <1>1, <1>4 DEF SendAccepted, SendRaises, TypeOK
  <2>3. NeverAheadOfBroker' /\ ListingCurrent' /\ FillsGrow
    BY <1>1, <1>2, <2>1, <2>2, TypeFacts
       DEF IInv, NeverAheadOfBroker, ListingCurrent, FillsGrow
  <2>4. NoPhantomExposure'
    <3> SUFFICES ASSUME NEW p \in Positions, pos[p].state \in {"OPEN", "CLOSING"}
                 PROVE  bOrder'[Entry(p)].filled > 0
      BY <2>1 DEF NoPhantomExposure
    <3>1. Entry(p) # cur
      BY <1>2, EntryId
    <3> QED BY <2>2, <3>1, EntryId DEF IInv, NoPhantomExposure
  <2>5. Submitting' /\ Unprepared'
    BY <1>2, <2>1 DEF IInv, Submitting, Unprepared
  <2> QED BY <1>1, <2>3, <2>4, <2>5 DEF IInv
<1>5. CASE RecordSent \/ RecordUnsent
  <2>1. /\ UNCHANGED <<pos, bOrder>> /\ order' = [order EXCEPT ![cur] = Submitted]
        /\ pc' \in {"rec_positions", "refused"} /\ (pc' = "refused" => cur' = cur)
    BY <1>5 DEF RecordSent, RecordUnsent, Reconcile
  <2>2. Submitted.state \in OrderState /\ Submitted.filled = order[cur].filled
    <3>1. order[cur] \in OrderRow
      BY <1>1, <1>2, TypeFacts
    <3>2. \E status, ambiguous : \E hasId \in BOOLEAN :
            Submitted = RecordSubmission(order[cur], status, ambiguous, hasId)
      BY DEF Submitted
    <3> QED BY <3>1, <3>2, OrderWrites
  <2>3. \A d \in OrderIds :
          /\ order'[d].filled = order[d].filled
          /\ order'[d] = order[d] \/ (d = cur /\ order'[d].state \in OrderState)
    BY <1>1, <1>2, <2>1, <2>2 DEF TypeOK
  <2>4. NeverAheadOfBroker' /\ ListingCurrent' /\ FillsGrow /\ NoPhantomExposure'
    BY <1>1, <1>2, <2>1, <2>3, TypeFacts
       DEF IInv, NeverAheadOfBroker, ListingCurrent, FillsGrow, NoPhantomExposure
  <2>5. Submitting'
    BY <1>2, <2>1 DEF Submitting
  <2>6. Unprepared'
    <3>1. \A d \in OrderIds : order'[d].state = "NONE" => order'[d] = NoOrderRow
      BY <2>3 DEF IInv, Unprepared, OrderState
    <3>2. ASSUME NEW p \in Positions, pos[p].state = "NONE"
          PROVE  order'[Entry(p)].state = "NONE"
      <4>1. Entry(p) # cur
        BY <1>2, <3>2, EntryId
      <4> QED BY <2>3, <3>2, <4>1, EntryId DEF IInv, Unprepared
    <3> QED BY <2>1, <3>1, <3>2 DEF Unprepared
  <2> QED BY <1>1, <2>4, <2>5, <2>6 DEF IInv
<1>6. CASE EntryRefused \/ EntryAmbiguous \/ CloseRefused
  <2>1. /\ UNCHANGED <<order, bOrder>>
        /\ pc' \in {"idle", "rec_positions", "manage"}
    BY <1>6 DEF EntryRefused, EntryAmbiguous, CloseRefused, Reconcile
  <2>2. \A p \in Positions :
          pos'[p] = pos[p] \/ pos'[p].state \in {"ABANDONED", "INCIDENT"}
    <3>1. PICK row : /\ pos' = [pos EXCEPT ![Owner(cur)] = row]
                     /\ row \in {ApplyEntryOutcome(pos[Owner(cur)], "REJECTED", 0),
                                 MarkIncident(pos[Owner(cur)])}
      BY <1>6 DEF EntryRefused, EntryAmbiguous, CloseRefused
    <3>2. row = pos[Owner(cur)] \/ row.state \in {"ABANDONED", "INCIDENT"}
      BY <1>1, <1>2, <3>1, TypeFacts
         DEF ApplyEntryOutcome, MarkIncident, Terminal, PositionRow
    <3> QED BY <1>1, <1>2, <3>1, <3>2 DEF TypeOK
  <2>3. NeverAheadOfBroker' /\ ListingCurrent' /\ FillsGrow
    BY <1>1, <1>2, <2>1, TypeFacts DEF IInv, NeverAheadOfBroker, ListingCurrent, FillsGrow
  <2>4. Submitting' /\ Unprepared' /\ NoPhantomExposure'
    BY <2>1, <2>2 DEF IInv, Submitting, Unprepared, NoPhantomExposure
  <2> QED BY <1>1, <2>3, <2>4 DEF IInv
<1> QED BY <1>3, <1>4, <1>5, <1>6 DEF Gateway
\* A management cycle and an entry decision: a close takes over from an open
\* position, and an entry is prepared for a position that has none.
LEMMA TurnInv == IInv /\ Turn => IInv' /\ FillsGrow
<1> SUFFICES ASSUME IInv, Turn PROVE IInv' /\ FillsGrow
  OBVIOUS
<1> USE DEF store, broker, pass, mind
<1>1. TypeOK /\ TypeOK'
  BY TurnType DEF IInv
<1>2. /\ pc \in {"observe", "valuation", "manage"} /\ UNCHANGED <<bOrder, listed>>
      /\ \A d \in OrderIds : listed[d] = NoRead
  <2>1. pc \in {"observe", "valuation", "manage"} /\ UNCHANGED <<bOrder, listed>>
    BY DEF Turn, BeginCycle, TurnEnds, DataHalts, CycleEnds, PrepareEntry, Manage, ManageHolds,
           ManageFails, ManageCollides, ManageCloses, Managing, Keep
  <2> QED BY <2>1 DEF IInv, ListingCurrent
<1>3. CASE \/ BeginCycle \/ TurnEnds \/ DataHalts \/ CycleEnds
           \/ \E p \in Positions : ManageHolds(p)
  <2>1. UNCHANGED <<order, pos>> /\ pc' \in {"manage", "idle"}
    BY <1>3 DEF BeginCycle, TurnEnds, DataHalts, CycleEnds, ManageHolds, Managing
  <2>2. Submitting'
    BY <2>1 DEF Submitting
  <2> QED BY <1>1, <1>2, <2>1, <2>2, Quiet
<1>4. ASSUME NEW p \in Positions, PrepareEntry(p) PROVE IInv' /\ FillsGrow
  <2>1. /\ Entry(p) \in OrderIds /\ Owner(Entry(p)) = p /\ IsEntry(Entry(p))
        /\ \A q \in Positions : Entry(q) = Entry(p) => q = p
    BY EntryId
  <2>2. /\ pos[p].state = "NONE" /\ cur' = Entry(p) /\ pc' = "preflight"
        /\ order' = [order EXCEPT ![Entry(p)] = PreparedOrder]
        /\ \E s \in Spreads : pos' = [pos EXCEPT ![p] = PreparedPosition(s)]
    BY <1>4 DEF PrepareEntry
  <2>3. order[Entry(p)].filled = 0
    BY <2>1, <2>2, TypeFacts DEF IInv, Unprepared
  <2>4. \A d \in OrderIds :
          /\ order'[d].filled = order[d].filled
          /\ order'[d] = order[d] \/ (d = Entry(p) /\ order'[d].state = "PREPARED")
    BY <1>1, <2>1, <2>2, <2>3 DEF TypeOK, PreparedOrder, NoOrderRow
  <2>5. pos'[p].state = "PENDING" /\ \A q \in Positions : q # p => pos'[q] = pos[q]
    BY <1>1, <2>2 DEF TypeOK, PreparedPosition
  <2>6. NeverAheadOfBroker' /\ ListingCurrent' /\ FillsGrow
    BY <1>1, <1>2, <2>4, TypeFacts DEF IInv, NeverAheadOfBroker, ListingCurrent, FillsGrow
  <2>7. NoPhantomExposure' /\ Submitting'
    BY <1>2, <2>1, <2>2, <2>3, <2>4, <2>5 DEF IInv, NoPhantomExposure, Submitting
  <2>8. Unprepared'
    BY <2>1, <2>4, <2>5, EntryId DEF IInv, Unprepared
  <2> QED BY <1>1, <2>6, <2>7, <2>8 DEF IInv
<1>5. ASSUME NEW p \in Positions, NEW kind, ManageFails(p, kind) PROVE IInv' /\ FillsGrow
  <2>1. /\ UNCHANGED <<order, bOrder, pc>> /\ pc = "manage"
        /\ pos' = [pos EXCEPT ![p] = MarkIncident(@)] /\ pos[p].state = "OPEN"
    BY <1>5 DEF ManageFails, Managing, Keep
  <2>2. \A q \in Positions : pos'[q] = pos[q] \/ pos'[q].state = "INCIDENT"
    BY <1>1, <2>1 DEF TypeOK, MarkIncident, PositionRow
  <2>3. NeverAheadOfBroker' /\ ListingCurrent' /\ FillsGrow
    BY <1>1, <1>2, <2>1, TypeFacts DEF IInv, NeverAheadOfBroker, ListingCurrent, FillsGrow
  <2>4. NoPhantomExposure' /\ Submitting' /\ Unprepared'
    BY <2>1, <2>2 DEF IInv, NoPhantomExposure, Submitting, Unprepared
  <2> QED BY <1>1, <2>3, <2>4 DEF IInv
<1>6. ASSUME NEW p \in Positions, NEW t \in CloseTerms, NEW warned \in BOOLEAN,
             ManageCloses(p, t, warned)
      PROVE  IInv' /\ FillsGrow
  <2> DEFINE c == CloseId(p, pos[p].filled, t)
  <2>1. /\ c \in CloseIds /\ c \in OrderIds /\ ~IsEntry(c)
        /\ \A q \in Positions : Entry(q) # c
    <3>1. c \in CloseIds /\ c \in OrderIds
      BY <1>6 DEF ManageCloses, OrderIds
    <3> HIDE DEF c
    <3> QED BY <3>1, OrderId, EntryId
  <2>2. /\ order[c].state = "NONE" /\ pos[p].state = "OPEN" /\ cur' = c /\ pc' = "preflight"
        /\ order' = [order EXCEPT ![c] = PreparedOrder]
        /\ pos' = [pos EXCEPT ![p] = ClosingPosition(@, c)]
    BY <1>6 DEF ManageCloses
  <2> HIDE DEF c
  <2>3. order[c].filled = 0
    BY <2>1, <2>2, TypeFacts DEF IInv, Unprepared
  <2>4. \A d \in OrderIds :
          /\ order'[d].filled = order[d].filled
          /\ order'[d] = order[d] \/ (d = c /\ order'[d].state = "PREPARED")
    BY <1>1, <2>1, <2>2, <2>3 DEF TypeOK, PreparedOrder, NoOrderRow
  <2>5. pos'[p].state = "CLOSING" /\ \A q \in Positions : q # p => pos'[q] = pos[q]
    BY <1>1, <2>2 DEF TypeOK, ClosingPosition, PositionRow
  <2>6. NeverAheadOfBroker' /\ ListingCurrent' /\ FillsGrow
    BY <1>1, <1>2, <2>4, TypeFacts DEF IInv, NeverAheadOfBroker, ListingCurrent, FillsGrow
  <2>7. NoPhantomExposure' /\ Submitting'
    BY <1>2, <2>1, <2>2, <2>3, <2>4, <2>5 DEF IInv, NoPhantomExposure, Submitting
  <2>8. Unprepared'
    BY <2>1, <2>4, <2>5, EntryId DEF IInv, Unprepared
  <2> QED BY <1>1, <2>6, <2>7, <2>8 DEF IInv
<1> QED BY <1>3, <1>4, <1>5, <1>6 DEF Turn, Manage, ManageCollides

\* The invariant holds when the database is empty.
LEMMA InitInv == Init => IInv
<1> SUFFICES ASSUME Init PROVE IInv
  OBVIOUS
<1>1. TypeOK
  BY InitType
<1>2. Unprepared
  BY EntryId DEF Init, Unprepared, NoOrderRow
<1>3. ListingCurrent /\ NeverAheadOfBroker
  BY DEF Init, ListingCurrent, NeverAheadOfBroker, NothingListed, NoRead, NoOrderRow
<1>4. NoPhantomExposure /\ Submitting
  BY DEF Init, NoPhantomExposure, NoPositionRow, Submitting
<1> QED BY <1>1, <1>2, <1>3, <1>4 DEF IInv

\* Every step keeps the invariant, and no step lowers a recorded fill.
LEMMA StepInv == IInv /\ [Next]_vars => IInv' /\ FillsGrow
<1> SUFFICES ASSUME IInv, [Next]_vars PROVE IInv' /\ FillsGrow
  OBVIOUS
<1> USE DEF store, broker, pass, mind
<1>1. TypeOK /\ TypeOK'
  BY StepType DEF IInv
<1>2. CASE Broker
  BY <1>2, BrokerInv
<1>3. ASSUME NEW c \in OrderIds, TimePasses(c) PROVE IInv' /\ FillsGrow
  <2>1. /\ pc = "idle" /\ UNCHANGED <<pos, bOrder, pc, listed>>
        /\ order[c].sent \in {"fresh", "due"}
    BY <1>3 DEF TimePasses
  <2>2. \A d \in OrderIds :
          /\ order'[d].filled = order[d].filled
          /\ order'[d].state = order[d].state
          /\ d # c => order'[d] = order[d]
    BY <1>1, <1>3 DEF TimePasses, TypeOK, OrderRow
  <2>3. order[c].state # "NONE"
    BY <2>1 DEF IInv, Unprepared, NoOrderRow
  <2>4. Unprepared'
    BY <2>1, <2>2, <2>3, EntryId DEF IInv, Unprepared
  <2>5. NeverAheadOfBroker' /\ ListingCurrent' /\ FillsGrow
    BY <1>1, <2>1, <2>2, TypeFacts DEF IInv, NeverAheadOfBroker, ListingCurrent, FillsGrow
  <2>6. NoPhantomExposure' /\ Submitting'
    BY <2>1 DEF IInv, NoPhantomExposure, Submitting
  <2> QED BY <1>1, <2>4, <2>5, <2>6 DEF IInv
<1>4. CASE Start \/ Clocks
  <2>1. /\ pc \in {"down", "idle"} /\ pc' = "rec_positions"
        /\ UNCHANGED <<order, pos, bOrder, listed>>
    BY <1>4 DEF Start, Clocks, Tick, OrderClock, PositionClock, Reconcile
  <2>2. Submitting'
    BY <2>1 DEF Submitting
  <2> QED BY <1>1, <2>1, <2>2, Quiet
<1>5. CASE Crash
  <2>1. pc' = "down" /\ UNCHANGED <<order, pos, bOrder>> /\ listed' = NothingListed
    BY <1>5 DEF Crash
  <2>2. Submitting'
    BY <2>1 DEF Submitting
  <2> QED BY <1>1, <2>1, <2>2, Quiet
<1>6. CASE Pass
  BY <1>6, ReconcileInv, ReconcileOneInv, EnforceInv DEF Pass
<1>7. CASE Gateway
  BY <1>7, GatewayInv
<1>8. CASE Turn
  BY <1>8, TurnInv
<1>9. CASE UNCHANGED vars
  <2>1. UNCHANGED <<order, pos, bOrder, listed, pc, cur>>
    BY <1>9 DEF vars
  <2>2. Submitting'
    BY <2>1 DEF IInv, Submitting
  <2> QED BY <1>1, <2>1, <2>2, Quiet
<1> QED BY <1>2, <1>3, <1>4, <1>5, <1>6, <1>7, <1>8, <1>9 DEF Next

\* The invariant holds throughout.
LEMMA Inductive == Spec => []IInv
BY InitInv, StepInv, PTL DEF Spec

\* No position is ever managed as exposure that does not exist: through crashes,
\* lost responses, late fills and healed incidents, it is OPEN or CLOSING only if
\* the broker filled its entry.
THEOREM NoPhantom == Spec => []NoPhantomExposure
<1>1. IInv => NoPhantomExposure
  BY DEF IInv
<1> QED BY <1>1, Inductive, PTL

\* Neither the database nor the listing of a running pass is ever ahead of the
\* broker.
THEOREM NeverAhead == Spec => []NeverAheadOfBroker
<1>1. IInv => NeverAheadOfBroker
  BY DEF IInv
<1> QED BY <1>1, Inductive, PTL

\* However stale the listing a pass works from, no pass takes back a fill that an
\* earlier one recorded.
THEOREM FillsKept == Spec => FillsNeverRegress
<1>1. IInv /\ [Next]_vars => [\A c \in OrderIds : order'[c].filled >= order[c].filled]_vars
  BY StepInv DEF FillsGrow
<1> QED BY <1>1, Inductive, PTL DEF Spec, FillsNeverRegress
===============================================================================

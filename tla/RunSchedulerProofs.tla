------------------------- MODULE RunSchedulerProofs -------------------------
(***************************************************************************)
(* The scheduled stop, however long the day, the window and the lock are:  *)
(* the readiness and the lock it read before it stops the server, and the  *)
(* server it brings back for a session. Then the resize beside it: what    *)
(* has been saved when the type of the instance changes.                   *)
(***************************************************************************)
EXTENDS ResizeTrial, TLAPS

-----------------------------------------------------------------------------
\* Types.

LEMMA TickTypes ==
  ASSUME NEW at \in {"due", "asking", "deciding", "acting", "over"}, NEW failed \in BOOLEAN
  PROVE  NewTick(at, failed) \in Tick
<1>1. NoLock \in Lock
  BY ScheduleAssumption DEF NoLock, Lock
<1> QED
  BY <1>1 DEF NewTick, Tick, Statuses

LEMMA DecideTypes ==
  ASSUME NEW s, NEW l, NEW ready \in BOOLEAN
  PROVE  Decide(s, l, ready) \in {"none", "start", "stop"}
BY DEF Decide

LEMMA LockTypes ==
  ASSUME NEW l \in Lock, NEW left \in -LockGrace..MaxLock + 1
  PROVE  /\ Tagged(l, left) \in Lock
         /\ Aged(l) \in Lock
<1>1. l.left \in -LockGrace..MaxLock + 1
  BY DEF Lock
<1>2. l.left - 1 \in -LockGrace..MaxLock + 1 \/ l.left = -LockGrace
  BY <1>1, ScheduleAssumption
<1>3. Aged(l) = [l EXCEPT !.left = IF l.left = -LockGrace THEN l.left ELSE l.left - 1]
  BY DEF Aged
<1>4. Aged(l) \in Lock
  BY <1>1, <1>2, <1>3, ScheduleAssumption DEF Lock
<1> QED
  BY <1>4, ScheduleAssumption DEF Tagged, Lock

LEMMA TypeInit == Init => TypeOK
<1> SUFFICES ASSUME Init PROVE TypeOK
  OBVIOUS
<1>1. lock \in Lock
  BY ScheduleAssumption DEF Init, NoLock, Lock
<1>2. tick \in Tick
  BY TickTypes DEF Init
<1>3. clock \in 0..DayLen - 1 /\ faults \in 0..MaxFaults /\ commands \in 0..MaxCommands
  BY ScheduleAssumption DEF Init
<1>4. host \in Host
  BY DEF Init, Host
<1> QED
  BY <1>1, <1>2, <1>3, <1>4 DEF Init, TypeOK, Statuses, Owner

LEMMA TypeStep == TypeOK /\ [Next]_vars => TypeOK'
<1> SUFFICES ASSUME TypeOK, [Next]_vars PROVE TypeOK'
  OBVIOUS
<1>a. /\ tick \in Tick /\ lock \in Lock /\ status \in Statuses
      /\ faults \in 0..MaxFaults /\ commands \in 0..MaxCommands
  BY DEF TypeOK
<1>b. ASSUME Fault PROVE faults' \in 0..MaxFaults
  BY <1>b, <1>a, ScheduleAssumption DEF Fault
<1>c. ASSUME Command PROVE commands' \in 0..MaxCommands
  BY <1>c, <1>a, ScheduleAssumption DEF Command
<1>d. /\ NewTick("due", FALSE) \in Tick
      /\ \A failed \in BOOLEAN : NewTick("over", failed) \in Tick
  BY TickTypes
<1>e. \A s, l : \A ready \in BOOLEAN : Decide(s, l, ready) \in {"none", "start", "stop"}
  BY DecideTypes
<1>f. \A left \in -LockGrace..MaxLock + 1 : Tagged(lock, left) \in Lock
  BY <1>a, LockTypes
<1>1. CASE ReadsInstance
  <2>1. tick' \in Tick
    BY <1>1, <1>a, <1>e DEF ReadsInstance, Tick
  <2>2. UNCHANGED <<timeVars, status, lock, host, owner, faults, commands>>
    BY <1>1 DEF ReadsInstance
  <2> QED
    BY <2>1, <2>2 DEF TypeOK, timeVars
<1>2. CASE AsksReadiness
  <2>1. StopReadiness \in BOOLEAN
    BY DEF StopReadiness
  <2>2. PICK ready \in BOOLEAN :
          tick' = [tick EXCEPT !.at = "deciding", !.do = Decide(tick.status, tick.lock, ready)]
    <3>1. CASE tick' = [tick EXCEPT !.at = "deciding",
                                    !.do = Decide(tick.status, tick.lock, StopReadiness)]
      BY <3>1, <2>1
    <3>2. CASE tick' = [tick EXCEPT !.at = "deciding",
                                    !.do = Decide(tick.status, tick.lock, FALSE)]
      BY <3>2
    <3> QED
      BY <1>2, <3>1, <3>2 DEF AsksReadiness
  <2>4. Decide(tick.status, tick.lock, ready) \in {"none", "start", "stop"}
    BY <1>e
  <2>5. tick' \in Tick
    BY <1>a, <2>2, <2>4 DEF Tick
  <2>3. faults' \in 0..MaxFaults
    BY <1>2, <1>a, <1>b DEF AsksReadiness
  <2> QED
    BY <1>2, <2>3, <2>5 DEF AsksReadiness, TypeOK, timeVars
<1>3. CASE Retags
  <2>1. tick' \in Tick
    BY <1>3, <1>a DEF Retags, Tick
  <2>2. lock' \in Lock
    BY <1>3, <1>a, <1>f, ScheduleAssumption DEF Retags
  <2>3. faults' \in 0..MaxFaults
    BY <1>3, <1>a, <1>b DEF Retags
  <2> QED
    BY <1>3, <2>1, <2>2, <2>3 DEF Retags, TypeOK, timeVars
<1>4. CASE Starts \/ Stops
  BY <1>4, <1>a, <1>d DEF Starts, Stops, TickOver, TypeOK, Statuses, timeVars
<1>5. CASE LeavesAlone
  BY <1>5, <1>d DEF LeavesAlone, TickOver, TypeOK, timeVars
<1>6. CASE ReadFails \/ CallFails
  BY <1>6, <1>b, <1>d DEF ReadFails, CallFails, TickOver, TypeOK, timeVars
<1>7. CASE SessionLooks \/ SessionStarts
  BY <1>7, <1>a DEF SessionLooks, SessionStarts, TypeOK, Owner, Statuses, timeVars
<1>8. CASE SessionFails
  BY <1>8, <1>b DEF SessionFails, TypeOK, Owner, timeVars
<1>9. CASE SessionStart \/ SessionExtend \/ SessionEnd
  <2>1. lock' \in Lock
    BY <1>9, <1>f, ScheduleAssumption DEF SessionStart, SessionExtend, SessionEnd
  <2>2. owner' \in Owner /\ commands' \in 0..MaxCommands
    BY <1>9, <1>c DEF SessionStart, SessionExtend, SessionEnd, TypeOK, Owner
  <2> QED
    BY <1>9, <2>1, <2>2 DEF SessionStart, SessionExtend, SessionEnd, TypeOK, timeVars
<1>10. CASE TypesTags
  <2>1. NoLock \in Lock
    BY ScheduleAssumption DEF NoLock, Lock
  <2>2. Tagged(lock, MaxLock + 1) \in Lock
    BY <1>f, ScheduleAssumption
  <2>3. lock' \in Lock
    BY <1>10, <1>a, <2>1, <2>2 DEF TypesTags, Lock
  <2> QED
    BY <1>10, <2>3, <1>c DEF TypesTags, TypeOK, timeVars
<1>11. CASE Boots \/ Halts
  BY <1>11 DEF Boots, Halts, TypeOK, Statuses, timeVars
<1>12. CASE HostChanges
  BY <1>12 DEF HostChanges, TypeOK, timeVars
<1>13. CASE TimePasses
  <2>1. clock' \in 0..DayLen - 1
    BY <1>13, ScheduleAssumption DEF TimePasses, TypeOK
  <2>2. lock' \in Lock
    BY <1>13, <1>a, LockTypes, ScheduleAssumption DEF TimePasses
  <2>3. host' \in Host
    BY <1>13 DEF TimePasses, TypeOK, Host
  <2> QED
    BY <1>13, <2>1, <2>2, <2>3, <1>d DEF TimePasses, TypeOK
<1>14. CASE UNCHANGED vars
  BY <1>14 DEF vars, timeVars, TypeOK
<1> QED
  BY <1>1, <1>2, <1>3, <1>4, <1>5, <1>6, <1>7, <1>8, <1>9, <1>10, <1>11, <1>12, <1>13, <1>14
     DEF Next, TickStep, OwnerStep

\* Every reachable state is well typed.
THEOREM ScheduleTypes == Spec => []TypeOK
BY TypeInit, TypeStep, PTL DEF Spec

-----------------------------------------------------------------------------
\* What an answer of the server still says when the stop is sent.

\* It is night on a day the calendar covers, and the server owns nothing.
Idle == ~InRunWindow /\ ~host.exposure

\* A tick that is going to stop the server rests on an answer that still holds.
StopWarranted ==
  tick.at \in {"deciding", "acting"} /\ tick.do = "stop" => Idle

\* Within a session the run window is open, so that no exposure is taken
\* while a stop is under way.
LEMMA SessionIsInWindow == TypeOK /\ InSession => InRunWindow
BY ScheduleAssumption DEF TypeOK, InSession, InRunWindow

\* Only a server that is ready, at a time when a stop is due, is to be stopped.
LEMMA StopIsDecided ==
  ASSUME NEW s, NEW l, NEW ready \in BOOLEAN, Decide(s, l, ready) = "stop"
  PROVE  ready /\ ~InRunWindow
BY DEF Decide, StopIsDue

LEMMA WarrantStep == TypeOK /\ StopWarranted /\ [Next]_vars => StopWarranted'
<1> SUFFICES ASSUME TypeOK, StopWarranted, [Next]_vars,
                    tick'.at \in {"deciding", "acting"}, tick'.do = "stop"
             PROVE  Idle'
  BY DEF StopWarranted
<1>a. tick \in Tick
  BY DEF TypeOK
<1>b. (UNCHANGED timeVars => (InRunWindow' <=> InRunWindow))
  BY DEF InRunWindow, timeVars
<1>c. \A failed \in BOOLEAN : NewTick("over", failed).at = "over"
  BY DEF NewTick
<1>1. CASE ReadsInstance
  <2>1. Decide(status, lock, FALSE) = "stop"
    BY <1>1, <1>a DEF ReadsInstance, Tick
  <2> QED
    BY <2>1, StopIsDecided
<1>2. CASE AsksReadiness
  <2>1. StopReadiness \in BOOLEAN
    BY DEF StopReadiness
  <2>2. Decide(tick.status, tick.lock, StopReadiness) = "stop"
        \/ Decide(tick.status, tick.lock, FALSE) = "stop"
    BY <1>2, <1>a DEF AsksReadiness, Tick
  <2>3. StopReadiness /\ ~InRunWindow
    BY <2>1, <2>2, StopIsDecided
  <2> QED
    BY <1>2, <2>3, <1>b DEF AsksReadiness, StopReadiness, Idle
<1>3. CASE Retags
  <2>1. tick.at = "deciding" /\ tick.do = "stop"
    BY <1>3, <1>a DEF Retags, Tick
  <2> QED
    BY <1>3, <2>1, <1>b DEF Retags, StopWarranted, Idle
<1>4. CASE Starts \/ Stops \/ LeavesAlone \/ ReadFails \/ CallFails
  <2>1. tick'.at = "over"
    BY <1>4, <1>c DEF Starts, Stops, LeavesAlone, ReadFails, CallFails, TickOver
  <2> QED
    BY <2>1
<1>5. CASE HostChanges
  <2>1. Idle
    BY <1>5 DEF HostChanges, StopWarranted
  <2>2. ~InSession
    BY <2>1, SessionIsInWindow DEF Idle
  <2> QED
    BY <1>5, <2>1, <2>2, <1>b DEF HostChanges, Idle
<1>6. CASE TimePasses
  <2>1. tick'.at = "due"
    BY <1>6 DEF TimePasses, NewTick
  <2> QED
    BY <2>1
<1>7. CASE UNCHANGED <<timeVars, tick, host>>
  BY <1>7, <1>b DEF StopWarranted, Idle
<1> QED
  BY <1>1, <1>2, <1>3, <1>4, <1>5, <1>6, <1>7
     DEF Next, TickStep, OwnerStep, vars, timeVars, SessionLooks, SessionStarts,
         SessionStart, SessionFails, SessionExtend, SessionEnd, TypesTags, Boots, Halts

\* Only Stops sends a stop.
LEMMA StopIsSent == [Next]_vars /\ StopSent => Stops
BY DEF StopSent, Next, TickStep, OwnerStep, vars, ReadsInstance, AsksReadiness, Retags,
       Starts, LeavesAlone, ReadFails, CallFails, SessionLooks, SessionStarts,
       SessionStart, SessionFails, SessionExtend, SessionEnd, TypesTags, Boots, Halts,
       HostChanges, TimePasses

LEMMA StopStep ==
  TypeOK /\ StopWarranted /\ [Next]_vars => (StopSent => ~host.exposure)
<1> SUFFICES ASSUME TypeOK, StopWarranted, [Next]_vars, StopSent PROVE ~host.exposure
  OBVIOUS
<1>1. Stops
  BY StopIsSent
<1> QED
  BY <1>1 DEF Stops, StopWarranted, Idle

\* The server is never stopped while it owns a position or a working order, though
\* handler.py reads the readiness before it sends StopInstance and asks no more.
THEOREM StopsWithoutExposure == Spec => NoStopWithExposure
<1>1. Init => StopWarranted
  BY DEF Init, StopWarranted, NewTick
<1>2. TypeOK /\ StopWarranted /\ [Next]_vars => [StopSent => ~host.exposure]_vars
  BY StopStep
<1> QED
  BY <1>1, <1>2, WarrantStep, TypeInit, TypeStep, PTL DEF Spec, NoStopWithExposure

-----------------------------------------------------------------------------
\* A lock that a stop has met.

\* A tick that asks the server, or is going to stop it, read tags with no lock in
\* force.
NoLockRead ==
  tick.at = "asking" \/ (tick.at \in {"deciding", "acting"} /\ tick.do = "stop")
    => ReadLock(tick.lock) \in {"none", "expired"}

LEMMA StopIsUnlocked ==
  ASSUME NEW s, NEW l, NEW ready \in BOOLEAN,
         Decide(s, l, ready) = "stop" \/ StopIsDue(s, l)
  PROVE  ReadLock(l) \in {"none", "expired"}
<1>1. StopIsDue(s, l)
  BY DEF Decide
<1> QED
  BY <1>1 DEF StopIsDue

LEMMA LockReadStep == TypeOK /\ NoLockRead /\ [Next]_vars => NoLockRead'
<1> SUFFICES ASSUME TypeOK, NoLockRead, [Next]_vars,
                    tick'.at = "asking"
                      \/ (tick'.at \in {"deciding", "acting"} /\ tick'.do = "stop")
             PROVE  ReadLock(tick'.lock) \in {"none", "expired"}
  BY DEF NoLockRead, ReadLock
<1>a. tick \in Tick
  BY DEF TypeOK
<1>b. \A failed \in BOOLEAN : NewTick("over", failed).at = "over"
  BY DEF NewTick
<1>1. CASE ReadsInstance
  <2>1. tick'.lock = lock
    BY <1>1, <1>a DEF ReadsInstance, Tick
  <2>2. Decide(status, lock, FALSE) = "stop" \/ StopIsDue(status, lock)
    BY <1>1, <1>a DEF ReadsInstance, Tick
  <2> QED
    BY <2>1, <2>2, StopIsUnlocked
<1>2. CASE AsksReadiness \/ Retags
  <2>1. tick'.lock = tick.lock
    BY <1>2, <1>a DEF AsksReadiness, Retags, Tick
  <2>2. tick.at = "asking" \/ (tick.at = "deciding" /\ tick.do = "stop")
    BY <1>2, <1>a DEF AsksReadiness, Retags, Tick
  <2> QED
    BY <2>1, <2>2 DEF NoLockRead
<1>3. CASE Starts \/ Stops \/ LeavesAlone \/ ReadFails \/ CallFails
  <2>1. tick'.at = "over"
    BY <1>3, <1>b DEF Starts, Stops, LeavesAlone, ReadFails, CallFails, TickOver
  <2> QED
    BY <2>1
<1>4. CASE TimePasses
  <2>1. tick'.at = "due"
    BY <1>4 DEF TimePasses, NewTick
  <2> QED
    BY <2>1
<1>5. CASE UNCHANGED tick
  BY <1>5 DEF NoLockRead
<1> QED
  BY <1>1, <1>2, <1>3, <1>4, <1>5
     DEF Next, TickStep, OwnerStep, vars, SessionLooks, SessionStarts, SessionStart,
         SessionFails, SessionExtend, SessionEnd, TypesTags, Boots, Halts, HostChanges

\* handler.py stops the server under a lock in force only when the lock was written
\* after the tick had read the tags: on the tags it read, no session was active.
THEOREM StopsOnlyUnlocked == Spec => SessionNotCut
<1>1. Init => NoLockRead
  BY DEF Init, NoLockRead, NewTick
<1>2. TypeOK /\ NoLockRead /\ [Next]_vars
        => [StopSent /\ lock = tick.lock => ReadLock(lock) \in {"none", "expired"}]_vars
  <2>1. NoLockRead /\ Stops /\ lock = tick.lock => ReadLock(lock) \in {"none", "expired"}
    BY DEF Stops, NoLockRead
  <2> QED
    BY <2>1, StopIsSent
<1> QED
  BY <1>1, <1>2, LockReadStep, TypeInit, TypeStep, PTL DEF Spec, SessionNotCut

-----------------------------------------------------------------------------
\* The server at the open. Within the window of a trading day nothing stops it,
\* and a tick that finds it stopped starts it, unless one of its calls fails. So
\* a server still down has cost a failed call in every period since the window
\* opened, and the lead has more periods than there are failures.

OpensAt == OpenAt - StartLead

OnSessionDay == day = "session" /\ OpensAt <= clock /\ clock < CloseAt + StopLag

\* Periods of this window whose tick is over.
TicksOver == clock - OpensAt + (IF tick.at = "over" THEN 1 ELSE 0)

InHand == status \in {"Running", "Starting"}

LeadInv ==
  OnSessionDay =>
    /\ status # "Stopping"
    /\ tick.at # "asking"
    /\ status = "Stopped" /\ tick.at \in {"deciding", "acting"} => tick.do = "start"
    /\ InHand \/ TicksOver <= MaxFaults - faults
    /\ InSession => status = "Running"

LEMMA WindowOfDay == OnSessionDay => InRunWindow
BY DEF OnSessionDay, InRunWindow, OpensAt

LEMMA SessionInDay == TypeOK /\ InSession => OnSessionDay
BY ScheduleAssumption DEF TypeOK, InSession, OnSessionDay, OpensAt

\* What a step that is not TimePasses has to keep.
LEMMA LeadStepInUnit ==
  ASSUME TypeOK, StopWarranted, LeadInv, [Next]_vars, UNCHANGED timeVars, OnSessionDay
  PROVE  LeadInv'
<1>a. /\ status # "Stopping" /\ tick.at # "asking"
      /\ status = "Stopped" /\ tick.at \in {"deciding", "acting"} => tick.do = "start"
      /\ InHand \/ TicksOver <= MaxFaults - faults
      /\ InSession => status = "Running"
  BY DEF LeadInv
<1>b. InRunWindow
  BY WindowOfDay
<1>c. tick.at \in {"deciding", "acting"} => tick.do # "stop"
  BY <1>b DEF StopWarranted, Idle
<1>d. /\ tick \in Tick /\ status \in Statuses /\ faults \in 0..MaxFaults
      /\ clock \in Int /\ OpensAt \in Int /\ MaxFaults \in Int
  BY ScheduleAssumption DEF TypeOK, OpensAt
<1>e. OnSessionDay' /\ (InSession' <=> InSession)
  BY DEF timeVars, OnSessionDay, OpensAt, InSession
<1>f. \A failed \in BOOLEAN : NewTick("over", failed).at = "over"
  BY DEF NewTick
<1>g. clock' = clock /\ OpensAt' = OpensAt
  BY DEF timeVars, OpensAt
<1>1. CASE ReadsInstance
  <2>1. ~StopIsDue(status, lock)
    BY <1>b DEF StopIsDue
  <2>2. /\ tick'.at = "deciding" /\ tick'.do = Decide(status, lock, FALSE)
        /\ tick.at = "due" /\ UNCHANGED <<status, faults>>
    BY <1>1, <2>1, <1>d DEF ReadsInstance, Tick
  <2>3. status = "Stopped" => tick'.do = "start"
    BY <2>2, <1>b DEF Decide
  <2> QED
    BY <2>2, <2>3, <1>a, <1>e, <1>g DEF LeadInv, InHand, TicksOver
<1>2. CASE Retags
  <2>1. /\ tick'.at = "acting" /\ tick'.do = tick.do /\ tick.at = "deciding"
        /\ UNCHANGED status
    BY <1>2, <1>d DEF Retags, Tick
  <2>2. faults' <= faults /\ faults' \in Int
    BY <1>2, <1>d DEF Retags, Fault
  <2>3. TicksOver' = TicksOver
    BY <2>1, <1>g DEF TicksOver
  <2>4. InHand' \/ TicksOver' <= MaxFaults' - faults'
    BY <2>1, <2>2, <2>3, <1>a, <1>d DEF InHand, TicksOver
  <2>5. status = "Stopped" => tick'.do = "start"
    BY <2>1, <1>a
  <2> QED
    BY <2>1, <2>4, <2>5, <1>a, <1>e DEF LeadInv
<1>3. CASE Starts
  <2>1. tick'.at = "over" /\ tick.at = "acting"
    BY <1>3, <1>f DEF Starts, TickOver
  <2>2. status' \in {"Running", "Starting"}
    BY <1>3, <1>a, <1>d DEF Starts, Statuses
  <2>3. status = "Running" => status' = "Running"
    BY <1>3 DEF Starts
  <2> QED
    BY <2>1, <2>2, <2>3, <1>a, <1>e DEF LeadInv, InHand
<1>4. CASE AsksReadiness \/ Stops
  BY <1>4, <1>a, <1>c DEF AsksReadiness, Stops
<1>5. CASE LeavesAlone
  <2>1. tick'.at = "over" /\ UNCHANGED status
    BY <1>5, <1>f DEF LeavesAlone, TickOver
  <2>2. status # "Stopped"
    BY <1>5, <1>a DEF LeavesAlone
  <2>3. InHand
    BY <2>2, <1>a, <1>d DEF InHand, Statuses
  <2> QED
    BY <2>1, <2>3, <1>a, <1>e DEF LeadInv, InHand
<1>6. CASE ReadFails \/ CallFails
  <2>1. /\ tick'.at = "over" /\ tick.at # "over" /\ UNCHANGED status
        /\ faults' = faults - 1
    BY <1>6, <1>f DEF ReadFails, CallFails, TickOver, Fault
  <2> QED
    BY <2>1, <1>a, <1>d, <1>e, <1>g DEF LeadInv, InHand, TicksOver
<1>7. CASE SessionStarts \/ Boots
  <2>1. UNCHANGED <<tick, faults>>
    BY <1>7 DEF SessionStarts, Boots
  <2>2. /\ status = "Stopped" => status' = "Starting"
        /\ status = "Running" => status' = "Running"
        /\ status = "Starting" => status' \in {"Starting", "Running"}
    BY <1>7 DEF SessionStarts, Boots
  <2> QED
    BY <2>1, <2>2, <1>a, <1>d, <1>e DEF LeadInv, InHand, Statuses
<1>8. CASE Halts \/ TimePasses
  <2>1. ~Halts
    BY <1>a DEF Halts
  <2>2. clock' = (clock + 1) % DayLen /\ clock' = clock /\ clock \in 0..DayLen - 1
    BY <2>1, <1>8, <1>g DEF TimePasses, TypeOK
  <2>3. FALSE
    BY <2>2, ScheduleAssumption DEF OnSessionDay
  <2> QED
    BY <2>3
<1>9. CASE SessionFails
  <2>1. UNCHANGED <<status, tick>> /\ faults' = faults - 1
    BY <1>9 DEF SessionFails, Fault
  <2> QED
    BY <2>1, <1>a, <1>d, <1>e, <1>g DEF LeadInv, InHand, TicksOver
<1>10. CASE UNCHANGED <<status, tick, faults>>
  BY <1>10, <1>a, <1>e, <1>g DEF LeadInv, InHand, TicksOver
<1> QED
  BY <1>1, <1>2, <1>3, <1>4, <1>5, <1>6, <1>7, <1>8, <1>9, <1>10
     DEF Next, TickStep, OwnerStep, vars, SessionLooks, SessionStart,
         SessionExtend, SessionEnd, TypesTags, HostChanges

LEMMA LeadStepInTime ==
  ASSUME TypeOK, LeadInv, TimePasses, MaxFaults < StartLead
  PROVE  LeadInv'
<1> SUFFICES ASSUME OnSessionDay' PROVE LeadInv'
  BY DEF LeadInv
<1>a. /\ tick.at = "over" /\ status \in {"Running", "Stopped"}
      /\ tick'.at = "due" /\ UNCHANGED <<status, faults>>
      /\ faults \in 0..MaxFaults /\ clock \in 0..DayLen - 1
      /\ clock' = (clock + 1) % DayLen
  BY DEF TimePasses, NewTick, TypeOK
<1>b. OpensAt \in Int /\ OpensAt' = OpensAt /\ OpensAt >= 0
  BY ScheduleAssumption DEF OpensAt
<1>1. InHand' \/ TicksOver' <= MaxFaults - faults'
  <2>1. CASE status = "Running"
    BY <2>1, <1>a DEF InHand
  <2>2. CASE status = "Stopped" /\ clock' = OpensAt
    <3>1. TicksOver' = 0
      BY <2>2, <1>a, <1>b DEF TicksOver
    <3> QED
      BY <3>1, <1>a, ScheduleAssumption
  <2>3. CASE status = "Stopped" /\ clock' # OpensAt
    <3>1. clock' > OpensAt /\ clock' < CloseAt + StopLag /\ clock' \in Int
      BY <2>3, <1>a, <1>b, ScheduleAssumption DEF OnSessionDay
    <3>2. clock' = clock + 1
      BY <3>1, <1>a, <1>b, ScheduleAssumption
    <3>3. OnSessionDay
      <4>1. day' = day
        BY <3>1, <1>b DEF TimePasses
      <4> QED
        BY <4>1, <3>1, <3>2, <1>a, <1>b, ScheduleAssumption DEF OnSessionDay
    <3>4. TicksOver <= MaxFaults - faults
      BY <3>3, <2>3 DEF LeadInv, InHand
    <3> QED
      BY <3>2, <3>4, <1>a, <1>b DEF TicksOver
  <2> QED
    BY <1>a, <2>1, <2>2, <2>3
<1>2. InSession' => status' = "Running"
  <2> SUFFICES ASSUME InSession', status = "Stopped" PROVE FALSE
    BY <1>a
  <2>1. TicksOver' <= MaxFaults - faults'
    BY <1>1, <1>a DEF InHand
  <2>2. TicksOver' = clock' - OpensAt
    BY <1>a, <1>b, ScheduleAssumption DEF TicksOver
  <2>3. clock' >= OpenAt /\ clock' \in Int
    BY <1>a, ScheduleAssumption DEF InSession
  <2> QED
    BY <2>1, <2>2, <2>3, <1>a, <1>b, ScheduleAssumption DEF OpensAt
<1> QED
  BY <1>1, <1>2, <1>a DEF LeadInv

LEMMA LeadStep ==
  ASSUME MaxFaults < StartLead
  PROVE  TypeOK /\ StopWarranted /\ LeadInv /\ [Next]_vars => LeadInv'
<1> SUFFICES ASSUME TypeOK, StopWarranted, LeadInv, [Next]_vars PROVE LeadInv'
  OBVIOUS
<1>1. CASE TimePasses
  BY <1>1, LeadStepInTime
<1>2. CASE UNCHANGED timeVars
  <2>1. OnSessionDay' <=> OnSessionDay
    BY <1>2 DEF OnSessionDay, OpensAt, timeVars
  <2>2. CASE OnSessionDay
    BY <2>2, <1>2, LeadStepInUnit
  <2>3. CASE ~OnSessionDay
    BY <2>1, <2>3 DEF LeadInv
  <2> QED
    BY <2>2, <2>3
<1> QED
  BY <1>1, <1>2
     DEF Next, TickStep, OwnerStep, vars, timeVars, ReadsInstance, AsksReadiness, Retags,
         Starts, Stops, LeavesAlone, ReadFails, CallFails, SessionLooks, SessionStarts,
         SessionStart, SessionFails, SessionExtend, SessionEnd, TypesTags, Boots, Halts,
         HostChanges

\* START_LEAD of scheduler.py leaves room for as many failed calls as it has
\* periods but one: the server runs throughout every session, whatever the owner
\* does with the lock and however it was stopped before.
THEOREM UpWithLead ==
  ASSUME MaxFaults < StartLead
  PROVE  Spec => []UpForTheSession
<1>1. Init => StopWarranted
  BY DEF Init, StopWarranted, NewTick
<1>2. Init => LeadInv
  <2> SUFFICES ASSUME Init, OnSessionDay PROVE LeadInv
    BY DEF LeadInv
  <2>1. status = "Running" /\ tick.at = "due"
    BY DEF Init, NewTick
  <2> QED
    BY <2>1 DEF LeadInv, InHand
<1>3. TypeOK /\ LeadInv => UpForTheSession
  BY SessionInDay DEF LeadInv, UpForTheSession
<1>4. TypeOK /\ StopWarranted /\ LeadInv /\ [Next]_vars => LeadInv'
  BY LeadStep
<1> QED
  BY <1>1, <1>2, <1>3, <1>4, WarrantStep, TypeInit, TypeStep, PTL DEF Spec

-----------------------------------------------------------------------------
\* The resize of scripts/resize_trial.py, beside the scheduler.

\* Of what the script does only a stop needs these: the instance is down without
\* its services; past the snapshot there is one; past the checkpoint a trial that
\* found the server running has its data off the host.
ServicesDown == status \in {"Stopped", "Starting"} => ~services

SnapshotTaken == script.at \in {"quiesce", "stop", "stopping", "change"} => script.snapshot

DataSaved ==
  script.at \in {"snapshot", "quiesce", "stop", "stopping", "change"}
    => Rollback \/ script.found # "Running" \/ script.copied

ResizeInv ==
  /\ script \in Script /\ status \in Statuses /\ services \in BOOLEAN
  /\ ServicesDown /\ SnapshotTaken /\ DataSaved

LEMMA NewRunTypes ==
  ASSUME NEW to \in Types, NEW back \in BOOLEAN
  PROVE  /\ NewRun(to, back) \in Script /\ NewRun(to, back).at = "reading"
         /\ NoRun \in Script /\ NoRun.at = "idle"
<1>1. NewRun(to, back) \in Script /\ NewRun(to, back).at = "reading"
  BY DEF NewRun, Script, Points, Statuses
<1>2. NewRun("rollback", FALSE) \in Script
  BY DEF NewRun, Script, Points, Types, Statuses
<1>3. NoRun \in Script /\ NoRun.at = "idle"
  BY <1>2 DEF NoRun, Script, Points
<1> QED
  BY <1>1, <1>3

\* A script that goes on keeps what it has written down.
LEMMA GoesOn ==
  ASSUME script \in Script, NEW at \in Points, Goes(at)
  PROVE  /\ script' \in Script /\ script'.at = at
         /\ script'.to = script.to /\ script'.found = script.found
         /\ script'.copied = script.copied /\ script'.snapshot = script.snapshot
BY DEF Goes, Script

LEMMA ResizeInitial == ResizeInit => ResizeInv
<1>1. NoRun \in Script /\ NoRun.at = "idle"
  BY NewRunTypes DEF Types
<1> QED
  BY <1>1 DEF ResizeInit, Init, ResizeInv, ServicesDown, SnapshotTaken, DataSaved, Statuses

\* The scheduler, the boots and the clock leave the script alone; of theirs only a
\* boot brings services up, and only a start leaves "Stopped".
LEMMA BesideStep ==
  ASSUME ResizeInv,
         \/ ServerBoots \/ ServerHalts \/ SchedulerStep \/ Beside
         \/ TimePasses /\ UNCHANGED scriptVars
  PROVE  ResizeInv'
<1>1. UNCHANGED script
  BY DEF ServerBoots, ServerHalts, SchedulerStep, Beside, scriptVars, AsksServer, AsksQuiesced
<1>2. status' \in Statuses /\ services' \in BOOLEAN /\ ServicesDown'
  <2>1. CASE ServerBoots \/ ServerHalts
    BY <2>1 DEF ServerBoots, ServerHalts, Boots, Halts, ResizeInv, ServicesDown, Statuses
  <2>2. CASE (Starts \/ Stops) /\ UNCHANGED scriptVars
    BY <2>2 DEF Starts, Stops, scriptVars, ResizeInv, ServicesDown, Statuses
  <2>3. CASE UNCHANGED <<status, services>>
    BY <2>3 DEF ResizeInv, ServicesDown
  <2> QED
    BY <2>1, <2>2, <2>3
       DEF SchedulerStep, Beside, AsksServer, AsksQuiesced, scriptVars, ReadsInstance, Retags,
           LeavesAlone, AsksReadiness, ReadFails, CallFails, HostChanges, TimePasses
<1> QED
  BY <1>1, <1>2 DEF ResizeInv, SnapshotTaken, DataSaved, Rollback

\* What a step of the script does to the instance.
LEMMA ScriptServer ==
  ASSUME ResizeInv, Begins \/ ScriptStep \/ ScriptDies
  PROVE  status' \in Statuses /\ services' \in BOOLEAN /\ ServicesDown'
<1>1. CASE Quiesces
  <2>1. UNCHANGED status /\ (services' = services \/ services' = FALSE)
    BY <1>1 DEF Quiesces
  <2>2. CASE services' = services
    BY <2>1, <2>2 DEF ResizeInv, ServicesDown
  <2>3. CASE services' = FALSE
    BY <2>1, <2>3 DEF ResizeInv, ServicesDown
  <2> QED
    BY <2>1, <2>2, <2>3
<1>2. CASE StopsIt
  BY <1>2 DEF StopsIt, Errs, ResizeInv, ServicesDown, Statuses
<1>3. CASE StartsIt
  BY <1>3 DEF StartsIt, Errs, ResizeInv, ServicesDown, Statuses
<1>4. CASE Restarts
  BY <1>4 DEF Restarts, ResizeInv, ServicesDown, Statuses
<1>5. CASE UNCHANGED <<status, services>>
  BY <1>5 DEF ResizeInv, ServicesDown
<1>6. CASE ReadsBefore \/ Copies \/ TakesSnapshot \/ AwaitsStopped \/ Changes
  BY <1>5, <1>6 DEF ReadsBefore, Copies, TakesSnapshot, AwaitsStopped, Changes, Errs
<1>7. CASE AwaitsRunning \/ AwaitsHealthy \/ Checkpoints \/ Handles \/ ScriptDies \/ Begins
  BY <1>5, <1>7
     DEF AwaitsRunning, AwaitsHealthy, Checkpoints, Handles, ScriptDies, Begins, vars, Errs
<1> QED
  BY <1>1, <1>2, <1>3, <1>4, <1>6, <1>7 DEF ScriptStep

\* Where the script stands after a step, and what it has written down by then.
LEMMA ScriptPoint ==
  ASSUME ResizeInv, Begins \/ ScriptStep \/ ScriptDies
  PROVE  script' \in Script /\ SnapshotTaken' /\ DataSaved'
<1>a. script \in Script /\ status \in Statuses /\ SnapshotTaken /\ DataSaved
  BY DEF ResizeInv
<1>b. \A to \in Types, back \in BOOLEAN :
        NewRun(to, back) \in Script /\ NewRun(to, back).at = "reading"
  BY NewRunTypes
<1>c. NoRun \in Script /\ NoRun.at = "idle"
  BY NewRunTypes DEF Types
<1>d. SUFFICES ASSUME ~(script' \in Script
                         /\ script'.at \in {"idle", "reading", "checkpoint", "copying",
                                            "start", "booting", "health", "handling",
                                            "restarting"})
               PROVE  script' \in Script /\ SnapshotTaken' /\ DataSaved'
  BY DEF SnapshotTaken, DataSaved
<1>e. \A at \in {"idle", "reading", "checkpoint", "copying", "start", "booting", "health",
                 "handling", "restarting"} : ~Goes(at)
  BY <1>a, <1>d, GoesOn DEF Points
<1>f. ~Ends
  BY <1>c, <1>d DEF Ends
<1>g. \A definite : ~Errs(definite)
  BY <1>e DEF Errs
<1>1. CASE ReadsBefore
  <2>1. script' = [script EXCEPT !.found = status, !.at = IF status = "Running" THEN "checkpoint"
                                                            ELSE "snapshot"]
    BY <1>1, <1>g DEF ReadsBefore
  <2>2. script' \in Script /\ script'.found = status
    BY <2>1, <1>a DEF Script, Points
  <2>3. status # "Running" /\ script'.at = "snapshot"
    BY <2>1, <2>2, <1>a, <1>d DEF Script
  <2> QED
    BY <2>2, <2>3 DEF SnapshotTaken, DataSaved
<1>2. CASE Checkpoints
  <2>1. Rollback /\ Goes("snapshot")
    BY <1>2, <1>e DEF Checkpoints
  <2>2. /\ script' \in Script /\ script'.at = "snapshot" /\ script'.to = script.to
    BY <2>1, <1>a, GoesOn DEF Points
  <2> QED
    BY <2>1, <2>2 DEF SnapshotTaken, DataSaved, Rollback
<1>3. CASE Copies
  <2>1. script' = [script EXCEPT !.at = "snapshot", !.copied = TRUE]
    BY <1>3, <1>g DEF Copies
  <2>2. script' \in Script /\ script'.at = "snapshot" /\ script'.copied
    BY <2>1, <1>a DEF Script, Points
  <2> QED
    BY <2>2 DEF SnapshotTaken, DataSaved
<1>4. CASE TakesSnapshot
  <2>1. /\ script.at = "snapshot"
        /\ script' = [script EXCEPT !.snapshot = TRUE, !.at = IF script.found = "Running"
                                                               THEN "quiesce" ELSE "change"]
    BY <1>4, <1>g DEF TakesSnapshot
  <2>2. /\ script' \in Script /\ script'.snapshot /\ script'.to = script.to
        /\ script'.found = script.found /\ script'.copied = script.copied
    BY <2>1, <1>a DEF Script, Points
  <2> QED
    BY <2>1, <2>2, <1>a DEF SnapshotTaken, DataSaved, Rollback
<1>5. CASE Quiesces \/ StopsIt \/ AwaitsStopped
  <2>1. PICK at \in {"stop", "stopping", "change"} : Goes(at)
    BY <1>5, <1>e, <1>g DEF Quiesces, StopsIt, AwaitsStopped
  <2>2. script.at \in {"quiesce", "stop", "stopping"}
    BY <1>5 DEF Quiesces, StopsIt, AwaitsStopped
  <2>3. /\ script' \in Script
        /\ script'.to = script.to /\ script'.found = script.found
        /\ script'.copied = script.copied /\ script'.snapshot = script.snapshot
    BY <2>1, <1>a, GoesOn DEF Points
  <2> QED
    BY <2>2, <2>3, <1>a DEF SnapshotTaken, DataSaved, Rollback
<1>6. CASE Changes
  <2>1. script' = [script EXCEPT !.at = "start", !.changed = TRUE]
    BY <1>6, <1>g DEF Changes
  <2>2. script' \in Script /\ script'.at = "start"
    BY <2>1, <1>a DEF Script, Points
  <2> QED
    BY <2>2, <1>d
<1>7. CASE Begins \/ Handles
  BY <1>7, <1>b, <1>d, <1>e, <1>f DEF Begins, Handles, Types
<1>8. CASE StartsIt \/ AwaitsRunning \/ AwaitsHealthy \/ Restarts \/ ScriptDies
  BY <1>8, <1>e, <1>f, <1>g DEF StartsIt, AwaitsRunning, AwaitsHealthy, Restarts, ScriptDies
<1> QED
  BY <1>1, <1>2, <1>3, <1>4, <1>5, <1>6, <1>7, <1>8 DEF ScriptStep

LEMMA ResizeStep == ResizeInv /\ [ResizeNext]_allVars => ResizeInv'
<1> SUFFICES ASSUME ResizeInv, [ResizeNext]_allVars PROVE ResizeInv'
  OBVIOUS
<1>1. CASE Begins \/ ScriptStep \/ ScriptDies
  BY <1>1, ScriptServer, ScriptPoint DEF ResizeInv
<1>2. CASE \/ ServerBoots \/ ServerHalts \/ SchedulerStep \/ Beside
           \/ TimePasses /\ UNCHANGED scriptVars
  BY <1>2, BesideStep
<1>3. CASE UNCHANGED allVars
  BY <1>3 DEF allVars, vars, scriptVars, ResizeInv, ServicesDown, SnapshotTaken, DataSaved,
              Rollback
<1> QED
  BY <1>1, <1>2, <1>3 DEF ResizeNext

\* Only Changes writes the type, and only of a stopped instance.
LEMMA ChangeStep ==
  ResizeInv /\ [ResizeNext]_allVars /\ type' # type
    => /\ script.snapshot /\ ~services
       /\ Rollback \/ script.found # "Running" \/ script.copied
<1> SUFFICES ASSUME ResizeInv, [ResizeNext]_allVars, type' # type
             PROVE  /\ script.snapshot /\ ~services
                    /\ Rollback \/ script.found # "Running" \/ script.copied
  OBVIOUS
<1>1. Changes
  BY DEF ResizeNext, allVars, scriptVars, Begins, ScriptDies, ScriptStep, ReadsBefore,
         Checkpoints, Copies, TakesSnapshot, Quiesces, StopsIt, AwaitsStopped, StartsIt,
         AwaitsRunning, AwaitsHealthy, Handles, Restarts, Errs, ServerBoots, ServerHalts,
         SchedulerStep, Beside, AsksServer, AsksQuiesced
<1>2. script.at = "change" /\ status = "Stopped"
  BY <1>1 DEF Changes, Errs
<1> QED
  BY <1>2 DEF ResizeInv, ServicesDown, SnapshotTaken, DataSaved

\* The docstring of scripts/resize_trial.py: no change of type without a snapshot
\* of the disk and, for a trial of a running server, its data off the host, nor
\* under running services, however the scheduler starts and stops it meanwhile.
THEOREM ResizeIsSafe == ResizeSpec => ChangedSafely
<1>1. [ResizeNext /\ Counts]_historyVars => [ResizeNext]_allVars
  BY DEF historyVars
<1>2. ResizeInv /\ [ResizeNext]_allVars
        => [type' # type => /\ script.snapshot /\ ~services
                            /\ Rollback \/ script.found # "Running" \/ script.copied]_allVars
  BY ChangeStep
<1> QED
  BY <1>1, <1>2, ResizeInitial, ResizeStep, PTL DEF ResizeSpec, ChangedSafely

-----------------------------------------------------------------------------
\* The server after a resize. A period of the window that the scheduler has had to
\* itself ends with the server in hand, because its tick read the instance after
\* the script was gone; no stop is under way from before the window.

NightInv ==
  tick.at = "asking" \/ (tick.at \in {"deciding", "acting"} /\ tick.do = "stop")
    => ~InRunWindow

CalmInv ==
  OnSessionDay /\ calm > 0 =>
    /\ status # "Stopping"
    /\ status = "Stopped" /\ tick.at \in {"deciding", "acting"} => tick.do = "start"
    /\ tick.at = "over" => InHand
    /\ calm = 2 /\ clock > OpensAt => status = "Running"

\* What the steps of the script leave alone, and that they are counted.
LEMMA ScriptTouches ==
  ASSUME TypeOK, Begins \/ ScriptStep \/ ScriptDies
  PROVE  /\ UNCHANGED <<timeVars, lock, host, tick, owner, commands>>
         /\ faults' \in 0..MaxFaults
         /\ script.at # "idle" \/ script' # script
<1>a. faults \in 0..MaxFaults
  BY DEF TypeOK
<1>b. ASSUME Fault PROVE faults' \in 0..MaxFaults
  BY <1>a, <1>b, ScheduleAssumption DEF Fault
<1>c. ASSUME NEW definite, Errs(definite)
      PROVE  faults' \in 0..MaxFaults /\ Elsewhere
  BY <1>a, <1>b, <1>c DEF Errs
<1>1. CASE Begins
  <2>1. PICK to \in Types : script' = NewRun(to, FALSE)
    BY <1>1 DEF Begins
  <2>2. script'.at = "reading" /\ script.at = "idle"
    BY <1>1, <2>1 DEF Begins, NewRun
  <2> QED
    BY <1>1, <1>a, <2>2 DEF Begins, vars, timeVars
<1>2. CASE ScriptDies
  BY <1>2, <1>b DEF ScriptDies, Elsewhere, timeVars
<1>3. CASE ReadsBefore \/ Copies \/ TakesSnapshot
  BY <1>3, <1>a, <1>c DEF ReadsBefore, Copies, TakesSnapshot, Elsewhere, timeVars
<1>4. CASE Checkpoints \/ Quiesces \/ Handles
  <2>1. script.at # "idle" /\ UNCHANGED <<timeVars, lock, host, tick, owner, commands>>
    BY <1>4 DEF Checkpoints, Quiesces, Handles, Elsewhere, timeVars
  <2>2. faults' = faults \/ Fault
    BY <1>4 DEF Checkpoints, Quiesces, Handles, Fault
  <2> QED
    BY <2>1, <2>2, <1>a, <1>b
<1>5. CASE StopsIt \/ AwaitsStopped \/ Changes \/ StartsIt
  BY <1>5, <1>a, <1>c DEF StopsIt, AwaitsStopped, Changes, StartsIt, Elsewhere, timeVars
<1>6. CASE AwaitsRunning \/ AwaitsHealthy \/ Restarts
  BY <1>6, <1>a, <1>c DEF AwaitsRunning, AwaitsHealthy, Restarts, Elsewhere, timeVars
<1> QED
  BY <1>1, <1>2, <1>3, <1>4, <1>5, <1>6 DEF ScriptStep

\* Beside the script the scheduler takes its own steps, and one more: a quiesced
\* server does not answer.
LEMMA BesideIsNext ==
  ASSUME \/ ServerBoots \/ ServerHalts \/ SchedulerStep \/ Beside
         \/ TimePasses /\ UNCHANGED scriptVars
  PROVE  (Next \/ AsksQuiesced) /\ UNCHANGED script
BY DEF ServerBoots, ServerHalts, SchedulerStep, Beside, AsksServer, AsksQuiesced, scriptVars,
       Next, TickStep

LEMMA QuiescedAsks ==
  ASSUME TypeOK, AsksQuiesced
  PROVE  /\ tick.at = "asking" /\ tick' \in Tick /\ tick'.at = "deciding"
         /\ UNCHANGED <<timeVars, status, lock, host, owner, faults, commands>>
<1>1. Decide(tick.status, tick.lock, FALSE) \in {"none", "start", "stop"}
  BY DecideTypes
<1> QED
  BY <1>1 DEF AsksQuiesced, TypeOK, Tick

LEMMA ResizeTypeStep ==
  TypeOK /\ ResizeInv /\ [ResizeNext]_allVars => TypeOK'
<1> SUFFICES ASSUME TypeOK, ResizeInv, [ResizeNext]_allVars PROVE TypeOK'
  OBVIOUS
<1>1. CASE Begins \/ ScriptStep \/ ScriptDies
  BY <1>1, ScriptTouches, ScriptServer DEF TypeOK, timeVars
<1>2. CASE Next \/ UNCHANGED vars
  BY <1>2, TypeStep
<1>3. CASE AsksQuiesced
  BY <1>3, QuiescedAsks DEF TypeOK, timeVars
<1> QED
  BY <1>1, <1>2, <1>3, BesideIsNext DEF ResizeNext, allVars

LEMMA NightStep ==
  TypeOK /\ NightInv /\ [ResizeNext]_allVars => NightInv'
<1> SUFFICES ASSUME TypeOK, NightInv, [ResizeNext]_allVars,
                    tick'.at = "asking"
                      \/ (tick'.at \in {"deciding", "acting"} /\ tick'.do = "stop")
             PROVE  ~InRunWindow'
  BY DEF NightInv
<1>a. tick \in Tick
  BY DEF TypeOK
<1>b. (UNCHANGED timeVars => (InRunWindow' <=> InRunWindow))
  BY DEF InRunWindow, timeVars
<1>c. \A failed \in BOOLEAN : NewTick("over", failed).at = "over"
  BY DEF NewTick
<1>1. CASE ReadsInstance
  <2>1. Decide(status, lock, FALSE) = "stop" \/ StopIsDue(status, lock)
    BY <1>1, <1>a DEF ReadsInstance, Tick
  <2>2. ~InRunWindow
    BY <2>1, StopIsDecided DEF StopIsDue
  <2> QED
    BY <1>1, <2>2, <1>b DEF ReadsInstance
<1>2. CASE AsksReadiness \/ AsksQuiesced
  BY <1>2, <1>b DEF AsksReadiness, AsksQuiesced, NightInv
<1>3. CASE Retags
  <2>1. tick.at = "deciding" /\ tick.do = "stop"
    BY <1>3, <1>a DEF Retags, Tick
  <2> QED
    BY <1>3, <2>1, <1>b DEF Retags, NightInv
<1>4. CASE Starts \/ Stops \/ LeavesAlone \/ ReadFails \/ CallFails
  BY <1>4, <1>c DEF Starts, Stops, LeavesAlone, ReadFails, CallFails, TickOver
<1>5. CASE TimePasses
  BY <1>5 DEF TimePasses, NewTick
<1>6. CASE UNCHANGED <<tick, timeVars>>
  BY <1>6, <1>b DEF NightInv
<1>7. CASE Begins \/ ScriptStep \/ ScriptDies
  BY <1>7, <1>6, ScriptTouches
<1>8. CASE Next
  BY <1>8, <1>1, <1>2, <1>3, <1>4, <1>5, <1>6
     DEF Next, TickStep, OwnerStep, SessionLooks, SessionStarts, SessionStart, SessionFails,
         SessionExtend, SessionEnd, TypesTags, Boots, Halts, HostChanges, timeVars
<1>9. CASE UNCHANGED allVars
  BY <1>9, <1>6 DEF allVars, vars, timeVars
<1> QED
  BY <1>2, <1>7, <1>8, <1>9, BesideIsNext DEF ResizeNext

\* A step in a period that nothing has disturbed.
LEMMA CalmStepInUnit ==
  ASSUME TypeOK, NightInv, CalmInv, Next \/ AsksQuiesced,
         UNCHANGED timeVars, UNCHANGED <<faults, calm>>, OnSessionDay, calm > 0
  PROVE  CalmInv'
<1>a. /\ status # "Stopping"
      /\ status = "Stopped" /\ tick.at \in {"deciding", "acting"} => tick.do = "start"
      /\ tick.at = "over" => InHand
      /\ calm = 2 /\ clock > OpensAt => status = "Running"
  BY DEF CalmInv
<1>b. InRunWindow
  BY WindowOfDay
<1>c. tick.at # "asking" /\ (tick.at \in {"deciding", "acting"} => tick.do # "stop")
  BY <1>b DEF NightInv
<1>d. tick \in Tick /\ status \in Statuses /\ faults \in Int
  BY DEF TypeOK
<1>f. \A failed \in BOOLEAN : NewTick("over", failed).at = "over"
  BY DEF NewTick
<1>g. clock' = clock /\ OpensAt' = OpensAt
  BY DEF timeVars, OpensAt
<1>1. CASE ReadsInstance
  <2>1. ~StopIsDue(status, lock)
    BY <1>b DEF StopIsDue
  <2>2. /\ tick'.at = "deciding" /\ tick'.do = Decide(status, lock, FALSE)
        /\ UNCHANGED status
    BY <1>1, <2>1, <1>d DEF ReadsInstance, Tick
  <2>3. status = "Stopped" => tick'.do = "start"
    BY <2>2, <1>b DEF Decide
  <2> QED
    BY <2>2, <2>3, <1>a, <1>g DEF CalmInv
<1>2. CASE Retags
  <2>1. /\ tick'.at = "acting" /\ tick'.do = tick.do /\ tick.at = "deciding"
        /\ UNCHANGED status
    BY <1>2, <1>d DEF Retags, Tick
  <2> QED
    BY <2>1, <1>a, <1>g DEF CalmInv
<1>3. CASE Starts
  <2>1. tick'.at = "over"
    BY <1>3, <1>f DEF Starts, TickOver
  <2>2. status' \in {"Running", "Starting"} /\ (status = "Running" => status' = "Running")
    BY <1>3, <1>a, <1>d DEF Starts, Statuses
  <2> QED
    BY <2>1, <2>2, <1>a, <1>g DEF CalmInv, InHand
<1>4. CASE AsksReadiness \/ AsksQuiesced \/ Stops
  BY <1>4, <1>c DEF AsksReadiness, AsksQuiesced, Stops
<1>5. CASE LeavesAlone
  <2>1. tick'.at = "over" /\ UNCHANGED status /\ status # "Stopped"
    BY <1>5, <1>a, <1>f DEF LeavesAlone, TickOver
  <2> QED
    BY <2>1, <1>a, <1>d, <1>g DEF CalmInv, InHand, Statuses
<1>6. CASE ReadFails \/ CallFails \/ SessionFails
  <2>1. faults' = faults - 1
    BY <1>6 DEF ReadFails, CallFails, SessionFails, Fault
  <2>2. faults' = faults
    OBVIOUS
  <2> QED
    BY <2>1, <2>2, <1>d
<1>7. CASE SessionStarts \/ Boots
  <2>1. /\ UNCHANGED tick /\ (status = "Running" => status' = "Running")
        /\ status' = status \/ status' \in {"Running", "Starting"}
    BY <1>7 DEF SessionStarts, Boots
  <2> QED
    BY <2>1, <1>a, <1>g DEF CalmInv, InHand
<1>8. CASE Halts \/ TimePasses
  <2>1. ~Halts
    BY <1>a DEF Halts
  <2>2. clock' = (clock + 1) % DayLen /\ clock' = clock /\ clock \in 0..DayLen - 1
    BY <2>1, <1>8, <1>g DEF TimePasses, TypeOK
  <2>3. FALSE
    BY <2>2, ScheduleAssumption DEF OnSessionDay
  <2> QED
    BY <2>3
<1>9. CASE UNCHANGED <<status, tick>>
  BY <1>9, <1>a, <1>g DEF CalmInv, InHand
<1> QED
  BY <1>1, <1>2, <1>3, <1>4, <1>5, <1>6, <1>7, <1>8, <1>9
     DEF Next, TickStep, OwnerStep, SessionLooks, SessionStart, SessionExtend, SessionEnd,
         TypesTags, HostChanges

\* A period ends in hand; what has booted by then runs in the next one.
LEMMA CalmStepInTime ==
  ASSUME TypeOK, CalmInv, TimePasses, calm \in 0..2,
         calm' = 0 \/ calm' = IF calm < 2 THEN calm + 1 ELSE calm
  PROVE  CalmInv'
<1> SUFFICES ASSUME OnSessionDay', calm' = 2, clock' > OpensAt' PROVE status' = "Running"
  BY DEF CalmInv, TimePasses, NewTick
<1>1. calm > 0 /\ OpensAt' = OpensAt
  BY DEF OpensAt
<1>2. /\ tick.at = "over" /\ status' = status /\ status \in {"Running", "Stopped"}
      /\ clock \in 0..DayLen - 1 /\ clock' = (clock + 1) % DayLen
      /\ clock' > OpensAt /\ OpensAt \in Nat
  BY <1>1, ScheduleAssumption DEF TimePasses, TypeOK, OpensAt
<1>3. clock' = clock + 1
  BY <1>2, ScheduleAssumption
<1>4. day' = day
  BY <1>2 DEF TimePasses
<1>5. OnSessionDay
  BY <1>1, <1>2, <1>3, <1>4, ScheduleAssumption DEF OnSessionDay
<1> QED
  BY <1>1, <1>2, <1>5 DEF CalmInv, InHand

LEMMA CalmStep ==
  TypeOK /\ NightInv /\ CalmInv /\ calm \in 0..2 /\ [ResizeNext /\ Counts]_historyVars
    => CalmInv' /\ calm' \in 0..2
<1> SUFFICES ASSUME TypeOK, NightInv, CalmInv, calm \in 0..2,
                    [ResizeNext /\ Counts]_historyVars
             PROVE  CalmInv' /\ calm' \in 0..2
  OBVIOUS
<1>1. CASE UNCHANGED historyVars
  BY <1>1 DEF historyVars, allVars, vars, CalmInv, OnSessionDay, OpensAt, InHand
<1>2. CASE ResizeNext /\ Counts
  <2>1. calm' \in 0..2
    BY <1>2 DEF Counts
  <2>2. CASE calm' = 0
    BY <2>1, <2>2 DEF CalmInv
  <2>3. CASE calm' # 0
    <3>1. script.at = "idle" /\ UNCHANGED <<script, faults>>
          /\ calm' = IF clock' # clock /\ calm < 2 THEN calm + 1 ELSE calm
      BY <1>2, <2>3 DEF Counts
    <3>2. Next \/ AsksQuiesced
      BY <1>2, <3>1, ScriptTouches, BesideIsNext DEF ResizeNext
    <3>3. CASE TimePasses
      <4>1. clock' # clock
        BY <3>3, ScheduleAssumption DEF TimePasses, TypeOK
      <4> QED
        BY <3>1, <3>3, <4>1, <2>1, CalmStepInTime
    <3>4. CASE UNCHANGED timeVars
      <4>1. UNCHANGED <<faults, calm>> /\ calm > 0
        BY <3>1, <3>4, <2>3 DEF timeVars
      <4>2. OnSessionDay' <=> OnSessionDay
        BY <3>4 DEF OnSessionDay, OpensAt, timeVars
      <4>3. CASE OnSessionDay
        BY <3>2, <3>4, <4>1, <4>3, <2>1, CalmStepInUnit
      <4>4. CASE ~OnSessionDay
        BY <4>2, <4>4, <2>1 DEF CalmInv
      <4> QED
        BY <4>3, <4>4
    <3> QED
      BY <3>2, <3>3, <3>4
         DEF Next, TickStep, OwnerStep, timeVars, ReadsInstance, AsksReadiness, AsksQuiesced,
             Retags, Starts, Stops, LeavesAlone, ReadFails, CallFails, SessionLooks,
             SessionStarts, SessionStart, SessionFails, SessionExtend, SessionEnd, TypesTags,
             Boots, Halts, HostChanges
  <2> QED
    BY <2>2, <2>3
<1> QED
  BY <1>1, <1>2

\* Whatever resize_trial.py left stopped, ended or dead: a period in which scheduler.py
\* has had the run window to itself and its calls got through brings the server
\* back, and it runs from the next one on, throughout the session.
THEOREM UpAfterScript == ResizeSpec => []UpAfterResize
<1> DEFINE Inv == TypeOK /\ ResizeInv /\ NightInv /\ CalmInv /\ calm \in 0..2
<1>1. ResizeInit => Inv
  BY TypeInit, ResizeInitial DEF ResizeInit, NightInv, CalmInv, Init, NewTick
<1>2. Inv /\ [ResizeNext /\ Counts]_historyVars => Inv'
  <2>1. [ResizeNext /\ Counts]_historyVars => [ResizeNext]_allVars
    BY DEF historyVars
  <2> QED
    BY <2>1, ResizeTypeStep, ResizeStep, NightStep, CalmStep
<1>3. Inv => UpAfterResize
  <2> SUFFICES ASSUME Inv, InSession, calm = 2 PROVE status = "Running"
    BY DEF UpAfterResize
  <2>1. OnSessionDay
    BY SessionInDay
  <2>2. clock > OpensAt
    BY ScheduleAssumption DEF InSession, OpensAt, TypeOK
  <2> QED
    BY <2>1, <2>2 DEF CalmInv
<1> QED
  BY <1>1, <1>2, <1>3, PTL DEF ResizeSpec

=============================================================================

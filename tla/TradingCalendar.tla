--------------------------- MODULE TradingCalendar ---------------------------
(***************************************************************************)
(* calendar.py: the sessions of the exchange, and what the rest of the     *)
(* program asks of them. Only trading days have a session. Time is counted *)
(* in units from the midnight before day 0.                                *)
(***************************************************************************)
EXTENDS Integers, FiniteSets, FiniteSetsExt

CONSTANTS
  DayLen, WeekLen,   \* units in a day, days in a week
  Sessions,          \* records of day, open and close
  CoveredThrough,    \* the last day the calendar covers
  OpenBuffer,        \* ENTRY_OPEN_BUFFER
  CloseBuffer,       \* ENTRY_CLOSE_BUFFER
  AbsoluteCutoff     \* ENTRY_ABSOLUTE_CUTOFF, a time of day

ASSUME CalendarAssumption ==
  /\ {DayLen, WeekLen} \subseteq Nat \ {0}
  /\ {OpenBuffer, CloseBuffer, AbsoluteCutoff} \subseteq Nat
  /\ CoveredThrough \in Int
  /\ IsFiniteSet(Sessions)
  /\ \A s \in Sessions :
       /\ {s.day, s.open, s.close} \subseteq Nat
       /\ s.day * DayLen <= s.open /\ s.open < s.close /\ s.close < (s.day + 1) * DayLen
  /\ \A s, o \in Sessions : s.day = o.day => s = o

DayOf(t) == t \div DayLen

NoSession == [day |-> -1, open |-> -1, close |-> -1]

\* The session of the day t falls in, if that is a trading day.
SessionFor(t) ==
  IF \E s \in Sessions : s.day = DayOf(t)
  THEN CHOOSE s \in Sessions : s.day = DayOf(t) ELSE NoSession

\* The most recent session that closed at least lag ago.
LastClosed(t, lag) ==
  LET closed == {s \in Sessions : s.close + lag <= t}
  IN IF closed = {} THEN NoSession
     ELSE CHOOSE s \in closed : \A other \in closed : other.close <= s.close

IsLastOfWeek(day) ==
  /\ \E s \in Sessions : s.day = day
  /\ ~\E s \in Sessions : s.day > day /\ s.day \div WeekLen = day \div WeekLen

Covers(t) == DayOf(t) <= CoveredThrough

ClosesThrough(t) == Cardinality({s \in Sessions : s.close <= t})

\* A difference of two counts, which would be negative for an end before the start.
CompletedSessionsBetween(start, end) ==
  IF ClosesThrough(end) < ClosesThrough(start) THEN 0
  ELSE ClosesThrough(end) - ClosesThrough(start)

\* The earlier of the two ends, so that a short session tightens the window.
EntryCutoff(s) == Min({s.day * DayLen + AbsoluteCutoff, s.close - CloseBuffer})

EvaluateEntry(t) ==
  LET s == SessionFor(t) IN
  IF Sessions = {} THEN "unknown_session"
  ELSE IF s = NoSession THEN "not_a_trading_day"
  ELSE IF t < s.open + OpenBuffer THEN "before_window"
  ELSE IF EntryCutoff(s) < t THEN "after_cutoff"
  ELSE "open"
=============================================================================

--------------------------- MODULE OperatorProofs ---------------------------
(***************************************************************************)
(* What the operator may rely on.  When reading: a held position that went *)
(* silent is flagged, pages neither skip nor repeat a row, a position is    *)
(* never folded into another's entry, a routine line is never held back     *)
(* for long, the rate limit forgets nobody's spending, and only one mode    *)
(* may write orders.  When something is lost: every session's data is off   *)
(* the host before the next session, under its own day, and the server does *)
(* not stop without it.                                                     *)
(***************************************************************************)
EXTENDS HostBackups, ReadModels, FiniteSetTheorems, WellFoundedInduction, TLAPS

----------------------------------------------------------------------------
(* Finite sets under a strict order.                                        *)

\* A set of naturals has a least member.
LEMMA LeastNatural ==
  ASSUME NEW T, T \subseteq Nat, T # {}
  PROVE  \E m \in T : \A n \in T : m <= n
<1>1. PICK m \in T : \A n \in T : ~(<<n, m>> \in OpToRel(<, Nat))
  BY WFMin, NatLessThanWellFounded
<1>2. \A n \in T : ~(n < m)
  BY <1>1 DEF OpToRel
<1> QED BY <1>2

\* A finite set has a member nothing in it is related above: take one with the fewest above.
LEMMA Maximal ==
  ASSUME NEW S, IsFiniteSet(S), S # {}, NEW R,
         \A x \in S : <<x, x>> \notin R,
         \A x, y, z \in S : <<x, y>> \in R /\ <<y, z>> \in R => <<x, z>> \in R
  PROVE  \E m \in S : \A o \in S : <<m, o>> \notin R
<1> DEFINE Above(x) == {o \in S : <<x, o>> \in R}
           Count == [x \in S |-> Cardinality(Above(x))]
           T == {Count[x] : x \in S}
<1>1. \A x \in S : IsFiniteSet(Above(x)) /\ Cardinality(Above(x)) \in Nat
  BY FS_Subset, FS_CardinalityType
<1>2. PICK m \in S : \A x \in S : Cardinality(Above(m)) <= Cardinality(Above(x))
  <2>1. \A x \in S : Count[x] = Cardinality(Above(x)) /\ Count[x] \in Nat
    BY <1>1
  <2> HIDE DEF Count, Above
  <2>2. T \subseteq Nat /\ T # {}
    BY <2>1
  <2>3. PICK n \in T : \A k \in T : n <= k
    <3> HIDE DEF T
    <3> QED BY <2>2, LeastNatural
  <2>4. PICK m \in S : n = Count[m]
    OBVIOUS
  <2> QED BY <2>1, <2>3, <2>4
<1>3. ASSUME NEW o \in S, <<m, o>> \in R PROVE FALSE
  <2>1. Above(o) \subseteq Above(m) /\ o \in Above(m) /\ o \notin Above(o)
    BY <1>3
  <2>2. Cardinality(Above(o)) <= Cardinality(Above(m)) /\ Cardinality(Above(o)) # Cardinality(Above(m))
    BY <1>1, <2>1, FS_Subset
  <2> QED BY <1>1, <1>2, <2>2
<1> QED BY <1>3

----------------------------------------------------------------------------
(* Positions.                                                               *)

\* The rows the store keeps of a position, at minutes counted from the first midnight.
IsHeld(p) ==
  /\ p.status \in {"OPEN", "CLOSING"} /\ p.opened \in Nat
  /\ IsFiniteSet(p.marks)
  /\ \A m \in p.marks : m.at \in Nat /\ m.id \in Nat /\ m.readable \in BOOLEAN
  /\ \A m, o \in p.marks : m.id = o.id => m = o

\* A finite set of marks has a newest one, and Latest is it.
LEMMA LatestIsNewest ==
  ASSUME NEW p, IsHeld(p), p.marks # {}
  PROVE  /\ Latest(p.marks) \in p.marks
         /\ \A o \in p.marks : o.at <= Latest(p.marks).at
<1> DEFINE R == {ab \in p.marks \X p.marks :
                   ab[1].at < ab[2].at \/ (ab[1].at = ab[2].at /\ ab[1].id < ab[2].id)}
<1>1. \A x \in p.marks : <<x, x>> \notin R
  BY DEF IsHeld
<1>2. \A x, y, z \in p.marks : <<x, y>> \in R /\ <<y, z>> \in R => <<x, z>> \in R
  BY DEF IsHeld
<1>3. PICK m \in p.marks : \A o \in p.marks : <<m, o>> \notin R
  <2> HIDE DEF R
  <2> QED BY <1>1, <1>2, Maximal DEF IsHeld
<1>4. \A o \in p.marks : o.at < m.at \/ (o.at = m.at /\ o.id <= m.id)
  <2> TAKE o \in p.marks
  <2>1. <<m, o>> \in p.marks \X p.marks /\ <<m, o>> \notin R
    BY <1>3
  <2>2. ~(m.at < o.at \/ (m.at = o.at /\ m.id < o.id))
    BY <2>1
  <2> HIDE DEF R
  <2>3. m.at \in Nat /\ m.id \in Nat /\ o.at \in Nat /\ o.id \in Nat
    BY DEF IsHeld
  <2> QED BY <2>2, <2>3
<1>5. /\ Latest(p.marks) \in p.marks
      /\ \A o \in p.marks : \/ o.at < Latest(p.marks).at
                            \/ o.at = Latest(p.marks).at /\ o.id <= Latest(p.marks).id
  BY <1>4 DEF Latest
<1> QED BY <1>5 DEF IsHeld

\* A position with exposure of which nothing was read for more than five minutes of an open
\* session always asks for a look, however its marks stopped: none at all, all old, or the
\* newest unreadable. (presentation/positions.py: the rule is "in one place".)
THEOREM SilentPositionIsFlagged ==
  ASSUME NEW p, IsHeld(p), NEW now \in Nat, InSession(now),
         now - p.opened > StaleAfter,
         \A m \in p.marks : m.readable => now - m.at > StaleAfter
  PROVE  Attention(p, now) # {}
<1>1. CASE p.marks = {}
  <2>1. NeverMarked(p, now)
    BY <1>1 DEF NeverMarked, IsHeld
  <2>2. "never_marked" \in Attention(p, now)
    BY <2>1 DEF Attention, IsHeld, OpenStates
  <2> QED BY <2>2
<1>2. CASE p.marks # {}
  <2>1. Latest(p.marks) \in p.marks
    BY <1>2, LatestIsNewest
  <2>2. p.status \notin ClosedStates /\ p.status \in OpenStates
    BY DEF IsHeld, ClosedStates, OpenStates
  <2>3. CASE ~Latest(p.marks).readable
    <3>1. MarkState(p, now) = "unreadable"
      BY <1>2, <2>2, <2>3 DEF MarkState
    <3>2. "unreadable_mark" \in Attention(p, now)
      BY <2>2, <3>1 DEF Attention
    <3> QED BY <3>2
  <2>4. CASE Latest(p.marks).readable
    <3>1. ~(now - Latest(p.marks).at <= StaleAfter)
      BY <2>1, <2>4 DEF IsHeld, StaleAfter
    <3>2. MarkState(p, now) = "stale"
      BY <1>2, <2>2, <2>4, <3>1 DEF MarkState
    <3>3. "stale_mark" \in Attention(p, now)
      BY <2>2, <3>2 DEF Attention
    <3> QED BY <3>3
  <2> QED BY <2>1, <2>3, <2>4 DEF IsHeld
<1> QED BY <1>1, <1>2

----------------------------------------------------------------------------
(* Pages.                                                                   *)

IsList(rows, cursor) == rows \subseteq Nat /\ IsFiniteSet(rows) /\ cursor \in Nat \cup {None}

LEMMA PageHasLeast ==
  ASSUME NEW rows, NEW cursor, IsList(rows, cursor), NEW limit \in Nat \ {0},
         NextCursor(rows, limit, cursor) # None
  PROVE  /\ NextCursor(rows, limit, cursor) \in Page(rows, limit, cursor)
         /\ \A r \in Page(rows, limit, cursor) : NextCursor(rows, limit, cursor) <= r
<1> DEFINE S == Before(rows, cursor)
           Newest == Page(rows, limit, cursor)
           R == {xy \in S \X S : xy[1] < xy[2]}
<1>1. S \subseteq rows /\ S \subseteq Nat
  BY DEF IsList, Before
<1>2. IsFiniteSet(S) /\ Cardinality(S) > limit
  BY <1>1, FS_Subset DEF IsList, NextCursor
<1>3. S # {}
  BY <1>2, FS_EmptySet
<1>4. PICK top \in S : \A o \in S : <<top, o>> \notin R
  <2>1. \A x \in S : <<x, x>> \notin R
    BY <1>1
  <2>2. \A x, y, z \in S : <<x, y>> \in R /\ <<y, z>> \in R => <<x, z>> \in R
    BY <1>1
  <2> HIDE DEF R, S
  <2> QED BY <1>2, <1>3, <2>1, <2>2, Maximal
<1>5. {o \in S : o > top} = {}
  BY <1>1, <1>4
<1>6. top \in Newest
  BY <1>5, FS_EmptySet DEF Page
<1>7. Newest \subseteq Nat /\ Newest # {}
  BY <1>1, <1>6 DEF Page
<1>8. PICK least \in Newest : \A r \in Newest : least <= r
  <2> HIDE DEF Newest
  <2> QED BY <1>7, LeastNatural
<1>9. NextCursor(rows, limit, cursor) = Min(Newest)
  BY DEF NextCursor
<1> HIDE DEF Newest
<1>10. Min(Newest) \in Newest /\ \A r \in Newest : Min(Newest) <= r
  BY <1>8 DEF Min
<1> QED BY <1>9, <1>10 DEF Newest

\* Rows recorded while somebody reads do not disturb the pages: the rows after the cursor are
\* exactly those of the list the page left out, whatever newer rows came in between, so no row
\* is skipped and none is shown twice. (presentation/positions.py page, decision.py listing,
\* activity.py page, review.py executions: "keyed on a total order".)
THEOREM NextPageTakesUp ==
  ASSUME NEW rows, NEW cursor, IsList(rows, cursor), NEW limit \in Nat \ {0},
         NextCursor(rows, limit, cursor) # None,
         NEW newer, \A r \in newer : r \in Nat /\ r > NextCursor(rows, limit, cursor)
  PROVE  Before(rows \cup newer, NextCursor(rows, limit, cursor))
           = Before(rows, cursor) \ Page(rows, limit, cursor)
<1> DEFINE c == NextCursor(rows, limit, cursor)
           S == Before(rows, cursor)
           Newest == Page(rows, limit, cursor)
<1>1. c \in Newest /\ \A r \in Newest : c <= r
  BY PageHasLeast
<1>2. S \subseteq Nat /\ IsFiniteSet(S) /\ Newest \subseteq S /\ c \in S
  <2>1. S \subseteq rows /\ Newest \subseteq S
    BY DEF Before, Page
  <2> QED BY <1>1, <2>1, FS_Subset DEF IsList
<1>3. Before(rows \cup newer, c) = {r \in rows : r < c}
  BY <1>2 DEF Before, IsList, None
<1>4. ASSUME NEW r \in rows, r < c PROVE r \in S /\ r \notin Newest
  BY <1>1, <1>2, <1>4 DEF Before, IsList
<1>5. ASSUME NEW r \in S, r \notin Newest PROVE r \in rows /\ r < c
  <2>1. CASE r > c
    <3>1. {o \in S : o > r} \subseteq {o \in S : o > c} /\ IsFiniteSet({o \in S : o > c})
      BY <1>2, <2>1, FS_Subset
    <3>2. Cardinality({o \in S : o > r}) <= Cardinality({o \in S : o > c})
      BY <3>1, FS_Subset
    <3>3. Cardinality({o \in S : o > c}) < limit
      BY <1>1 DEF Page
    <3>4. Cardinality({o \in S : o > r}) \in Nat /\ Cardinality({o \in S : o > c}) \in Nat
      BY <3>1, FS_Subset, FS_CardinalityType
    <3>5. r \in Newest
      BY <3>2, <3>3, <3>4 DEF Page
    <3> QED BY <1>5, <3>5
  <2>2. r # c
    BY <1>1, <1>5
  <2> QED BY <1>2, <2>1, <2>2 DEF Before
<1> QED BY <1>3, <1>4, <1>5

----------------------------------------------------------------------------
(* The decision list.                                                       *)

\* Every position is an entry of its own in every view that has positions, whatever is pinned:
\* no run ever swallows one. (presentation/listing.py, RUI-VAL-009: the default view "merged
\* them", so it "listed three entries instead of five".)
THEOREM PositionsAreListed ==
  ASSUME NEW n \in Nat, NEW ds, DOMAIN ds = 1..n,
         \A i, j \in DOMAIN ds : ds[i].hash = ds[j].hash => i = j,
         NEW i \in DOMAIN ds, IsPosition(ds[i]),
         NEW view \in {"Notable", "Positions", "Everything"}, NEW pin \in Int
  PROVE  i \in Entries(ds, view, pin)
<1>1. i \in Candidates(ds, view)
  BY DEF Candidates
<1>2. ASSUME NEW j \in RunOf(ds, i) PROVE j = i
  <2>1. j \in 1..n /\ i \in 1..n
    BY DEF RunOf
  <2>2. OutcomeKey(ds[j]) = OutcomeKey(ds[i])
    BY <2>1 DEF RunOf
  <2>3. ds[j].action = ds[i].action
    BY <2>2 DEF OutcomeKey
  <2>4. IsPosition(ds[j])
    BY <2>3 DEF IsPosition
  <2>5. ds[j].hash = ds[i].hash
    BY <2>2, <2>4 DEF OutcomeKey
  <2> QED BY <2>1, <2>5
<1>3. IF pin \in RunOf(ds, i) THEN i = pin ELSE \A j \in RunOf(ds, i) : j <= i
  BY <1>2
<1> QED BY <1>1, <1>3 DEF Entries

----------------------------------------------------------------------------
(* Routine lines.                                                           *)

IsFilter(filter, events) ==
  /\ filter = [last |-> filter.last, since |-> filter.since]
  /\ DOMAIN filter.last = events
  /\ filter.since \in [events -> 0..(HeartbeatEvery - 1)]

\* However the actions of the clocks come, no event ever has fifteen of its lines held back in
\* a row, a change is written at once, and one clock's lines change nothing of another's.
\* (telemetry.py: "one of them going quiet must not hide the other".)
THEOREM QuietIsBounded ==
  ASSUME NEW events, NEW filter, IsFilter(filter, events), NEW event \in events, NEW action
  PROVE  /\ IsFilter(AfterLine(filter, event, action), events)
         /\ filter.last[event] # action => Emits(filter, event, action)
         /\ \A other \in events \ {event} : \A a :
              Emits(AfterLine(filter, event, action), other, a) <=> Emits(filter, other, a)
<1> DEFINE next == AfterLine(filter, event, action)
<1>1. filter.since[event] \in 0..(HeartbeatEvery - 1) /\ HeartbeatEvery = 15
  BY DEF IsFilter, HeartbeatEvery
<1>2. ~Emits(filter, event, action) => filter.since[event] + 1 \in 0..(HeartbeatEvery - 1)
  BY <1>1 DEF Emits
<1>3. 0 \in 0..(HeartbeatEvery - 1)
  BY <1>1
<1>4. next.since \in [events -> 0..(HeartbeatEvery - 1)] /\ DOMAIN next.last = events
  BY <1>2, <1>3 DEF AfterLine, IsFilter
<1>5. IsFilter(next, events)
  BY <1>4 DEF IsFilter, AfterLine
<1>6. \A other \in events \ {event} :
        next.last[other] = filter.last[other] /\ next.since[other] = filter.since[other]
  BY DEF AfterLine, IsFilter
<1> HIDE DEF next
<1>7. \A other \in events \ {event} : \A a : Emits(next, other, a) <=> Emits(filter, other, a)
  BY <1>6 DEF Emits
<1> QED BY <1>5, <1>7 DEF Emits, next

\* A line that is written always says that none was held back: the worker asks the filter after
\* should_emit set the count to zero. (telemetry.py suppressed: "How many lines have been held
\* back since the last emitted one"; worker.py writes it on the emitted line.)
THEOREM NothingReported ==
  ASSUME NEW events, NEW filter, IsFilter(filter, events), NEW event \in events, NEW action,
         Emits(filter, event, action)
  PROVE  Reported(filter, event, action) = 0
BY DEF Reported, AfterLine, IsFilter

----------------------------------------------------------------------------
(* The rate limit.                                                          *)

IsLimiter(limiter, now) ==
  /\ limiter.swept \in Int
  /\ \A c \in DOMAIN limiter.buckets :
       /\ limiter.buckets[c].tokens \in 0..Burst
       /\ limiter.buckets[c].updated \in Int /\ limiter.buckets[c].updated <= now

\* The smaller of two whole numbers.
LEMMA MinOfTwo ==
  ASSUME NEW a \in Int, NEW b \in Int
  PROVE  Min({a, b}) = IF a <= b THEN a ELSE b
<1> DEFINE m == IF a <= b THEN a ELSE b
<1>1. m \in {a, b} /\ \A y \in {a, b} : m <= y
  OBVIOUS
<1>2. \A x \in {a, b} : (\A y \in {a, b} : x <= y) => x = m
  OBVIOUS
<1> HIDE DEF m
<1>3. Min({a, b}) = m
  BY <1>1, <1>2 DEF Min
<1> QED BY <1>3 DEF m

LEMMA AllowanceIs ==
  ASSUME NEW now \in Int, NEW limiter, IsLimiter(limiter, now), NEW client
  PROVE  Allowance(limiter, client, now)
           = IF client \notin DOMAIN limiter.buckets THEN Burst
             ELSE LET b == limiter.buckets[client]
                  IN IF Burst <= b.tokens + (now - b.updated) THEN Burst
                     ELSE b.tokens + (now - b.updated)
<1> DEFINE b == BucketOf(limiter, client, now)
<1>1. b.tokens \in Int /\ b.updated \in Int
  BY DEF BucketOf, IsLimiter, Burst
<1>2. Allowance(limiter, client, now)
        = IF Burst <= b.tokens + (now - b.updated) THEN Burst ELSE b.tokens + (now - b.updated)
  BY <1>1, MinOfTwo DEF Allowance, Refilled, Burst
<1> QED BY <1>1, <1>2 DEF BucketOf, Burst

LEMMA AllowanceBounds ==
  ASSUME NEW now \in Int, NEW limiter, IsLimiter(limiter, now), NEW client
  PROVE  Allowance(limiter, client, now) \in 0..Burst
<1>1. CASE client \notin DOMAIN limiter.buckets
  BY <1>1, AllowanceIs DEF Burst
<1>2. CASE client \in DOMAIN limiter.buckets
  <2> DEFINE b == limiter.buckets[client]
  <2>1. b.tokens \in 0..Burst /\ b.updated \in Int /\ b.updated <= now
    BY <1>2 DEF IsLimiter
  <2>2. Allowance(limiter, client, now)
          = IF Burst <= b.tokens + (now - b.updated) THEN Burst ELSE b.tokens + (now - b.updated)
    BY <1>2, AllowanceIs
  <2> HIDE DEF b
  <2> QED BY <2>1, <2>2 DEF Burst
<1> QED BY <1>1, <1>2

\* Dropping the idle buckets changes no answer: whoever was forgotten had long been refilled.
\* (limits.py: "Buckets idle this long are dropped, so the table cannot grow without bound".)
THEOREM ForgettingIsFree ==
  ASSUME NEW now \in Int, NEW limiter, IsLimiter(limiter, now), NEW client
  PROVE  /\ IsLimiter(Swept(limiter, now), now)
         /\ Allowance(Swept(limiter, now), client, now) = Allowance(limiter, client, now)
<1>1. CASE now - limiter.swept < IdleTicks
  BY <1>1 DEF Swept
<1>2. CASE ~(now - limiter.swept < IdleTicks)
  <2> DEFINE kept == {c \in DOMAIN limiter.buckets : now - limiter.buckets[c].updated <= IdleTicks}
  <2>1. Swept(limiter, now) = [buckets |-> [c \in kept |-> limiter.buckets[c]], swept |-> now]
    BY <1>2 DEF Swept
  <2>2. IsLimiter(Swept(limiter, now), now)
    BY <2>1 DEF IsLimiter
  <2>3. CASE client \in DOMAIN limiter.buckets /\ client \notin kept
    <3>1. Allowance(Swept(limiter, now), client, now) = Burst
      BY <2>1, <2>2, <2>3, AllowanceIs
    <3>2. Burst <= limiter.buckets[client].tokens + (now - limiter.buckets[client].updated)
      BY <2>3 DEF IsLimiter, Burst, IdleTicks
    <3>3. Allowance(limiter, client, now) = Burst
      BY <2>3, <3>2, AllowanceIs
    <3> QED BY <2>2, <3>1, <3>3
  <2>4. CASE ~(client \in DOMAIN limiter.buckets /\ client \notin kept)
    <3>1. BucketOf(Swept(limiter, now), client, now) = BucketOf(limiter, client, now)
      BY <2>1, <2>4 DEF BucketOf
    <3> QED BY <2>2, <3>1 DEF Allowance
  <2> QED BY <2>3, <2>4
<1> QED BY <1>1, <1>2

\* An admitted request takes a token that only time gives back, a refused one takes none, and
\* what one client asks changes nothing of another's allowance: nobody gets more than a burst
\* and the sustained rate, and nobody is slowed by a stranger.
THEOREM AllowanceIsSpent ==
  ASSUME NEW now \in Int, NEW limiter, IsLimiter(limiter, now), NEW client,
         NEW later \in Int, now <= later
  PROVE  /\ IsLimiter(AfterCheck(limiter, client, now), later)
         /\ Allowance(AfterCheck(limiter, client, now), client, later)
              <= Allowance(limiter, client, now) + (later - now)
                   - (IF Admits(limiter, client, now) THEN 1 ELSE 0)
         /\ \A other : other # client =>
              Allowance(AfterCheck(limiter, client, now), other, later)
                = Allowance(Swept(limiter, now), other, later)
<1> DEFINE swept == Swept(limiter, now)
           tokens == Allowance(swept, client, now)
           left == IF tokens >= 1 THEN tokens - 1 ELSE tokens
           next == AfterCheck(limiter, client, now)
<1>1. IsLimiter(swept, now) /\ tokens = Allowance(limiter, client, now)
  BY ForgettingIsFree
<1>2. tokens \in 0..Burst
  BY <1>1, AllowanceBounds
<1>3. left \in 0..Burst
  BY <1>2 DEF Burst
<1>4. next = [swept |-> swept.swept,
              buckets |-> [c \in DOMAIN swept.buckets \cup {client} |->
                             IF c = client THEN [tokens |-> left, updated |-> now]
                             ELSE swept.buckets[c]]]
  BY DEF AfterCheck
<1> HIDE DEF next, left, swept, tokens
<1>5. DOMAIN next.buckets = DOMAIN swept.buckets \cup {client}
  BY <1>4
<1>6. next.buckets[client] = [tokens |-> left, updated |-> now]
  BY <1>4
<1>7. \A c \in DOMAIN swept.buckets : c # client => next.buckets[c] = swept.buckets[c]
  BY <1>4
<1>8. IsLimiter(next, later)
  BY <1>1, <1>3, <1>4, <1>5, <1>6, <1>7 DEF IsLimiter
<1>9. Allowance(next, client, later) <= left + (later - now)
  <2>1. Allowance(next, client, later) = IF Burst <= left + (later - now) THEN Burst
                                         ELSE left + (later - now)
    BY <1>5, <1>6, <1>8, AllowanceIs
  <2> QED BY <1>3, <2>1 DEF Burst
<1>10. Admits(limiter, client, now) <=> tokens >= 1
  BY DEF Admits, tokens, swept
<1>11. left = tokens - (IF Admits(limiter, client, now) THEN 1 ELSE 0)
  BY <1>2, <1>10 DEF left
<1>12. Allowance(next, client, later)
         <= tokens + (later - now) - (IF Admits(limiter, client, now) THEN 1 ELSE 0)
  <2>1. Allowance(next, client, later) \in Int
    BY <1>8, AllowanceBounds DEF Burst
  <2> QED BY <1>2, <1>9, <1>11, <2>1 DEF Burst
<1>13. ASSUME NEW other, other # client
       PROVE  Allowance(next, other, later) = Allowance(swept, other, later)
  <2>1. BucketOf(next, other, later) = BucketOf(swept, other, later)
    BY <1>5, <1>7, <1>13 DEF BucketOf
  <2> QED BY <2>1 DEF Allowance
<1> QED BY <1>1, <1>8, <1>12, <1>13 DEF next, swept

----------------------------------------------------------------------------
(* Settings.                                                                *)

\* A process that started with trading enabled is in the executing mode of a paper account, and
\* one in any other mode never may write orders: enabled and allowed are the same of every
\* configuration that loads. (config.py: "Write authority exists only in paper_execute".)
THEOREM EnabledIsAllowed ==
  ASSUME NEW env, ~LoadRefused(env)
  PROVE  /\ MayWriteOrders(LoadSettings(env)) <=> LoadSettings(env).trading
         /\ LoadSettings(env).paper
BY DEF LoadRefused, LoadSettings, MayWriteOrders, Truth

----------------------------------------------------------------------------
(* The copies off the host: the calendar they are named by.                 *)

LEMMA DayBounds ==
  ASSUME NEW t \in Nat
  PROVE  DayOf(t) \in Nat /\ DayOf(t) * DayLen <= t /\ t < (DayOf(t) + 1) * DayLen
<1> DEFINE q == t \div DayLen
           r == t % DayLen
<1>a. DayLen \in Nat \ {0}
  BY CalendarAssumption
<1>1. t = DayLen * q + r /\ r \in 0..(DayLen - 1) /\ q \in Nat
  BY <1>a
<1>2. DayOf(t) = q
  BY DEF DayOf
<1> HIDE DEF q, r
<1>3. q * DayLen = DayLen * q /\ (q + 1) * DayLen = DayLen * q + DayLen
  BY <1>a, <1>1
<1> QED
  BY <1>a, <1>1, <1>2, <1>3

\* A day that begins before another moment is not a later one.
LEMMA DaysInOrder ==
  ASSUME NEW t \in Nat, NEW d \in Nat
  PROVE  /\ d * DayLen <= t => d <= DayOf(t)
         /\ d < DayOf(t) => (d + 1) * DayLen <= t
<1> DEFINE e == DayOf(t)
<1>1. e \in Nat /\ e * DayLen <= t /\ t < (e + 1) * DayLen /\ DayLen \in Nat \ {0}
  BY DayBounds, CalendarAssumption
<1> HIDE DEF e
<1>2. ASSUME d * DayLen <= t PROVE d <= e
  <2>1. d * DayLen < (e + 1) * DayLen
    BY <1>1, <1>2
  <2> QED
    BY <1>1, <2>1
<1>3. ASSUME d < e PROVE (d + 1) * DayLen <= t
  <2>1. (d + 1) * DayLen <= e * DayLen
    BY <1>1, <1>3
  <2>2. (d + 1) * DayLen \in Nat /\ e * DayLen \in Nat
    BY <1>1
  <2> QED
    BY <1>1, <2>1, <2>2
<1> QED
  BY <1>2, <1>3 DEF e

\* LastClosed answers with a session that closed long enough ago, and no other
\* such session closed later.
LEMMA LastClosedIs ==
  ASSUME NEW t \in Nat, NEW lag \in Nat, LastClosed(t, lag) # NoSession
  PROVE  /\ LastClosed(t, lag) \in Sessions
         /\ LastClosed(t, lag).close + lag <= t
         /\ \A s \in Sessions : s.close + lag <= t => s.close <= LastClosed(t, lag).close
<1> DEFINE closed == {s \in Sessions : s.close + lag <= t}
           R == {ab \in closed \X closed : ab[1].close < ab[2].close}
<1>1. closed # {} /\ IsFiniteSet(closed) /\ \A s \in closed : s.close \in Nat
  BY FS_Subset, CalendarAssumption DEF LastClosed
<1>2. PICK m \in closed : \A o \in closed : <<m, o>> \notin R
  <2>1. \A x \in closed : <<x, x>> \notin R
    BY <1>1
  <2>2. \A x, y, z \in closed : <<x, y>> \in R /\ <<y, z>> \in R => <<x, z>> \in R
    BY <1>1
  <2> HIDE DEF R, closed
  <2> QED
    BY <1>1, <2>1, <2>2, Maximal
<1>3. \A o \in closed : o.close <= m.close
  <2> TAKE o \in closed
  <2>1. <<m, o>> \in closed \X closed /\ <<m, o>> \notin R
    BY <1>2
  <2>2. ~(m.close < o.close)
    BY <2>1
  <2> HIDE DEF closed, R
  <2> QED
    BY <1>1, <2>2
<1>4. LastClosed(t, lag) = CHOOSE s \in closed : \A o \in closed : o.close <= s.close
  BY <1>1 DEF LastClosed
<1> HIDE DEF closed
<1>5. LastClosed(t, lag) \in closed /\ \A o \in closed : o.close <= LastClosed(t, lag).close
  BY <1>3, <1>4
<1> QED
  BY <1>5 DEF closed

LEMMA SessionForIs ==
  ASSUME NEW t, NEW s \in Sessions, s.day = DayOf(t)
  PROVE  SessionFor(t) = s
BY CalendarAssumption DEF SessionFor

\* What a dump may be named by: a day of the clock.
LEMMA KeysOfDump ==
  ASSUME NEW at \in Times
  PROVE  DestinationKeys(at) \subseteq {"daily", "weekly"} \X Days
<1> DEFINE closed == LastClosed(at, PostCloseLag)
<1>1. at \in Nat /\ Horizon \in Nat /\ at <= Horizon /\ PostCloseLag \in Nat
  BY BackupAssumption DEF Times
<1>2. DayOf(at) \in Days
  <2>1. DayOf(at) \in Nat /\ DayOf(at) * DayLen <= Horizon
    <3>1. DayOf(at) \in Nat /\ DayOf(at) * DayLen <= at /\ DayOf(at) * DayLen \in Nat
      BY <1>1, DayBounds, CalendarAssumption
    <3> HIDE DEF closed
    <3> QED
      BY <1>1, <3>1
  <2>2. DayOf(at) <= DayOf(Horizon) /\ DayOf(Horizon) \in Nat
    BY <1>1, <2>1, DaysInOrder, DayBounds
  <2> QED
    BY <2>1, <2>2 DEF Days
<1>3. closed # NoSession => closed.day \in Days
  <2>1. DayOf(Horizon) \in Nat
    BY <1>1, DayBounds
  <2> QED
    BY <1>1, <2>1, LastClosedIs, CalendarAssumption, SessionsAssumption DEF Days
<1> QED
  BY <1>2, <1>3 DEF DestinationKeys

\* The heart of it: a dump that may be stored as the day of a session began after
\* that session was over and before the next one's open.
LEMMA KeyIsPostClose ==
  ASSUME NEW at \in Times, NEW s \in Sessions, s.day <= CoveredThrough,
         <<"daily", s.day>> \in DestinationKeys(at)
  PROVE  /\ s.close + PostCloseLag <= at
         /\ \A other \in Sessions : s.close < other.open => at < other.open
<1> DEFINE closed == LastClosed(at, PostCloseLag)
           today == SessionFor(at)
<1>1. at \in Nat /\ PostCloseLag \in Nat /\ DayOf(at) \in Nat
  BY BackupAssumption, DayBounds DEF Times
<1>2. s.day \in Nat /\ CoveredThrough \in Int /\ s.close \in Nat
  BY CalendarAssumption
<1>3. Covers(at)
  <2> SUFFICES ASSUME ~Covers(at) PROVE FALSE
    OBVIOUS
  <2>1. s.day = DayOf(at)
    BY DEF DestinationKeys
  <2> QED
    BY <1>1, <1>2, <2>1 DEF Covers
<1>4. /\ closed # NoSession /\ closed.day = s.day
      /\ ~(today # NoSession /\ today.open <= at /\ at < today.close + PostCloseLag)
  BY <1>3 DEF DestinationKeys
<1>5. closed = s
  BY <1>1, <1>4, LastClosedIs, CalendarAssumption
<1>6. /\ s.close + PostCloseLag <= at
      /\ \A o \in Sessions : o.close + PostCloseLag <= at => o.close <= s.close
  BY <1>1, <1>4, <1>5, LastClosedIs
<1>7. ASSUME NEW other \in Sessions, s.close < other.open, ~(at < other.open)
      PROVE  FALSE
  <2>1. /\ other.day \in Nat /\ other.open \in Nat /\ other.close \in Nat
        /\ other.open <= at /\ other.open < other.close
        /\ other.day * DayLen <= other.open /\ DayLen \in Nat
        /\ other.close + PostCloseLag < (other.day + 1) * DayLen
        /\ other.day * DayLen \in Nat /\ (other.day + 1) * DayLen \in Nat
    BY <1>1, <1>7, CalendarAssumption, SessionsAssumption
  <2>2. other.day * DayLen <= at
    BY <1>1, <2>1
  <2>3. other.day <= DayOf(at)
    BY <1>1, <2>1, <2>2, DaysInOrder
  <2>4. other.close + PostCloseLag <= at
    <3>1. CASE other.day = DayOf(at)
      <4>1. today = other
        BY <3>1, SessionForIs
      <4>2. other # NoSession
        BY <2>1 DEF NoSession
      <4> QED
        BY <1>1, <1>4, <2>1, <4>1, <4>2
    <3>2. CASE other.day < DayOf(at)
      <4>1. (other.day + 1) * DayLen <= at
        BY <1>1, <2>1, <3>2, DaysInOrder
      <4> QED
        BY <1>1, <2>1, <4>1
    <3> QED
      BY <1>1, <2>1, <2>3, <3>1, <3>2
  <2> QED
    BY <1>2, <1>6, <1>7, <2>1, <2>4
<1> QED
  BY <1>6, <1>7

----------------------------------------------------------------------------
(* The copies off the host: the jobs.                                       *)

\* A verified record carries the moment its dump began.
SourceInv == backup.verified => backup.at \in Times /\ backup.data = backup.at

\* A run stores one dump, under the keys of that dump; what it no longer misses is there.
RunInv ==
  copying.at # "idle" =>
    /\ copying.data \in Times /\ copying.keys = DestinationKeys(copying.data)
    /\ copying.missing \subseteq copying.keys
    /\ copying.at = "putting" => \A k \in copying.keys \ copying.missing : Stored(k)

\* What is stored as a day is a dump that may be named by it, and all of it unless
\* something has failed.
StoredInv ==
  \A k \in Keys : Stored(k) =>
    /\ bucket[k].whole \/ faults < MaxFaults
    /\ k[1] = "daily" => bucket[k].data \in Times /\ k \in DestinationKeys(bucket[k].data)

\* A run that said it had stored its keys had.
RecordInv == offsite.ok => \A k \in offsite.keys : Stored(k)

BackupsInv == TypeOK /\ SourceInv /\ RunInv /\ StoredInv /\ RecordInv

LEMMA TimesAre ==
  /\ Times \subseteq Nat /\ Off \notin Times /\ 0 \in Times
  /\ Horizon \in Nat /\ MaxFaults \in Nat
BY BackupAssumption DEF Times, Off

LEMMA CopyTypes ==
  ASSUME TypeOK, NEW data \in Times, NEW whole \in BOOLEAN
  PROVE  /\ Copy(data, whole) \in Object /\ Copy(data, whole) # Absent
         /\ Copy(data, whole).data = data /\ Copy(data, whole).whole = whole
BY TimesAre DEF Copy, Object, Absent, TypeOK

LEMMA NoRunTypes == NoRun \in Run /\ NoRun.at = "idle"
BY DEF NoRun, Run

LEMMA FaultIs ==
  ASSUME TypeOK, Fault
  PROVE  faults' \in 0..MaxFaults /\ faults' <= faults /\ faults' < MaxFaults
BY TimesAre DEF TypeOK, Fault

LEMMA BackupsInit == Init => BackupsInv
<1> SUFFICES ASSUME Init PROVE BackupsInv
  OBVIOUS
<1>1. \A k \in Keys : ~Stored(k)
  BY DEF Init, Stored
<1>2. Absent \in Object
  BY DEF Absent, Object
<1>3. bucket \in [Keys -> Object]
  BY <1>2 DEF Init
<1>4. /\ backup \in Dump /\ offsite \in OffsiteRecord /\ copying = NoRun
      /\ ~backup.verified /\ ~offsite.ok
  BY DEF Init, Dump, OffsiteRecord
<1>5. TypeOK
  <2>1. /\ clock \in Times /\ booted \in Times \cup {Off} /\ dumping \in Times \cup {Off}
        /\ due \subseteq Jobs /\ faults \in 0..MaxFaults
    BY TimesAre DEF Init
  <2>2. worker \in BOOLEAN /\ alarm \in BOOLEAN /\ copying \in Run
    BY <1>4, NoRunTypes DEF Init
  <2> QED
    BY <1>3, <1>4, <2>1, <2>2 DEF TypeOK
<1> QED
  BY <1>1, <1>4, <1>5, NoRunTypes DEF BackupsInv, SourceInv, RunInv, StoredInv, RecordInv

\* What the bucket has stays true of it while nothing is put.
LEMMA StoredKept ==
  ASSUME TypeOK, StoredInv, UNCHANGED bucket, faults' \in 0..MaxFaults, faults' <= faults
  PROVE  StoredInv' /\ \A k \in Keys : Stored(k)' <=> Stored(k)
<1>1. \A k \in Keys : Stored(k)' <=> Stored(k)
  BY DEF Stored
<1>2. faults \in Int /\ MaxFaults \in Int /\ faults' \in Int
  BY TimesAre DEF TypeOK
<1>3. faults < MaxFaults => faults' < MaxFaults
  BY <1>2
<1> QED
  BY <1>1, <1>3 DEF StoredInv

\* The timers, the clock, the watchdog and the worker touch no copy.
LEMMA CalmStep ==
  ASSUME BackupsInv, UNCHANGED <<backup, offsite, bucket>>, copying' \in {copying, NoRun},
         clock' \in Times, booted' \in Times \cup {Off}, due' \subseteq Jobs,
         dumping' \in Times \cup {Off}, worker' \in BOOLEAN, alarm' \in BOOLEAN,
         faults' \in 0..MaxFaults, faults' <= faults
  PROVE  BackupsInv'
<1>a. TypeOK /\ SourceInv /\ RunInv /\ StoredInv /\ RecordInv
  BY DEF BackupsInv
<1>1. StoredInv' /\ \A k \in Keys : Stored(k)' <=> Stored(k)
  BY <1>a, StoredKept
<1>2. TypeOK'
  BY <1>a, NoRunTypes DEF TypeOK
<1>3. RunInv'
  <2>1. CASE copying' = copying
    <3>1. copying.keys \subseteq Keys
      BY <1>a DEF TypeOK, Run
    <3> QED
      BY <1>a, <1>1, <2>1, <3>1 DEF RunInv
  <2>2. CASE copying' = NoRun
    BY <2>2, NoRunTypes DEF RunInv
  <2> QED
    BY <2>1, <2>2
<1>4. RecordInv'
  <2>1. offsite.keys \subseteq Keys
    BY <1>a DEF TypeOK, OffsiteRecord
  <2> QED
    BY <1>a, <1>1, <2>1 DEF RecordInv
<1>5. SourceInv'
  BY <1>a DEF SourceInv
<1> QED
  BY <1>1, <1>2, <1>3, <1>4, <1>5 DEF BackupsInv

LEMMA CalmSteps ==
  ASSUME BackupsInv,
         \/ BackupBegins \/ Watches \/ Stops \/ LosesPower \/ Starts \/ WorkerChanges
         \/ TimePasses \/ UNCHANGED vars
  PROVE  BackupsInv'
<1>a. /\ TypeOK
      /\ clock \in Times /\ booted \in Times \cup {Off} /\ due \subseteq Jobs
      /\ dumping \in Times \cup {Off} /\ worker \in BOOLEAN /\ alarm \in BOOLEAN
      /\ faults \in 0..MaxFaults /\ faults <= faults
  BY TimesAre DEF BackupsInv, TypeOK
<1>b. Fault => faults' \in 0..MaxFaults /\ faults' <= faults
  BY <1>a, FaultIs
<1>1. CASE BackupBegins
  BY <1>1, <1>a, CalmStep DEF BackupBegins
<1>2. CASE Watches
  <2>1. Healthy \in BOOLEAN /\ Excused \in BOOLEAN
    BY DEF Healthy, Excused
  <2>2. alarm' \in BOOLEAN
    <3>1. \/ alarm' = ~Healthy \/ alarm' = ~(Healthy /\ Excused) \/ alarm' = alarm
      BY <1>2 DEF Watches
    <3> QED
      BY <3>1, <2>1, <1>a
  <2>3. faults' \in 0..MaxFaults /\ faults' <= faults
    BY <1>2, <1>a, <1>b DEF Watches
  <2> QED
    BY <1>2, <1>a, <2>2, <2>3, CalmStep DEF Watches
<1>3. CASE Stops \/ LosesPower
  <2>1. faults' \in 0..MaxFaults /\ faults' <= faults
    BY <1>3, <1>a, <1>b DEF Stops, LosesPower
  <2> QED
    BY <1>3, <1>a, <2>1, CalmStep DEF Stops, LosesPower, Halts
<1>4. CASE Starts \/ WorkerChanges \/ UNCHANGED vars
  BY <1>4, <1>a, CalmStep DEF Starts, WorkerChanges, vars, Jobs
<1>5. CASE TimePasses
  <2>1. clock' \in Times
    BY <1>5, <1>a, TimesAre DEF TimePasses, Times
  <2>2. due' \subseteq Jobs
    BY <1>5 DEF TimePasses
  <2>3. faults' \in 0..MaxFaults /\ faults' <= faults
    BY <1>5, <1>a, <1>b DEF TimePasses
  <2> QED
    BY <1>5, <1>a, <2>1, <2>2, <2>3, CalmStep DEF TimePasses
<1> QED
  BY <1>1, <1>2, <1>3, <1>4, <1>5

LEMMA BackupEndsStep ==
  ASSUME BackupsInv, BackupEnds
  PROVE  BackupsInv'
<1>a. TypeOK /\ SourceInv /\ RunInv /\ StoredInv /\ RecordInv
  BY DEF BackupsInv
<1>b. dumping \in Times /\ faults \in 0..MaxFaults /\ faults <= faults
  BY <1>a, TimesAre DEF BackupEnds, TypeOK
<1>1. faults' \in 0..MaxFaults /\ faults' <= faults
  BY <1>a, <1>b, FaultIs DEF BackupEnds
<1>2. StoredInv' /\ \A k \in Keys : Stored(k)' <=> Stored(k)
  BY <1>a, <1>1, StoredKept DEF BackupEnds
<1>3. backup' \in Dump /\ SourceInv'
  <2>1. CASE backup' = [at |-> dumping, verified |-> TRUE, data |-> dumping]
    BY <1>b, <2>1 DEF Dump, SourceInv
  <2>2. CASE backup' = [at |-> dumping, verified |-> FALSE, data |-> Off]
    BY <1>b, <2>2 DEF Dump, SourceInv
  <2>3. CASE backup' = backup
    BY <1>a, <2>3 DEF SourceInv, TypeOK
  <2> QED
    BY <2>1, <2>2, <2>3 DEF BackupEnds
<1>4. UNCHANGED <<copying, offsite>> /\ copying.keys \subseteq Keys /\ offsite.keys \subseteq Keys
  BY <1>a DEF BackupEnds, TypeOK, Run, OffsiteRecord
<1>5. TypeOK'
  BY <1>a, <1>1, <1>3 DEF BackupEnds, TypeOK
<1>6. RunInv' /\ RecordInv'
  BY <1>a, <1>2, <1>4 DEF RunInv, RecordInv
<1> QED
  BY <1>2, <1>3, <1>5, <1>6 DEF BackupsInv

\* A run that is refused or fails leaves its record, and no more than the bucket has.
LEMMA FailedRun ==
  ASSUME TypeOK, RunFails
  PROVE  copying' \in Run /\ offsite' \in OffsiteRecord /\ RunInv' /\ RecordInv'
<1>1. copying' \in Run /\ copying'.at = "idle"
  BY NoRunTypes DEF RunFails
<1>2. offsite' \in OffsiteRecord /\ ~offsite'.ok
  BY DEF RunFails, OffsiteRecord, TypeOK
<1> QED
  BY <1>1, <1>2 DEF RunInv, RecordInv

LEMMA OffsiteBeginsStep ==
  ASSUME BackupsInv, OffsiteBegins
  PROVE  BackupsInv'
<1>a. TypeOK /\ SourceInv /\ RunInv /\ StoredInv /\ RecordInv
  BY DEF BackupsInv
<1>b. faults' \in 0..MaxFaults /\ faults' <= faults /\ UNCHANGED <<backup, bucket>>
  BY <1>a, TimesAre DEF OffsiteBegins, TypeOK
<1>1. StoredInv' /\ \A k \in Keys : Stored(k)' <=> Stored(k)
  BY <1>a, <1>b, StoredKept
<1>2. copying' \in Run /\ offsite' \in OffsiteRecord /\ RunInv' /\ RecordInv'
  <2>1. CASE ~SourceVerified
    BY <1>a, <2>1, FailedRun DEF OffsiteBegins
  <2>2. CASE SourceVerified
    <3>1. backup.at \in Times /\ backup.data = backup.at
      BY <1>a, <2>2 DEF SourceVerified, SourceInv
    <3>2. /\ copying' = [at |-> "checking", data |-> backup.data,
                         keys |-> DestinationKeys(backup.at), missing |-> {}]
          /\ UNCHANGED offsite
      BY <2>2 DEF OffsiteBegins
    <3>3. DestinationKeys(backup.at) \subseteq Keys
      BY <3>1, KeysOfDump DEF Keys, Kinds
    <3>4. copying' \in Run
      BY <3>1, <3>2, <3>3 DEF Run
    <3>5. RunInv'
      BY <3>1, <3>2 DEF RunInv
    <3>6. offsite \in OffsiteRecord /\ offsite.keys \subseteq Keys
      BY <1>a DEF TypeOK, OffsiteRecord
    <3> QED
      BY <1>a, <1>1, <3>2, <3>4, <3>5, <3>6 DEF RecordInv
  <2> QED
    BY <2>1, <2>2
<1>3. TypeOK'
  BY <1>a, <1>b, <1>2 DEF OffsiteBegins, TypeOK
<1>4. SourceInv'
  BY <1>a, <1>b DEF SourceInv
<1> QED
  BY <1>1, <1>2, <1>3, <1>4 DEF BackupsInv

LEMMA OffsiteChecksStep ==
  ASSUME BackupsInv, OffsiteChecks
  PROVE  BackupsInv'
<1>a. TypeOK /\ SourceInv /\ RunInv /\ StoredInv /\ RecordInv
  BY DEF BackupsInv
<1>b. /\ faults' \in 0..MaxFaults /\ faults' <= faults /\ UNCHANGED <<backup, bucket>>
      /\ copying \in Run /\ copying.keys \subseteq Keys
  BY <1>a, FaultIs, TimesAre DEF OffsiteChecks, TypeOK, Run
<1>1. StoredInv' /\ \A k \in Keys : Stored(k)' <=> Stored(k)
  BY <1>a, <1>b, StoredKept
<1>2. copying' \in Run /\ offsite' \in OffsiteRecord /\ RunInv' /\ RecordInv'
  <2>1. CASE RunFails
    BY <1>a, <2>1, FailedRun
  <2>2. CASE ~RunFails
    <3>1. /\ copying' = [copying EXCEPT !.at = "putting",
                                        !.missing = {k \in copying.keys : ~Stored(k)}]
          /\ UNCHANGED offsite
      BY <2>2 DEF OffsiteChecks
    <3>2. /\ copying' \in Run /\ copying'.keys = copying.keys /\ copying'.data = copying.data
          /\ copying'.missing = {k \in copying.keys : ~Stored(k)}
      BY <1>b, <3>1 DEF Run
    <3>3. RunInv'
      BY <1>a, <1>b, <1>1, <3>2 DEF RunInv, OffsiteChecks
    <3>4. offsite \in OffsiteRecord /\ offsite.keys \subseteq Keys
      BY <1>a DEF TypeOK, OffsiteRecord
    <3> QED
      BY <1>a, <1>1, <3>1, <3>2, <3>3, <3>4 DEF RecordInv
  <2> QED
    BY <2>1, <2>2
<1>3. TypeOK'
  BY <1>a, <1>b, <1>2 DEF OffsiteChecks, TypeOK
<1>4. SourceInv'
  BY <1>a, <1>b DEF SourceInv
<1> QED
  BY <1>1, <1>2, <1>3, <1>4 DEF BackupsInv

LEMMA NextKeyIsMissing == ASSUME NEW keys, keys # {} PROVE NextKey(keys) \in keys
BY DEF NextKey

\* Putting an object under a key that has none fulfils what StoredInv says of it.
LEMMA PutIsNamed ==
  ASSUME BackupsInv, copying.at = "putting", NEW key \in copying.missing, NEW whole \in BOOLEAN,
         Puts(key, whole), faults' \in 0..MaxFaults, faults' <= faults,
         whole \/ faults' < MaxFaults
  PROVE  /\ bucket' \in [Keys -> Object] /\ StoredInv'
         /\ Stored(key)' /\ \A k \in Keys : Stored(k) => Stored(k)'
<1>a. TypeOK /\ RunInv /\ StoredInv
  BY DEF BackupsInv
<1>b. /\ key \in Keys /\ key \in DestinationKeys(copying.data) /\ copying.data \in Times
      /\ bucket \in [Keys -> Object]
      /\ faults \in Int /\ MaxFaults \in Int /\ faults' \in Int
  BY <1>a, TimesAre DEF RunInv, TypeOK, Run
<1> DEFINE object == Copy(copying.data, whole)
<1>1. object \in Object /\ object # Absent
  BY <1>a, <1>b, CopyTypes
<1>2. bucket' = [bucket EXCEPT ![key] = object]
  BY DEF Puts
<1>3. object.data = copying.data /\ object.whole = whole
  BY <1>a, <1>b, CopyTypes
<1> HIDE DEF object
<1>4. bucket' \in [Keys -> Object]
  BY <1>b, <1>1, <1>2
<1>5. bucket'[key] = object /\ \A k \in Keys \ {key} : bucket'[k] = bucket[k]
  BY <1>b, <1>2
<1>6. Stored(key)' /\ \A k \in Keys \ {key} : Stored(k)' <=> Stored(k)
  BY <1>1, <1>5 DEF Stored
<1>7. ASSUME NEW k \in Keys, Stored(k)'
      PROVE  /\ bucket'[k].whole \/ faults' < MaxFaults
             /\ k[1] = "daily" => bucket'[k].data \in Times /\ k \in DestinationKeys(bucket'[k].data)
  <2>1. CASE k = key
    BY <1>b, <1>3, <1>5, <2>1
  <2>2. CASE k # key
    <3>1. /\ bucket[k].whole \/ faults < MaxFaults
          /\ k[1] = "daily" => bucket[k].data \in Times /\ k \in DestinationKeys(bucket[k].data)
      BY <1>a, <1>6, <1>7, <2>2 DEF StoredInv
    <3> QED
      BY <1>b, <1>5, <2>2, <3>1
  <2> QED
    BY <2>1, <2>2
<1>8. StoredInv'
  BY <1>7 DEF StoredInv
<1> QED
  BY <1>4, <1>6, <1>8

LEMMA OffsitePutsStep ==
  ASSUME BackupsInv, OffsitePuts
  PROVE  BackupsInv'
<1>a. TypeOK /\ SourceInv /\ RunInv /\ StoredInv /\ RecordInv
  BY DEF BackupsInv
<1>k. PICK key \in copying.missing : key = NextKey(copying.missing)
  BY NextKeyIsMissing DEF OffsitePuts
<1>b. /\ key \in copying.missing /\ copying.at = "putting"
      /\ copying \in Run /\ copying.keys \subseteq Keys /\ copying.missing \subseteq copying.keys
      /\ offsite \in OffsiteRecord /\ offsite.keys \subseteq Keys
      /\ faults \in 0..MaxFaults /\ faults <= faults
  BY <1>a, TimesAre DEF OffsitePuts, RunInv, TypeOK, Run, OffsiteRecord
<1>c. UNCHANGED <<clock, booted, due, dumping, backup, worker, alarm>>
  BY DEF OffsitePuts
<1>1. CASE /\ Puts(key, TRUE) /\ copying' = [copying EXCEPT !.missing = @ \ {key}]
           /\ UNCHANGED <<offsite, faults>>
  <2>1. /\ bucket' \in [Keys -> Object] /\ StoredInv'
        /\ Stored(key)' /\ \A k \in Keys : Stored(k) => Stored(k)'
    <3>1. faults' \in 0..MaxFaults /\ faults' <= faults
      BY <1>1, <1>b
    <3>2. \A whole \in BOOLEAN : Puts(key, whole) /\ (whole \/ faults' < MaxFaults)
            => /\ bucket' \in [Keys -> Object] /\ StoredInv'
               /\ Stored(key)' /\ \A k \in Keys : Stored(k) => Stored(k)'
      BY <1>b, <3>1, PutIsNamed
    <3> QED
      BY <1>1, <3>2, Zenon
  <2>2. /\ copying' \in Run /\ copying'.keys = copying.keys /\ copying'.data = copying.data
        /\ copying'.missing = copying.missing \ {key} /\ copying'.at = "putting"
    BY <1>1, <1>b DEF Run
  <2>3. RunInv'
    <3>1. /\ copying.data \in Times /\ copying.keys = DestinationKeys(copying.data)
          /\ \A k \in copying.keys \ copying.missing : Stored(k)
      BY <1>a, <1>b DEF RunInv
    <3>2. \A k \in copying'.keys \ copying'.missing : Stored(k)'
      <4> SUFFICES ASSUME NEW k \in copying'.keys \ copying'.missing PROVE Stored(k)'
        OBVIOUS
      <4>1. k \in Keys /\ (k = key \/ k \in copying.keys \ copying.missing)
        BY <1>b, <2>2
      <4>2. CASE k = key
        BY <2>1, <4>2
      <4>3. CASE k \in copying.keys \ copying.missing
        BY <2>1, <3>1, <4>1, <4>3
      <4> QED
        BY <4>1, <4>2, <4>3
    <3> QED
      BY <1>b, <2>2, <3>1, <3>2 DEF RunInv
  <2>4. RecordInv'
    BY <1>1, <1>a, <1>b, <2>1 DEF RecordInv
  <2>5. TypeOK'
    BY <1>1, <1>a, <1>c, <2>1, <2>2 DEF TypeOK
  <2> QED
    BY <1>a, <1>c, <2>1, <2>3, <2>4, <2>5 DEF BackupsInv, SourceInv
<1>2. ASSUME NEW whole \in BOOLEAN, Puts(key, whole), RunFails, Fault
      PROVE  BackupsInv'
  <2>1. faults' \in 0..MaxFaults /\ faults' <= faults /\ faults' < MaxFaults
    BY <1>2, <1>a, FaultIs
  <2>2. bucket' \in [Keys -> Object] /\ StoredInv'
    BY <1>2, <1>b, <2>1, PutIsNamed
  <2>3. copying' \in Run /\ offsite' \in OffsiteRecord /\ RunInv' /\ RecordInv'
    BY <1>2, <1>a, FailedRun
  <2>4. TypeOK'
    BY <1>a, <1>c, <2>1, <2>2, <2>3 DEF TypeOK
  <2> QED
    BY <1>a, <1>c, <2>2, <2>3, <2>4 DEF BackupsInv, SourceInv
<1>3. CASE RunFails /\ Fault /\ UNCHANGED bucket
  <2>1. faults' \in 0..MaxFaults /\ faults' <= faults
    BY <1>3, <1>a, FaultIs
  <2>2. StoredInv'
    BY <1>3, <1>a, <2>1, StoredKept
  <2>3. copying' \in Run /\ offsite' \in OffsiteRecord /\ RunInv' /\ RecordInv'
    BY <1>3, <1>a, FailedRun
  <2>4. TypeOK'
    BY <1>3, <1>a, <1>c, <2>1, <2>3 DEF TypeOK
  <2> QED
    BY <1>a, <1>c, <2>2, <2>3, <2>4 DEF BackupsInv, SourceInv
<1> QED
  BY <1>k, <1>1, <1>2, <1>3 DEF OffsitePuts

LEMMA OffsiteEndsStep ==
  ASSUME BackupsInv, OffsiteEnds
  PROVE  BackupsInv'
<1>a. TypeOK /\ SourceInv /\ RunInv /\ StoredInv /\ RecordInv
  BY DEF BackupsInv
<1>b. /\ faults' \in 0..MaxFaults /\ faults' <= faults /\ UNCHANGED <<backup, bucket>>
      /\ copying.keys \subseteq Keys /\ copying.at = "putting" /\ copying.missing = {}
      /\ clock \in Times
  BY <1>a, FaultIs, TimesAre DEF OffsiteEnds, TypeOK, Run
<1>1. StoredInv' /\ \A k \in Keys : Stored(k)' <=> Stored(k)
  BY <1>a, <1>b, StoredKept
<1>2. copying' \in Run /\ offsite' \in OffsiteRecord /\ RunInv' /\ RecordInv'
  <2>1. CASE RunFails
    BY <1>a, <2>1, FailedRun
  <2>2. CASE ~RunFails
    <3>1. offsite' = [at |-> clock, ok |-> TRUE, keys |-> copying.keys] /\ copying' = NoRun
      BY <2>2 DEF OffsiteEnds
    <3>2. \A k \in copying.keys : Stored(k)
      BY <1>a, <1>b DEF RunInv
    <3>3. offsite' \in OffsiteRecord /\ RecordInv'
      BY <1>b, <1>1, <3>1, <3>2 DEF OffsiteRecord, RecordInv
    <3> QED
      BY <3>1, <3>3, NoRunTypes DEF RunInv
  <2> QED
    BY <2>1, <2>2
<1>3. TypeOK'
  BY <1>a, <1>b, <1>2 DEF OffsiteEnds, TypeOK
<1>4. SourceInv'
  BY <1>a, <1>b DEF SourceInv
<1> QED
  BY <1>1, <1>2, <1>3, <1>4 DEF BackupsInv

\* An anchor has a key of its own, so that no day's copy is overwritten by it.
LEMMA PutsAnchorStep ==
  ASSUME BackupsInv, PutsAnchor
  PROVE  BackupsInv'
<1>a. TypeOK /\ SourceInv /\ RunInv /\ StoredInv /\ RecordInv
  BY DEF BackupsInv
<1> DEFINE key == <<"preresize", DayOf(backup.at)>>
           object == Copy(backup.data, TRUE)
<1>b. /\ backup.data \in Times /\ bucket \in [Keys -> Object]
      /\ copying.keys \subseteq Keys /\ offsite.keys \subseteq Keys
      /\ bucket' = [bucket EXCEPT ![key] = object]
  BY <1>a DEF PutsAnchor, SourceVerified, SourceInv, TypeOK, Run, OffsiteRecord
<1>1. object \in Object /\ object # Absent /\ object.whole
  BY <1>a, <1>b, CopyTypes
<1>2. key[1] # "daily"
  OBVIOUS
<1> HIDE DEF key, object
<1>3. /\ bucket' \in [Keys -> Object]
      /\ \A k \in Keys : bucket'[k] = IF k = key THEN object ELSE bucket[k]
  BY <1>b, <1>1
<1>4. \A k \in Keys : Stored(k) => Stored(k)'
  BY <1>1, <1>3 DEF Stored
<1>5. UNCHANGED <<clock, booted, due, dumping, backup, copying, offsite, worker, alarm, faults>>
  BY DEF PutsAnchor
<1>6. StoredInv'
  <2> SUFFICES ASSUME NEW k \in Keys, Stored(k)'
               PROVE  /\ bucket'[k].whole \/ faults' < MaxFaults
                      /\ k[1] = "daily" =>
                           bucket'[k].data \in Times /\ k \in DestinationKeys(bucket'[k].data)
    BY DEF StoredInv
  <2>1. CASE k = key
    BY <1>1, <1>2, <1>3, <2>1
  <2>2. CASE k # key
    BY <1>a, <1>3, <1>5, <2>2 DEF StoredInv, Stored
  <2> QED
    BY <2>1, <2>2
<1>7. RunInv' /\ RecordInv' /\ SourceInv'
  BY <1>a, <1>b, <1>4, <1>5 DEF RunInv, RecordInv, SourceInv
<1>8. TypeOK'
  BY <1>a, <1>3, <1>5 DEF TypeOK
<1> QED
  BY <1>6, <1>7, <1>8 DEF BackupsInv

LEMMA BackupsStep == BackupsInv /\ [Next]_vars => BackupsInv'
<1> SUFFICES ASSUME BackupsInv, [Next]_vars PROVE BackupsInv'
  OBVIOUS
<1> QED
  BY CalmSteps, BackupEndsStep, OffsiteBeginsStep, OffsiteChecksStep, OffsitePutsStep,
     OffsiteEndsStep, PutsAnchorStep DEF Next, JobStep

\* What is stored as the day of a session is all of that session and nothing of the
\* next, whatever failed, was retried, lost its power or ran late.
\* (offsite.py: a copy is named by "the trading day it completes".)
THEOREM DaysAreTrue == Spec => []CopyIsPostClose
<1>1. BackupsInv => CopyIsPostClose
  <2> SUFFICES ASSUME BackupsInv, NEW s \in Sessions, Stored(<<"daily", s.day>>),
                      s.day <= CoveredThrough
               PROVE  LET data == bucket[<<"daily", s.day>>].data
                      IN /\ s.close + PostCloseLag <= data
                         /\ \A other \in Sessions : s.close < other.open => data < other.open
    BY DEF CopyIsPostClose
  <2> DEFINE key == <<"daily", s.day>>
  <2>1. s.day \in Days /\ key \in Keys /\ key[1] = "daily"
    <3>1. DayOf(Horizon) \in Nat
      BY TimesAre, DayBounds
    <3> QED
      BY <3>1, CalendarAssumption, SessionsAssumption DEF Days, Keys, Kinds
  <2>2. bucket[key].data \in Times /\ key \in DestinationKeys(bucket[key].data)
    BY <2>1 DEF BackupsInv, StoredInv
  <2> QED
    BY <2>2, KeyIsPostClose
<1> QED
  BY <1>1, BackupsInit, BackupsStep, PTL DEF Spec

\* The server does not stop before the last session's data is off the host, and whole
\* unless something failed: readiness.py reads two records, and the bucket behind them
\* has what they say.
THEOREM StopsWithCopy == Spec => StoppedWithCopy
<1> DEFINE copy == bucket[<<"daily", LastClosed(clock, PostCloseLag).day>>]
<1>1. BackupsInv /\ Stops => copy # Absent /\ (copy.whole \/ faults < MaxFaults)
  <2> SUFFICES ASSUME BackupsInv, Stops PROVE copy # Absent /\ (copy.whole \/ faults < MaxFaults)
    OBVIOUS
  <2> DEFINE key == <<"daily", LastClosed(clock, PostCloseLag).day>>
  <2>1. offsite.ok /\ key \in offsite.keys
    BY DEF Stops, StopReadiness
  <2>2. key \in Keys /\ Stored(key)
    BY <2>1 DEF BackupsInv, RecordInv, TypeOK, OffsiteRecord
  <2> QED
    BY <2>2 DEF BackupsInv, StoredInv, Stored
<1>2. BackupsInv /\ [Next]_vars
        => [Stops => copy # Absent /\ (copy.whole \/ faults < MaxFaults)]_vars
  BY <1>1
<1> QED
  BY <1>2, BackupsInit, BackupsStep, PTL DEF Spec, StoppedWithCopy

----------------------------------------------------------------------------
(* The copies off the host: in time. A night lies between a session and the *)
(* next. Two units of it suffice, whenever nothing fails in them: a dump     *)
(* begun in the first is copied by the run of the second. There are two such *)
(* units after the close, and two before the open; one fault spoils only one. *)

\* o is the session after s.
Night(s, o) ==
  /\ s \in Sessions /\ o \in Sessions /\ s.close < o.open
  /\ \A x \in Sessions : s.close < x.open => o.open <= x.open

\* The first units after the close and before the open in which a dump is the day's.
Evening(s) == s.close + PostCloseLag
Morning(o) == o.open - StartLead

\* The calendar covers its sessions; the server runs for a unit after the close in
\* which a dump may be the day's, and for two before the open, on the day of the
\* open; the night is longer than both; a dump of an hour ago is still accepted.
NightsAreLong ==
  /\ PostCloseLag < StopLag /\ 2 <= StartLead /\ 1 <= MaxDumpAge
  /\ \A s \in Sessions : s.day <= CoveredThrough /\ s.day * DayLen <= Morning(s)
  /\ \A s, o \in Sessions : s.close < o.open => Evening(s) + 2 <= Morning(o)

Key(s) == <<"daily", s.day>>

Held(s) == Stored(Key(s))

OneFault == MaxFaults <= faults + 1

Spent == faults < MaxFaults

\* A dump of this unit or later is there, on its way, or due.
Fresh(t) ==
  /\ dumping # Off => t <= dumping
  /\ Up => "backup" \in due \/ dumping # Off \/ (backup.verified /\ t <= backup.at)

\* Such a dump is there, and a run that will copy it.
Secured(s, t) ==
  /\ Up /\ backup.verified /\ t <= backup.at /\ (dumping # Off => t <= dumping)
  /\ "offsite" \in due \/ (copying.at # "idle" /\ Key(s) \in copying.keys)

EveningInv(s) ==
  ~Spent => /\ clock = Evening(s) + 1 => Held(s) \/ Secured(s, Evening(s))
            /\ clock >= Evening(s) + 2 => Held(s)

MorningInv(s, o) ==
  /\ clock = Morning(o) => Held(s) \/ (Spent /\ Fresh(Morning(o)))
  /\ clock = Morning(o) + 1 => Held(s) \/ (Spent /\ Secured(s, Morning(o)))
  /\ clock >= Morning(o) + 2 => Held(s)

\* No dump is of a moment to come.
NotAhead ==
  /\ dumping # Off => dumping <= clock
  /\ backup.verified => backup.at <= clock

SavingInv ==
  OneFault =>
    /\ ~Spent => Fresh(clock)
    /\ \A s, o \in Sessions : Night(s, o) => EveningInv(s) /\ MorningInv(s, o)

\* What is stored stays: nothing is ever deleted, and an anchor is an object too.
LEMMA StoredStays ==
  ASSUME BackupsInv, [Next]_vars, NEW k \in Keys, Stored(k)
  PROVE  Stored(k)'
<1>a. TypeOK /\ SourceInv /\ RunInv /\ TypeOK'
  BY BackupsStep DEF BackupsInv
<1>b. bucket \in [Keys -> Object] /\ bucket' \in [Keys -> Object]
  BY <1>a DEF TypeOK
<1>1. CASE UNCHANGED bucket
  BY <1>1 DEF Stored
<1>2. ASSUME NEW key, NEW whole \in BOOLEAN, Puts(key, whole), copying.data \in Times
      PROVE  Stored(k)'
  <2> DEFINE object == Copy(copying.data, whole)
  <2>1. object # Absent
    BY <1>2, <1>a, CopyTypes
  <2>2. bucket' = [bucket EXCEPT ![key] = object]
    BY <1>2 DEF Puts
  <2> HIDE DEF object
  <2>3. bucket'[k] \in {bucket[k], object}
    BY <1>b, <2>2
  <2> QED
    BY <2>1, <2>3 DEF Stored
<1>3. CASE OffsitePuts
  <2>1. copying.data \in Times
    BY <1>3, <1>a DEF OffsitePuts, RunInv
  <2>2. \/ UNCHANGED bucket
        \/ \E whole \in BOOLEAN : Puts(NextKey(copying.missing), whole)
    BY <1>3 DEF OffsitePuts
  <2> QED
    BY <1>1, <1>2, <2>1, <2>2
<1>4. CASE PutsAnchor
  <2> DEFINE object == Copy(backup.data, TRUE)
  <2>1. backup.data \in Times
    BY <1>4, <1>a DEF PutsAnchor, SourceVerified, SourceInv
  <2>2. object # Absent
    BY <2>1, <1>a, CopyTypes
  <2>3. bucket' = [bucket EXCEPT ![<<"preresize", DayOf(backup.at)>>] = object]
    BY <1>4 DEF PutsAnchor
  <2> HIDE DEF object
  <2>4. bucket'[k] \in {bucket[k], object}
    BY <1>b, <2>3
  <2> QED
    BY <2>2, <2>4 DEF Stored
<1>5. CASE UNCHANGED vars
  BY <1>1, <1>5 DEF vars
<1>6. CASE Next /\ ~OffsitePuts /\ ~PutsAnchor
  BY <1>1, <1>6 DEF Next, JobStep, BackupBegins, BackupEnds, OffsiteBegins, OffsiteChecks,
     OffsiteEnds, Watches, Stops, LosesPower, Starts, WorkerChanges, TimePasses
<1> QED
  BY <1>3, <1>4, <1>5, <1>6

LEMMA NightTimes ==
  ASSUME NightsAreLong, NEW s \in Sessions, NEW o \in Sessions, Night(s, o)
  PROVE  /\ Evening(s) \in Nat /\ Morning(o) \in Int /\ Evening(s) + 2 <= Morning(o)
         /\ s.close \in Nat /\ o.open \in Nat /\ o.close \in Nat /\ StartLead \in Nat /\ StopLag \in Nat
         /\ PostCloseLag \in Nat /\ MaxDumpAge \in Nat
         /\ Morning(o) + 2 <= o.open
BY CalendarAssumption, BackupAssumption DEF NightsAreLong, Night, Evening, Morning

\* Of two sessions the later day's is the later one.
LEMMA DaysApart ==
  ASSUME NEW x \in Sessions, NEW y \in Sessions, x.day < y.day
  PROVE  x.close < y.open
<1>1. /\ x.day \in Nat /\ y.day \in Nat /\ x.close \in Nat /\ y.open \in Nat /\ DayLen \in Nat \ {0}
      /\ x.close < (x.day + 1) * DayLen /\ y.day * DayLen <= y.open
  BY CalendarAssumption
<1>2. (x.day + 1) * DayLen <= y.day * DayLen
  BY <1>1
<1>3. (x.day + 1) * DayLen \in Nat /\ y.day * DayLen \in Nat
  BY <1>1
<1> QED
  BY <1>1, <1>2, <1>3

\* A dump of the night is the day's.
LEMMA NightKeys ==
  ASSUME NightsAreLong, NEW s \in Sessions, NEW o \in Sessions, Night(s, o),
         NEW at \in Times, Evening(s) <= at, at < o.open
  PROVE  Key(s) \in DestinationKeys(at) /\ LastClosed(at, PostCloseLag) = s
<1> DEFINE closed == LastClosed(at, PostCloseLag)
           today == SessionFor(at)
<1>1. /\ at \in Nat /\ PostCloseLag \in Nat /\ Evening(s) \in Nat /\ o.open \in Nat
      /\ s.close + PostCloseLag <= at
  BY NightTimes, TimesAre DEF Evening
<1>2. \A x \in Sessions : /\ x.day \in Nat /\ x.open \in Nat /\ x.close \in Nat
                          /\ x.open < x.close
  BY CalendarAssumption
<1>3. \A x \in Sessions : x.open <= at => x = s \/ x.day < s.day
  <2> SUFFICES ASSUME NEW x \in Sessions, x.open <= at, ~(x.day < s.day)
               PROVE  x = s
    OBVIOUS
  <2>1. ~(s.close < x.open)
    BY <1>1, <1>2 DEF Night
  <2>2. ~(s.day < x.day)
    BY <2>1, DaysApart
  <2>3. s.day = x.day
    BY <1>2, <2>2
  <2> QED
    BY <2>3, CalendarAssumption
<1>4. \A x \in Sessions : x.open <= at => x.close <= s.close
  <2> SUFFICES ASSUME NEW x \in Sessions, x.open <= at, x # s
               PROVE  x.close <= s.close
    BY <1>2
  <2>1. x.close < s.open
    BY <1>3, DaysApart
  <2> QED
    BY <1>2, <2>1
<1>5. closed = s
  <2>1. closed # NoSession
    <3> DEFINE over == {x \in Sessions : x.close + PostCloseLag <= at}
    <3>1. s \in over
      BY <1>1
    <3>2. IsFiniteSet(over)
      BY FS_Subset, CalendarAssumption
    <3>3. s \in over /\ \A x \in over : x.close <= s.close
      <4> SUFFICES ASSUME NEW x \in over PROVE x.close <= s.close
        BY <3>1
      <4>1. x.open <= at
        BY <1>1, <1>2
      <4> QED
        BY <1>4, <4>1
    <3>4. closed = CHOOSE x \in over : \A y \in over : y.close <= x.close
      BY <3>1 DEF LastClosed
    <3> HIDE DEF over, closed
    <3>5. closed \in over
      BY <3>3, <3>4
    <3>6. closed \in Sessions
      BY <3>5 DEF over
    <3> QED
      BY <1>2, <3>6 DEF NoSession
  <2>2. closed \in Sessions /\ closed.close + PostCloseLag <= at /\ s.close <= closed.close
    BY <1>1, <2>1, LastClosedIs
  <2> HIDE DEF closed
  <2>3. closed.open <= at
    BY <1>1, <1>2, <2>2
  <2>4. ~(closed.day < s.day)
    <3>1. SUFFICES ASSUME closed.day < s.day PROVE FALSE
      OBVIOUS
    <3>2. closed.close < s.open
      BY <2>2, <3>1, DaysApart
    <3> QED
      BY <1>2, <2>2, <3>2
  <2> QED
    BY <1>3, <2>2, <2>3, <2>4
<1>6. Covers(at)
  <2>1. /\ o.day <= CoveredThrough /\ CoveredThrough \in Int /\ o.day \in Nat /\ DayLen \in Nat \ {0}
        /\ o.open < (o.day + 1) * DayLen /\ (o.day + 1) * DayLen \in Nat
    <3>1. /\ o.open < o.close /\ o.close < (o.day + 1) * DayLen /\ o.day \in Nat /\ DayLen \in Nat \ {0}
          /\ o.close \in Nat /\ CoveredThrough \in Int
      BY CalendarAssumption
    <3>2. (o.day + 1) * DayLen \in Nat
      BY <3>1
    <3> QED
      BY <1>1, <3>1, <3>2 DEF NightsAreLong
  <2>2. DayOf(at) \in Nat
    BY <1>1, DayBounds
  <2>3. ~(o.day < DayOf(at))
    BY <1>1, <2>1, DaysInOrder
  <2> QED
    BY <2>1, <2>2, <2>3 DEF Covers
<1>7. ~(today # NoSession /\ today.open <= at /\ at < today.close + PostCloseLag)
  <2> SUFFICES ASSUME today # NoSession, today.open <= at, at < today.close + PostCloseLag
               PROVE  FALSE
    OBVIOUS
  <2>1. today \in Sessions
    BY DEF SessionFor
  <2> HIDE DEF today
  <2>2. today.close <= s.close
    BY <1>4, <2>1
  <2> QED
    BY <1>1, <1>2, <2>1, <2>2
<1>8. closed # NoSession
  BY <1>2, <1>5 DEF NoSession
<1> QED
  BY <1>5, <1>6, <1>7, <1>8 DEF DestinationKeys, Key

\* The server runs at the end of the session's day and before the next open.
LEMMA NightWindows ==
  ASSUME NightsAreLong, NEW s \in Sessions, NEW o \in Sessions, Night(s, o), TypeOK
  PROVE  /\ clock = Evening(s) => InRunWindow
         /\ Morning(o) <= clock /\ clock < o.open => InRunWindow
<1>a. clock \in Nat
  BY TimesAre DEF TypeOK
<1>b. \A x \in Sessions : /\ x.day \in Nat /\ x.open \in Nat /\ x.close \in Nat
                          /\ x.day * DayLen <= x.open /\ x.open < x.close
                          /\ x.close + PostCloseLag < (x.day + 1) * DayLen
                          /\ x.day * DayLen <= Morning(x)
  BY CalendarAssumption, SessionsAssumption DEF NightsAreLong
<1>c. /\ DayLen \in Nat \ {0} /\ PostCloseLag \in Nat /\ StopLag \in Nat /\ StartLead \in Nat
      /\ PostCloseLag < StopLag
  BY CalendarAssumption, BackupAssumption DEF NightsAreLong
<1>d. \A x \in Sessions : x # NoSession
  BY <1>b DEF NoSession
<1>1. ASSUME NEW x \in Sessions, x.day * DayLen <= clock, clock < (x.day + 1) * DayLen
      PROVE  SessionFor(clock) = x
  <2>1. DayOf(clock) \in Nat /\ x.day \in Nat /\ x.day <= DayOf(clock)
    BY <1>1, <1>a, <1>b, DayBounds, DaysInOrder
  <2>2. ~(x.day < DayOf(clock))
    <3> SUFFICES ASSUME x.day < DayOf(clock) PROVE FALSE
      OBVIOUS
    <3>1. (x.day + 1) * DayLen <= clock /\ (x.day + 1) * DayLen \in Nat
      BY <1>a, <1>c, <2>1, DaysInOrder
    <3> QED
      BY <1>1, <1>a, <3>1
  <2>3. x.day = DayOf(clock)
    BY <2>1, <2>2
  <2> QED
    BY <2>3, SessionForIs
<1>2. ASSUME clock = Evening(s) PROVE InRunWindow
  <2> DEFINE start == s.day * DayLen
             end == (s.day + 1) * DayLen
  <2>1. start \in Nat /\ end \in Nat
    BY <1>b, <1>c
  <2>2. start <= s.open /\ s.open < s.close /\ clock = s.close + PostCloseLag /\ clock < end
    BY <1>2, <1>b DEF Evening
  <2> HIDE DEF start, end
  <2>3. start <= clock /\ s.open - StartLead <= clock /\ clock < s.close + StopLag
    BY <1>a, <1>b, <1>c, <2>1, <2>2
  <2>4. SessionFor(clock) = s
    BY <1>1, <2>2, <2>3 DEF start, end
  <2> QED
    BY <1>d, <2>3, <2>4 DEF InRunWindow
<1>3. ASSUME Morning(o) <= clock, clock < o.open PROVE InRunWindow
  <2> DEFINE start == o.day * DayLen
             end == (o.day + 1) * DayLen
  <2>1. start \in Nat /\ end \in Nat
    BY <1>b, <1>c
  <2>2. start <= Morning(o) /\ o.open < o.close /\ o.close + PostCloseLag < end /\ Morning(o) \in Int
    BY <1>b, <1>c DEF Morning
  <2> HIDE DEF start, end
  <2>3. start <= clock /\ clock < end /\ o.open - StartLead <= clock /\ clock < o.close + StopLag
    BY <1>3, <1>a, <1>b, <1>c, <2>1, <2>2 DEF Morning
  <2>4. SessionFor(clock) = o
    BY <1>1, <2>3 DEF start, end
  <2> QED
    BY <1>d, <2>3, <2>4 DEF InRunWindow
<1> QED
  BY <1>2, <1>3

\* A step of the unit that is no fault.
Sound == clock' = clock /\ faults' = faults

LEMMA SoundSteps ==
  ASSUME BackupsInv, [Next]_vars, Sound, ~TimePasses
  PROVE  /\ ~Fault
         /\ \/ BackupBegins
            \/ BackupEnds /\ backup' = [at |-> dumping, verified |-> TRUE, data |-> dumping]
            \/ OffsiteBegins
            \/ OffsiteChecks /\ copying' = [copying EXCEPT !.at = "putting",
                                              !.missing = {k \in copying.keys : ~Stored(k)}]
            \/ OffsitePuts /\ copying' = [copying EXCEPT !.missing = @ \ {NextKey(copying.missing)}]
            \/ OffsiteEnds /\ offsite' = [at |-> clock, ok |-> TRUE, keys |-> copying.keys]
               /\ copying' = NoRun
            \/ Stops \/ Starts
            \/ UNCHANGED <<clock, booted, due, dumping, backup, copying, offsite>>
<1>1. ~Fault
  BY TimesAre DEF Fault, Sound, BackupsInv, TypeOK
<1> QED
  BY <1>1 DEF Next, JobStep, BackupBegins, BackupEnds, OffsiteBegins, OffsiteChecks, OffsitePuts,
     OffsiteEnds, PutsAnchor, Watches, LosesPower, WorkerChanges, vars

LEMMA FreshKept ==
  ASSUME BackupsInv, [Next]_vars, Sound, ~TimePasses, NEW t \in Int, t <= clock, Fresh(t)
  PROVE  Fresh(t)'
<1>a. /\ clock \in Nat /\ (dumping # Off => dumping \in Nat) /\ backup \in Dump
      /\ clock # Off
  BY TimesAre DEF BackupsInv, TypeOK
<1>1. CASE BackupBegins
  BY <1>1, <1>a DEF BackupBegins, Fresh, Up
<1>2. CASE BackupEnds /\ backup' = [at |-> dumping, verified |-> TRUE, data |-> dumping]
  BY <1>2, <1>a DEF BackupEnds, Fresh, Up
<1>3. CASE OffsiteBegins
  BY <1>3, <1>a DEF OffsiteBegins, Fresh, Up
<1>4. CASE OffsiteChecks \/ OffsitePuts \/ OffsiteEnds
  BY <1>4, <1>a DEF OffsiteChecks, OffsitePuts, OffsiteEnds, Fresh, Up
<1>5. CASE Stops
  BY <1>5, <1>a DEF Stops, Halts, Fresh, Up
<1>6. CASE Starts
  BY <1>6, <1>a DEF Starts, Fresh, Up, Jobs
<1>7. CASE UNCHANGED <<clock, booted, due, dumping, backup, copying, offsite>>
  BY <1>7 DEF Fresh, Up
<1> QED
  BY <1>1, <1>2, <1>3, <1>4, <1>5, <1>6, <1>7, SoundSteps

LEMMA SecuredKept ==
  ASSUME NightsAreLong, NEW s \in Sessions, NEW o \in Sessions, Night(s, o),
         BackupsInv, [Next]_vars, Sound, ~TimePasses,
         NEW t \in Int, Evening(s) <= t, clock = t + 1, clock < o.open, Secured(s, t), NotAhead
  PROVE  Held(s)' \/ Secured(s, t)'
<1>a. /\ clock \in Nat /\ (dumping # Off => dumping \in Nat) /\ backup.verified
      /\ backup.at \in Times /\ backup.at \in Nat /\ clock # Off /\ clock \in Times
  BY TimesAre DEF BackupsInv, TypeOK, SourceInv, Secured
<1>b. Key(s) \in Keys
  <2>1. s.day \in Days
    <3>1. DayOf(Horizon) \in Nat
      BY TimesAre, DayBounds
    <3> QED
      BY <3>1, CalendarAssumption, SessionsAssumption DEF Days
  <2> QED
    BY <2>1 DEF Key, Keys, Kinds
<1>c. /\ Evening(s) \in Nat /\ o.open \in Nat /\ MaxDumpAge \in Nat /\ 1 <= MaxDumpAge
      /\ Up /\ t <= backup.at
  BY NightTimes DEF NightsAreLong, Secured
<1>1. CASE BackupBegins
  BY <1>1, <1>a, <1>c DEF BackupBegins, Secured, Up
<1>2. CASE BackupEnds /\ backup' = [at |-> dumping, verified |-> TRUE, data |-> dumping]
  BY <1>2, <1>a DEF BackupEnds, Secured, Up
<1>3. CASE OffsiteBegins
  <2>1. SourceVerified
    BY <1>a, <1>c DEF SourceVerified
  <2>2. CASE backup.at < o.open
    <3>1. Evening(s) <= backup.at
      BY <1>a, <1>c
    <3>2. Key(s) \in DestinationKeys(backup.at)
      BY <1>a, <2>2, <3>1, NightKeys
    <3>3. copying' = [at |-> "checking", data |-> backup.data,
                      keys |-> DestinationKeys(backup.at), missing |-> {}]
      BY <1>3, <2>1 DEF OffsiteBegins
    <3>4. copying'.at # "idle" /\ Key(s) \in copying'.keys
      BY <3>2, <3>3
    <3> QED
      BY <1>3, <1>a, <1>c, <3>4 DEF OffsiteBegins, Secured, Up
  <2>3. CASE ~(backup.at < o.open)
    <3>1. backup.at <= clock
      BY <1>a DEF NotAhead
    <3> QED
      BY <1>a, <1>c, <2>3, <3>1
  <2> QED
    BY <2>2, <2>3
<1>4. CASE OffsiteChecks /\ copying' = [copying EXCEPT !.at = "putting",
                                          !.missing = {k \in copying.keys : ~Stored(k)}]
  <2>1. copying'.at # "idle" /\ copying'.keys = copying.keys
    BY <1>4 DEF BackupsInv, TypeOK, Run
  <2> QED
    BY <1>4, <2>1 DEF OffsiteChecks, Secured, Up
<1>5. CASE OffsitePuts /\ copying' = [copying EXCEPT !.missing = @ \ {NextKey(copying.missing)}]
  <2>1. copying'.at # "idle" /\ copying'.keys = copying.keys
    BY <1>5 DEF BackupsInv, TypeOK, Run, OffsitePuts
  <2> QED
    BY <1>5, <2>1 DEF OffsitePuts, Secured, Up
<1>6. CASE OffsiteEnds /\ offsite' = [at |-> clock, ok |-> TRUE, keys |-> copying.keys]
           /\ copying' = NoRun
  <2>1. CASE "offsite" \in due
    BY <1>6, <2>1 DEF OffsiteEnds, Secured, Up
  <2>2. CASE Key(s) \in copying.keys
    <3>1. Stored(Key(s))
      BY <1>6, <2>2 DEF OffsiteEnds, BackupsInv, RunInv
    <3> QED
      BY <1>b, <3>1, StoredStays DEF Held
  <2> QED
    BY <2>1, <2>2 DEF Secured
<1>7. CASE Stops
  <2>1. LastClosed(clock, PostCloseLag) = s
    <3>1. Evening(s) <= clock
      BY <1>a, <1>c
    <3> QED
      BY <1>a, <3>1, NightKeys
  <2>2. offsite.ok /\ Key(s) \in offsite.keys
    BY <1>7, <2>1 DEF Stops, StopReadiness, Key
  <2>3. Stored(Key(s))
    BY <2>2 DEF BackupsInv, RecordInv
  <2> QED
    BY <1>b, <2>3, StoredStays DEF Held
<1>8. CASE Starts
  BY <1>8, <1>c DEF Starts
<1>9. CASE UNCHANGED <<clock, booted, due, dumping, backup, copying, offsite>>
  BY <1>9 DEF Secured, Up
<1> QED
  BY <1>1, <1>2, <1>3, <1>4, <1>5, <1>6, <1>7, <1>8, <1>9, SoundSteps

LEMMA ClockSteps ==
  ASSUME [Next]_vars
  PROVE  (~TimePasses => clock' = clock) /\ clock' \in {clock, clock + 1}
<1>1. CASE TimePasses
  <2>1. clock' = IF clock < Horizon THEN clock + 1 ELSE clock
    BY <1>1 DEF TimePasses
  <2> QED
    BY <1>1, <2>1
<1>2. CASE ~TimePasses
  BY <1>2 DEF Next, JobStep, BackupBegins, BackupEnds, OffsiteBegins, OffsiteChecks,
     OffsitePuts, OffsiteEnds, PutsAnchor, Watches, Stops, LosesPower, Starts, WorkerChanges, vars
<1> QED
  BY <1>1, <1>2

LEMMA NotAheadKept ==
  ASSUME BackupsInv, NotAhead, [Next]_vars
  PROVE  NotAhead'
<1>a. /\ clock \in Nat /\ Horizon \in Nat /\ (dumping # Off => dumping \in Nat)
      /\ (backup.verified => backup.at \in Nat)
  BY TimesAre DEF BackupsInv, TypeOK, SourceInv
<1>b. clock' \in Nat /\ clock <= clock'
  BY <1>a, ClockSteps
<1>1. CASE BackupBegins
  BY <1>1, <1>a, <1>b DEF BackupBegins, NotAhead
<1>2. CASE BackupEnds
  BY <1>2, <1>a, <1>b DEF BackupEnds, NotAhead
<1>3. CASE UNCHANGED backup /\ dumping' \in {dumping, Off}
  BY <1>3, <1>a, <1>b DEF NotAhead
<1>4. CASE ~BackupBegins /\ ~BackupEnds
  BY <1>3, <1>4 DEF Next, JobStep, OffsiteBegins, OffsiteChecks, OffsitePuts, OffsiteEnds,
     PutsAnchor, Watches, Stops, LosesPower, Halts, Starts, WorkerChanges, TimePasses, vars
<1> QED
  BY <1>1, <1>2, <1>4

\* At the end of a sound unit that was fresh, the next begins with a run to come.
LEMMA UnitEnds ==
  ASSUME BackupsInv, NotAhead, TimePasses, faults' = faults
  PROVE  /\ Fresh(clock)'
         /\ \A t \in Int : Fresh(t) /\ Up => \A s \in Sessions : Secured(s, t)'
         /\ \A t \in Int, s \in Sessions : ~Secured(s, t)
<1>1. ~Fault
  BY TimesAre DEF Fault, BackupsInv, TypeOK
<1>2. /\ due = {} /\ copying = NoRun /\ dumping = Off /\ dumping' = Off
      /\ (Up => due' = Jobs) /\ UNCHANGED <<booted, backup, copying>>
  BY <1>1 DEF TimePasses
<1>3. Up' <=> Up
  BY <1>2 DEF Up
<1>4. Fresh(clock)'
  BY <1>2, <1>3 DEF Fresh, Jobs
<1>5. \A t \in Int : Fresh(t) /\ Up => \A s \in Sessions : Secured(s, t)'
  BY <1>2, <1>3 DEF Fresh, Secured, Jobs
<1>6. \A t \in Int, s \in Sessions : ~Secured(s, t)
  BY <1>2, NoRunTypes DEF Secured
<1> QED
  BY <1>4, <1>5, <1>6

LEMMA FaultSteps ==
  ASSUME BackupsInv, [Next]_vars
  PROVE  /\ faults' \in {faults, faults - 1}
         /\ faults' # faults => faults' = faults - 1
         /\ faults \in 0..MaxFaults /\ faults' \in 0..MaxFaults /\ MaxFaults \in Nat
         /\ ~Spent' => ~Spent /\ faults' = faults
         /\ OneFault' => OneFault /\ (faults' = faults \/ ~Spent)
<1>1. faults' \in {faults, faults - 1}
  <2>1. Fault => faults' = faults - 1
    BY DEF Fault
  <2> QED
    BY <2>1 DEF Next, JobStep, BackupBegins, BackupEnds, OffsiteBegins, OffsiteChecks, OffsitePuts,
       OffsiteEnds, PutsAnchor, Watches, Stops, LosesPower, Starts, WorkerChanges, TimePasses, vars
<1>2. faults \in 0..MaxFaults /\ faults' \in 0..MaxFaults /\ MaxFaults \in Nat
  BY BackupsStep, TimesAre DEF BackupsInv, TypeOK
<1>3. /\ Spent <=> faults < MaxFaults
      /\ Spent' <=> faults' < MaxFaults
      /\ OneFault <=> MaxFaults <= faults + 1
      /\ OneFault' <=> MaxFaults <= faults' + 1
  BY DEF Spent, OneFault
<1>4. ~Spent' => ~Spent /\ faults' = faults
  BY <1>1, <1>2, <1>3
<1>5. CASE faults' = faults
  BY <1>2, <1>3, <1>4, <1>5
<1>6. CASE faults' = faults - 1
  <2>1. faults \in Int /\ MaxFaults \in Int
    BY <1>2
  <2>2. OneFault' => MaxFaults <= faults /\ MaxFaults <= faults + 1
    BY <1>3, <1>6, <2>1
  <2>3. MaxFaults <= faults => ~(faults < MaxFaults)
    BY <2>1
  <2> QED
    BY <1>1, <1>2, <1>3, <1>4, <2>2, <2>3
<1> QED
  BY <1>1, <1>5, <1>6

LEMMA HeldStays ==
  ASSUME BackupsInv, [Next]_vars, NEW s \in Sessions, Held(s)
  PROVE  Held(s)'
<1>1. s.day \in Days
  <2>1. DayOf(Horizon) \in Nat
    BY TimesAre, DayBounds
  <2> QED
    BY <2>1, CalendarAssumption, SessionsAssumption DEF Days
<1>2. Key(s) \in Keys
  BY <1>1 DEF Key, Keys, Kinds
<1> QED
  BY <1>2, StoredStays DEF Held

\* A run that is to come, or under way, is over when the unit is.
LEMMA NoneSecuredAtEnd ==
  ASSUME TimePasses, NEW s, NEW t
  PROVE  ~Secured(s, t)
BY NoRunTypes DEF TimePasses, Secured

LEMMA EveningStep ==
  ASSUME NightsAreLong, NEW s \in Sessions, NEW o \in Sessions, Night(s, o),
         BackupsInv, NotAhead, [Next]_vars, ~Spent => Fresh(clock), EveningInv(s)
  PROVE  EveningInv(s)'
<1> SUFFICES ASSUME ~Spent'
             PROVE  /\ clock' = Evening(s) + 1 => Held(s)' \/ Secured(s, Evening(s))'
                    /\ clock' >= Evening(s) + 2 => Held(s)'
  BY DEF EveningInv
<1> DEFINE e == Evening(s)
<1>1. e \in Int /\ o.open \in Nat /\ e + 4 <= o.open
  BY NightTimes
<1>2. ~Spent /\ faults' = faults /\ clock \in Nat
  BY FaultSteps, TimesAre DEF BackupsInv, TypeOK
<1>3. /\ clock = e + 1 => Held(s) \/ Secured(s, e)
      /\ clock >= e + 2 => Held(s)
  BY <1>2 DEF EveningInv
<1>4. Held(s) => Held(s)'
  BY HeldStays
<1>5. CASE ~TimePasses
  <2>1. clock' = clock /\ Sound
    BY <1>2, <1>5, ClockSteps DEF Sound
  <2>2. ASSUME clock = e + 1, Secured(s, e) PROVE Held(s)' \/ Secured(s, e)'
    BY <1>1, <1>5, <2>1, <2>2, SecuredKept
  <2> HIDE DEF e
  <2> QED
    BY <1>3, <1>4, <2>1, <2>2 DEF e
<1>6. CASE TimePasses
  <2>1. ~Secured(s, e)
    BY <1>6, NoneSecuredAtEnd
  <2>2. clock' \in {clock, clock + 1}
    BY ClockSteps
  <2>3. clock >= e + 1 => Held(s)
    <3> HIDE DEF e
    <3> QED
      BY <1>1, <1>2, <1>3, <2>1
  <2>4. ASSUME clock = e PROVE Secured(s, e)'
    <3>1. Up
      BY <1>6, <2>4, NightWindows DEF TimePasses, BackupsInv
    <3>2. Fresh(e)
      BY <1>2, <2>4
    <3> QED
      BY <1>1, <1>2, <1>6, <3>1, <3>2, UnitEnds
  <2> HIDE DEF e
  <2>5. clock' = e + 1 => clock = e \/ clock >= e + 1
    BY <1>1, <1>2, <2>2
  <2>6. clock' >= e + 2 => clock >= e + 1
    BY <1>1, <1>2, <2>2
  <2> QED
    BY <1>4, <2>3, <2>4, <2>5, <2>6 DEF e
<1> QED
  BY <1>5, <1>6

LEMMA MorningStep ==
  ASSUME NightsAreLong, NEW s \in Sessions, NEW o \in Sessions, Night(s, o),
         BackupsInv, NotAhead, [Next]_vars, EveningInv(s), MorningInv(s, o), OneFault'
  PROVE  MorningInv(s, o)'
<1> DEFINE e == Evening(s)
           m == Morning(o)
<1>1. e \in Int /\ m \in Int /\ e + 2 <= m /\ o.open \in Nat /\ m + 2 <= o.open
  BY NightTimes
<1>2. clock \in Nat /\ clock' \in {clock, clock + 1} /\ (Held(s) => Held(s)')
  BY ClockSteps, HeldStays, TimesAre DEF BackupsInv, TypeOK
<1>3. /\ ~Spent => /\ clock = e + 1 => Held(s) \/ Secured(s, e)
                   /\ clock >= e + 2 => Held(s)
      /\ clock = m => Held(s) \/ (Spent /\ Fresh(m))
      /\ clock = m + 1 => Held(s) \/ (Spent /\ Secured(s, m))
      /\ clock >= m + 2 => Held(s)
  BY DEF EveningInv, MorningInv
<1>4. SUFFICES /\ clock' = m => Held(s)' \/ (Spent' /\ Fresh(m)')
               /\ clock' = m + 1 => Held(s)' \/ (Spent' /\ Secured(s, m)')
               /\ clock' >= m + 2 => Held(s)'
  BY DEF MorningInv
<1>5. TimePasses => ~Secured(s, e) /\ ~Secured(s, m)
  BY NoneSecuredAtEnd
\* With the budget unspent the evening has already made the copy.
<1>6. ASSUME ~Spent, clock' >= m PROVE Held(s)'
  <2>1. CASE clock >= e + 2
    BY <1>2, <1>3, <1>6, <2>1
  <2>2. CASE ~(clock >= e + 2)
    <3>1. clock = e + 1 /\ clock' # clock
      <4> HIDE DEF e, m
      <4> QED
        BY <1>1, <1>2, <1>6, <2>2
    <3>2. TimePasses
      BY <3>1, ClockSteps
    <3> QED
      BY <1>2, <1>3, <1>5, <1>6, <3>1, <3>2
  <2> QED
    BY <2>1, <2>2
<1>7. CASE ~Spent
  <2> HIDE DEF m
  <2>1. clock' = m \/ clock' = m + 1 \/ clock' >= m + 2 => clock' >= m
    BY <1>1, <1>2
  <2> QED
    BY <1>6, <1>7, <2>1
<1>8. CASE Spent /\ ~TimePasses
  <2>1. clock' = clock /\ faults' = faults /\ Sound /\ Spent'
    BY <1>8, FaultSteps, ClockSteps DEF Sound, Spent
  <2>2. ASSUME clock = m, Fresh(m) PROVE Fresh(m)'
    <3>1. m <= clock
      BY <1>1, <2>2
    <3> QED
      BY <1>1, <1>8, <2>1, <2>2, <3>1, FreshKept
  <2>3. ASSUME clock = m + 1, Secured(s, m) PROVE Held(s)' \/ Secured(s, m)'
    <3>1. e <= m /\ clock < o.open
      <4> HIDE DEF e, m
      <4> QED
        BY <1>1, <1>2, <2>3
    <3> QED
      BY <1>1, <1>8, <2>1, <2>3, <3>1, SecuredKept
  <2> HIDE DEF e, m
  <2> QED
    BY <1>2, <1>3, <2>1, <2>2, <2>3
<1>9. CASE Spent /\ TimePasses
  <2>1. faults' = faults /\ Spent'
    BY <1>9, FaultSteps DEF Spent
  <2>2. clock >= m + 1 => Held(s)
    <3> HIDE DEF e, m
    <3> QED
      BY <1>1, <1>2, <1>3, <1>5, <1>9
  <2>3. ASSUME clock' = m PROVE Fresh(m)'
    <3>1. Fresh(clock)'
      BY <1>9, <2>1, UnitEnds
    <3> QED
      BY <2>3, <3>1 DEF Fresh, Up
  <2>4. ASSUME clock = m, Fresh(m) PROVE Secured(s, m)'
    <3>1. m <= clock /\ clock < o.open
      <4> HIDE DEF m
      <4> QED
        BY <1>1, <1>2, <2>4
    <3>2. Up
      BY <1>9, <3>1, NightWindows DEF TimePasses, BackupsInv
    <3> QED
      BY <1>1, <1>9, <2>1, <2>4, <3>2, UnitEnds
  <2> HIDE DEF e, m
  <2>5. clock' = m + 1 => clock = m \/ clock >= m + 1
    BY <1>1, <1>2
  <2>6. clock' >= m + 2 => clock >= m + 1
    BY <1>1, <1>2
  <2> QED
    BY <1>2, <1>3, <2>1, <2>2, <2>3, <2>4, <2>5, <2>6
<1> QED
  BY <1>7, <1>8, <1>9

LEMMA SavingStep ==
  ASSUME NightsAreLong, BackupsInv, NotAhead, SavingInv, [Next]_vars
  PROVE  SavingInv'
<1> SUFFICES ASSUME OneFault'
             PROVE  /\ ~Spent' => Fresh(clock)'
                    /\ \A s, o \in Sessions : Night(s, o) => EveningInv(s)' /\ MorningInv(s, o)'
  BY DEF SavingInv, Night
<1>1. OneFault /\ (~Spent => Fresh(clock))
  BY FaultSteps DEF SavingInv
<1>2. ASSUME ~Spent' PROVE Fresh(clock)'
  <2>1. ~Spent /\ faults' = faults
    BY <1>2, FaultSteps
  <2>2. CASE TimePasses
    BY <2>1, <2>2, UnitEnds
  <2>3. CASE ~TimePasses
    <3>1. PICK t \in Int : t = clock
      BY TimesAre DEF BackupsInv, TypeOK
    <3>2. Sound /\ clock' = clock
      BY <2>1, <2>3, ClockSteps DEF Sound
    <3>3. t <= clock
      BY <3>1
    <3>4. Fresh(t)'
      BY <1>1, <2>1, <2>3, <3>1, <3>2, <3>3, FreshKept
    <3> QED
      BY <3>1, <3>2, <3>4 DEF Fresh, Up
  <2> QED
    BY <2>2, <2>3
<1>3. ASSUME NEW s \in Sessions, NEW o \in Sessions, Night(s, o)
      PROVE  EveningInv(s)' /\ MorningInv(s, o)'
  <2>1. EveningInv(s) /\ MorningInv(s, o)
    BY <1>1, <1>3 DEF SavingInv
  <2>2. EveningInv(s)'
    BY <1>1, <1>3, <2>1, EveningStep
  <2>3. MorningInv(s, o)'
    BY <1>3, <2>1, MorningStep
  <2> QED
    BY <2>2, <2>3
<1> QED
  BY <1>2, <1>3

\* The session after one that has a later one.
LEMMA NextSession ==
  ASSUME NEW s \in Sessions, NEW x \in Sessions, s.close < x.open
  PROVE  \E o \in Sessions : Night(s, o) /\ o.open <= x.open
<1> DEFINE opens == {y.open : y \in {z \in Sessions : s.close < z.open}}
<1>1. opens \subseteq Nat
  BY CalendarAssumption
<1>2. x.open \in opens
  OBVIOUS
<1>3. PICK least \in opens : \A n \in opens : least <= n
  <2> HIDE DEF opens
  <2> QED
    BY <1>1, <1>2, LeastNatural
<1>4. PICK o \in Sessions : s.close < o.open /\ o.open = least
  OBVIOUS
<1>5. \A y \in Sessions : s.close < y.open => o.open <= y.open
  BY <1>3, <1>4
<1> QED
  BY <1>4, <1>5 DEF Night

\* Though one thing fails, every session's data is off the host before the next
\* session opens, for any number of sessions with a night between them: the server
\* is not stopped without the copy, and started early enough to make up for a power
\* loss. (offsite.py and scheduler.py, with the timers of deploy/systemd.)
THEOREM EverySessionIsSaved ==
  ASSUME NightsAreLong
  PROVE  Spec => []SessionSaved
<1>1. Init => NotAhead /\ SavingInv
  <2> SUFFICES ASSUME Init PROVE NotAhead /\ SavingInv
    OBVIOUS
  <2>1. NotAhead /\ Fresh(clock) /\ clock = 0
    BY DEF Init, NotAhead, Fresh, Up
  <2>2. ASSUME NEW s \in Sessions, NEW o \in Sessions, Night(s, o)
        PROVE  EveningInv(s) /\ MorningInv(s, o)
    <3>1. Evening(s) \in Nat /\ Morning(o) \in Int /\ Evening(s) + 2 <= Morning(o)
      BY <2>2, NightTimes
    <3> QED
      BY <2>1, <3>1 DEF EveningInv, MorningInv
  <2> QED
    BY <2>1, <2>2 DEF SavingInv
<1>2. BackupsInv /\ NotAhead /\ SavingInv /\ [Next]_vars => NotAhead' /\ SavingInv'
  BY NotAheadKept, SavingStep
<1>3. BackupsInv /\ SavingInv => SessionSaved
  <2> SUFFICES ASSUME BackupsInv, SavingInv, OneFault,
                      NEW s \in Sessions, NEW x \in Sessions, s.close < x.open, x.open <= clock
               PROVE  Held(s)
    BY DEF SessionSaved, OneFault, Held, Key
  <2>1. PICK o \in Sessions : Night(s, o) /\ o.open <= x.open
    BY NextSession
  <2>2. Morning(o) + 2 <= o.open /\ Morning(o) \in Int /\ o.open \in Nat /\ x.open \in Nat
        /\ clock \in Nat
    BY <2>1, NightTimes, CalendarAssumption, TimesAre DEF BackupsInv, TypeOK
  <2>3. clock >= Morning(o) + 2
    BY <2>1, <2>2
  <2> QED
    BY <2>1, <2>3 DEF SavingInv, MorningInv
<1> QED
  BY <1>1, <1>2, <1>3, BackupsInit, BackupsStep, PTL DEF Spec
=============================================================================

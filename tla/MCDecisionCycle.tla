--------------------------- MODULE MCDecisionCycle ---------------------------
(* Values for TLC: three sessions, one of them short, and a holiday; readings *)
(* that qualify either way, that contradict themselves and that show nothing; *)
(* a chain of both types, one that costs too much and an empty one.           *)
EXTENDS DecisionCycle

ThreeSessions ==
  {[day |-> 0, open |-> 1, close |-> 3], [day |-> 1, open |-> 5, close |-> 6],
   [day |-> 3, open |-> 13, close |-> 15]}

FallingCloses == [d \in 0..3 |-> 50000 - 400 * d]

Reads(separation, side, iv) ==
  [separation |-> separation, side |-> side, retest |-> TRUE, iv |-> iv,
   breadth |-> 0, momentum |-> separation]

SomeReadings ==
  {Reads(100, "above", 15), Reads(-100, "below", 15), Reads(100, "above", 45), Reads(5, "above", 15)}

Quoted(contract, type, strike, bid, delta) ==
  [contract |-> contract, type |-> type, dte |-> 14, strike |-> strike, bid |-> bid,
   ask |-> bid + 10, delta |-> delta]

Chain(long) ==
  {Quoted("call500", "call", 50000, long, 60), Quoted("call510", "call", 51000, 300, 30),
   Quoted("put500", "put", 50000, long, 60), Quoted("put490", "put", 49000, 300, 30)}

SomeChains == {Chain(790), Chain(1500), {}}

SomeAccounts == {[equity |-> 10000000, power |-> 60000], [equity |-> 5000000, power |-> 60000],
                 [equity |-> 10000000, power |-> 40000]}

Reply(status, direction, evidence) ==
  [status |-> status, direction |-> direction, evidence |-> evidence, counter |-> {}, summary |-> "memo"]

SomeReplies ==
  {Reply("ok", d, {"structure"}) : d \in {"bullish", "bearish", "neutral"}}
    \cup {Reply("failed", "bullish", {}), Reply("ok", "bullish", {"structure", "rumour"})}
=============================================================================

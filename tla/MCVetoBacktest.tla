---------------------------- MODULE MCVetoBacktest ----------------------------
(* Values for TLC: four sessions of four bars, one of them short; a close     *)
(* that breaks the rule of the first entries; readings that qualify, that       *)
(* breadth alone vetoes, that breadth and momentum veto, that show nothing and  *)
(* that could not be read; a cheap chain, one that a loss makes too dear, and   *)
(* one whose leg does not trade after the decision.                             *)
EXTENDS VetoBacktest

At(d, open, close) == [day |-> d, open |-> 12 * d + open, close |-> 12 * d + close]

FourSessions == {At(0, 2, 10), At(1, 2, 10), At(2, 2, 8), At(4, 2, 10)}

BrokenClose == [d \in 0..4 |-> IF d = 1 THEN 49000 ELSE 50000]

Reading(iv, breadth, momentum) ==
  [separation |-> 100, side |-> "above", retest |-> TRUE, iv |-> iv, breadth |-> breadth,
   momentum |-> momentum]

SomeReadings ==
  {Reading(15, 0, 100), Reading(15, -90, 100), Reading(15, -90, -400), Reading(-1, 0, 100)}

Contract(contract, strike, delta, print, fill) ==
  [contract |-> contract, type |-> "call", dte |-> 14, strike |-> strike, delta |-> delta,
   solved |-> TRUE, prints |-> <<print>>, fill |-> fill]

SomeChains ==
  {{Contract("call500", 50000, 60, 800, 800), Contract("call510", 51000, 30, 300, 300)},
   {Contract("call500", 50000, 60, 978, 978), Contract("call515", 51500, 30, 245, 245)},
   {Contract("call500", 50000, 60, 800, 800), Contract("call510", 51000, 30, 300, 0)}}
=============================================================================

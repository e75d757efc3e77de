----------------------------- MODULE MCAutomation -----------------------------
(* An instance of Automation for TLC: an order worth 200.00 with a fee of 10.00. *)
EXTENDS Automation, TLC

CONSTANTS a1, a2

OneSlot == {a1}
TwoSlots == {a1, a2}
Symmetry == Permutations(TwoSlots)

SaleOfOne == [gross |-> 20000, fee |-> 1000, coins |-> 100000, platform |-> "PC", source |-> "PUBLIC_SUPPLIER"]

Automatic ==
  [mode |-> "AUTOMATIC", kill |-> FALSE, maxGross |-> 20000, maxCoins |-> 100000, maxAge |-> 0,
   minMargin |-> 0, minBalance |-> 0, maxFailures |-> 1, platforms |-> {"PC"}, sources |-> {"PUBLIC_SUPPLIER"}]

SomePolicies == {Automatic, [Automatic EXCEPT !.mode = "LIMIT_BASED", !.kill = TRUE]}

OnePolicy == {Automatic}

\* A margin of half a basis point below zero, and one of 2.5 percent below.
SomePrices == {19001, 19500}
=============================================================================

------------------------------ MODULE MCProvider ------------------------------
(* An instance of Provider for TLC. *)
EXTENDS Provider

CONSTANTS c1, c2

TwoSlots == {c1, c2}

\* 5.004, 5.006 and 4.996 dollars per 100K coins, some without the stock.
SomeOffers ==
  {<<>>,
   <<[price |-> 5006, stock |-> 1000], [price |-> 5004, stock |-> 10]>>,
   <<[price |-> 4996, stock |-> 10], [price |-> 5004, stock |-> 1000], [price |-> 0, stock |-> 1000]>>}
=============================================================================

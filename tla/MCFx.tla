-------------------------------- MODULE MCFx --------------------------------
(* Fx with a calendar of five days, of which three get a table, the second *)
(* one without the currency asked for, and two lookups beside each other.  *)
EXTENDS Fx, TLC

CONSTANTS c1, c2

TwoClients == {c1, c2}
AnyClient == Permutations(TwoClients)
ThreeTables == {1, 2, 4}
TwoMonthEnds == {2, 4}
OneCurrency == {1}
MostlyQuoted == [d \in 1 .. 5 |-> IF d = 2 THEN {} ELSE OneCurrency]
TwoReferences == {8, 9}

On(d) == [kind |-> "on", want |-> {d}, live |-> FALSE]
Keys(dates) == [kind |-> "keys", want |-> dates, live |-> FALSE]
Months(live) == [kind |-> "months", want |-> TwoMonthEnds, live |-> live]
Latest == [kind |-> "latest", want |-> {}, live |-> TRUE]

Requests == {On(3), Keys({3, 5}), Latest, Months(FALSE), Months(TRUE)}
=============================================================================

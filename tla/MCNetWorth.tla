----------------------------- MODULE MCNetWorth -----------------------------
(* NetWorth on a hub and a phone.  Nothing tells two names apart but       *)
(* whether a row has them.                                                *)
EXTENDS NetWorth

TwoDevices == {1, 2}
SecondDevice == {2}
AllPages == {"investments", "liquidity", "credits"}
InvestmentsPage == {"investments"}

NameSymmetry == Permutations(Name)

=============================================================================

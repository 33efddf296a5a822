----------------------------- MODULE MCStartup -----------------------------
(* Startup and Ledger on a hub and a phone.  Nothing tells two labels      *)
(* apart but whether a row has them.                                       *)
EXTENDS Startup

TwoDevices == {1, 2}
AllPages == {"expenses", "categories", "settings", "cashflow"}

LabelSymmetry == Permutations(Label)

=============================================================================

---------------------------- MODULE MCHubService ----------------------------
(* HubService with two connections that compete for the session.           *)
EXTENDS HubService

TwoConnections == {1, 2}
TwoCodes == {"d1", "d2"}

=============================================================================

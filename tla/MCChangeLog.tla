---------------------------- MODULE MCChangeLog ----------------------------
(* ChangeLog with one entry of another device, past this device's wall     *)
(* clock by as much as the bounds allow.                                   *)
EXTENDS ChangeLog

MCRemoteEntry ==
  {[stamp |-> [ms |-> 1, counter |-> 1], device |-> 2, change |-> 1]}

=============================================================================

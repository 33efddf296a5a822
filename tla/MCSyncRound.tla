---------------------------- MODULE MCSyncRound ----------------------------
(* SyncRound with the hub 1, one or two phones and one row.                *)
EXTENDS SyncRound

OnePhone == {2}
TwoPhones == {2, 3}
OneRow == {1}

(* A phone that pairs, unpairs and pairs again. *)
Pairing(changes, losses) ==
  [paired |-> {}, pairing |-> {2}, editing |-> {1, 2}, changes |-> changes, resets |-> 2,
   losses |-> losses, faulty |-> {1, 2}]

(* Phones that stay paired. *)
Paired(these, editing, changes, losses, faulty) ==
  [paired |-> these, pairing |-> {}, editing |-> editing, changes |-> changes, resets |-> 1,
   losses |-> losses, faulty |-> faulty]

(***************************************************************************)
(* One phone: two changes, and three faults of the hub or two of both.     *)
(* Two phones, of which one makes changes: one change and two faults of    *)
(* that phone or the hub, and two changes and one fault of the hub.        *)
(***************************************************************************)
PairingOrPaired ==
  {Pairing(1, 2), Pairing(2, 1),
   Paired({2}, {1, 2}, 2, 2, {1, 2}), Paired({2}, {1, 2}, 2, 3, {1}),
   Paired({2, 3}, {2}, 1, 2, {1, 2}), Paired({2, 3}, {2}, 2, 1, {1})}

(* A phone that is paired and may pair again, and one that stays paired. *)
PairedAgain ==
  {[Pairing(1, 2) EXCEPT !.paired = {2}], Paired({2}, {1, 2}, 2, 2, {1})}

(* A phone that stays paired, and one fault. *)
StaysPaired == {Paired({2}, {1, 2}, 3, 1, {1, 2})}

Upserts == {"upsert", "noise"}
Deletes == {"delete"}

=============================================================================

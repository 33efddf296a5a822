----------------------------- MODULE Histories -----------------------------
(***************************************************************************)
(* What the exchange of changes promises, whatever the changes are about   *)
(* and however the summaries, batches and files of Replicas bring it       *)
(* about: every device has, of every device, the first changes that one    *)
(* made, and nobody forgets or makes up anything.                          *)
(***************************************************************************)
EXTENDS Naturals

CONSTANTS Hub,
          MaxTime  \* bound: the largest stamp

VARIABLE heard  \* heard[d]: the keys of the changes that device d has

Made == UNION {heard[d] : d \in DOMAIN heard}

Init == \A d \in DOMAIN heard : heard[d] = {}

(* A device stamps a change past all it has heard of and all it has made.  *)
Make(d) ==
  \E t \in 1..MaxTime :
    /\ \A k \in Made : k.device = d \/ k \in heard[d] => k.time < t
    /\ heard' = [heard EXCEPT ![d] = @ \cup {[time |-> t, device |-> d]}]

(* A device hears of changes another one has, each device's in their order *)
(* and without a gap.  Phones hear from the hub alone.                     *)
Hear(d, e) ==
  \E news \in SUBSET (heard[e] \ heard[d]) :
    /\ d # e /\ Hub \in {d, e}
    /\ heard' = [heard EXCEPT ![d] = @ \cup news]
    /\ \A j \in heard[e], k \in heard'[d] :
         j.device = k.device /\ j.time < k.time => j \in heard'[d]

Next == \E d \in DOMAIN heard : Make(d) \/ \E e \in DOMAIN heard : Hear(d, e)

Spec == Init /\ [][Next]_heard

=============================================================================

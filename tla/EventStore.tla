----------------------------- MODULE EventStore -----------------------------
(***************************************************************************)
(* What the delivery of events promises, seen from outside: an event is    *)
(* pending once it is captured; being stored by the collector and being    *)
(* given up by the client are final; nothing vanishes without one of the   *)
(* two, and what left the client does not become pending again.            *)
(***************************************************************************)
VARIABLES pending, stored, dropped

Known == pending \cup stored \cup dropped

Init == pending = {} /\ stored = {} /\ dropped = {}

Next ==
  /\ stored \subseteq stored' /\ dropped \subseteq dropped'
  /\ Known \subseteq Known'
  /\ pending' \cap Known \subseteq pending

Spec == Init /\ [][Next]_<< pending, stored, dropped >>
=============================================================================

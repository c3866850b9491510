----------------------------- MODULE SessionLog -----------------------------
(***************************************************************************)
(* What the collector's database promises to its clients, and what         *)
(* Delivery assumes of it: sessions are only ever added, an event appears  *)
(* only when its session exists, a session that is unknown cannot be       *)
(* ended, and one that was ended stays ended.  Only a power failure of the *)
(* host takes rows away, and it never leaves an event without its session. *)
(***************************************************************************)
EXTENDS Integers

VARIABLES sessions, ended, stored, losses

Init == sessions = {} /\ ended = {} /\ stored = {} /\ losses = 0

Start == /\ sessions \subseteq sessions'
         /\ UNCHANGED << ended, stored, losses >>

End == /\ ended \subseteq ended' /\ ended' \subseteq sessions
       /\ UNCHANGED << sessions, stored, losses >>

Append == /\ stored \subseteq stored' /\ \A e \in stored' : e.sess \in sessions
          /\ UNCHANGED << sessions, ended, losses >>

PowerFails == /\ losses' = losses + 1
              /\ sessions' \subseteq sessions /\ ended' \subseteq ended \cap sessions'
              /\ stored' \subseteq stored /\ \A e \in stored' : e.sess \in sessions'

Next == Start \/ End \/ Append \/ PowerFails

Spec == Init /\ [][Next]_<< sessions, ended, stored, losses >>
=============================================================================

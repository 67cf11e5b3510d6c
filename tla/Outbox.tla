------------------------------- MODULE Outbox -------------------------------
(***************************************************************************)
(* What the client promises of a message it has parked for later           *)
(* (apps/web/src/opening-message.ts): it is kept until one send of it has  *)
(* reached every run that send was addressed to.                           *)
(***************************************************************************)

CONSTANT Messages

VARIABLES
    kept,    \* the messages still parked
    reached  \* the messages one send of which has reached all of its runs

vars == <<kept, reached>>

Init ==
    /\ kept \subseteq Messages
    /\ reached = {}

Reach(m) ==
    /\ m \notin reached
    /\ reached' = reached \cup {m}
    /\ UNCHANGED kept

Forget(m) ==
    /\ m \in kept \cap reached
    /\ kept' = kept \ {m}
    /\ UNCHANGED reached

Next == \E m \in Messages : Reach(m) \/ Forget(m)

Spec == Init /\ [][Next]_vars

=============================================================================

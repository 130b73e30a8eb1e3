--------------------------- MODULE DeliveryStates ---------------------------
(***************************************************************************)
(* What a transport promises about the delivery state of its commands      *)
(* (DeliveryState in ferredge-core/src/command.rs): a command is accepted  *)
(* once, may be reported as dispatched, and is completed or rejected at    *)
(* most once.  A reported state is never taken back.                       *)
(***************************************************************************)
CONSTANT Commands

VARIABLE delivery   \* the last state reported of each command

States == {"Unsent", "Accepted", "Dispatched", "Completed", "Rejected"}

\* The states a report may follow.
Before(s) ==
    CASE s = "Accepted"   -> {"Unsent"}
      [] s = "Dispatched" -> {"Accepted", "Dispatched"}
      [] s \in {"Completed", "Rejected"} -> {"Accepted", "Dispatched"}
      [] OTHER -> {}

Init == delivery = [c \in Commands |-> "Unsent"]

Report(c, s) ==
    /\ delivery[c] \in Before(s)
    /\ delivery' = [delivery EXCEPT ![c] = s]

Next == \E c \in Commands, s \in States : Report(c, s)

Spec == Init /\ [][Next]_delivery
=============================================================================

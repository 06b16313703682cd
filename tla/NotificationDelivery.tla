------------------------ MODULE NotificationDelivery ------------------------
(***************************************************************************)
(* What the notification queue promises its users (README.md, "Notification *)
(* delivery"): an owed notification stays pending while it is attempted,   *)
(* becomes sent only after the receiver has it, or failed when it is given *)
(* up; sent and failed are terminal; and nothing is sent that is not owed. *)
(***************************************************************************)
EXTENDS Naturals

CONSTANT Messages

VARIABLES
    status,   \* status[m]: absent, pending, sent or failed
    reached   \* the messages the receiver has processed at least once

Init ==
    /\ status = [m \in Messages |-> "absent"]
    /\ reached = {}

(* A lead is accepted: its notification is owed from now on.               *)
Owe(m) ==
    /\ status[m] = "absent"
    /\ status' = [status EXCEPT ![m] = "pending"]
    /\ UNCHANGED reached

(* The receiver processes an owed notification, for the first time or not. *)
Reach(m) ==
    /\ status[m] = "pending"
    /\ reached' = reached \cup {m}
    /\ UNCHANGED status

Succeed(m) ==
    /\ status[m] = "pending"
    /\ m \in reached
    /\ status' = [status EXCEPT ![m] = "sent"]
    /\ UNCHANGED reached

GiveUp(m) ==
    /\ status[m] = "pending"
    /\ status' = [status EXCEPT ![m] = "failed"]
    /\ UNCHANGED reached

Next == \E m \in Messages : Owe(m) \/ Reach(m) \/ Succeed(m) \/ GiveUp(m)

Spec == Init /\ [][Next]_<<status, reached>>
=============================================================================

-------------------------- MODULE CommandLifecycle --------------------------
(***************************************************************************)
(* What hx.console_commands promises the console, stated without the       *)
(* daemon that drives it: a row is minted once, moves forward through      *)
(* requested and running, and its terminal status is durable evidence that *)
(* no later call of any routine can change.  The three SECURITY DEFINER    *)
(* routines claim_command, complete_command and reject_command are the     *)
(* only writers besides the console's INSERT.                              *)
(***************************************************************************)
CONSTANT Cmds

VARIABLE status

Terminal == {"done", "failed", "rejected"}
Statuses == {"absent", "requested", "running"} \union Terminal

Init == status = [c \in Cmds |-> "absent"]

(* The console's INSERT of a request row. *)
Mint(c) == /\ status[c] = "absent"
           /\ status' = [status EXCEPT ![c] = "requested"]

(* claim_command: requested -> running (a re-drive, running -> running, is a
   stuttering step of this specification). *)
Claim(c) == /\ status[c] = "requested"
            /\ status' = [status EXCEPT ![c] = "running"]

(* complete_command: running -> done or failed, and from nowhere else. *)
Complete(c) == /\ status[c] = "running"
               /\ \E s \in {"done", "failed"} : status' = [status EXCEPT ![c] = s]

(* reject_command: any non-terminal row -> rejected. *)
Reject(c) == /\ status[c] \in {"requested", "running"}
             /\ status' = [status EXCEPT ![c] = "rejected"]

Next == \E c \in Cmds : Mint(c) \/ Claim(c) \/ Complete(c) \/ Reject(c)

Spec == Init /\ [][Next]_status
=============================================================================

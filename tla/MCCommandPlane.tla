---------------------------- MODULE MCCommandPlane ----------------------------
(***************************************************************************)
(* CommandPlane for TLC.  A pass and the fence take one row at a time, so  *)
(* what crashes and failed calls do to a row shows on one row, and what a  *)
(* loop over several rows does shows with few of them.  Each behaviour     *)
(* spends one of the budgets, and the check explores the sum of their      *)
(* states and not the product.                                             *)
(***************************************************************************)
EXTENDS CommandPlane

CONSTANT PlainRow   \* the row that carries no credential

ASSUME PlainRowAssumption == PlainRow \in Cmds \ Credentialed

VARIABLE budget   \* the rows submitted, how many of them are late or unfit, crashes, faults

Budget(rows, nUnfit, nCrashes, nFaults) ==
  [rows |-> rows, unfit |-> nUnfit, crashes |-> nCrashes, faults |-> nFaults]

Budgets == {Budget({PlainRow}, 1, 2, 2), Budget(Credentialed, 1, 2, 1), Budget(Cmds, 0, 1, 0)}

MCInit == Init /\ budget \in Budgets

Within ==
  /\ Cardinality({c \in Cmds : shape'[c] # "valid"} \union expired') <= budget.unfit
  /\ crashes' <= budget.crashes /\ faults' <= budget.faults
  /\ {c \in Cmds : status'[c] # "absent"} \subseteq budget.rows

MCNext == Next /\ Within /\ UNCHANGED budget

MCSpec ==
  /\ MCInit /\ [][MCNext]_<<vars, budget>>
  /\ WF_vars(Boot) /\ WF_vars(FenceStep /\ Within) /\ WF_vars(PollStep /\ Within)
=============================================================================

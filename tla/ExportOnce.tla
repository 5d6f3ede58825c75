----------------------------- MODULE ExportOnce -----------------------------
(***************************************************************************)
(* What services/exports.py promises about the sheet of one job, with no   *)
(* callers, attempts, failures or backend calls in sight: at most one row  *)
(* is ever written, to a destination that was approved before, and the     *)
(* receipt is the receipt of that row.                                     *)
(***************************************************************************)
CONSTANT Targets   \* destinations; a row has one in its field target

VARIABLES
  approved,        \* destinations with an approval
  sheet,           \* rows written to the sheet
  receipt          \* rows with a durable receipt

export == <<approved, sheet, receipt>>

Init == approved = {} /\ sheet = {} /\ receipt = {}

\* Nothing new is approved once the row is written.
Approve(t) ==
  /\ sheet = {}
  /\ approved' = approved \cup {t}
  /\ UNCHANGED <<sheet, receipt>>

\* One row appears, where an approval says.
Write ==
  /\ sheet = {}
  /\ sheet' # {}
  /\ \A r, s \in sheet' : r = s /\ r.target \in approved
  /\ UNCHANGED <<approved, receipt>>

Record ==
  /\ receipt = {}
  /\ sheet # {}
  /\ receipt' = sheet
  /\ UNCHANGED <<approved, sheet>>

Next == (\E t \in Targets : Approve(t)) \/ Write \/ Record

Spec == Init /\ [][Next]_export

=============================================================================

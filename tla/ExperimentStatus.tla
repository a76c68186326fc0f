-------------------------- MODULE ExperimentStatus --------------------------
(* The status column of table experiments (core/tuning/base.py), as the API    *)
(* writes it and the tuning worker reads it.                                   *)

Statuses == {"draft", "running", "completed", "cancelled"}

\* Where one commit of the API may take a row. A call checks the status it loaded
\* and writes later, so what it writes can land on any row that exists.
MayBecome(status) ==
    IF status = "absent" THEN {"draft"} ELSE {"running", "completed", "cancelled"}
=============================================================================

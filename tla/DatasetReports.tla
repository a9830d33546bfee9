--------------------------- MODULE DatasetReports ---------------------------
(***************************************************************************)
(* What an import promises about each dataset: while its row is pending    *)
(* anything may be reported under its key, and a report may get lost; the  *)
(* row settles once, on what was reported last, and nothing is reported    *)
(* after that.                                                             *)
(***************************************************************************)
CONSTANT Datasets       \* the files selected for the import

VARIABLES
    row,                \* status of each dataset in the database
    key,                \* what the page is told of it
    unheard             \* datasets whose last report was lost

vars == <<row, key, unheard>>

\* The report of a final status.
Outcome(r) == IF r = "failed" THEN "failed" ELSE "completed"

Init ==
    /\ row = [d \in Datasets |-> "absent"]
    /\ key = [d \in Datasets |-> "none"]
    /\ unheard = {}

\* All datasets of an import become visible together.
Accept ==
    /\ \A d \in Datasets : row[d] = "absent"
    /\ row' = [d \in Datasets |-> "pending"]
    /\ UNCHANGED <<key, unheard>>

Tell(d, report) ==
    /\ row[d] = "pending"
    /\ key' = [key EXCEPT ![d] = report]
    /\ unheard' = unheard \ {d}
    /\ UNCHANGED row

\* Whatever is reported of d does not arrive.
Lose(d) ==
    /\ row[d] = "pending"
    /\ unheard' = unheard \cup {d}
    /\ UNCHANGED <<row, key>>

Settle(d, r) ==
    /\ row[d] = "pending"
    /\ key[d] \in {"none", Outcome(r)} \/ d \in unheard
    /\ row' = [row EXCEPT ![d] = r]
    /\ UNCHANGED <<key, unheard>>

Forget(d) ==
    /\ key' = [key EXCEPT ![d] = "none"]
    /\ UNCHANGED <<row, unheard>>

Next ==
    \/ Accept
    \/ \E d \in Datasets :
        \/ \E report \in {"processing", "completed", "failed"} : Tell(d, report)
        \/ \E r \in {"completed", "skipped", "failed"} : Settle(d, r)
        \/ Lose(d) \/ Forget(d)

Spec == Init /\ [][Next]_vars
=============================================================================

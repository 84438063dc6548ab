------------------------------- MODULE UnitLife -------------------------------
(***************************************************************************)
(* What the rest of `sparra conduct` relies on of one unit: its outcome in   *)
(* run.json moves from pending to running to an end, a process that dies     *)
(* leaves it where it was, only an outcome that is not terminal is entered   *)
(* again, and a terminal one stays (src/conduct/run.ts: RESUMABLE_OUTCOMES). *)
(***************************************************************************)
VARIABLES outcome, alive

Terminal == {"accepted", "exhausted", "inconclusive", "grade-not-independent", "abandoned", "dry-run"}

Init == outcome = "pending" /\ alive = TRUE

Run == /\ alive /\ outcome \in {"pending", "running"}
       /\ outcome' = "running"
       /\ UNCHANGED alive

End == /\ alive /\ outcome \in {"pending", "running"}
       /\ outcome' \in Terminal \cup {"error"}
       /\ alive' = FALSE

Die == alive /\ alive' = FALSE /\ UNCHANGED outcome

Reenter == /\ ~alive /\ outcome \notin Terminal
           /\ outcome' = "pending"
           /\ alive' = TRUE

\* An accept or abandon that was parked when the process died ends the unit without entering it.
Recover == /\ ~alive /\ outcome \notin Terminal
           /\ outcome' \in {"accepted", "abandoned"}
           /\ UNCHANGED alive

Next  == Run \/ End \/ Die \/ Reenter \/ Recover
Stays == UNCHANGED <<outcome, alive>>

Spec == Init /\ [][Next]_<<outcome, alive>>
=============================================================================

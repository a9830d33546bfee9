-------------------------- MODULE MCUploadSession --------------------------
(* TLC instances of UploadSession.  A behaviour of ThreeSpec is one of three  *)
(* kinds, and mode says which: any behaviour of a small session; one of a     *)
(* larger session whose staff is patient, as in PatientSpec, and that no one  *)
(* flags; one of a larger session without deaths that is fair, as in          *)
(* LiveSpec.  What is left out of a kind never moves.                         *)
EXTENDS UploadSession

CONSTANTS SmallFiles, FewStaff, FewVerifies, FewFaults

VARIABLE mode

modeVars == <<mode, vars>>

Idle(T, V) ==
    /\ \A s \in T : staff'[s] = staff[s]
    /\ \A v \in V : ver'[v] = ver[v]

Few == Idle(Staff \ FewStaff, Verifies \ FewVerifies)

\* The staff asks on the dashboard only.
OnPages == \A s \in Staff : staff'[s].pc = "asked" => staff[s].pc # "idle"

\* It asks for no verification of a session that is being processed, as only
\* verify_upload_session_sync lets it.
Attentive ==
    \A s \in Staff : staff[s].pc # "asked" /\ staff'[s].pc = "asked" =>
        session.status # "processing"

ThreeInit == mode \in {"any", "patient", "fair"} /\ Init

ThreeNext ==
    /\ UNCHANGED mode
    /\ Next
    /\ \/ mode = "any" /\ Few /\ Rows(files') \subseteq SmallFiles /\ faults' <= FewFaults
       \/ mode = "patient" /\ Patient /\ Attentive /\ UNCHANGED flag
       \/ mode = "fair" /\ Few /\ OnPages /\ crashes' = 0

Fairly(A) == mode = "fair" /\ UNCHANGED mode /\ A /\ Few

\* The fairness of LiveSpec.
ThreeSpec ==
    /\ ThreeInit /\ [][ThreeNext]_modeVars
    /\ \A f \in Files : WF_modeVars(Fairly(mark[f].pc # "due" /\ Mark(f)))
    /\ \A g \in Flaggers : WF_modeVars(Fairly(Flag(g)))
    /\ \A v \in FewVerifies : WF_modeVars(Fairly(Work(v)))

PatientCompletedIsComplete == mode = "patient" => CompletedIsComplete
PatientOneObjectEach == mode = "patient" => OneObjectEach

FairNoneForgotten == mode = "fair" => NoneForgotten
=============================================================================

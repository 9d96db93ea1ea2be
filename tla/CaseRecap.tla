------------------------------ MODULE CaseRecap ------------------------------
(***************************************************************************)
(* What the player is told about the end of the case: the outcome and      *)
(* recap projections of outcome_engine.py.  They evaluate the case once    *)
(* more and, unlike the evaluation that ends every call and latches the    *)
(* branches, also count the passed summaries they find in the dialogue     *)
(* log.  A projection has no state of its own.                             *)
(***************************************************************************)
EXTENDS CaseEngine

Needs ==
    [recovery |-> [facts |-> {"N8"}, items |-> {"E3"},
                   actions |-> {"recover_medallion"}],
     accusation |-> [facts |-> {"N3", "N4", "N5"}, items |-> {"E2"},
                     actions |-> {"state_contradiction_N3_N4", "accuse_culprit"}],
     best |-> [facts |-> {"N3", "N4", "N8"}, items |-> {"E2", "E3"},
               actions |-> {"recover_medallion", "state_contradiction_N3_N4",
                            "accuse_culprit", "french_summary_x2",
                            "polite_gate_usage"}],
     none |-> [facts |-> {}, items |-> {}, actions |-> {}]]

(* Actions as the projection counts them: the flags, a medallion that is   *)
(* back, and two passed summaries in the log.                              *)
Tallied ==
    actions \cup {f \in {"recover_medallion"} : Recovered}
            \cup {f \in {"french_summary_x2"} : Cardinality(passes) >= 2}
Meets(need) ==
    need.facts \subseteq known /\ need.items \subseteq discovered
        /\ need.actions \subseteq Tallied

QuietRecovery == Recovered /\ ~PublicEscalation
AtEase == {n \in {"elodie", "marc"} : stress[n] <= 80}
ToldBest == Meets(Needs.best) /\ QuietRecovery /\ AtEase = {"elodie", "marc"}
ToldOutcome ==
    IF ToldBest THEN "best_outcome"
    ELSE IF SoftFail THEN "soft_fail"
    ELSE IF Meets(Needs.recovery) THEN "recovery_success"
    ELSE IF Meets(Needs.accusation) THEN "accusation_success" ELSE "in_progress"

(* Mutated form: a recovery is the path of every case that had one.        *)
PathByRecovery ==
    IF Meets(Needs.recovery) THEN "recovery"
    ELSE IF SoftFail THEN "soft_fail"
    ELSE IF Meets(Needs.accusation) THEN "accusation" ELSE "in_progress"

(* How the case was resolved; told apart from the outcome, by other rules. *)
Path ==
    IF SoftFail THEN "soft_fail"
    ELSE IF ToldBest \/ (Meets(Needs.recovery) /\ Meets(Needs.accusation))
         THEN IF QuietRecovery THEN "recovery" ELSE "accusation"
    ELSE IF Meets(Needs.recovery) THEN "recovery"
    ELSE IF Meets(Needs.accusation) THEN "accusation" ELSE "in_progress"
PathNeeds ==
    Needs[IF ToldBest THEN "best"
          ELSE IF Path \in {"recovery", "accusation"} THEN Path ELSE "none"]

(* build_visible_outcome_projection and build_visible_run_recap_projection. *)
(* The flags a branch latches come and stay together, so that one bit of   *)
(* the state stands for them.                                              *)
Recap ==
    [available |-> ToldOutcome # "in_progress",
     outcome |-> ToldOutcome,
     path |-> Path,
     components |-> {p \in {"recovery", "accusation"} : Meets(Needs[p])}
                        \cup {p \in {"soft_fail"} : SoftFail},
     facts |-> PathNeeds.facts \cap known,
     items |-> PathNeeds.items \cap discovered,
     actions |-> PathNeeds.actions \cap Tallied,
     contradiction |-> "state_contradiction_N3_N4" \in Tallied,
     failed |-> SoftFail, failLatched |-> softFailed,
     leftBuilding |-> softFailed \/ SoftFail,
     awarded |-> bestAwarded \/ ToldBest,
     quiet |-> QuietRecovery, escalated |-> PublicEscalation]

(* The recap and the engine tell one story.  The summaries counted again   *)
(* in the log give no outcome that was not latched; the path never         *)
(* contradicts the outcome; a closed case has a path; and what the recap   *)
(* names as the path's facts, clues and deeds is the whole of what that    *)
(* path asks for.                                                          *)
RecapAgrees ==
    \A told \in {Recap} :
        /\ told.outcome = PrimaryOutcome /\ (told.awarded => bestAwarded)
        /\ told.available <=> told.path # "in_progress"
        /\ told.outcome = "soft_fail" <=> told.path = "soft_fail"
        /\ told.outcome = "best_outcome" => told.path = "recovery"
        /\ told.outcome = "accusation_success" => told.path = "accusation"
        /\ told.path = "accusation" =>
              told.contradiction /\ {"N3", "N4", "N5"} \subseteq known
        /\ told.path = "recovery" => told.quiet \/ "accusation" \notin told.components
        /\ PathNeeds = [facts |-> told.facts, items |-> told.items,
                        actions |-> told.actions]
        /\ told.failed => told.failLatched /\ told.leftBuilding
=============================================================================

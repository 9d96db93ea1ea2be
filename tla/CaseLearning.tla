---------------------------- MODULE CaseLearning ----------------------------
(***************************************************************************)
(* What the game concludes about the learner while the case is played:     *)
(* learning_state.py over the dialogue log of SimRunner, the active scene  *)
(* of the dialogue runtime and the observed clues of the investigation.    *)
(* Each step is a step of CaseEngine that also keeps these three; the      *)
(* learning state itself is computed from them whenever it is asked for.   *)
(***************************************************************************)
EXTENDS CaseEngine, Sequences

VARIABLES
    log,      \* the last LogCapacity turns, as LogRow keeps them
    active,   \* active_scene_id, or "none"
    observed  \* the affordances with an obs: clue

learnVars == <<vars, log, active, observed>>

Statuses == {"accepted", "repair", "refused", "blocked_gate",
             "invalid_intent", "invalid_scene_state"}
SummaryCodes == {"none", "summary_passed", "summary_required", "summary_needed",
                 "summary_insufficient_facts", "summary_missing_key_fact"}

-------------------------------------------------------------------------------
(* A turn as the log keeps it.                                             *)

Status(r) ==
    CASE Verdict(r) = "not_entered" ->
            IF r.npc = PrimaryNpc[r.scene] /\ completion[r.scene] # "completed"
            THEN "blocked_gate" ELSE "invalid_scene_state"
      [] Verdict(r) \in {"rude", "unready", "unsupported"} -> "repair"
      [] OTHER -> Verdict(r)

(* Only a turn that reaches the summary check, or is sent to it, has a code. *)
SummaryCode(r) ==
    LET judged == Verdict(r) \in {"unsupported", "unready"} /\ ~LeavesGaps(r)
                      /\ Presentable(r)
        short == Cardinality(r.facts \cap known \cap AllowedFacts[r.scene])
                     < SummaryMinimum[r.scene]
    IN  CASE Completes(r) -> "summary_passed"
          [] judged /\ r.intent = "accuse" -> "summary_required"
          [] judged /\ r.intent = "goodbye" -> "summary_needed"
          [] judged /\ r.intent = "summarize_understanding" ->
                IF short THEN "summary_insufficient_facts"
                ELSE "summary_missing_key_fact"
          [] OTHER -> "none"

LogRow(r) ==
    [scene |-> r.scene, summarises |-> r.intent = "summarize_understanding",
     status |-> Status(r), code |-> SummaryCode(r), reveals |-> Revealed(r)]

Bounded(rows) ==
    IF Len(rows) > LogCapacity
    THEN SubSeq(rows, Len(rows) - LogCapacity + 1, Len(rows)) ELSE rows

Speak(r) ==
    /\ DialogueTurn(r)
    /\ log' = Bounded(Append(log, LogRow(r)))
    /\ active' = IF Completes(r) THEN "none" ELSE IF Enters(r) THEN r.scene ELSE active
    /\ UNCHANGED observed

-------------------------------------------------------------------------------
(* Observed clues: what was answered, found or not.                        *)

Look(a, granted) ==
    /\ Investigate(a, granted)
    /\ observed' = observed \cup {b \in {a} : Answered(b, granted)}
    /\ UNCHANGED <<log, active>>

(* The calls that the learning state does not record.                      *)
Unrecorded ==
    /\ \/ SubmitContradictionEdge
       \/ \E quiet \in BOOLEAN : AttemptRecovery(quiet)
       \/ \E public \in BOOLEAN : AccuseCulprit(public)
       \/ \E suspect \in Suspects, public \in BOOLEAN : AccuseInnocent(suspect, public)
       \/ \E t \in Instants : AdvanceTo(t)
    /\ UNCHANGED <<log, active, observed>>

LearnInit == Init /\ log = <<>> /\ active = "none" /\ observed = {}
LearnNext ==
    \/ \E a \in Commands, granted \in Grants : Look(a, granted)
    \/ \E r \in Requests : Speak(r)
    \/ Unrecorded
LearnSpec == LearnInit /\ [][LearnNext]_learnVars

-------------------------------------------------------------------------------
(* The minigames, read off what was observed and what is known.            *)

Minigames == {"MG1", "MG2", "MG3", "MG4"}
TargetOf == [S1 |-> "MG1", S2 |-> "MG2", S3 |-> "MG4", S4 |-> "MG3", S5 |-> "none"]

GateIsOpen(g) ==
    CASE g = "MG1" -> "O3.read" \in observed
      [] g = "MG2" -> "O6.view_logs" \in observed
      [] g = "MG3" -> "O9.read_receipt" \in observed
      [] g = "MG4" -> "E1" \in discovered
Attempted(g) == GateIsOpen(g) \/ (g = "MG4" /\ "O4.inspect" \in observed)
Solved(g) ==
    CASE g = "MG1" -> Attempted(g)
      [] g = "MG2" -> Attempted(g) /\ "N3" \in known
      [] g = "MG3" -> Attempted(g) /\ "N4" \in known
      [] g = "MG4" -> "N6" \in known
MinigameStatus(g) ==
    IF Solved(g) THEN "completed" ELSE IF Attempted(g) THEN "needs_retry" ELSE "not_started"

-------------------------------------------------------------------------------
(* The summaries, read off the log.                                        *)

RowsOf(s) == {i \in DOMAIN log : log[i].scene = s}
CodedRows(s) == {i \in RowsOf(s) : log[i].code # "none"}
Latest(rows) == CHOOSE i \in rows : \A j \in rows : j <= i

LastCode(s) ==
    LET coded == CodedRows(s) IN IF coded = {} THEN "none" ELSE log[Latest(coded)].code
SummaryAttempts(s) == {i \in RowsOf(s) : log[i].summarises \/ log[i].code # "none"}
SummaryStatus(s) ==
    IF LastCode(s) = "summary_passed" THEN "passed"
    ELSE IF SummaryAttempts(s) # {} THEN "retry_required" ELSE "not_started"

-------------------------------------------------------------------------------
(* The support: how strong a hint the active scene calls for.              *)

NonAccepts == {"repair", "refused", "blocked_gate"}

(* Mutated form: any turn that is not a plain failure ends the streak.     *)
UnbrokenFailures(s) ==
    Cardinality({i \in RowsOf(s) :
        \A j \in RowsOf(s) : j >= i => log[j].status \in NonAccepts})

(* The failed turns of a scene since its last accepted one; turns that are *)
(* neither are passed over.                                                *)
Failures(s) ==
    Cardinality({i \in RowsOf(s) :
        /\ log[i].status \in NonAccepts
        /\ \A j \in RowsOf(s) : j >= i => log[j].status # "accepted"})
SummaryPressure(s) == IF LastCode(s) \in {"none", "summary_passed"} THEN 0 ELSE 1
MinigamePressure(s) ==
    IF TargetOf[s] # "none" /\ MinigameStatus(TargetOf[s]) = "needs_retry" THEN 1 ELSE 0

BaseRank == IF Difficulty = "D0" THEN 1 ELSE 0
MaxRank == IF Difficulty = "D0" THEN 3 ELSE 2
HintRank ==
    IF active = "none" THEN BaseRank
    ELSE LET rank == BaseRank + Failures(active) + SummaryPressure(active)
                         + MinigamePressure(active)
         IN  IF rank > MaxRank THEN MaxRank ELSE rank
HintReason ==
    IF active = "none" THEN "no_active_scene"
    ELSE IF MinigamePressure(active) > 0 THEN "minigame_retry_support"
    ELSE IF SummaryPressure(active) > 0 THEN "summary_pressure_escalation"
    ELSE IF Failures(active) > 0 THEN "escalated_after_repairs"
    ELSE "baseline_scene_support"
=============================================================================

------------------------------ MODULE CaseEngine ------------------------------
(***************************************************************************)
(* The MBAM case as SimRunner plays it.  A run of the case is a sequence   *)
(* of SimRunner's submit_* and attempt_* calls, in any order the player    *)
(* and the live host like, with ticks in between; each call is one action  *)
(* and ends, as each does in the code, with the outcome branch transitions.*)
(*                                                                         *)
(* Calls that are refused before they change anything (a blocked recovery, *)
(* an accusation without its ingredients) are stuttering steps and have no *)
(* action.  Commands are sent to be executed: the intent validate_only,    *)
(* which nothing but a test uses, is left out.                             *)
(*                                                                         *)
(* Observed-clue ids, the active scene, the NPC cards and the trust of     *)
(* NPCs that guard no gate are written and never read by the engine; they  *)
(* are left out, as is the dialogue runtime's own copy of the revealed     *)
(* facts, which only ever receives facts that also enter known.            *)
(***************************************************************************)
EXTENDS CaseFile, FiniteSets

CONSTANTS
    Commands,   \* the affordances the player may try
    Grants,     \* the sets of prerequisites a caller may vouch for with them
    Requests,   \* the dialogue turns the player may submit
    Instants,   \* the minutes at which the model looks at the clock
    MaxTurns,   \* bound on the dialogue turns of a run
    LogCapacity \* the number of turns the dialogue log holds (16 in the code)

Tones == {"proper", "wrong_register", "aggressive"}

(* A turn names its scene, whom it addresses, what is said and in which    *)
(* tone, whether every required slot is filled, and what is laid out.      *)
RequestSpace ==
    [scene : Scenes, npc : Npcs, intent : Intents, tone : Tones,
     slots : BOOLEAN, facts : SUBSET Facts, evidence : SUBSET Evidence]

ASSUME RequestsAssumption == Requests \subseteq RequestSpace
ASSUME CommandsAssumption == Commands \subseteq Affordances
(* Nobody needs to vouch for anything.                                     *)
ASSUME GrantsAssumption == Grants \subseteq SUBSET Tokens /\ {} \in Grants
(* No step of the clock passes two beats of one NPC.                       *)
ASSUME InstantsAssumption ==
    /\ Instants \subseteq Nat /\ {0, SoftFailTime} \subseteq Instants
    /\ \E t \in Instants : t \in 5..14
ASSUME BoundsAssumption == MaxTurns \in Nat /\ LogCapacity \in Nat

VARIABLES
    clock,        \* the minute, the clock's tick_index * dt
    turns,        \* turn_index of the dialogue runtime
    completion,   \* scene_completion_states
    surfaced,     \* surfaced_scene_ids
    known,        \* known_fact_ids
    discovered,   \* discovered_evidence_ids
    collected,    \* collected_evidence_ids
    unlockable,   \* whether unlockable_contradiction_edge_ids lists N3-N4
    acknowledged, \* whether known_contradiction_edge_ids lists N3-N4
    actions,      \* satisfied_action_flags
    passes,       \* the turns in the dialogue log whose summary passed
    trust,        \* trust of the two NPCs that guard a gate
    stress,       \* stress of every NPC
    objects,      \* bench, door, printer, medallion examined, terminal access
    medallion,    \* at its drop, gone from the building, or recovered
    escalated,    \* outcome:public_escalation
    softFailed,   \* outcome:soft_fail_latched and its companions
    bestAwarded   \* outcome:best_outcome_awarded and its companions

dialogue == <<turns, completion, surfaced, passes>>
progress == <<known, discovered, collected, unlockable, acknowledged, actions>>
affect == <<trust, stress>>
outcome == <<medallion, escalated, softFailed, bestAwarded>>
vars == <<clock, dialogue, progress, affect, objects, outcome>>

Gatekeepers == {"elodie", "marc"}
Completions == {"locked", "available", "in_progress", "completed"}
ActionFlags == {"polite_gate_usage", "state_contradiction_N3_N4",
                "french_summary_x2", "accuse_culprit", "wrong_accusation",
                "recover_medallion"}

(* Mutated form: the lower bound is forgotten.                             *)
ClampAbove(x) == IF x > 100 THEN 100 ELSE x

Clamp(x) == IF x < 0 THEN 0 ELSE IF x > 100 THEN 100 ELSE x
ContradictionKnown == {"N3", "N4"} \subseteq known

-------------------------------------------------------------------------------
(* Outcomes: what evaluate_mbam_case_outcome reads off a state.            *)

Recovered == medallion = "recovered"

RecoverySuccess ==
    "N8" \in known /\ "E3" \in discovered
        /\ (Recovered \/ "recover_medallion" \in actions)
AccusationSuccess ==
    /\ {"N3", "N4", "N5"} \subseteq known /\ "E2" \in discovered
    /\ {"state_contradiction_N3_N4", "accuse_culprit"} \subseteq actions

SoftFail ==
    "wrong_accusation" \in actions \/ (clock >= SoftFailTime /\ ~Recovered)
PublicEscalation == escalated \/ "wrong_accusation" \in actions
BestOutcome ==
    /\ {"N3", "N4", "N8"} \subseteq known /\ {"E2", "E3"} \subseteq discovered
    /\ {"state_contradiction_N3_N4", "accuse_culprit", "french_summary_x2",
        "polite_gate_usage"} \subseteq actions
    /\ Recovered /\ ~PublicEscalation
    /\ stress["elodie"] <= 80 /\ stress["marc"] <= 80
PrimaryOutcome ==
    IF BestOutcome THEN "best_outcome"
    ELSE IF SoftFail THEN "soft_fail"
    ELSE IF RecoverySuccess THEN "recovery_success"
    ELSE IF AccusationSuccess THEN "accusation_success" ELSE "in_progress"
Terminal == PrimaryOutcome # "in_progress"

(* Mutated form: a soft fail takes the medallion from the player.          *)
BranchTakesMedallion(m) ==
    /\ medallion' = IF "wrong_accusation" \in actions' \/ clock' >= SoftFailTime
                    THEN "left_building" ELSE m
    /\ softFailed' = (softFailed \/ SoftFail')
    /\ bestAwarded' = (bestAwarded \/ BestOutcome')

(* Mutated form: the branches are latched from the state before the call.  *)
BranchLatchesLate(m) ==
    /\ medallion' = IF m # "recovered"
                         /\ ("wrong_accusation" \in actions' \/ clock' >= SoftFailTime)
                    THEN "left_building" ELSE m
    /\ softFailed' = (softFailed \/ SoftFail)
    /\ bestAwarded' = (bestAwarded \/ BestOutcome)

(* The end of every call: a soft fail sends the medallion, which the call  *)
(* left at m, out of the building, and both branches latch.                *)
BranchTransitions(m) ==
    /\ medallion' = IF m # "recovered"
                         /\ ("wrong_accusation" \in actions' \/ clock' >= SoftFailTime)
                    THEN "left_building" ELSE m
    /\ softFailed' = (softFailed \/ SoftFail')
    /\ bestAwarded' = (bestAwarded \/ BestOutcome')

Init ==
    /\ clock = 0 /\ turns = 0 /\ passes = {}
    /\ completion = InitialCompletion
    /\ surfaced = {s \in Scenes : InitialCompletion[s] = "available"}
    /\ known = {"N1"} /\ discovered = {} /\ collected = {} /\ actions = {}
    /\ unlockable = FALSE /\ acknowledged = FALSE
    /\ trust = [n \in Gatekeepers |-> InitialTrust[n]] /\ stress = InitialStress
    /\ objects = [bench |-> TRUE, locked |-> TRUE, receipt |-> TRUE,
                  examined |-> FALSE, access |-> FALSE]
    /\ medallion = "at_drop"
    /\ escalated = FALSE /\ softFailed = FALSE /\ bestAwarded = FALSE

-------------------------------------------------------------------------------
(* Investigation.                                                          *)

Archived == clock >= ArchiveTime
SceneOpened(s) == completion[s] \in {"available", "in_progress", "completed"}

(* Mutated form: what SimRunner derives forgets Marc's trust.              *)
DerivesTrust(t) ==
    \/ t = "scene:S2" /\ SceneOpened("S2")
    \/ t = "scene:S4" /\ SceneOpened("S4")
    \/ t = "trust:marc>=gate"
    \/ t = "access:terminal_granted" /\ objects.access
    \/ t = "inventory:E2_CAFE_RECEIPT" /\ "E2" \in discovered

(* The prerequisites SimRunner derives from the dialogue, the NPCs, what   *)
(* was found and an access granted before.                                 *)
Derives(t) ==
    \/ t = "scene:S2" /\ SceneOpened("S2")
    \/ t = "scene:S4" /\ SceneOpened("S4")
    \/ t = "trust:marc>=gate" /\ trust["marc"] >= TrustGate["S2"]
    \/ t = "access:terminal_granted" /\ objects.access
    \/ t = "inventory:E2_CAFE_RECEIPT" /\ "E2" \in discovered

(* A command is admitted when each of its prerequisites is derived or      *)
(* granted, taken on the caller's word; the medallion must be there.       *)
Admitted(a, granted) ==
    /\ \A t \in Prerequisites[a] : t \in granted \/ Derives(t)
    /\ a = "O2.examine" => Recovered

(* The object still has something to give.  The code of attempt_code is    *)
(* the right one: a wrong one is an idle command.                          *)
Gives(a, granted) ==
    CASE a = "O2.examine" -> ~objects.examined
      [] a = "O4.inspect" -> objects.bench
      [] a \in {"O6.request_access", "O6.view_logs"} ->
            ~Archived \/ "override:terminal_archive" \in granted
      [] a = "O8.attempt_code" -> objects.locked
      [] a = "O9.ask_for_receipt" -> objects.receipt
      [] OTHER -> TRUE

(* A refused command and an idle one reveal nothing; an idle one, which    *)
(* finds nothing new to do, is an answer as well as one that succeeds.     *)
Succeeds(a, granted) == Admitted(a, granted) /\ Gives(a, granted)
Idle(a, granted) == Admitted(a, granted) /\ ~Gives(a, granted)

(* Mutated forms: whatever was tried is an answer, or only what succeeds.  *)
Tried(a, granted) == TRUE
Finds(a, granted) == Succeeds(a, granted)

Answered(a, granted) == Succeeds(a, granted) \/ Idle(a, granted)

(* submit_investigation_command.  Every command, refused ones too, has the *)
(* contradictions it may unlock computed again from the known facts.       *)
Investigate(a, granted) ==
    LET found == IF Succeeds(a, granted) THEN EvidenceShown[a] ELSE {}
        shown == IF Succeeds(a, granted) THEN FactsShown[a] ELSE {}
    IN  /\ known' = known \cup shown \cup {FactOf[e] : e \in found}
        /\ discovered' = discovered \cup found
        /\ collected' = IF a \in AutoCollects THEN collected \cup found ELSE collected
        /\ unlockable' = ContradictionKnown'
        /\ acknowledged' = (acknowledged /\ unlockable')
        /\ objects' =
              [bench |-> objects.bench /\ a # "O4.inspect",
               locked |-> objects.locked /\ a # "O8.attempt_code",
               receipt |-> objects.receipt
                              /\ ~(a = "O9.ask_for_receipt" /\ Succeeds(a, granted)),
               examined |-> objects.examined
                              \/ (a = "O2.examine" /\ Succeeds(a, granted)),
               access |-> objects.access
                              \/ (a = "O6.request_access" /\ Succeeds(a, granted))]
        /\ UNCHANGED <<clock, dialogue, actions, affect, escalated>>
        /\ BranchTransitions(medallion)

(* submit_contradiction_edge for the one contradicting edge of the graph.  *)
SubmitContradictionEdge ==
    /\ ContradictionKnown /\ ~acknowledged
    /\ acknowledged' = TRUE
    /\ actions' = actions \cup {"state_contradiction_N3_N4"}
    /\ UNCHANGED <<clock, dialogue, known, discovered, collected, unlockable,
                   affect, objects, escalated>>
    /\ BranchTransitions(medallion)

-------------------------------------------------------------------------------
(* Dialogue.  A turn is judged by the checks below in this order, and the  *)
(* first that fails decides it.                                            *)

GateOpen(s) ==
    /\ RequiredFacts[s] \subseteq known /\ RequiredItems[s] \subseteq collected
    /\ PrimaryNpc[s] \in Gatekeepers => trust[PrimaryNpc[s]] >= TrustGate[s]
    /\ InTimeWindow(s, clock)

(* enter_dialogue_scene, which every turn calls first: it never asks       *)
(* whether the scene is locked, only whether its gate is open.             *)
Enters(r) ==
    r.npc = PrimaryNpc[r.scene] /\ completion[r.scene] # "completed" /\ GateOpen(r.scene)

LeavesGaps(r) ==
    ~r.slots /\ (r.scene # "S1" \/ r.intent \in {"present_evidence", "accuse"})
SummaryHolds(r) ==
    LET accepted == r.facts \cap known \cap AllowedFacts[r.scene]
    IN  /\ Cardinality(accepted) >= SummaryMinimum[r.scene]
        /\ SummaryKeys[r.scene] \subseteq accepted

(* Mutated form: facts may be presented on trust.                          *)
PresentableUnknown(r) == r.evidence \subseteq discovered

(* Only what the player knows and has found can be laid on the table.      *)
Presentable(r) == r.facts \subseteq known /\ r.evidence \subseteq discovered

(* Every scene ends in a summary, so accusing and leaving are sent back to *)
(* it, and nothing said in a scene can pause it.                           *)
Unsupported(r) ==
    \/ r.intent = "present_evidence" /\ r.evidence = {}
    \/ r.intent = "accuse"
    \/ r.intent = "summarize_understanding" /\ ~SummaryHolds(r)
Unready(r) ==
    \/ r.intent = "challenge_contradiction" /\ Cardinality(r.facts) < 2
    \/ r.intent = "goodbye"

Verdict(r) ==
    IF ~Enters(r) THEN "not_entered"
    ELSE IF stress[r.npc] > StressLimit[r.scene] THEN "refused"
    ELSE IF r.intent \notin AllowedIntents[r.scene] THEN "invalid_intent"
    ELSE IF r.tone # "proper" THEN "rude"
    ELSE IF LeavesGaps(r) THEN "unready"
    ELSE IF ~Presentable(r) THEN "refused"
    ELSE IF Unsupported(r) THEN "unsupported"
    ELSE IF Unready(r) THEN "unready"
    ELSE "accepted"

(* _intent_affect.                                                         *)
TrustDelta(r) ==
    CASE Verdict(r) = "refused" -> -3
      [] Verdict(r) = "rude" -> -2
      [] Verdict(r) = "unsupported" -> -1
      [] Verdict(r) = "accepted" ->
            CASE r.intent = "reassure" -> 4
              [] r.intent = "summarize_understanding" -> 5
              [] r.intent = "present_evidence" -> 3
              [] r.intent = "challenge_contradiction" -> 1
              [] r.intent \in {"request_access", "request_permission"} -> 2
              [] OTHER -> 0
      [] OTHER -> 0
StressDelta(r) ==
    CASE Verdict(r) \in {"refused", "unsupported"} -> 2
      [] Verdict(r) = "rude" -> 3
      [] Verdict(r) = "unready" -> 1
      [] Verdict(r) = "accepted" ->
            CASE r.intent = "reassure" -> -5
              [] r.intent = "summarize_understanding" -> -3
              [] r.intent = "present_evidence" -> -1
              [] r.intent = "challenge_contradiction" -> 4
              [] OTHER -> 0
      [] OTHER -> 0

Accepted(r) == Verdict(r) = "accepted"
Completes(r) == Accepted(r) /\ r.intent = "summarize_understanding"

Revealed(r) ==
    IF ~Accepted(r) THEN {}
    ELSE (Answer(r.scene, r.intent, r.evidence, known, discovered)
              \cap AllowedFacts[r.scene])
         \cup (IF Completes(r) THEN UnlockedFacts[r.scene] ELSE {})

(* action_flags_from_dialogue_turn: the second passed summary counts only  *)
(* while the first is still in the log.                                    *)
FlagsEarned(r) ==
    {f \in {"polite_gate_usage"} :
        Accepted(r) /\ r.intent \in {"request_access", "request_permission"}}
    \cup {f \in {"state_contradiction_N3_N4"} :
        Accepted(r) /\ r.intent = "challenge_contradiction"
            /\ {"N3", "N4"} \subseteq r.facts}
    \cup {f \in {"french_summary_x2"} : Completes(r) /\ passes # {}}

CompletionAfter(r) ==
    [s \in Scenes |->
        IF s = r.scene
        THEN IF Completes(r) THEN "completed"
             ELSE IF Enters(r) THEN "in_progress" ELSE completion[s]
        ELSE IF Completes(r) /\ s \in UnlockedScenes[r.scene]
                  /\ completion[s] = "locked" THEN "available"
        ELSE completion[s]]

(* submit_dialogue_turn.                                                   *)
DialogueTurn(r) ==
    /\ turns < MaxTurns
    /\ turns' = turns + 1
    /\ completion' = CompletionAfter(r)
    /\ surfaced' = surfaced \cup {s \in {r.scene} : Enters(r)}
                       \cup (IF Completes(r) THEN UnlockedScenes[r.scene] ELSE {})
    /\ passes' = {t \in passes \cup {u \in {turns'} : Completes(r)} :
                     t > turns' - LogCapacity}
    /\ known' = known \cup Revealed(r)
    /\ actions' = actions \cup FlagsEarned(r)
    /\ trust' = [n \in Gatekeepers |->
                   IF n = r.npc THEN Clamp(trust[n] + TrustDelta(r)) ELSE trust[n]]
    /\ stress' = [stress EXCEPT ![r.npc] = Clamp(@ + StressDelta(r))]
    /\ UNCHANGED <<clock, discovered, collected, unlockable, acknowledged,
                   objects, escalated>>
    /\ BranchTransitions(medallion)

-------------------------------------------------------------------------------
(* Completion attempts.                                                    *)

(* Mutated form: her trust is enough, whether or not the scene surfaced.   *)
ConfrontationTrusted == trust["elodie"] >= TrustGate["S5"]

ConfrontationReady ==
    /\ "S5" \in surfaced \/ SceneOpened("S5")
    /\ trust["elodie"] >= TrustGate["S5"]

(* attempt_case_recovery with the facts and the evidence it asks for.      *)
AttemptRecovery(quiet) ==
    /\ ConfrontationReady /\ "N8" \in known /\ "E3" \in discovered
    /\ actions' = IF Recovered THEN actions ELSE actions \cup {"recover_medallion"}
    /\ escalated' = (escalated \/ ~quiet)
    /\ UNCHANGED <<clock, dialogue, known, discovered, collected, unlockable,
                   acknowledged, affect, objects>>
    /\ BranchTransitions("recovered")

(* attempt_case_accusation of the culprit, ingredients in hand, ...        *)
AccuseCulprit(public) ==
    /\ ConfrontationReady
    /\ {"N3", "N4", "N5"} \subseteq known /\ "E2" \in discovered
    /\ "state_contradiction_N3_N4" \in actions
    /\ actions' = actions \cup {"accuse_culprit"}
    /\ escalated' = (escalated \/ public)
    /\ UNCHANGED <<clock, dialogue, known, discovered, collected, unlockable,
                   acknowledged, affect, objects>>
    /\ BranchTransitions(medallion)

(* ... and of anybody else, which needs nothing but the confrontation.     *)
AccuseInnocent(suspect, public) ==
    /\ ConfrontationReady /\ suspect # Culprit
    /\ actions' = actions \cup {"wrong_accusation"}
    /\ escalated' = (escalated \/ public)
    /\ UNCHANGED <<clock, dialogue, known, discovered, collected, unlockable,
                   acknowledged, affect, objects>>
    /\ BranchTransitions(medallion)

-------------------------------------------------------------------------------
(* Time: the ticks of SimRunner.run up to the next instant.  Each beat     *)
(* that falls due is applied once.                                         *)

NextInstant(t) ==
    t \in Instants /\ t > clock /\ \A u \in Instants : u > clock => u >= t
Due(n, t) == {b \in Beats : BeatNpc[b] = n /\ clock < BeatTime[b] /\ BeatTime[b] <= t}

AdvanceTo(t) ==
    /\ NextInstant(t)
    /\ clock' = t
    /\ trust' = [n \in Gatekeepers |->
          IF Due(n, t) = {} THEN trust[n]
          ELSE Clamp(trust[n] + BeatTrust[CHOOSE b \in Due(n, t) : TRUE])]
    /\ stress' = [n \in Npcs |->
          IF Due(n, t) = {} THEN stress[n]
          ELSE Clamp(stress[n] + BeatStress[CHOOSE b \in Due(n, t) : TRUE])]
    /\ UNCHANGED <<dialogue, progress, objects, escalated>>
    /\ BranchTransitions(medallion)

Next ==
    \/ \E a \in Commands, granted \in Grants : Investigate(a, granted)
    \/ SubmitContradictionEdge
    \/ \E r \in Requests : DialogueTurn(r)
    \/ \E quiet \in BOOLEAN : AttemptRecovery(quiet)
    \/ \E public \in BOOLEAN : AccuseCulprit(public)
    \/ \E suspect \in Suspects, public \in BOOLEAN : AccuseInnocent(suspect, public)
    \/ \E t \in Instants : AdvanceTo(t)

Spec == Init /\ [][Next]_vars
-------------------------------------------------------------------------------
(* Properties.                                                             *)

TypeOK ==
    /\ clock \in Nat /\ turns \in Nat /\ passes \subseteq Nat
    /\ completion \in [Scenes -> Completions] /\ surfaced \subseteq Scenes
    /\ known \subseteq Facts /\ discovered \subseteq Evidence
    /\ collected \subseteq Evidence /\ actions \subseteq ActionFlags
    /\ unlockable \in BOOLEAN /\ acknowledged \in BOOLEAN
    /\ trust \in [Gatekeepers -> 0..100] /\ stress \in [Npcs -> 0..100]
    /\ objects \in [bench : BOOLEAN, locked : BOOLEAN, receipt : BOOLEAN,
                     examined : BOOLEAN, access : BOOLEAN]
    /\ medallion \in {"at_drop", "left_building", "recovered"}
    /\ escalated \in BOOLEAN /\ softFailed \in BOOLEAN /\ bestAwarded \in BOOLEAN

(* Somebody may vouch for a prerequisite.                                  *)
VouchedFor(t) == \E granted \in Grants : t \in granted

(* The hidden drop location is never known to a player who has not worked  *)
(* out both times of the contradiction and found the receipt, whichever of *)
(* the scenes, objects and summaries the facts came from.  The receipt is  *)
(* in hand too, unless somebody may have vouched for it.                   *)
DropLocationEarned ==
    "N8" \in known =>
        /\ {"N3", "N4"} \subseteq known /\ "E2" \in discovered
        /\ "E2" \in collected \/ VouchedFor("inventory:E2_CAFE_RECEIPT")

(* Nothing says the contradiction can be, or has been, stated before both  *)
(* its facts are known: not the list shown to the client, not the recorded *)
(* edge, not the action flag the accusation is judged by.                  *)
ContradictionEarned ==
    unlockable \/ acknowledged \/ "state_contradiction_N3_N4" \in actions
        => {"N3", "N4"} \subseteq known

(* The medallion is only ever recovered by a player who reached the        *)
(* confrontation with the whole chain of clues behind it.                  *)
RecoveryEarned ==
    Recovered => /\ {"N3", "N4", "N8"} \subseteq known
                 /\ {"E2", "E3"} \subseteq discovered
                 /\ "S5" \in surfaced /\ "recover_medallion" \in actions

(* The scenes the client is told to show are the ones that are not locked, *)
(* although a scene may be entered without ever having been unlocked.      *)
SurfacedIsUnlocked == surfaced = {s \in Scenes : completion[s] # "locked"}

(* The latched branches agree with the outcome they were latched from: a   *)
(* soft fail and a best outcome are latched by the call that brings them   *)
(* about, and not without their cause.                                     *)
LatchesFollowOutcome ==
    /\ SoftFail => softFailed
    /\ softFailed => "wrong_accusation" \in actions \/ clock >= SoftFailTime
    /\ BestOutcome => bestAwarded
    /\ bestAwarded => Recovered /\ "accuse_culprit" \in actions
    /\ medallion = "left_building" => softFailed

(* The case is closed at T+20 at the latest: in every state from then on   *)
(* the evaluation finds an outcome.                                        *)
CaseClosesByDeadline == clock >= SoftFailTime => Terminal

(* On the shipped seeds Marc's gate is never met: his trust starts below   *)
(* it and no turn that could raise it is ever accepted, so the security    *)
(* scene is never entered, and the terminal has granted access only to a   *)
(* caller who vouched for Marc's trust himself.                            *)
SecuritySceneStaysShut ==
    /\ completion["S2"] = "available" /\ trust["marc"] < TrustGate["S2"]
    /\ objects.access => VouchedFor("trust:marc>=gate")

KnowledgeIsKept ==
    [][/\ known \subseteq known' /\ discovered \subseteq discovered'
       /\ collected \subseteq collected' /\ actions \subseteq actions'
       /\ \A s \in Scenes : completion[s] = "completed" => completion'[s] = "completed"
       /\ (acknowledged => acknowledged') /\ (Recovered => Recovered')]_vars
CaseStaysClosed == [][Terminal => Terminal']_vars

(* No call takes back what the player has learned, collected, done or      *)
(* finished, nor loses the medallion again; and a case that is closed is   *)
(* not opened again, although the outcome it is closed with may still      *)
(* change.                                                                 *)
NothingIsTakenBack == KnowledgeIsKept /\ CaseStaysClosed

-------------------------------------------------------------------------------
(* What the documents say and the code does not do.                        *)

Earns(n) == \E r \in Requests : r.npc = n /\ TrustDelta(r) > 0

(* "Every shipped seed must remain solvable": while the case is open, the  *)
(* trust the confrontation asks of Elodie is there or can still be earned. *)
ConfrontationInReach ==
    ~Terminal => trust["elodie"] >= TrustGate["S5"] \/ Earns("elodie")
=============================================================================

---------------------------- MODULE CaseEndProofs ----------------------------
(***************************************************************************)
(* How the case ends, for every seed, difficulty, set of turns and length  *)
(* of the log.                                                             *)
(*                                                                         *)
(* The recap agrees with the engine: the passed summaries the projection   *)
(* counts in the log have been counted by the engine when the second of    *)
(* them was passed; the rest follows from the latches.                     *)
(*                                                                         *)
(* Through the live host the case only ends by its deadline: a turn that   *)
(* presents nothing passes no summary and makes no challenge, so that the  *)
(* drop location, which the confrontation asks for, is never learned.      *)
(***************************************************************************)
EXTENDS CaseLive, CaseEngineProofs, FiniteSetTheorems

(* Two passed summaries in the log have earned their flag.                 *)
SummariesCounted ==
    /\ IsFiniteSet(passes)
    /\ Cardinality(passes) >= 2 => "french_summary_x2" \in actions

LEMMA FewerAreNoMore ==
    ASSUME NEW S, IsFiniteSet(S), NEW T \in SUBSET S
    PROVE  IsFiniteSet(T) /\ (Cardinality(T) >= 2 => Cardinality(S) >= 2)
  <1>1. IsFiniteSet(T) /\ Cardinality(T) <= Cardinality(S)
    BY FS_Subset
  <1>2. Cardinality(T) \in Nat /\ Cardinality(S) \in Nat
    BY <1>1, FS_CardinalityType
  <1> QED BY <1>1, <1>2

LEMMA OneIsNotTwo ==
    ASSUME NEW x, NEW T \in SUBSET {x}
    PROVE  IsFiniteSet(T) /\ ~(Cardinality(T) >= 2)
  <1>1. IsFiniteSet({x}) /\ Cardinality({x}) = 1
    BY FS_Singleton
  <1> QED BY <1>1, FewerAreNoMore

LEMMA CountedStep == SummariesCounted /\ [Next]_vars => SummariesCounted'
  <1> SUFFICES ASSUME SummariesCounted, [Next]_vars PROVE SummariesCounted'
    OBVIOUS
  <1> USE DEF dialogue, progress, affect
  <1>1. ASSUME NEW a \in Commands, NEW granted \in Grants, Investigate(a, granted)
        PROVE  SummariesCounted'
    BY <1>1 DEF Investigate, SummariesCounted
  <1>2. ASSUME SubmitContradictionEdge PROVE SummariesCounted'
    BY <1>2 DEF SubmitContradictionEdge, SummariesCounted
  <1>3. ASSUME NEW r \in Requests, DialogueTurn(r) PROVE SummariesCounted'
    <2>1. actions' = actions \cup FlagsEarned(r)
      BY <1>3 DEF DialogueTurn
    <2>2. passes' \subseteq passes \cup {u \in {turns'} : Completes(r)}
      BY <1>3 DEF DialogueTurn
    <2>3. CASE ~Completes(r)
      <3>1. passes' \subseteq passes BY <2>2, <2>3
      <3> QED BY <3>1, <2>1, FewerAreNoMore DEF SummariesCounted
    <2>4. CASE Completes(r) /\ passes = {}
      <3>1. passes' \subseteq {turns'} BY <2>2, <2>4
      <3> QED BY <3>1, OneIsNotTwo DEF SummariesCounted
    <2>5. CASE Completes(r) /\ passes # {}
      <3>1. "french_summary_x2" \in actions'
        BY <2>1, <2>5 DEF FlagsEarned
      <3>2. IsFiniteSet(passes \cup {turns'})
        BY FS_AddElement DEF SummariesCounted
      <3>3. passes' \subseteq passes \cup {turns'} BY <2>2
      <3> QED BY <3>1, <3>2, <3>3, FS_Subset DEF SummariesCounted
    <2> QED BY <2>3, <2>4, <2>5
  <1>4. ASSUME NEW quiet \in BOOLEAN, AttemptRecovery(quiet) PROVE SummariesCounted'
    BY <1>4 DEF AttemptRecovery, SummariesCounted
  <1>5. ASSUME NEW public \in BOOLEAN, AccuseCulprit(public) PROVE SummariesCounted'
    BY <1>5 DEF AccuseCulprit, SummariesCounted
  <1>6. ASSUME NEW suspect \in Suspects, NEW public \in BOOLEAN,
               AccuseInnocent(suspect, public)
        PROVE  SummariesCounted'
    BY <1>6 DEF AccuseInnocent, SummariesCounted
  <1>7. ASSUME NEW t \in Instants, AdvanceTo(t) PROVE SummariesCounted'
    BY <1>7 DEF AdvanceTo, SummariesCounted
  <1>8. CASE UNCHANGED vars
    BY <1>8 DEF vars, SummariesCounted
  <1> QED
    BY <1>1, <1>2, <1>3, <1>4, <1>5, <1>6, <1>7, <1>8 DEF Next

(* Two passed summaries that are still in the dialogue log have earned the *)
(* action flag, however the turns between them went.                       *)
THEOREM PassedSummariesAreCounted == Spec => []SummariesCounted
  <1>1. Init => SummariesCounted
    <2> SUFFICES ASSUME Init PROVE SummariesCounted
      OBVIOUS
    <2>1. passes = {} BY DEF Init
    <2> QED BY <2>1, FS_EmptySet DEF SummariesCounted
  <1> QED BY <1>1, CountedStep, PTL DEF Spec

LEMMA RecapFollows ==
    ASSUME SummariesCounted, LatchesFollowOutcome PROVE RecapAgrees
  <1>1. Meets(Needs.recovery) <=> RecoverySuccess
    BY DEF Meets, Needs, Tallied, RecoverySuccess
  <1>2. Meets(Needs.accusation) <=> AccusationSuccess
    BY DEF Meets, Needs, Tallied, AccusationSuccess
  <1>3. ToldBest <=> BestOutcome
    BY DEF ToldBest, Meets, Needs, Tallied, QuietRecovery, AtEase, BestOutcome,
           SummariesCounted
  <1>4. ToldBest => QuietRecovery /\ ~SoftFail
    BY DEF ToldBest, QuietRecovery, SoftFail, PublicEscalation
  <1>5. ToldOutcome = PrimaryOutcome
    BY <1>1, <1>2, <1>3 DEF ToldOutcome, PrimaryOutcome
  <1>6. (SoftFail => softFailed) /\ (BestOutcome => bestAwarded)
    BY DEF LatchesFollowOutcome
  <1>7. /\ Path = "recovery" => ToldBest \/ Meets(Needs.recovery)
        /\ Path = "accusation" => ~ToldBest /\ Meets(Needs.accusation)
    BY <1>4 DEF Path
  <1>8. PathNeeds = [facts |-> PathNeeds.facts \cap known,
                     items |-> PathNeeds.items \cap discovered,
                     actions |-> PathNeeds.actions \cap Tallied]
    <2>1. CASE ToldBest
      <3>1. PathNeeds = Needs.best BY <2>1 DEF PathNeeds, Needs
      <3> QED BY <2>1, <3>1 DEF ToldBest, Meets, Needs
    <2>2. CASE ~ToldBest /\ Path = "recovery"
      <3>1. PathNeeds = Needs.recovery BY <2>2 DEF PathNeeds, Needs
      <3> QED BY <2>2, <3>1, <1>7 DEF Meets, Needs
    <2>3. CASE ~ToldBest /\ Path = "accusation"
      <3>1. PathNeeds = Needs.accusation BY <2>3 DEF PathNeeds, Needs
      <3> QED BY <2>3, <3>1, <1>7 DEF Meets, Needs
    <2>4. CASE ~ToldBest /\ Path \notin {"recovery", "accusation"}
      <3>1. PathNeeds = Needs.none BY <2>4 DEF PathNeeds, Needs
      <3> QED BY <3>1 DEF Needs
    <2> QED BY <2>1, <2>2, <2>3, <2>4
  <1>9. Recap.outcome = PrimaryOutcome /\ (Recap.awarded => bestAwarded)
    BY <1>3, <1>5, <1>6 DEF Recap
  <1>10. Recap.available <=> Recap.path # "in_progress"
    BY DEF Recap, ToldOutcome, Path
  <1>11. /\ Recap.outcome = "soft_fail" <=> Recap.path = "soft_fail"
         /\ Recap.outcome = "best_outcome" => Recap.path = "recovery"
         /\ Recap.outcome = "accusation_success" => Recap.path = "accusation"
    BY <1>4 DEF Recap, ToldOutcome, Path
  <1>12. Recap.path = "accusation" =>
           Recap.contradiction /\ {"N3", "N4", "N5"} \subseteq known
    BY <1>7 DEF Recap, Meets, Needs
  <1>13. Recap.path = "recovery" => Recap.quiet \/ "accusation" \notin Recap.components
    BY <1>4 DEF Recap, Path
  <1>14. PathNeeds = [facts |-> Recap.facts, items |-> Recap.items,
                      actions |-> Recap.actions]
    BY <1>8 DEF Recap
  <1>15. Recap.failed => Recap.failLatched /\ Recap.leftBuilding
    BY <1>6 DEF Recap
  <1> QED
    BY <1>9, <1>10, <1>11, <1>12, <1>13, <1>14, <1>15 DEF RecapAgrees

(* The outcome and the path the player is told at the end are those the    *)
(* engine latched, and the recap's facts, clues and deeds are complete.    *)
THEOREM RecapIsTrue == Spec => []RecapAgrees
  BY PassedSummariesAreCounted, LatchesAreTrue, RecapFollows, PTL
-------------------------------------------------------------------------------
(* Live play.                                                              *)

(* Where a plan can stand: at its first step, with nothing done yet, or at *)
(* the receipt in hand.  The terminal refuses who vouches for nothing, so  *)
(* that the badge log's plan never comes to its second step.               *)
PlanStands ==
    /\ plan.game \in DOMAIN ActionPlan /\ StepsOf(plan.game) \subseteq Commands
    /\ \/ plan.rest = ActionPlan[plan.game] /\ plan.held = Held
       \/ /\ plan.game = "MG3" /\ plan.rest = <<"O9.read_receipt">>
          /\ "E2" \in discovered
SettleInv ==
    /\ plan # Idling => PlanStands
    /\ "MG2" \notin won /\ completion["S4"] # "locked"
    /\ ~objects.receipt => "E2" \in discovered

(* The player may say less: whoever may submit a turn may submit it bare.  *)
RequestsAreClosed == \A r \in Requests : Submitted(r) \in Requests

(* Where any turn can be submitted this is so.                             *)
LEMMA EveryTurnIsClosed == Requests = RequestSpace => RequestsAreClosed
  BY DEF RequestsAreClosed, RequestSpace, Submitted, Tones

LEMMA PlanTables ==
    /\ DOMAIN ActionPlan = {"MG1", "MG2", "MG3", "MG4"}
    /\ \A g \in DOMAIN ActionPlan :
          /\ ActionPlan[g] # <<>> /\ Head(ActionPlan[g]) \in StepsOf(g)
          /\ [game |-> g, rest |-> ActionPlan[g], held |-> Held] # Idling
    /\ Head(ActionPlan["MG1"]) = "O3.read" /\ Tail(ActionPlan["MG1"]) = <<>>
    /\ Head(ActionPlan["MG2"]) = "O6.request_access"
    /\ Head(ActionPlan["MG3"]) = "O9.ask_for_receipt"
    /\ Tail(ActionPlan["MG3"]) = <<"O9.read_receipt">>
    /\ "O9.read_receipt" \in StepsOf("MG3")
    /\ Tail(ActionPlan["MG2"]) = <<"O6.view_logs">> /\ "O6.view_logs" \in StepsOf("MG2")
    /\ Head(<<"O6.view_logs">>) = "O6.view_logs" /\ Tail(<<"O6.view_logs">>) = <<>>
    /\ Head(<<"O9.read_receipt">>) = "O9.read_receipt" /\ Tail(<<"O9.read_receipt">>) = <<>>
    /\ Head(ActionPlan["MG4"]) = "O4.inspect" /\ Tail(ActionPlan["MG4"]) = <<>>
  BY DEF ActionPlan, StepsOf, Idling

(* What is left of a plan are commands the player may try.                 *)
PlanFits ==
    plan # Idling =>
        /\ plan.game \in DOMAIN ActionPlan /\ StepsOf(plan.game) \subseteq Commands
        /\ \/ plan.rest = ActionPlan[plan.game]
           \/ plan.game \in {"MG2", "MG3"} /\ plan.rest = Tail(ActionPlan[plan.game])

LEMMA NextPlanStep ==
    ASSUME PlanFits, plan # Idling PROVE Head(plan.rest) \in Commands
  <1>1. CASE plan.rest = ActionPlan[plan.game]
    BY <1>1, PlanTables DEF PlanFits
  <1>2. CASE plan.game \in {"MG2", "MG3"} /\ plan.rest = Tail(ActionPlan[plan.game])
    BY <1>2, PlanTables DEF PlanFits
  <1> QED BY <1>1, <1>2 DEF PlanFits

LEMMA FitsStep == PlanFits /\ [LiveNext]_liveVars => PlanFits'
  <1> SUFFICES ASSUME PlanFits, [LiveNext]_liveVars PROVE PlanFits'
    OBVIOUS
  <1>1. ASSUME Command PROVE PlanFits'
    BY <1>1 DEF Command, PlanFits
  <1>2. ASSUME NEW g \in DOMAIN ActionPlan, SubmitMinigame(g) PROVE PlanFits'
    BY <1>2 DEF SubmitMinigame, PlanFits
  <1>3. ASSUME PlayOn, plan' # Idling PROVE PlanFits'
    <2>1. /\ plan'.game = plan.game /\ plan'.rest = Tail(plan.rest)
          /\ Tail(plan.rest) # <<>>
      BY <1>3 DEF PlayOn
    <2>2. plan.rest = ActionPlan[plan.game] /\ plan.game \in {"MG2", "MG3"}
      BY <1>3, <2>1, PlanTables DEF PlayOn, PlanFits
    <2> QED BY <1>3, <2>1, <2>2 DEF PlayOn, PlanFits
  <1>4. CASE UNCHANGED liveVars
    BY <1>4 DEF liveVars, PlanFits
  <1> QED BY <1>1, <1>2, <1>3, <1>4 DEF LiveNext, PlanFits

LEMMA LiveStepIsStep ==
    ASSUME RequestsAreClosed, PlanFits, [LiveNext]_liveVars PROVE [Next]_vars
  <1>1. ASSUME Command PROVE [Next]_vars
    BY <1>1
       DEF Command, InvestigateObject, SayTurn, StateContradiction, Recover, Accuse, Next,
           RequestsAreClosed
  <1>2. ASSUME NEW g \in DOMAIN ActionPlan, SubmitMinigame(g) PROVE [Next]_vars
    BY <1>2 DEF SubmitMinigame
  <1>3. ASSUME PlayOn PROVE [Next]_vars
    BY <1>3, NextPlanStep, GrantsAssumption DEF PlayOn, Next
  <1>4. CASE UNCHANGED liveVars
    BY <1>4 DEF liveVars
  <1> QED BY <1>1, <1>2, <1>3, <1>4 DEF LiveNext

(* Whoever asks for the terminal without vouching for anything is refused. *)
LEMMA AccessIsRefused ==
    ASSUME TypeOK, SecuritySceneStaysShut PROVE ~Admitted("O6.request_access", {})
  <1>1. trust["marc"] \in Int /\ TrustGate["S2"] \in Int
    BY SceneTables DEF TypeOK, Gatekeepers, Scenes
  <1>2. ~Derives("trust:marc>=gate")
    BY <1>1 DEF Derives, SecuritySceneStaysShut
  <1>3. "trust:marc>=gate" \in Prerequisites["O6.request_access"]
    BY DEF Prerequisites, Affordances
  <1> QED BY <1>2, <1>3 DEF Admitted

(* Of the steps of a plan only the request for the terminal is refused.    *)
LEMMA OnlyTheTerminalRefuses ==
    ASSUME TypeOK, SecuritySceneStaysShut, SettleInv, plan # Idling
    PROVE  Answered(Head(plan.rest), {}) <=> plan.game # "MG2"
  <1>1. PlanStands BY DEF SettleInv
  <1>2. SceneOpened("S4")
    BY DEF SettleInv, SceneOpened, TypeOK, Completions, Scenes
  <1>3. objects.receipt \in BOOLEAN /\ objects.bench \in BOOLEAN BY DEF TypeOK
  <1>a. \A a : Answered(a, {}) <=> Admitted(a, {})
    BY DEF Answered, Succeeds, Idle
  <1>4. /\ Answered("O3.read", {}) /\ Answered("O4.inspect", {})
        /\ Answered("O9.ask_for_receipt", {})
    BY <1>2, <1>a DEF Admitted, Prerequisites, Derives, Affordances
  <1>5. "E2" \in discovered => Answered("O9.read_receipt", {})
    BY <1>a DEF Admitted, Prerequisites, Derives, Affordances
  <1>7. ~Answered("O6.request_access", {})
    BY <1>a, AccessIsRefused DEF Succeeds, Admitted
  <1> QED BY <1>1, <1>4, <1>5, <1>7, PlanTables DEF PlanStands

LiveInv ==
    Live => /\ "N8" \notin known /\ actions \subseteq {"polite_gate_usage"}
            /\ \A s \in Scenes : completion[s] # "completed"
            /\ completion["S5"] = "locked" /\ "S5" \notin surfaced /\ ~Recovered

(* A turn that presents nothing is accepted neither as a summary nor as a  *)
(* challenge, whatever the player knows.                                   *)
LEMMA SubmittedIsBare ==
    ASSUME NEW r \in Requests
    PROVE  /\ Submitted(r).scene \in Scenes /\ Submitted(r).intent \in Intents
           /\ Submitted(r).facts = {}
           /\ ~Completes(Submitted(r))
           /\ Accepted(Submitted(r)) => Submitted(r).intent # "challenge_contradiction"
  <1> DEFINE q == Submitted(r)
  <1>1. q.scene \in Scenes /\ q.intent \in Intents /\ q.facts = {}
    BY RequestsAssumption DEF RequestSpace, Submitted
  <1>4. ~SummaryHolds(q)
    <2> DEFINE taken == q.facts \cap known \cap AllowedFacts[q.scene]
    <2>1. taken = {} BY <1>1
    <2>2. Cardinality(taken) = 0 BY <2>1, FS_EmptySet
    <2> HIDE DEF taken, q
    <2>3. ~(Cardinality(taken) >= SummaryMinimum[q.scene])
      <3>1. SummaryMinimum[q.scene] \in {1, 2} BY <1>1 DEF SummaryMinimum
      <3> QED BY <2>2, <3>1
    <2> QED BY <2>3 DEF SummaryHolds, taken
  <1>5. Cardinality(q.facts) < 2 BY <1>1, FS_EmptySet
  <1>6. q.intent = "summarize_understanding" => Unsupported(q) BY <1>4 DEF Unsupported
  <1>7. q.intent = "challenge_contradiction" => Unready(q) BY <1>5 DEF Unready
  <1> HIDE DEF q
  <1>8. Accepted(q) => ~Unsupported(q) /\ ~Unready(q) BY DEF Accepted, Verdict
  <1> QED BY <1>1, <1>6, <1>7, <1>8 DEF Completes, q

(* Only a challenge or the fifth scene's summary gives N8 away.            *)
LEMMA OnlyChallengesGiveItAway ==
    ASSUME NEW s \in Scenes, NEW intent \in Intents, NEW presented, NEW facts, NEW items,
           "N8" \in Answer(s, intent, presented, facts, items)
    PROVE  intent = "challenge_contradiction"
  BY DEF Answer, Scenes

LEMMA LiveTurn ==
    ASSUME LiveInv, Live, UNCHANGED host, NEW r \in Requests, DialogueTurn(Submitted(r))
    PROVE  LiveInv'
  <1> DEFINE q == Submitted(r)
  <1> USE DEF dialogue, progress, affect
  <1>1. /\ q.scene \in Scenes /\ q.intent \in Intents /\ q.facts = {} /\ ~Completes(q)
        /\ Accepted(q) => q.intent # "challenge_contradiction"
    BY SubmittedIsBare
  <1> HIDE DEF q
  <1>2. /\ known' = known \cup Revealed(q) /\ actions' = actions \cup FlagsEarned(q)
        /\ completion' = CompletionAfter(q)
        /\ surfaced' = surfaced \cup {s \in {q.scene} : Enters(q)}
        /\ BranchTransitions(medallion)
    BY <1>1 DEF DialogueTurn, q
  <1>3. "N8" \notin Revealed(q)
    BY <1>1, OnlyChallengesGiveItAway DEF Revealed
  <1>4. FlagsEarned(q) \subseteq {"polite_gate_usage"}
    BY <1>1 DEF FlagsEarned
  <1>5. q.scene = "S5" => ~Enters(q)
    BY SummariesConfirmIt DEF Enters, GateOpen, LiveInv
  <1>6. \A s \in Scenes :
          /\ completion'[s] # "completed" /\ (s = "S5" => completion'[s] = "locked")
    BY <1>1, <1>2, <1>5 DEF CompletionAfter, LiveInv
  <1>7. ~Recovered' BY <1>2 DEF BranchTransitions, Recovered, LiveInv
  <1>8. "S5" \in Scenes BY DEF Scenes
  <1> QED BY <1>2, <1>3, <1>4, <1>5, <1>6, <1>7, <1>8 DEF LiveInv

LEMMA LiveLook ==
    ASSUME LiveInv, Live, UNCHANGED host, NEW a \in Affordances, NEW granted,
           Investigate(a, granted)
    PROVE  LiveInv'
  <1> USE DEF dialogue, progress, affect
  <1>1. "N8" \notin known'
    BY NoObjectShowsIt, ObjectTables, EvidenceTable DEF Investigate, LiveInv
  <1>2. UNCHANGED <<actions, completion, surfaced>> /\ ~Recovered'
    BY DEF Investigate, BranchTransitions, Recovered, LiveInv
  <1> QED BY <1>1, <1>2 DEF LiveInv

LEMMA LiveStep == PlanFits /\ LiveInv /\ [LiveNext]_liveVars => LiveInv'
  <1> SUFFICES ASSUME PlanFits, LiveInv, [LiveNext]_liveVars, Live' PROVE LiveInv'
    BY DEF LiveInv
  <1> USE DEF dialogue, progress, affect
  <1>1. UNCHANGED host /\ Live
    BY DEF LiveNext, Command, SubmitMinigame, PlayOn, liveVars, Live
  <1>2. ~ConfrontationReady
    BY <1>1 DEF ConfrontationReady, SceneOpened, LiveInv
  <1>3. ASSUME Command PROVE LiveInv'
    <2>1. ASSUME NEW a \in Commands, NEW granted, Investigate(a, granted)
          PROVE  LiveInv'
      BY <1>1, <2>1, CommandsAssumption, LiveLook
    <2>2. ASSUME NEW r \in Requests, DialogueTurn(Submitted(r)) PROVE LiveInv'
      BY <1>1, <2>2, LiveTurn
    <2>3. ASSUME NEW t \in Instants, AdvanceTo(t) PROVE LiveInv'
      BY <1>1, <2>3 DEF AdvanceTo, BranchTransitions, Recovered, LiveInv
    <2> QED
      BY <1>1, <1>2, <1>3, <2>1, <2>2, <2>3
         DEF Command, InvestigateObject, SayTurn, StateContradiction, Recover, Accuse,
             AttemptRecovery, AccuseCulprit, AccuseInnocent
  <1>4. ASSUME NEW g \in DOMAIN ActionPlan, SubmitMinigame(g) PROVE LiveInv'
    BY <1>1, <1>4 DEF SubmitMinigame, vars, outcome, Recovered, LiveInv
  <1>5. ASSUME PlayOn PROVE LiveInv'
    BY <1>1, <1>5, NextPlanStep, CommandsAssumption, LiveLook DEF PlayOn
  <1>6. CASE UNCHANGED liveVars
    BY <1>1, <1>6 DEF liveVars, vars, outcome, Recovered, LiveInv
  <1> QED BY <1>3, <1>4, <1>5, <1>6 DEF LiveNext

LEMMA LiveInitInv == LiveInit => LiveInv /\ PlanFits /\ SettleInv
  <1> SUFFICES ASSUME LiveInit PROVE LiveInv /\ PlanFits /\ SettleInv
    OBVIOUS
  <1>1. /\ InitialCompletion["S5"] = "locked" /\ InitialCompletion["S4"] = "available"
        /\ \A s \in Scenes : InitialCompletion[s] # "completed"
    BY DEF InitialCompletion, RequiredFacts, RequiredItems, Scenes
  <1>2. LiveInv
    BY <1>1 DEF LiveInit, Init, LiveInv, Recovered
  <1> QED BY <1>1, <1>2 DEF LiveInit, Init, PlanFits, SettleInv

LEMMA LiveEnds == LiveInv /\ TerminalStaysShut => OnlyTimeEndsIt
  <1> SUFFICES ASSUME LiveInv, TerminalStaysShut, Live PROVE OnlyTimeEndsIt
    BY DEF OnlyTimeEndsIt
  <1>1. ~ConfrontationReady BY DEF LiveInv, ConfrontationReady, SceneOpened
  <1>2. ~BestOutcome /\ ~RecoverySuccess /\ ~AccusationSuccess
    BY DEF LiveInv, BestOutcome, RecoverySuccess, AccusationSuccess
  <1>3. SoftFail <=> clock >= SoftFailTime BY DEF LiveInv, SoftFail
  <1>4. PrimaryOutcome = IF clock >= SoftFailTime THEN "soft_fail" ELSE "in_progress"
    BY <1>2, <1>3 DEF PrimaryOutcome
  <1> QED BY <1>1, <1>4 DEF LiveInv, OnlyTimeEndsIt

(* What a viewer does through the live host, minigames included, is play   *)
(* of the case: what is proved of the case holds of live play.             *)
THEOREM LivePlaysTheCase == ASSUME RequestsAreClosed PROVE LiveSpec => Spec
  <1>1. LiveInit => Init BY DEF LiveInit
  <1>2. PlanFits /\ [LiveNext]_liveVars => [Next]_vars BY LiveStepIsStep
  <1> QED BY <1>1, <1>2, LiveInitInv, FitsStep, PTL DEF LiveSpec, Spec

-------------------------------------------------------------------------------
(* Minigames.                                                              *)

(* What one investigation command leaves of what the plans rest on.        *)
LEMMA LookKeeps ==
    ASSUME TypeOK, NEW a \in Affordances, NEW granted, Investigate(a, granted)
    PROVE  /\ UNCHANGED completion /\ discovered \subseteq discovered'
           /\ (objects.receipt /\ ~objects'.receipt => "E2" \in discovered')
           /\ ~Succeeds(a, granted) /\ a \notin {"O4.inspect", "O8.attempt_code"}
                => Held' = Held
  <1> USE DEF dialogue, progress, affect
  <1>1. UNCHANGED <<completion, actions>> /\ discovered \subseteq discovered'
    BY DEF Investigate
  <1>2. objects.receipt /\ ~objects'.receipt => "E2" \in discovered'
    <2>1. objects.receipt /\ ~objects'.receipt
            => a = "O9.ask_for_receipt" /\ Succeeds(a, granted)
      BY DEF Investigate
    <2>2. a = "O9.ask_for_receipt" => EvidenceShown[a] = {"E2"}
      BY DEF EvidenceShown, Affordances
    <2> QED BY <2>1, <2>2 DEF Investigate
  <1>3. ASSUME ~Succeeds(a, granted), a \notin {"O4.inspect", "O8.attempt_code"}
        PROVE  Held' = Held
    <2>1. UNCHANGED <<known, discovered, collected>>
      BY <1>3 DEF Investigate
    <2>2. objects' = [bench |-> objects.bench, locked |-> objects.locked,
                      receipt |-> objects.receipt, examined |-> objects.examined,
                      access |-> objects.access]
      BY <1>3 DEF Investigate, TypeOK
    <2>3. objects' = objects BY <2>2 DEF TypeOK
    <2> QED BY <1>1, <2>1, <2>3 DEF Held
  <1> QED BY <1>1, <1>2, <1>3

LEMMA PlayStep ==
    ASSUME TypeOK, SecuritySceneStaysShut, PlanFits, SettleInv, PlayOn
    PROVE  /\ SettleInv'
           /\ ~Answered(Head(plan.rest), {}) => Held' = plan.held /\ plan.game \notin won
  <1> DEFINE a == Head(plan.rest)
  <1>1. plan # Idling /\ Investigate(a, {}) /\ PlanStands /\ a \in Affordances
    BY NextPlanStep, CommandsAssumption DEF PlayOn, SettleInv
  <1>2. /\ UNCHANGED completion /\ discovered \subseteq discovered'
        /\ (objects.receipt /\ ~objects'.receipt => "E2" \in discovered')
        /\ ~Succeeds(a, {}) /\ a \notin {"O4.inspect", "O8.attempt_code"}
             => Held' = Held
    BY <1>1, LookKeeps
  <1>3. Answered(a, {}) <=> plan.game # "MG2" BY <1>1, OnlyTheTerminalRefuses
  <1> HIDE DEF a
  <1>4. "MG2" \notin won' BY <1>3 DEF PlayOn, SettleInv, a
  <1>5. ~objects'.receipt => "E2" \in discovered'
    BY <1>2 DEF SettleInv
  <1>6. ASSUME plan' # Idling PROVE PlanStands'
    <2>1. /\ plan'.game = plan.game /\ plan'.rest = Tail(plan.rest)
          /\ Tail(plan.rest) # <<>>
      BY <1>6 DEF PlayOn, a
    <2>2. plan.game = "MG3" /\ plan.rest = ActionPlan["MG3"]
      <3>1. plan.game # "MG2" BY <1>3, <1>6 DEF PlayOn, a
      <3> QED BY <1>1, <2>1, <3>1, PlanTables DEF PlanStands
    <2>3. "E2" \in discovered'
      <3>1. a = "O9.ask_for_receipt" BY <2>2, PlanTables DEF a
      <3>2. Answered(a, {}) BY <1>3, <2>2
      <3>3. CASE Succeeds(a, {})
        <4>1. EvidenceShown[a] = {"E2"} BY <3>1 DEF EvidenceShown, Affordances
        <4> QED BY <1>1, <3>3, <4>1 DEF Investigate
      <3>4. CASE ~Succeeds(a, {})
        <4>1. ~objects.receipt BY <3>1, <3>2, <3>4 DEF Answered, Idle, Gives
        <4> QED BY <1>2, <4>1 DEF SettleInv
      <3> QED BY <3>3, <3>4
    <2> QED BY <1>1, <2>1, <2>2, <2>3, PlanTables DEF PlanStands
  <1>7. ASSUME ~Answered(a, {}) PROVE Held' = plan.held /\ plan.game \notin won
    <2>1. plan.game = "MG2" BY <1>3, <1>7
    <2>2. a = "O6.request_access" /\ plan.held = Held
      BY <1>1, <2>1, PlanTables DEF PlanStands, a
    <2>3. ~Succeeds(a, {}) BY <1>7 DEF Answered
    <2> QED BY <1>2, <2>1, <2>2, <2>3 DEF SettleInv
  <1> QED BY <1>2, <1>4, <1>5, <1>6, <1>7 DEF SettleInv, a

LEMMA SettleStep ==
    /\ TypeOK /\ SecuritySceneStaysShut /\ PlanFits /\ SettleInv
    /\ RequestsAreClosed /\ [LiveNext]_liveVars
    => SettleInv'
  <1> SUFFICES ASSUME TypeOK, SecuritySceneStaysShut, PlanFits, SettleInv,
                      RequestsAreClosed, [LiveNext]_liveVars
               PROVE  SettleInv'
    OBVIOUS
  <1> USE DEF dialogue, progress, affect
  <1>1. ASSUME Command PROVE SettleInv'
    <2>1. UNCHANGED <<plan, won>> /\ plan = Idling BY <1>1 DEF Command
    <2>2. ASSUME NEW b \in Commands, NEW granted, Investigate(b, granted)
          PROVE  SettleInv'
      <3>1. b \in Affordances BY CommandsAssumption
      <3> QED BY <2>1, <2>2, <3>1, LookKeeps DEF SettleInv
    <2>3. ASSUME NEW r \in Requests, DialogueTurn(r) PROVE SettleInv'
      <3>1. "S4" \in Scenes /\ completion' = CompletionAfter(r)
            /\ UNCHANGED <<objects, discovered>>
        BY <2>3 DEF DialogueTurn, Scenes
      <3>2. completion'["S4"] # "locked"
        BY <3>1 DEF CompletionAfter, SettleInv
      <3> QED BY <2>1, <3>1, <3>2 DEF SettleInv
    <2>4. ASSUME UNCHANGED <<completion, objects, discovered>> PROVE SettleInv'
      BY <2>1, <2>4 DEF SettleInv
    <2> QED
      BY <1>1, <2>2, <2>3, <2>4
         DEF Command, InvestigateObject, SayTurn, StateContradiction, Recover, Accuse,
             RequestsAreClosed, SubmitContradictionEdge, AttemptRecovery,
             AccuseCulprit, AccuseInnocent, AdvanceTo
  <1>2. ASSUME NEW g \in DOMAIN ActionPlan, SubmitMinigame(g) PROVE SettleInv'
    BY <1>2 DEF SubmitMinigame, vars, SettleInv, PlanStands, Held
  <1>3. ASSUME PlayOn PROVE SettleInv'
    BY <1>3, PlayStep
  <1>4. CASE UNCHANGED liveVars
    BY <1>4 DEF liveVars, vars, SettleInv, PlanStands, Held
  <1> QED BY <1>1, <1>2, <1>3, <1>4 DEF LiveNext

(* A refused minigame leaves nothing behind, and one that was accepted is  *)
(* never refused afterwards.                                               *)
THEOREM MinigamesAreSettled ==
    ASSUME RequestsAreClosed PROVE LiveSpec => MinigamesSettle
  <1>1. TypeOK /\ SecuritySceneStaysShut /\ PlanFits /\ SettleInv /\ [LiveNext]_liveVars
          => [plan # Idling /\ ~Answered(Head(plan.rest), {}) =>
                Held' = plan.held /\ plan.game \notin won]_liveVars
    <2> SUFFICES ASSUME TypeOK, SecuritySceneStaysShut, PlanFits, SettleInv, LiveNext,
                        plan # Idling, ~Answered(Head(plan.rest), {})
                 PROVE  Held' = plan.held /\ plan.game \notin won
      OBVIOUS
    <2>1. PlayOn BY DEF LiveNext, Command, SubmitMinigame
    <2> QED BY <2>1, PlayStep
  <1>2. TypeOK /\ SecuritySceneStaysShut /\ PlanFits /\ SettleInv /\ [LiveNext]_liveVars
          => SettleInv'
    BY SettleStep
  <1> QED
    BY <1>1, <1>2, LiveInitInv, FitsStep, LivePlaysTheCase, TypeCorrect,
       SecuritySceneIsUnreachable, PTL DEF LiveSpec, MinigamesSettle

LiveAccess == Live => ~objects.access

LEMMA AccessStep ==
    TypeOK /\ SecuritySceneStaysShut /\ LiveAccess /\ [LiveNext]_liveVars => LiveAccess'
  <1> SUFFICES ASSUME TypeOK, SecuritySceneStaysShut, LiveAccess, [LiveNext]_liveVars,
                      Live'
               PROVE  ~objects'.access
    BY DEF LiveAccess
  <1>1. Live /\ ~objects.access
    BY DEF LiveNext, Command, SubmitMinigame, PlayOn, liveVars, Live, LiveAccess
  <1>2. ASSUME NEW a, Investigate(a, {}) PROVE ~objects'.access
    BY <1>1, <1>2, AccessIsRefused DEF Investigate, Succeeds
  <1>3. CASE UNCHANGED objects
    BY <1>1, <1>3
  <1>4. ASSUME Command PROVE ~objects'.access
    BY <1>1, <1>2, <1>3, <1>4
       DEF Command, InvestigateObject, Offered, SayTurn, DialogueTurn, StateContradiction,
           Recover, AttemptRecovery, Accuse, AccuseCulprit, AccuseInnocent, AdvanceTo
  <1> QED
    BY <1>2, <1>3, <1>4 DEF LiveNext, SubmitMinigame, PlayOn, liveVars, vars

(* Through the live host the terminal never opens and the badge log's      *)
(* minigame is never won: the host vouches for nothing, and Marc's trust,  *)
(* which would open the way, is never earned.                              *)
THEOREM TerminalIsOutOfReach ==
    ASSUME RequestsAreClosed PROVE LiveSpec => []TerminalStaysShut
  <1>1. LiveInit => LiveAccess BY DEF LiveInit, Init, LiveAccess
  <1>2. TypeOK /\ SecuritySceneStaysShut /\ PlanFits /\ SettleInv /\ [LiveNext]_liveVars
          => SettleInv'
    BY SettleStep
  <1>3. LiveAccess /\ SettleInv => TerminalStaysShut
    BY DEF LiveAccess, SettleInv, TerminalStaysShut
  <1> QED
    BY <1>1, <1>2, <1>3, AccessStep, LiveInitInv, FitsStep, LivePlaysTheCase,
       TypeCorrect, SecuritySceneIsUnreachable, PTL DEF LiveSpec

(* Through the live host the case cannot be solved, on any seed, whatever  *)
(* the viewer does: it ends by its deadline alone.                         *)
THEOREM LivePlayOnlyTimesOut ==
    ASSUME RequestsAreClosed PROVE LiveSpec => []OnlyTimeEndsIt
  BY LiveInitInv, FitsStep, LiveStep, LiveEnds, TerminalIsOutOfReach, PTL DEF LiveSpec
=============================================================================

---------------------------- MODULE CaseEngineProofs ----------------------------
(***************************************************************************)
(* Theorems about the case engine, for every shipped seed and difficulty,  *)
(* whatever turns and commands the player may submit, whatever their       *)
(* caller may vouch for, at whatever minutes the clock is looked at and    *)
(* however long the run.                                                   *)
(*                                                                         *)
(* The invariants build on one another: types; Marc's closed gate; the     *)
(* contradiction; the receipt, which the drop location rests on; surfaced  *)
(* scenes; recovery, which rests on all three; and from recovery the end   *)
(* of the case.                                                            *)
(***************************************************************************)
EXTENDS CaseEngine, TLAPS

(* The tables and the constants.                                           *)

LEMMA RequestFields ==
    ASSUME NEW r \in Requests
    PROVE  /\ r.scene \in Scenes /\ r.npc \in Npcs /\ r.intent \in Intents
           /\ r.facts \subseteq Facts /\ r.evidence \subseteq Evidence
  BY RequestsAssumption DEF RequestSpace

LEMMA ClampType == ASSUME NEW x \in Int PROVE Clamp(x) \in 0..100
  BY DEF Clamp

LEMMA DeltaType ==
    ASSUME NEW r PROVE TrustDelta(r) \in Int /\ StressDelta(r) \in Int
  BY DEF TrustDelta, StressDelta

LEMMA SceneTables ==
    ASSUME NEW s \in Scenes
    PROVE  /\ AllowedFacts[s] \subseteq Facts /\ UnlockedFacts[s] \subseteq Facts
           /\ UnlockedScenes[s] \subseteq Scenes /\ RequiredFacts[s] \subseteq Facts
           /\ PrimaryNpc[s] \in Npcs /\ TrustGate[s] \in 0..100
  BY DEF Scenes, AllowedFacts, UnlockedFacts, UnlockedScenes, RequiredFacts, Facts,
         PrimaryNpc, TrustGate, Npcs

LEMMA ObjectTables ==
    ASSUME NEW a \in Affordances
    PROVE  FactsShown[a] \subseteq Facts /\ EvidenceShown[a] \subseteq Evidence
  BY DEF Affordances, FactsShown, EvidenceShown, Facts, Evidence

LEMMA EvidenceTable == \A e \in Evidence : FactOf[e] \in Facts \ {"N8"}
  BY DEF Evidence, FactOf, Facts

LEMMA RolesType ==
    /\ Culprit \in Suspects
    /\ InitialTrust \in [Npcs -> 0..100] /\ InitialStress \in [Npcs -> 0..100]
  BY SeedAssumption DEF Culprit, Suspects, InitialTrust, InitialStress, Npcs

LEMMA MarcStartsBelow == "marc" \in Npcs /\ InitialTrust["marc"] < TrustGate["S2"]
  BY SeedAssumption DEF InitialTrust, TrustGate, Ally, Culprit, Misdirector, Npcs, Scenes

-------------------------------------------------------------------------------
(* Type correctness.                                                       *)

LEMMA RevealedType == ASSUME NEW r \in Requests PROVE Revealed(r) \subseteq Facts
  <1>1. r.scene \in Scenes BY RequestFields
  <1> QED BY <1>1, SceneTables DEF Revealed

LEMMA CompletionType ==
    ASSUME TypeOK, NEW r \in Requests
    PROVE  CompletionAfter(r) \in [Scenes -> Completions]
  BY DEF TypeOK, CompletionAfter, Completions

LEMMA BranchType ==
    ASSUME TypeOK, NEW m \in {"at_drop", "left_building", "recovered"},
           BranchTransitions(m)
    PROVE  /\ medallion' \in {"at_drop", "left_building", "recovered"}
           /\ softFailed' \in BOOLEAN /\ bestAwarded' \in BOOLEAN
  BY DEF TypeOK, BranchTransitions

LEMMA InitType == Init => TypeOK
  <1> SUFFICES ASSUME Init PROVE TypeOK
    OBVIOUS
  <1>1. InitialCompletion \in [Scenes -> Completions]
    BY DEF InitialCompletion, Completions
  <1>2. Gatekeepers \subseteq Npcs
    BY DEF Gatekeepers, Npcs
  <1> QED
    BY <1>1, <1>2, RolesType DEF Init, TypeOK, Facts

LEMMA TypeStep == TypeOK /\ [Next]_vars => TypeOK'
  <1> SUFFICES ASSUME TypeOK, [Next]_vars PROVE TypeOK'
    OBVIOUS
  <1> USE DEF dialogue, progress, affect, outcome
  <1>1. ASSUME NEW a \in Commands, NEW granted \in Grants, Investigate(a, granted)
        PROVE  TypeOK'
    <2>1. a \in Affordances BY CommandsAssumption
    <2>2. known' \subseteq Facts /\ discovered' \subseteq Evidence
          /\ collected' \subseteq Evidence
      BY <1>1, <2>1, ObjectTables, EvidenceTable DEF Investigate, TypeOK
    <2>3. objects' \in [bench : BOOLEAN, locked : BOOLEAN, receipt : BOOLEAN,
                        examined : BOOLEAN, access : BOOLEAN]
      BY <1>1 DEF Investigate, TypeOK
    <2>4. unlockable' \in BOOLEAN /\ acknowledged' \in BOOLEAN
      BY <1>1 DEF Investigate, TypeOK, ContradictionKnown
    <2>5. BranchTransitions(medallion) BY <1>1 DEF Investigate
    <2> QED
      BY <1>1, <2>2, <2>3, <2>4, <2>5, BranchType DEF Investigate, TypeOK
  <1>2. ASSUME SubmitContradictionEdge PROVE TypeOK'
    BY <1>2, BranchType DEF SubmitContradictionEdge, TypeOK, ActionFlags
  <1>3. ASSUME NEW r \in Requests, DialogueTurn(r) PROVE TypeOK'
    <2>1. r.scene \in Scenes /\ r.npc \in Npcs BY RequestFields
    <2>2. completion' \in [Scenes -> Completions]
      BY <1>3, CompletionType DEF DialogueTurn
    <2>3. known' \subseteq Facts
      BY <1>3, RevealedType DEF DialogueTurn, TypeOK
    <2>4. surfaced' \subseteq Scenes
      BY <1>3, <2>1, SceneTables DEF DialogueTurn, TypeOK
    <2>5. FlagsEarned(r) \subseteq ActionFlags
      BY DEF FlagsEarned, ActionFlags
    <2>6. trust' \in [Gatekeepers -> 0..100]
      BY <1>3, DeltaType, ClampType DEF DialogueTurn, TypeOK
    <2>7. stress' \in [Npcs -> 0..100]
      BY <1>3, <2>1, DeltaType, ClampType DEF DialogueTurn, TypeOK
    <2>8. turns' \in Nat /\ passes' \subseteq Nat
      <3>1. turns' = turns + 1 /\ turns \in Nat /\ passes \subseteq Nat
        BY <1>3 DEF DialogueTurn, TypeOK
      <3>2. passes' \subseteq passes \cup {turns'}
        BY <1>3 DEF DialogueTurn
      <3> QED
        BY <3>1, <3>2
    <2>9. actions' \subseteq ActionFlags
      BY <1>3, <2>5 DEF DialogueTurn, TypeOK
    <2>10. /\ medallion' \in {"at_drop", "left_building", "recovered"}
           /\ softFailed' \in BOOLEAN /\ bestAwarded' \in BOOLEAN
      BY <1>3, BranchType DEF DialogueTurn, TypeOK
    <2>11. UNCHANGED <<clock, discovered, collected, unlockable, acknowledged,
                       objects, escalated>>
      BY <1>3 DEF DialogueTurn
    <2> QED
      BY <2>2, <2>3, <2>4, <2>6, <2>7, <2>8, <2>9, <2>10, <2>11 DEF TypeOK
  <1>4. ASSUME NEW quiet \in BOOLEAN, AttemptRecovery(quiet) PROVE TypeOK'
    BY <1>4, BranchType DEF AttemptRecovery, TypeOK, ActionFlags
  <1>5. ASSUME NEW public \in BOOLEAN, AccuseCulprit(public) PROVE TypeOK'
    BY <1>5, BranchType DEF AccuseCulprit, TypeOK, ActionFlags
  <1>6. ASSUME NEW suspect \in Suspects, NEW public \in BOOLEAN,
               AccuseInnocent(suspect, public)
        PROVE  TypeOK'
    BY <1>6, BranchType DEF AccuseInnocent, TypeOK, ActionFlags
  <1>7. ASSUME NEW t \in Instants, AdvanceTo(t) PROVE TypeOK'
    <2>1. t \in Nat BY InstantsAssumption
    <2>2. Gatekeepers \subseteq Npcs BY DEF Gatekeepers, Npcs
    <2>3. \A b \in Beats : BeatTrust[b] \in Int /\ BeatStress[b] \in Int
      BY DEF Beats, BeatTrust, BeatStress
    <2>4. \A n \in Npcs : Due(n, t) # {} => (CHOOSE b \in Due(n, t) : TRUE) \in Beats
      BY DEF Due
    <2>5. trust' \in [Gatekeepers -> 0..100]
      BY <1>7, <2>2, <2>3, <2>4, ClampType DEF AdvanceTo, TypeOK
    <2>6. stress' \in [Npcs -> 0..100]
      BY <1>7, <2>3, <2>4, ClampType DEF AdvanceTo, TypeOK
    <2> QED
      BY <1>7, <2>1, <2>5, <2>6, BranchType DEF AdvanceTo, TypeOK
  <1>8. CASE UNCHANGED vars
    BY <1>8 DEF vars, TypeOK
  <1> QED
    BY <1>1, <1>2, <1>3, <1>4, <1>5, <1>6, <1>7, <1>8 DEF Next

(* The state of the case keeps its types under every call and tick.        *)
THEOREM TypeCorrect == Spec => []TypeOK
  BY InitType, TypeStep, PTL DEF Spec
-------------------------------------------------------------------------------
(* Marc's gate.  His trust starts below it; while it is below, no turn     *)
(* enters S2, a turn that addresses him elsewhere enters nothing, and a    *)
(* turn that enters nothing moves no trust; his beats only lower it.       *)

LEMMA NotEnteredMovesNothing ==
    ASSUME NEW r, ~Enters(r)
    PROVE  TrustDelta(r) = 0 /\ ~Accepted(r) /\ ~Completes(r)
  BY DEF TrustDelta, Verdict, Accepted, Completes

LEMMA MarcPlaysOnlySecurity ==
    /\ PrimaryNpc["S2"] = "marc"
    /\ \A s \in Scenes : PrimaryNpc[s] = "marc" => s = "S2"
  BY DEF PrimaryNpc, Scenes

LEMMA MarcEntersNothing ==
    ASSUME TypeOK, SecuritySceneStaysShut, NEW r \in Requests,
           r.scene = "S2" \/ r.npc = "marc"
    PROVE  ~Enters(r)
  <1>1. r.scene \in Scenes BY RequestFields
  <1>2. CASE r.scene # "S2"
    BY <1>1, <1>2, MarcPlaysOnlySecurity DEF Enters
  <1>3. CASE r.scene = "S2"
    <2>1. ~(trust["marc"] >= TrustGate["S2"])
      <3>1. TrustGate["S2"] \in Int BY SceneTables DEF Scenes
      <3>2. trust["marc"] \in 0..100 BY DEF TypeOK, Gatekeepers
      <3> QED BY <3>1, <3>2 DEF SecuritySceneStaysShut
    <2>2. ~GateOpen("S2")
      BY <2>1, MarcPlaysOnlySecurity DEF GateOpen, Gatekeepers
    <2> QED
      BY <1>3, <2>2 DEF Enters
  <1> QED BY <1>2, <1>3

LEMMA ShutInit == Init => SecuritySceneStaysShut
  <1>1. InitialCompletion["S2"] = "available"
    BY DEF InitialCompletion, RequiredFacts, RequiredItems, Scenes
  <1> QED
    BY <1>1, MarcStartsBelow DEF Init, SecuritySceneStaysShut, Gatekeepers

LEMMA ShutStep == TypeOK /\ SecuritySceneStaysShut /\ [Next]_vars => SecuritySceneStaysShut'
  <1> SUFFICES ASSUME TypeOK, SecuritySceneStaysShut, [Next]_vars
               PROVE  SecuritySceneStaysShut'
    OBVIOUS
  <1> USE DEF dialogue, progress, affect
  <1>a. /\ trust["marc"] \in 0..100 /\ "marc" \in Gatekeepers /\ TrustGate["S2"] \in Int
        /\ "S2" \in Scenes /\ trust["marc"] < TrustGate["S2"]
    BY SceneTables DEF TypeOK, Gatekeepers, Scenes, SecuritySceneStaysShut
  <1>1. ASSUME NEW a \in Commands, NEW granted \in Grants, Investigate(a, granted)
        PROVE  SecuritySceneStaysShut'
    <2>1. a = "O6.request_access" /\ Succeeds(a, granted)
            => VouchedFor("trust:marc>=gate")
      <3>1. ~(trust["marc"] >= TrustGate["S2"]) BY <1>a
      <3>2. ~Derives("trust:marc>=gate") BY <3>1 DEF Derives
      <3>3. a = "O6.request_access" => "trust:marc>=gate" \in Prerequisites[a]
        BY CommandsAssumption DEF Prerequisites
      <3> QED BY <3>2, <3>3 DEF Succeeds, Admitted, VouchedFor
    <2>2. objects'.access => objects.access \/ VouchedFor("trust:marc>=gate")
      BY <1>1, <2>1 DEF Investigate
    <2>3. UNCHANGED <<completion, trust>> BY <1>1 DEF Investigate
    <2> QED
      BY <2>2, <2>3 DEF SecuritySceneStaysShut
  <1>2. ASSUME SubmitContradictionEdge PROVE SecuritySceneStaysShut'
    BY <1>2 DEF SubmitContradictionEdge, SecuritySceneStaysShut
  <1>3. ASSUME NEW r \in Requests, DialogueTurn(r) PROVE SecuritySceneStaysShut'
    <2>1. completion'["S2"] = "available"
      <3>1. completion'["S2"] = CompletionAfter(r)["S2"] BY <1>3 DEF DialogueTurn
      <3>2. r.scene = "S2" => ~Enters(r) /\ ~Completes(r)
        BY MarcEntersNothing, NotEnteredMovesNothing
      <3> QED
        BY <1>a, <3>1, <3>2 DEF CompletionAfter, SecuritySceneStaysShut
    <2>2. trust'["marc"] = trust["marc"]
      <3>1. trust'["marc"] = IF "marc" = r.npc THEN Clamp(trust["marc"] + TrustDelta(r))
                             ELSE trust["marc"]
        BY <1>3, <1>a DEF DialogueTurn
      <3>2. r.npc = "marc" => TrustDelta(r) = 0
        BY MarcEntersNothing, NotEnteredMovesNothing
      <3> QED
        BY <1>a, <3>1, <3>2 DEF Clamp
    <2>3. UNCHANGED objects BY <1>3 DEF DialogueTurn
    <2> QED
      BY <2>1, <2>2, <2>3, <1>a DEF SecuritySceneStaysShut
  <1>4. ASSUME NEW quiet \in BOOLEAN, AttemptRecovery(quiet)
        PROVE  SecuritySceneStaysShut'
    BY <1>4 DEF AttemptRecovery, SecuritySceneStaysShut
  <1>5. ASSUME NEW public \in BOOLEAN, AccuseCulprit(public)
        PROVE  SecuritySceneStaysShut'
    BY <1>5 DEF AccuseCulprit, SecuritySceneStaysShut
  <1>6. ASSUME NEW suspect \in Suspects, NEW public \in BOOLEAN,
               AccuseInnocent(suspect, public)
        PROVE  SecuritySceneStaysShut'
    BY <1>6 DEF AccuseInnocent, SecuritySceneStaysShut
  <1>7. ASSUME NEW t \in Instants, AdvanceTo(t) PROVE SecuritySceneStaysShut'
    <2> DEFINE b == CHOOSE x \in Due("marc", t) : TRUE
    <2>1. trust'["marc"] = IF Due("marc", t) = {} THEN trust["marc"]
                           ELSE Clamp(trust["marc"] + BeatTrust[b])
      BY <1>7, <1>a DEF AdvanceTo
    <2>2. Due("marc", t) # {} => b \in Beats
      BY DEF Due
    <2>3. \A x \in Beats : BeatTrust[x] \in Int /\ BeatTrust[x] <= 0
      BY DEF Beats, BeatTrust
    <2>4. ASSUME Due("marc", t) # {} PROVE trust'["marc"] < TrustGate["S2"]
      <3>1. BeatTrust[b] \in Int /\ BeatTrust[b] <= 0 BY <2>2, <2>3, <2>4
      <3>2. trust'["marc"] = Clamp(trust["marc"] + BeatTrust[b]) BY <2>1, <2>4
      <3>3. 0 < TrustGate["S2"]
        BY <1>a
      <3> HIDE DEF b
      <3> QED BY <1>a, <3>1, <3>2, <3>3 DEF Clamp
    <2>5. ASSUME Due("marc", t) = {} PROVE trust'["marc"] < TrustGate["S2"]
      BY <2>1, <2>5, <1>a
    <2>6. UNCHANGED <<completion, objects>> BY <1>7 DEF AdvanceTo
    <2> QED
      BY <2>4, <2>5, <2>6 DEF SecuritySceneStaysShut
  <1>8. CASE UNCHANGED vars
    BY <1>8 DEF vars, SecuritySceneStaysShut
  <1> QED
    BY <1>1, <1>2, <1>3, <1>4, <1>5, <1>6, <1>7, <1>8 DEF Next

(* On every shipped seed, whatever turns are asked and whenever the clock  *)
(* is looked at, the security scene is never entered, and the terminal     *)
(* grants access to nobody whose caller does not vouch for Marc's trust.   *)
THEOREM SecuritySceneIsUnreachable == Spec => []SecuritySceneStaysShut
  BY TypeCorrect, ShutInit, ShutStep, PTL DEF Spec
-------------------------------------------------------------------------------
(* The contradiction.                                                      *)

LEMMA ContradictionInit == Init => ContradictionEarned
  BY DEF Init, ContradictionEarned

LEMMA ContradictionStep == ContradictionEarned /\ [Next]_vars => ContradictionEarned'
  <1> SUFFICES ASSUME ContradictionEarned, [Next]_vars PROVE ContradictionEarned'
    OBVIOUS
  <1> USE DEF dialogue, progress, affect
  <1>1. ASSUME NEW a \in Commands, NEW granted \in Grants, Investigate(a, granted)
        PROVE  ContradictionEarned'
    <2>1. known \subseteq known' /\ unlockable' = ({"N3", "N4"} \subseteq known')
      BY <1>1 DEF Investigate, ContradictionKnown
    <2>2. (acknowledged' => acknowledged) /\ actions' = actions
      BY <1>1 DEF Investigate
    <2> QED BY <2>1, <2>2 DEF ContradictionEarned
  <1>2. ASSUME SubmitContradictionEdge PROVE ContradictionEarned'
    BY <1>2 DEF SubmitContradictionEdge, ContradictionEarned, ContradictionKnown
  <1>3. ASSUME NEW r \in Requests, DialogueTurn(r) PROVE ContradictionEarned'
    <2>1. known \subseteq known' BY <1>3 DEF DialogueTurn
    <2>2. UNCHANGED <<unlockable, acknowledged>> BY <1>3 DEF DialogueTurn
    <2>3. "state_contradiction_N3_N4" \in FlagsEarned(r) => {"N3", "N4"} \subseteq known
      <3>1. Accepted(r) => r.facts \subseteq known
        BY DEF Accepted, Verdict, Presentable
      <3> QED BY <3>1 DEF FlagsEarned
    <2>4. actions' = actions \cup FlagsEarned(r) BY <1>3 DEF DialogueTurn
    <2> QED
      BY <2>1, <2>2, <2>3, <2>4 DEF ContradictionEarned
  <1>4. ASSUME NEW quiet \in BOOLEAN, AttemptRecovery(quiet) PROVE ContradictionEarned'
    BY <1>4 DEF AttemptRecovery, ContradictionEarned
  <1>5. ASSUME NEW public \in BOOLEAN, AccuseCulprit(public) PROVE ContradictionEarned'
    BY <1>5 DEF AccuseCulprit, ContradictionEarned
  <1>6. ASSUME NEW suspect \in Suspects, NEW public \in BOOLEAN,
               AccuseInnocent(suspect, public)
        PROVE  ContradictionEarned'
    BY <1>6 DEF AccuseInnocent, ContradictionEarned
  <1>7. ASSUME NEW t \in Instants, AdvanceTo(t) PROVE ContradictionEarned'
    BY <1>7 DEF AdvanceTo, ContradictionEarned
  <1>8. CASE UNCHANGED vars
    BY <1>8 DEF vars, ContradictionEarned
  <1> QED
    BY <1>1, <1>2, <1>3, <1>4, <1>5, <1>6, <1>7, <1>8 DEF Next

(* Neither the list shown to the client, nor the recorded edge, nor the    *)
(* action flag an accusation is judged by ever runs ahead of the facts.    *)
THEOREM ContradictionIsEarned == Spec => []ContradictionEarned
  BY ContradictionInit, ContradictionStep, PTL DEF Spec
-------------------------------------------------------------------------------
(* The drop location.  It is strengthened with what the inventory promises *)
(* about the receipt: whoever has found it holds it, unless a caller may   *)
(* have vouched for it, and whatever is held has been found.               *)

ReceiptHeld ==
    /\ collected \subseteq discovered
    /\ "E2" \in discovered =>
          "E2" \in collected \/ VouchedFor("inventory:E2_CAFE_RECEIPT")

LEMMA ReceiptStep == ReceiptHeld /\ [Next]_vars => ReceiptHeld'
  <1> SUFFICES ASSUME ReceiptHeld, [Next]_vars PROVE ReceiptHeld'
    OBVIOUS
  <1> USE DEF dialogue, progress, affect
  <1>1. ASSUME NEW a \in Commands, NEW granted \in Grants, Investigate(a, granted)
        PROVE  ReceiptHeld'
    <2> DEFINE found == IF Succeeds(a, granted) THEN EvidenceShown[a] ELSE {}
    <2>1. /\ discovered' = discovered \cup found
          /\ collected' = IF a \in AutoCollects THEN collected \cup found ELSE collected
      BY <1>1 DEF Investigate
    <2>2. "E2" \in found /\ a \notin AutoCollects =>
            "E2" \in discovered \/ VouchedFor("inventory:E2_CAFE_RECEIPT")
      <3>1. a \in Affordances BY CommandsAssumption
      <3>2. "E2" \in found /\ a \notin AutoCollects => a = "O9.read_receipt"
        BY <3>1 DEF EvidenceShown, AutoCollects, Affordances
      <3>3. "inventory:E2_CAFE_RECEIPT" \in Prerequisites["O9.read_receipt"]
        BY DEF Prerequisites, Affordances
      <3>4. Derives("inventory:E2_CAFE_RECEIPT") => "E2" \in discovered
        BY DEF Derives
      <3> QED BY <3>2, <3>3, <3>4 DEF Succeeds, Admitted, VouchedFor
    <2> HIDE DEF found
    <2> QED BY <2>1, <2>2 DEF ReceiptHeld
  <1>2. ASSUME SubmitContradictionEdge PROVE ReceiptHeld'
    BY <1>2 DEF SubmitContradictionEdge, ReceiptHeld
  <1>3. ASSUME NEW r \in Requests, DialogueTurn(r) PROVE ReceiptHeld'
    BY <1>3 DEF DialogueTurn, ReceiptHeld
  <1>4. ASSUME NEW quiet \in BOOLEAN, AttemptRecovery(quiet) PROVE ReceiptHeld'
    BY <1>4 DEF AttemptRecovery, ReceiptHeld
  <1>5. ASSUME NEW public \in BOOLEAN, AccuseCulprit(public) PROVE ReceiptHeld'
    BY <1>5 DEF AccuseCulprit, ReceiptHeld
  <1>6. ASSUME NEW suspect \in Suspects, NEW public \in BOOLEAN,
               AccuseInnocent(suspect, public)
        PROVE  ReceiptHeld'
    BY <1>6 DEF AccuseInnocent, ReceiptHeld
  <1>7. ASSUME NEW t \in Instants, AdvanceTo(t) PROVE ReceiptHeld'
    BY <1>7 DEF AdvanceTo, ReceiptHeld
  <1>8. CASE UNCHANGED vars
    BY <1>8 DEF vars, ReceiptHeld
  <1> QED
    BY <1>1, <1>2, <1>3, <1>4, <1>5, <1>6, <1>7, <1>8 DEF Next

LEMMA ReceiptIsHeld == Spec => []ReceiptHeld
  <1>1. Init => ReceiptHeld BY DEF Init, ReceiptHeld
  <1> QED BY <1>1, ReceiptStep, PTL DEF Spec

(* No answer gives the drop location away but to a challenge made with     *)
(* both times known and the receipt found, and no object shows it.         *)
LEMMA NoAnswerGivesItAway ==
    ASSUME NEW s \in Scenes, NEW intent \in Intents, NEW presented,
           NEW facts, NEW items, "N8" \in Answer(s, intent, presented, facts, items)
    PROVE  {"N3", "N4"} \subseteq facts /\ "E2" \in items
  BY DEF Answer, DropLocation, Scenes

LEMMA NoObjectShowsIt == \A a \in Affordances : "N8" \notin FactsShown[a]
  BY DEF Affordances, FactsShown

LEMMA SummariesConfirmIt ==
    /\ \A s \in Scenes : "N8" \in UnlockedFacts[s] => s = "S5"
    /\ "N8" \in RequiredFacts["S5"]
  BY DEF Scenes, UnlockedFacts, RequiredFacts

LEMMA DropStep ==
    ReceiptHeld /\ DropLocationEarned /\ [Next]_vars => DropLocationEarned'
  <1> SUFFICES ASSUME ReceiptHeld, DropLocationEarned, [Next]_vars
               PROVE  DropLocationEarned'
    OBVIOUS
  <1> USE DEF dialogue, progress, affect
  <1>1. ASSUME NEW a \in Commands, NEW granted \in Grants, Investigate(a, granted)
        PROVE  DropLocationEarned'
    <2>1. a \in Affordances BY CommandsAssumption
    <2>2. "N8" \in known' => "N8" \in known
      BY <1>1, <2>1, NoObjectShowsIt, ObjectTables, EvidenceTable DEF Investigate
    <2>3. known \subseteq known' /\ discovered \subseteq discovered'
          /\ collected \subseteq collected'
      BY <1>1 DEF Investigate
    <2> QED BY <2>2, <2>3 DEF DropLocationEarned
  <1>2. ASSUME SubmitContradictionEdge PROVE DropLocationEarned'
    BY <1>2 DEF SubmitContradictionEdge, DropLocationEarned
  <1>3. ASSUME NEW r \in Requests, DialogueTurn(r) PROVE DropLocationEarned'
    <2>1. r.scene \in Scenes /\ r.intent \in Intents BY RequestFields
    <2>2. known' = known \cup Revealed(r) /\ UNCHANGED <<discovered, collected>>
      BY <1>3 DEF DialogueTurn
    <2>3. ASSUME "N8" \in Revealed(r), "N8" \notin known
          PROVE  {"N3", "N4"} \subseteq known /\ "E2" \in discovered
      <3>1. CASE "N8" \in Answer(r.scene, r.intent, r.evidence, known, discovered)
        BY <2>1, <3>1, NoAnswerGivesItAway
      <3>2. CASE Completes(r) /\ "N8" \in UnlockedFacts[r.scene]
        <4>1. r.scene = "S5" /\ Enters(r)
          BY <2>1, <3>2, SummariesConfirmIt, NotEnteredMovesNothing
        <4>2. "N8" \in known
          BY <4>1, SummariesConfirmIt DEF Enters, GateOpen
        <4> QED BY <2>3, <4>2
      <3> QED BY <2>3, <3>1, <3>2 DEF Revealed
    <2> QED
      BY <2>2, <2>3 DEF DropLocationEarned, ReceiptHeld
  <1>4. ASSUME NEW quiet \in BOOLEAN, AttemptRecovery(quiet) PROVE DropLocationEarned'
    BY <1>4 DEF AttemptRecovery, DropLocationEarned
  <1>5. ASSUME NEW public \in BOOLEAN, AccuseCulprit(public) PROVE DropLocationEarned'
    BY <1>5 DEF AccuseCulprit, DropLocationEarned
  <1>6. ASSUME NEW suspect \in Suspects, NEW public \in BOOLEAN,
               AccuseInnocent(suspect, public)
        PROVE  DropLocationEarned'
    BY <1>6 DEF AccuseInnocent, DropLocationEarned
  <1>7. ASSUME NEW t \in Instants, AdvanceTo(t) PROVE DropLocationEarned'
    BY <1>7 DEF AdvanceTo, DropLocationEarned
  <1>8. CASE UNCHANGED vars
    BY <1>8 DEF vars, DropLocationEarned
  <1> QED
    BY <1>1, <1>2, <1>3, <1>4, <1>5, <1>6, <1>7, <1>8 DEF Next

(* The drop location is never known to a player who has not worked out     *)
(* both times of the contradiction and found the receipt, which is in hand *)
(* unless a caller may have vouched for it.                                *)
THEOREM DropLocationIsEarned == Spec => []DropLocationEarned
  <1>1. Init => DropLocationEarned BY DEF Init, DropLocationEarned
  <1> QED BY <1>1, ReceiptIsHeld, DropStep, PTL DEF Spec
-------------------------------------------------------------------------------
(* Surfaced scenes.                                                        *)

LEMMA SurfacedInit == Init => SurfacedIsUnlocked
  BY DEF Init, SurfacedIsUnlocked, InitialCompletion, Scenes

LEMMA SurfacedStep == TypeOK /\ SurfacedIsUnlocked /\ [Next]_vars => SurfacedIsUnlocked'
  <1> SUFFICES ASSUME TypeOK, SurfacedIsUnlocked, [Next]_vars
               PROVE  SurfacedIsUnlocked'
    OBVIOUS
  <1> USE DEF dialogue, progress, affect
  <1>1. ASSUME NEW a \in Commands, NEW granted \in Grants, Investigate(a, granted)
        PROVE  SurfacedIsUnlocked'
    BY <1>1 DEF Investigate, SurfacedIsUnlocked
  <1>2. ASSUME SubmitContradictionEdge PROVE SurfacedIsUnlocked'
    BY <1>2 DEF SubmitContradictionEdge, SurfacedIsUnlocked
  <1>3. ASSUME NEW r \in Requests, DialogueTurn(r) PROVE SurfacedIsUnlocked'
    <2>1. r.scene \in Scenes /\ UnlockedScenes[r.scene] \subseteq Scenes
      BY RequestFields, SceneTables
    <2>2. Completes(r) => Enters(r)
      BY NotEnteredMovesNothing
    <2>3. surfaced' = surfaced \cup {s \in {r.scene} : Enters(r)}
                        \cup (IF Completes(r) THEN UnlockedScenes[r.scene] ELSE {})
      BY <1>3 DEF DialogueTurn
    <2>4. \A s \in Scenes : completion'[s] = CompletionAfter(r)[s]
      BY <1>3 DEF DialogueTurn
    <2>5. ASSUME NEW s \in Scenes PROVE s \in surfaced' <=> completion'[s] # "locked"
      <3>1. s \in surfaced <=> completion[s] # "locked"
        BY DEF SurfacedIsUnlocked
      <3>2. CASE s = r.scene
        BY <2>2, <2>3, <2>4, <3>1, <3>2 DEF CompletionAfter
      <3>3. CASE s # r.scene
        BY <2>2, <2>3, <2>4, <3>1, <3>3 DEF CompletionAfter
      <3> QED BY <3>2, <3>3
    <2>6. surfaced' \subseteq Scenes
      BY <2>1, <2>3 DEF TypeOK
    <2> QED BY <2>5, <2>6 DEF SurfacedIsUnlocked
  <1>4. ASSUME NEW quiet \in BOOLEAN, AttemptRecovery(quiet) PROVE SurfacedIsUnlocked'
    BY <1>4 DEF AttemptRecovery, SurfacedIsUnlocked
  <1>5. ASSUME NEW public \in BOOLEAN, AccuseCulprit(public) PROVE SurfacedIsUnlocked'
    BY <1>5 DEF AccuseCulprit, SurfacedIsUnlocked
  <1>6. ASSUME NEW suspect \in Suspects, NEW public \in BOOLEAN,
               AccuseInnocent(suspect, public)
        PROVE  SurfacedIsUnlocked'
    BY <1>6 DEF AccuseInnocent, SurfacedIsUnlocked
  <1>7. ASSUME NEW t \in Instants, AdvanceTo(t) PROVE SurfacedIsUnlocked'
    BY <1>7 DEF AdvanceTo, SurfacedIsUnlocked
  <1>8. CASE UNCHANGED vars
    BY <1>8 DEF vars, SurfacedIsUnlocked
  <1> QED
    BY <1>1, <1>2, <1>3, <1>4, <1>5, <1>6, <1>7, <1>8 DEF Next

(* The client is told to show exactly the scenes that are not locked.      *)
THEOREM SurfacedScenesAreUnlocked == Spec => []SurfacedIsUnlocked
  BY TypeCorrect, SurfacedInit, SurfacedStep, PTL DEF Spec
-------------------------------------------------------------------------------
(* What no call takes back, and how every call ends.                       *)

Kept ==
    /\ known \subseteq known' /\ discovered \subseteq discovered'
    /\ collected \subseteq collected' /\ actions \subseteq actions'
    /\ \A s \in Scenes : completion[s] = "completed" => completion'[s] = "completed"
    /\ (acknowledged => acknowledged') /\ (Recovered => Recovered')

LEMMA StepEnds ==
    ASSUME [Next]_vars
    PROVE  \/ UNCHANGED vars
           \/ BranchTransitions(medallion)
           \/ (\E quiet \in BOOLEAN : AttemptRecovery(quiet))
                 /\ BranchTransitions("recovered")
  BY DEF Next, Investigate, SubmitContradictionEdge, DialogueTurn,
         AttemptRecovery, AccuseCulprit, AccuseInnocent, AdvanceTo

LEMMA RecoveredStays == ASSUME [Next]_vars PROVE Recovered => Recovered'
  <1>1. CASE UNCHANGED vars
    BY <1>1 DEF vars, outcome, Recovered
  <1>2. ASSUME NEW m \in {medallion, "recovered"}, BranchTransitions(m)
        PROVE  Recovered => Recovered'
    BY <1>2 DEF BranchTransitions, Recovered
  <1> QED BY <1>1, <1>2, StepEnds

LEMMA StepKeeps == ASSUME ContradictionEarned, [Next]_vars PROVE Kept
  <1> USE DEF dialogue, progress, affect
  <1>1. ASSUME NEW a \in Commands, NEW granted \in Grants, Investigate(a, granted)
        PROVE  Kept
    <2>1. /\ known \subseteq known' /\ discovered \subseteq discovered'
          /\ collected \subseteq collected'
      BY <1>1 DEF Investigate
    <2>2. acknowledged => acknowledged'
      BY <1>1, <2>1 DEF Investigate, ContradictionKnown, ContradictionEarned
    <2>3. UNCHANGED <<completion, actions>> BY <1>1 DEF Investigate
    <2> QED BY <2>1, <2>2, <2>3, RecoveredStays DEF Kept
  <1>2. ASSUME SubmitContradictionEdge PROVE Kept
    BY <1>2, RecoveredStays DEF SubmitContradictionEdge, Kept
  <1>3. ASSUME NEW r \in Requests, DialogueTurn(r) PROVE Kept
    <2>1. known \subseteq known' /\ actions \subseteq actions'
      BY <1>3 DEF DialogueTurn
    <2>2. UNCHANGED <<discovered, collected, acknowledged>>
      BY <1>3 DEF DialogueTurn
    <2>3. ASSUME NEW s \in Scenes, completion[s] = "completed"
          PROVE  completion'[s] = "completed"
      <3>1. completion'[s] = CompletionAfter(r)[s] BY <1>3 DEF DialogueTurn
      <3>2. s = r.scene => ~Enters(r) BY <2>3 DEF Enters
      <3> QED BY <2>3, <3>1, <3>2 DEF CompletionAfter
    <2> QED BY <2>1, <2>2, <2>3, RecoveredStays DEF Kept
  <1>4. ASSUME NEW quiet \in BOOLEAN, AttemptRecovery(quiet) PROVE Kept
    BY <1>4, RecoveredStays DEF AttemptRecovery, Kept
  <1>5. ASSUME NEW public \in BOOLEAN, AccuseCulprit(public) PROVE Kept
    BY <1>5, RecoveredStays DEF AccuseCulprit, Kept
  <1>6. ASSUME NEW suspect \in Suspects, NEW public \in BOOLEAN,
               AccuseInnocent(suspect, public)
        PROVE  Kept
    BY <1>6, RecoveredStays DEF AccuseInnocent, Kept
  <1>7. ASSUME NEW t \in Instants, AdvanceTo(t) PROVE Kept
    BY <1>7, RecoveredStays DEF AdvanceTo, Kept
  <1>8. CASE UNCHANGED vars
    BY <1>8, RecoveredStays DEF vars, Kept
  <1> QED
    BY <1>1, <1>2, <1>3, <1>4, <1>5, <1>6, <1>7, <1>8 DEF Next

LEMMA ClockRuns == ASSUME TypeOK, [Next]_vars PROVE clock' >= clock /\ clock' \in Nat
  <1>1. ASSUME NEW t \in Instants, AdvanceTo(t) PROVE clock' >= clock /\ clock' \in Nat
    <2>1. t \in Nat /\ clock \in Nat BY InstantsAssumption DEF TypeOK
    <2> QED BY <1>1, <2>1 DEF AdvanceTo, NextInstant
  <1>2. CASE UNCHANGED clock
    BY <1>2 DEF TypeOK
  <1> QED
    BY <1>1, <1>2 DEF Next, vars, Investigate, SubmitContradictionEdge, DialogueTurn,
       AttemptRecovery, AccuseCulprit, AccuseInnocent

(* No call takes back what was learned, found, held, done, finished or     *)
(* recovered.                                                              *)
LEMMA NothingLearnedIsLost == Spec => KnowledgeIsKept
  <1>1. ContradictionEarned /\ [Next]_vars =>
          [/\ known \subseteq known' /\ discovered \subseteq discovered'
           /\ collected \subseteq collected' /\ actions \subseteq actions'
           /\ \A s \in Scenes : completion[s] = "completed" => completion'[s] = "completed"
           /\ (acknowledged => acknowledged') /\ (Recovered => Recovered')]_vars
    BY StepKeeps DEF Kept
  <1> QED BY <1>1, ContradictionIsEarned, PTL DEF Spec, KnowledgeIsKept
-------------------------------------------------------------------------------
(* Recovery and the end of the case.                                       *)

(* A step either recovers the medallion, from the confrontation and with   *)
(* the clues in hand, or leaves it unrecovered unless it was before.       *)
LEMMA RecoveryStep ==
    /\ DropLocationEarned /\ SurfacedIsUnlocked /\ ContradictionEarned
    /\ RecoveryEarned /\ [Next]_vars
    => RecoveryEarned'
  <1> SUFFICES ASSUME DropLocationEarned, SurfacedIsUnlocked,
                      ContradictionEarned, RecoveryEarned, [Next]_vars, Recovered'
               PROVE  RecoveryEarned'
    BY DEF RecoveryEarned
  <1> USE DEF dialogue, progress, affect
  <1>1. CASE Recovered
    <2>1. known \subseteq known' /\ discovered \subseteq discovered' /\ actions \subseteq actions'
      BY StepKeeps DEF Kept
    <2>2. surfaced \subseteq surfaced'
      BY DEF Next, vars, Investigate, SubmitContradictionEdge, DialogueTurn,
             AttemptRecovery, AccuseCulprit, AccuseInnocent, AdvanceTo
    <2> QED BY <1>1, <2>1, <2>2 DEF RecoveryEarned
  <1>2. ASSUME ~Recovered, NEW quiet \in BOOLEAN, AttemptRecovery(quiet)
        PROVE  RecoveryEarned'
    <2>1. "N8" \in known /\ "E3" \in discovered /\ {"N3", "N4"} \subseteq known
          /\ "E2" \in discovered
      BY <1>2 DEF AttemptRecovery, DropLocationEarned
    <2>2. "S5" \in surfaced
      BY <1>2 DEF AttemptRecovery, ConfrontationReady, SceneOpened, SurfacedIsUnlocked, Scenes
    <2>3. UNCHANGED <<known, discovered, surfaced>> /\ "recover_medallion" \in actions'
      BY <1>2 DEF AttemptRecovery
    <2> QED BY <2>1, <2>2, <2>3 DEF RecoveryEarned
  <1>3. ASSUME ~Recovered, BranchTransitions(medallion) PROVE FALSE
    BY <1>3 DEF BranchTransitions, Recovered
  <1>4. ASSUME ~Recovered, UNCHANGED vars PROVE FALSE
    BY <1>4 DEF vars, outcome, Recovered
  <1> QED BY <1>1, <1>2, <1>3, <1>4, StepEnds

(* The medallion is only recovered by a player who reached the             *)
(* confrontation with the whole chain of clues behind it.                  *)
THEOREM RecoveryIsEarned == Spec => []RecoveryEarned
  <1>1. Init => RecoveryEarned BY DEF Init, RecoveryEarned, Recovered
  <1> QED
    BY <1>1, DropLocationIsEarned, SurfacedScenesAreUnlocked, ContradictionIsEarned,
       RecoveryStep, PTL DEF Spec

LEMMA LatchInit == Init => LatchesFollowOutcome
  <1> SUFFICES ASSUME Init PROVE LatchesFollowOutcome
    OBVIOUS
  <1>1. ~SoftFail /\ ~BestOutcome
    BY DEF Init, SoftFail, BestOutcome, Recovered, SoftFailTime
  <1> QED BY <1>1 DEF Init, LatchesFollowOutcome

LEMMA LatchStep ==
    TypeOK /\ ContradictionEarned /\ LatchesFollowOutcome /\ [Next]_vars
        => LatchesFollowOutcome'
  <1> SUFFICES ASSUME TypeOK, ContradictionEarned, LatchesFollowOutcome, [Next]_vars
               PROVE  LatchesFollowOutcome'
    OBVIOUS
  <1>1. CASE UNCHANGED vars
    BY <1>1 DEF vars, dialogue, progress, affect, outcome, LatchesFollowOutcome,
       SoftFail, BestOutcome, Recovered, PublicEscalation
  <1>2. ASSUME NEW m \in {medallion, "recovered"}, BranchTransitions(m)
        PROVE  LatchesFollowOutcome'
    <2>1. actions \subseteq actions' /\ (Recovered => Recovered')
      BY StepKeeps DEF Kept
    <2>2. clock >= SoftFailTime => clock' >= SoftFailTime
      BY ClockRuns DEF TypeOK, SoftFailTime
    <2>3. softFailed' = (softFailed \/ SoftFail')
          /\ bestAwarded' = (bestAwarded \/ BestOutcome')
      BY <1>2 DEF BranchTransitions
    <2>4. softFailed' => "wrong_accusation" \in actions' \/ clock' >= SoftFailTime
      BY <2>1, <2>2, <2>3 DEF LatchesFollowOutcome, SoftFail
    <2>5. bestAwarded' => Recovered' /\ "accuse_culprit" \in actions'
      BY <2>1, <2>3 DEF LatchesFollowOutcome, BestOutcome
    <2>6. medallion' = "left_building" => softFailed'
      <3>1. CASE m = medallion /\ medallion = "left_building"
        BY <2>3, <3>1 DEF LatchesFollowOutcome
      <3>2. CASE ~(m = medallion /\ medallion = "left_building")
        BY <1>2, <2>3, <3>2 DEF BranchTransitions, SoftFail, Recovered
      <3> QED BY <3>1, <3>2
    <2> QED BY <2>3, <2>4, <2>5, <2>6 DEF LatchesFollowOutcome
  <1> QED BY <1>1, <1>2, StepEnds

(* The latched branches agree with the outcome they were latched from.     *)
THEOREM LatchesAreTrue == Spec => []LatchesFollowOutcome
  BY TypeCorrect, ContradictionIsEarned, LatchInit, LatchStep, PTL DEF Spec

LEMMA TerminalCases ==
    Terminal <=> BestOutcome \/ SoftFail \/ RecoverySuccess \/ AccusationSuccess
  BY DEF Terminal, PrimaryOutcome

LEMMA ClosedAtDeadline == RecoveryEarned => CaseClosesByDeadline
  BY TerminalCases DEF RecoveryEarned, CaseClosesByDeadline, SoftFail, RecoverySuccess

(* From T+20 on the evaluation finds an outcome: either the medallion is   *)
(* out of reach, or it was recovered with what a recovery asks for.        *)
THEOREM CaseIsClosedByDeadline == Spec => []CaseClosesByDeadline
  BY RecoveryIsEarned, ClosedAtDeadline, PTL

LEMMA ClosedStep ==
    /\ TypeOK /\ ContradictionEarned /\ RecoveryEarned /\ RecoveryEarned'
    /\ Terminal /\ [Next]_vars
    => Terminal'
  <1> SUFFICES ASSUME TypeOK, ContradictionEarned, RecoveryEarned, RecoveryEarned',
                      Terminal, [Next]_vars
               PROVE  Terminal'
    OBVIOUS
  <1>1. Kept BY StepKeeps
  <1>2. Terminal' <=> BestOutcome' \/ SoftFail' \/ RecoverySuccess' \/ AccusationSuccess'
    BY DEF Terminal, PrimaryOutcome
  <1>3. CASE Recovered
    <2>1. RecoverySuccess'
      BY <1>1, <1>3 DEF Kept, RecoveryEarned, RecoverySuccess
    <2> QED BY <1>2, <2>1
  <1>4. CASE RecoverySuccess
    BY <1>1, <1>2, <1>4 DEF Kept, RecoverySuccess
  <1>5. CASE AccusationSuccess
    BY <1>1, <1>2, <1>5 DEF Kept, AccusationSuccess
  <1>6. CASE "wrong_accusation" \in actions
    BY <1>1, <1>2, <1>6 DEF Kept, SoftFail
  <1>7. CASE clock >= SoftFailTime
    <2>1. clock' >= SoftFailTime BY <1>7, ClockRuns DEF TypeOK, SoftFailTime
    <2>2. SoftFail' \/ RecoverySuccess'
      BY <2>1 DEF SoftFail, RecoverySuccess, RecoveryEarned
    <2> QED BY <1>2, <2>2
  <1> QED
    BY <1>3, <1>4, <1>5, <1>6, <1>7, TerminalCases DEF BestOutcome, SoftFail

(* A closed case is not opened again, whatever is called afterwards.       *)
LEMMA ClosedCaseStaysClosed == Spec => CaseStaysClosed
  <1>1. TypeOK /\ ContradictionEarned /\ RecoveryEarned /\ RecoveryEarned' /\ [Next]_vars
          => [Terminal => Terminal']_vars
    BY ClosedStep
  <1> QED
    BY <1>1, TypeCorrect, ContradictionIsEarned, RecoveryIsEarned, PTL
       DEF Spec, CaseStaysClosed

(* Nothing is taken back: neither what the player has, nor the end of the  *)
(* case.                                                                   *)
THEOREM NothingIsLost == Spec => NothingIsTakenBack
  BY NothingLearnedIsLost, ClosedCaseStaysClosed DEF NothingIsTakenBack
=============================================================================

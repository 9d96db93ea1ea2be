--------------------------- MODULE CaseViewsProofs ---------------------------
(***************************************************************************)
(* Keeping the learner's log changes nothing about the case, and what is   *)
(* shown between its beginning and its end is never ahead of what was      *)
(* learned, and true of the case; the support weakens only for a reason;   *)
(* and a FRAME_DIFF loses nothing its operations can carry: for every      *)
(* seed, difficulty, set of turns and length of log.                       *)
(***************************************************************************)
EXTENDS CaseFrames, CaseEngineProofs, FiniteSetTheorems, WellFoundedInduction

LogRows ==
    [scene : Scenes, summarises : BOOLEAN, status : Statuses,
     code : SummaryCodes, reveals : SUBSET Facts]
LearnTyped == log \in Seq(LogRows) /\ observed \subseteq Affordances

-------------------------------------------------------------------------------
(* The case is played as if nobody kept the log.                           *)

LEMMA LearnStepIsStep == ASSUME [LearnNext]_learnVars PROVE [Next]_vars
  <1>1. ASSUME NEW a \in Commands, NEW granted \in Grants, Look(a, granted) PROVE Next
    BY <1>1 DEF Look, Next
  <1>2. ASSUME NEW r \in Requests, Speak(r) PROVE Next
    BY <1>2 DEF Speak, Next
  <1>3. ASSUME Unrecorded PROVE Next
    BY <1>3 DEF Unrecorded, Next
  <1>4. CASE UNCHANGED learnVars
    BY <1>4 DEF learnVars
  <1> QED BY <1>1, <1>2, <1>3, <1>4 DEF LearnNext

(* Every run of the case with the learner's log is a run of the case.      *)
THEOREM LearningPlaysTheCase == LearnSpec => Spec
  <1>1. LearnInit => Init BY DEF LearnInit
  <1>2. [LearnNext]_learnVars => [Next]_vars BY LearnStepIsStep
  <1> QED BY <1>1, <1>2, PTL DEF LearnSpec, Spec

-------------------------------------------------------------------------------
(* The log.                                                                *)

LEMMA BoundedKeeps ==
    ASSUME NEW S, NEW rows \in Seq(S), NEW x \in S
    PROVE  /\ Bounded(Append(rows, x)) \in Seq(S)
           /\ \A i \in DOMAIN Bounded(Append(rows, x)) :
                 \/ Bounded(Append(rows, x))[i] = x
                 \/ \E j \in DOMAIN rows : Bounded(Append(rows, x))[i] = rows[j]
  <1> DEFINE more == Append(rows, x)
  <1>1. /\ more \in Seq(S) /\ Len(more) \in Nat
        /\ \A i \in DOMAIN more : more[i] = x \/ \E j \in DOMAIN rows : more[i] = rows[j]
    OBVIOUS
  <1>2. CASE Len(more) > LogCapacity
    <2> DEFINE first == Len(more) - LogCapacity + 1
    <2>1. LogCapacity \in Nat /\ first \in 1..(Len(more) + 1) /\ first \in Nat
      BY <1>1, <1>2, BoundsAssumption
    <2>2. Bounded(more) = SubSeq(more, first, Len(more))
      BY <1>2 DEF Bounded
    <2> HIDE DEF more, first
    <2>3. /\ SubSeq(more, first, Len(more)) \in Seq(S)
          /\ \A i \in DOMAIN SubSeq(more, first, Len(more)) :
                \E j \in DOMAIN more : SubSeq(more, first, Len(more))[i] = more[j]
      BY <1>1, <2>1
    <2> QED BY <1>1, <2>2, <2>3 DEF more
  <1>3. CASE ~(Len(more) > LogCapacity)
    BY <1>1, <1>3 DEF Bounded
  <1> QED BY <1>2, <1>3

LEMMA RowType == ASSUME NEW r \in Requests PROVE LogRow(r) \in LogRows
  <1>1. r.scene \in Scenes /\ Revealed(r) \subseteq Facts
    BY RequestFields, RevealedType
  <1>2. Status(r) \in Statuses
    BY DEF Status, Verdict, Statuses
  <1>3. SummaryCode(r) \in SummaryCodes
    BY DEF SummaryCode, SummaryCodes
  <1> QED BY <1>1, <1>2, <1>3 DEF LogRow, LogRows

(* What answering a command shows for: the fact it teaches, or the state   *)
(* that made it answer.                                                    *)
AnswersEarned ==
    /\ "O1.examine_surface" \in observed => "N7" \in known
    /\ "O2.examine" \in observed => Recovered
    /\ "O3.read" \in observed => "N1" \in known
    /\ ("O4.inspect" \in observed \/ ~objects.bench) /\ Seed # "B" => "E1" \in discovered
    /\ "O6.view_logs" \in observed => "N3" \in known \/ LogsWithheld
    /\ "O8.inspect" \in observed => "N2" \in known
    /\ "O9.read_receipt" \in observed => "N4" \in known
    /\ "E1" \in discovered => "N6" \in known
RevealsKnown == \A i \in DOMAIN log : log[i].reveals \subseteq known
LearnInv == LearnTyped /\ AnswersEarned /\ RevealsKnown

LEMMA LearnInitInv == LearnInit => LearnInv
  BY DEF LearnInit, Init, LearnInv, LearnTyped, AnswersEarned, RevealsKnown

LEMMA LookStep ==
    ASSUME LearnInv, SecuritySceneStaysShut, Kept, Recovered => Recovered',
           Archived => Archived', NEW a \in Commands, NEW granted \in Grants,
           Look(a, granted)
    PROVE  LearnInv'
  <1>1. a \in Affordances BY CommandsAssumption
  <1>2. known \subseteq known' /\ discovered \subseteq discovered'
    BY DEF Kept
  <1>3. observed' = observed \cup {b \in {a} : Answered(b, granted)}
    BY DEF Look
  <1>4. /\ Succeeds(a, granted) =>
             /\ FactsShown[a] \subseteq known' /\ EvidenceShown[a] \subseteq discovered'
             /\ \A e \in EvidenceShown[a] : FactOf[e] \in known'
        /\ "E1" \in discovered' => "E1" \in discovered
              \/ (Succeeds(a, granted) /\ "E1" \in EvidenceShown[a])
        /\ objects'.bench = (objects.bench /\ a # "O4.inspect")
    BY DEF Look, Investigate
  <1>5. LearnTyped'
    BY <1>1, <1>3 DEF Look, LearnInv, LearnTyped
  <1>6. RevealsKnown'
    BY <1>2 DEF Look, LearnInv, RevealsKnown
  <1>7. a = "O6.view_logs" /\ Answered(a, granted) => "N3" \in known' \/ LogsWithheld'
    <2> SUFFICES ASSUME a = "O6.view_logs", Answered(a, granted)
                 PROVE  "N3" \in known' \/ LogsWithheld'
      OBVIOUS
    <2>1. CASE Succeeds(a, granted)
      BY <1>1, <1>4, <2>1 DEF FactsShown
    <2>2. CASE ~Succeeds(a, granted)
      <3>1. Admitted(a, granted) /\ Archived
        BY <2>2 DEF Answered, Succeeds, Idle, Gives
      <3>2. "access:terminal_granted" \in Prerequisites[a]
        BY <1>1 DEF Prerequisites
      <3>3. "access:terminal_granted" \in granted \/ objects.access
        BY <3>1, <3>2 DEF Admitted, Derives
      <3> QED BY <3>1, <3>3 DEF LogsWithheld, VouchedFor, SecuritySceneStaysShut
    <2> QED BY <2>1, <2>2
  <1>8. "E1" \in discovered' => "N6" \in known'
    <2>1. FactOf["E1"] = "N6" BY DEF FactOf
    <2> QED BY <1>2, <1>4, <2>1 DEF LearnInv, AnswersEarned
  <1>9. ("O4.inspect" \in observed' \/ ~objects'.bench) /\ Seed # "B"
            => "E1" \in discovered'
    <2>1. CASE a = "O4.inspect"
      <3>1. objects.bench => Succeeds(a, granted)
        BY <1>1, <2>1 DEF Succeeds, Admitted, Gives, Prerequisites
      <3>2. Seed # "B" => "E1" \in EvidenceShown[a]
        BY <1>1, <2>1 DEF EvidenceShown
      <3> QED BY <1>2, <1>4, <3>1, <3>2 DEF LearnInv, AnswersEarned
    <2>2. CASE a # "O4.inspect"
      BY <1>2, <1>3, <1>4, <2>2 DEF LearnInv, AnswersEarned
    <2> QED BY <2>1, <2>2
  <1>10. /\ "O1.examine_surface" \in observed' => "N7" \in known'
         /\ "O3.read" \in observed' => "N1" \in known'
         /\ "O8.inspect" \in observed' => "N2" \in known'
         /\ "O9.read_receipt" \in observed' => "N4" \in known'
    <2>1. a \in {"O1.examine_surface", "O3.read", "O8.inspect", "O9.read_receipt"}
            /\ Answered(a, granted) => Succeeds(a, granted)
      BY DEF Answered, Idle, Gives
    <2>2. /\ a = "O1.examine_surface" => FactsShown[a] = {"N7"}
          /\ a = "O3.read" => FactsShown[a] = {"N1"}
          /\ a = "O8.inspect" => FactsShown[a] = {"N2"}
          /\ a = "O9.read_receipt" => FactsShown[a] = {"N4"}
      BY <1>1 DEF FactsShown
    <2> QED BY <1>2, <1>3, <1>4, <2>1, <2>2 DEF LearnInv, AnswersEarned
  <1>11. "O2.examine" \in observed' => Recovered'
    <2>1. a = "O2.examine" /\ Answered(a, granted) => Recovered
      BY DEF Answered, Idle, Succeeds, Admitted
    <2> QED BY <1>3, <2>1 DEF LearnInv, AnswersEarned
  <1>12. "O6.view_logs" \in observed' => "N3" \in known' \/ LogsWithheld'
    BY <1>2, <1>3, <1>7 DEF LearnInv, AnswersEarned, LogsWithheld
  <1>13. AnswersEarned'
    BY <1>8, <1>9, <1>10, <1>11, <1>12 DEF AnswersEarned
  <1> QED BY <1>5, <1>6, <1>13 DEF LearnInv

LEMMA SpeakStep ==
    ASSUME LearnInv, Kept, Recovered => Recovered', Archived => Archived',
           NEW r \in Requests, Speak(r)
    PROVE  LearnInv'
  <1>1. /\ known' = known \cup Revealed(r)
        /\ UNCHANGED <<discovered, objects, observed>>
        /\ log' = Bounded(Append(log, LogRow(r)))
    BY DEF Speak, DialogueTurn
  <1>2. LogRow(r) \in LogRows /\ LogRow(r).reveals = Revealed(r)
    BY RowType DEF LogRow
  <1>3. /\ log' \in Seq(LogRows)
        /\ \A i \in DOMAIN log' :
              log'[i] = LogRow(r) \/ \E j \in DOMAIN log : log'[i] = log[j]
    BY <1>1, <1>2, BoundedKeeps DEF LearnInv, LearnTyped
  <1>4. LearnTyped'
    BY <1>1, <1>3 DEF LearnInv, LearnTyped
  <1>5. RevealsKnown'
    BY <1>1, <1>2, <1>3 DEF LearnInv, RevealsKnown
  <1>6. AnswersEarned'
    BY <1>1 DEF LearnInv, AnswersEarned, LogsWithheld
  <1> QED BY <1>4, <1>5, <1>6 DEF LearnInv

LEMMA UnrecordedStep ==
    ASSUME LearnInv, Recovered => Recovered', Archived => Archived', Unrecorded
    PROVE  LearnInv'
  <1> USE DEF progress
  <1>1. UNCHANGED <<known, discovered, objects>>
    <2>1. ASSUME SubmitContradictionEdge PROVE UNCHANGED <<known, discovered, objects>>
      BY <2>1 DEF SubmitContradictionEdge
    <2>2. ASSUME NEW quiet \in BOOLEAN, AttemptRecovery(quiet)
          PROVE UNCHANGED <<known, discovered, objects>>
      BY <2>2 DEF AttemptRecovery
    <2>3. ASSUME NEW public \in BOOLEAN, AccuseCulprit(public)
          PROVE UNCHANGED <<known, discovered, objects>>
      BY <2>3 DEF AccuseCulprit
    <2>4. ASSUME NEW suspect \in Suspects, NEW public \in BOOLEAN,
                 AccuseInnocent(suspect, public)
          PROVE UNCHANGED <<known, discovered, objects>>
      BY <2>4 DEF AccuseInnocent
    <2>5. ASSUME NEW t \in Instants, AdvanceTo(t)
          PROVE UNCHANGED <<known, discovered, objects>>
      BY <2>5 DEF AdvanceTo
    <2> QED BY <2>1, <2>2, <2>3, <2>4, <2>5 DEF Unrecorded
  <1>2. UNCHANGED <<log, active, observed>> BY DEF Unrecorded
  <1> QED
    BY <1>1, <1>2 DEF LearnInv, LearnTyped, AnswersEarned, RevealsKnown, LogsWithheld

LEMMA LearnStepInv ==
    /\ LearnInv /\ TypeOK /\ SecuritySceneStaysShut /\ ContradictionEarned
    /\ [LearnNext]_learnVars
    => LearnInv'
  <1> SUFFICES ASSUME LearnInv, TypeOK, SecuritySceneStaysShut, ContradictionEarned,
                      [LearnNext]_learnVars
               PROVE  LearnInv'
    OBVIOUS
  <1>1. [Next]_vars BY LearnStepIsStep
  <1>a. Archived => Archived'
    BY <1>1, ClockRuns DEF Archived, ArchiveTime, TypeOK
  <1>2. Kept /\ (Recovered => Recovered') /\ (Archived => Archived')
    BY <1>1, <1>a, StepKeeps, RecoveredStays
  <1>3. CASE UNCHANGED learnVars
    BY <1>3, <1>2 DEF learnVars, vars, progress, LearnInv, LearnTyped, AnswersEarned,
                RevealsKnown, LogsWithheld
  <1>4. ASSUME NEW a \in Commands, NEW granted \in Grants, Look(a, granted)
        PROVE  LearnInv'
    BY <1>2, <1>4, LookStep
  <1>5. ASSUME NEW r \in Requests, Speak(r) PROVE LearnInv'
    BY <1>2, <1>5, SpeakStep
  <1>6. ASSUME Unrecorded PROVE LearnInv'
    BY <1>2, <1>6, UnrecordedStep
  <1> QED BY <1>3, <1>4, <1>5, <1>6 DEF LearnNext

LEMMA LearnHolds == LearnSpec => []LearnInv
  BY LearnInitInv, LearnStepInv, LearningPlaysTheCase, TypeCorrect,
     SecuritySceneIsUnreachable, ContradictionIsEarned, PTL DEF LearnSpec

-------------------------------------------------------------------------------
(* What is shown.                                                          *)

LEMMA ShownFollows == ASSUME LearnInv PROVE NothingShownUnearned
  <1>1. UNION {log[i].reveals : i \in DOMAIN log} \subseteq known
    BY DEF LearnInv, RevealsKnown
  <1>2. ASSUME NEW s \in Scenes PROVE VisibleLearning.summaries[s].keys \subseteq known
    BY DEF VisibleLearning, KeysShown
  <1>3. ASSUME NEW f \in KnownState \cap DOMAIN FactInField
        PROVE FactInField[f] \in known \cup {n \in {"N3"} : LogsWithheld}
    BY DEF KnownState, FieldSources, FactInField, LearnInv, AnswersEarned
  <1>4. "medallion" \in KnownState => Recovered
    BY DEF KnownState, FieldSources, LearnInv, AnswersEarned
  <1>5. FactsTold \subseteq known \cup {n \in {"N3"} : LogsWithheld}
    BY <1>1, <1>2, <1>3 DEF FactsTold, VisibleInvestigation
  <1> QED BY <1>4, <1>5 DEF NothingShownUnearned, VisibleInvestigation

(* No projection tells the player a fact before it is known, but for the   *)
(* archived logs, nor describes the medallion before it is recovered.      *)
THEOREM NothingIsShownUnearned == LearnSpec => []NothingShownUnearned
  BY LearnHolds, ShownFollows, PTL

LEMMA MinigamesFollow == ASSUME LearnInv PROVE MinigamesShownTrue
  <1> SUFFICES ASSUME NEW g \in Minigames
               PROVE  /\ MinigameStatus(g) = "completed" =>
                           [MG1 |-> "N1", MG2 |-> "N3", MG3 |-> "N4", MG4 |-> "N6"][g]
                              \in known
                      /\ MinigameStatus(g) = "needs_retry" =>
                           \/ g = "MG4" /\ Seed = "B" /\ "N6" \notin known
                           \/ g = "MG2" /\ LogsWithheld /\ "N3" \notin known
    BY DEF MinigamesShownTrue, VisibleLearning
  <1> USE DEF LearnInv, AnswersEarned, MinigameStatus, Solved, Attempted, GateIsOpen
  <1>1. CASE g = "MG1" BY <1>1
  <1>2. CASE g = "MG2" BY <1>2
  <1>3. CASE g = "MG3" BY <1>3
  <1>4. CASE g = "MG4" BY <1>4
  <1> QED BY <1>1, <1>2, <1>3, <1>4 DEF Minigames

(* A minigame shown as solved has taught its fact; the only ones ever      *)
(* shown as to be tried again are the torn note's, on the seed that has    *)
(* none, and that of the archived logs, if somebody vouched for them.      *)
THEOREM MinigamesAreShownTrue == LearnSpec => []MinigamesShownTrue
  BY LearnHolds, MinigamesFollow, PTL

-------------------------------------------------------------------------------
(* Frames.  The operations that upsert or set are right for any two        *)
(* states.  Those that only add rest on the case itself: what was learned  *)
(* stays learned, and a turn is logged once, under an index of its own,    *)
(* and never rewritten.                                                    *)

IsFcn(f) == f = [k \in DOMAIN f |-> f[k]]

-------------------------------------------------------------------------------
(* The operations, for any two values.                                     *)

LEMMA UpsertsCarry ==
    ASSUME NEW old, NEW new, DOMAIN old = DOMAIN new, IsFcn(new)
    PROVE  Merged(old, Upserts(old, new)) = new
  <1> DEFINE got == Merged(old, Upserts(old, new))
  <1>1. DOMAIN Upserts(old, new) = {k \in DOMAIN new : old[k] # new[k]}
    BY DEF Upserts
  <1>2. got = [k \in DOMAIN new |-> got[k]]
    BY <1>1 DEF Merged
  <1>3. ASSUME NEW k \in DOMAIN new PROVE got[k] = new[k]
    BY <1>1 DEF Merged, Upserts
  <1> HIDE DEF got
  <1>4. got = [k \in DOMAIN new |-> new[k]] BY <1>2, <1>3
  <1> QED BY <1>4 DEF IsFcn, got

LEMMA ChangeCarries ==
    ASSUME NEW old, NEW new PROVE Taken(old, Changed(old, new)) = new
  <1>1. CASE old = new
    <2>1. Changed(old, new) = {} BY <1>1 DEF Changed
    <2> QED BY <1>1, <2>1 DEF Taken
  <1>2. CASE old # new
    <2>1. Changed(old, new) = {new} BY <1>2 DEF Changed
    <2> QED BY <2>1 DEF Taken
  <1> QED BY <1>1, <1>2

LEMMA AppendsCarry ==
    ASSUME NEW old, NEW new, IsFcn(new),
           \A k \in DOMAIN old \cap DOMAIN new : old[k] = new[k],
           NEW got, got = Merged(AppendedTurns(old, new), old)
    PROVE  [k \in DOMAIN got \cap DOMAIN new |-> got[k]] = new
  <1>1. DOMAIN AppendedTurns(old, new) = DOMAIN new \ DOMAIN old
    BY DEF AppendedTurns
  <1>2. DOMAIN got \cap DOMAIN new = DOMAIN new
    BY <1>1 DEF Merged
  <1>3. ASSUME NEW k \in DOMAIN new PROVE got[k] = new[k]
    BY <1>1 DEF Merged, AppendedTurns
  <1>4. [k \in DOMAIN got \cap DOMAIN new |-> got[k]] = [k \in DOMAIN new |-> new[k]]
    BY <1>2, <1>3
  <1> QED BY <1>4 DEF IsFcn

-------------------------------------------------------------------------------
(* The log under the turns' indices.                                       *)

LogFits == turns \in Nat /\ Len(log) <= turns /\ Len(log) <= LogCapacity
FramesInv == LearnInv /\ LogFits

(* What is left of a log that one turn was appended to, by index.          *)
LEMMA BoundedShifts ==
    ASSUME NEW S, NEW rows \in Seq(S), NEW x \in S, Len(rows) <= LogCapacity
    PROVE  /\ Len(Bounded(Append(rows, x))) <= LogCapacity
           /\ Len(Bounded(Append(rows, x))) <= Len(rows) + 1
           /\ Len(Bounded(Append(rows, x))) \in Nat
           /\ \A i \in 1..Len(Bounded(Append(rows, x))) :
                 LET j == i + Len(rows) + 1 - Len(Bounded(Append(rows, x)))
                 IN  j \in 1..Len(rows) => Bounded(Append(rows, x))[i] = rows[j]
  <1> DEFINE more == Append(rows, x)
  <1>1. /\ more \in Seq(S) /\ Len(rows) \in Nat /\ Len(more) = Len(rows) + 1
        /\ \A j \in 1..Len(rows) : more[j] = rows[j]
    OBVIOUS
  <1>2. LogCapacity \in Nat BY BoundsAssumption
  <1>3. CASE Len(more) > LogCapacity
    <2> DEFINE first == Len(more) - LogCapacity + 1
    <2>1. first \in 1..(Len(more) + 1) BY <1>1, <1>2, <1>3
    <2>2. Bounded(more) = SubSeq(more, first, Len(more)) BY <1>3 DEF Bounded
    <2> HIDE DEF more
    <2>3. /\ Len(SubSeq(more, first, Len(more))) = LogCapacity
          /\ \A i \in 1..LogCapacity :
                SubSeq(more, first, Len(more))[i] = more[first + i - 1]
      BY <1>1, <1>2, <1>3, <2>1
    <2>4. /\ Len(Bounded(more)) = LogCapacity /\ Len(rows) = LogCapacity
          /\ \A i \in 1..LogCapacity : Bounded(more)[i] = more[i + 1]
      BY <1>1, <1>2, <1>3, <2>2, <2>3
    <2> HIDE DEF first
    <2> QED BY <1>1, <1>2, <2>4 DEF more
  <1>4. CASE ~(Len(more) > LogCapacity)
    <2>1. Bounded(more) = more BY <1>4 DEF Bounded
    <2> HIDE DEF more
    <2> QED BY <1>1, <1>2, <1>4, <2>1 DEF more
  <1> QED BY <1>3, <1>4

LEMMA FramesInitInv == LearnInit => FramesInv
  BY LearnInitInv, BoundsAssumption DEF LearnInit, Init, FramesInv, LogFits

LEMMA TurnMoves ==
    ASSUME FramesInv, NEW r \in Requests, Speak(r)
    PROVE  /\ turns' = turns + 1 /\ LogRow(r) \in LogRows
           /\ log' = Bounded(Append(log, LogRow(r))) /\ log \in Seq(LogRows)
           /\ Len(log) <= LogCapacity
  BY RowType DEF Speak, DialogueTurn, FramesInv, LogFits, LearnInv, LearnTyped

(* Whatever does not speak leaves the log and the turn index alone.        *)
LEMMA OthersLeaveTheLog ==
    ASSUME [LearnNext]_learnVars, \A r \in Requests : ~Speak(r)
    PROVE  UNCHANGED <<log, turns>>
  <1> USE DEF dialogue, progress
  <1>1. ASSUME NEW a \in Commands, NEW granted \in Grants, Look(a, granted)
        PROVE  UNCHANGED <<log, turns>>
    BY <1>1 DEF Look, Investigate
  <1>2. ASSUME Unrecorded PROVE UNCHANGED <<log, turns>>
    <2>1. UNCHANGED log BY <1>2 DEF Unrecorded
    <2>2. CASE SubmitContradictionEdge BY <2>1, <2>2 DEF SubmitContradictionEdge
    <2>3. ASSUME NEW quiet \in BOOLEAN, AttemptRecovery(quiet)
          PROVE  UNCHANGED <<log, turns>>
      BY <2>1, <2>3 DEF AttemptRecovery
    <2>4. ASSUME NEW public \in BOOLEAN, AccuseCulprit(public)
          PROVE  UNCHANGED <<log, turns>>
      BY <2>1, <2>4 DEF AccuseCulprit
    <2>5. ASSUME NEW suspect \in Suspects, NEW public \in BOOLEAN,
                 AccuseInnocent(suspect, public)
          PROVE  UNCHANGED <<log, turns>>
      BY <2>1, <2>5 DEF AccuseInnocent
    <2>6. ASSUME NEW t \in Instants, AdvanceTo(t) PROVE UNCHANGED <<log, turns>>
      BY <2>1, <2>6 DEF AdvanceTo
    <2> QED BY <1>2, <2>2, <2>3, <2>4, <2>5, <2>6 DEF Unrecorded
  <1>3. CASE UNCHANGED learnVars BY <1>3 DEF learnVars, vars
  <1> QED BY <1>1, <1>2, <1>3 DEF LearnNext

LEMMA LogFitsStep ==
    ASSUME FramesInv, [LearnNext]_learnVars PROVE LogFits'
  <1>1. ASSUME NEW r \in Requests, Speak(r) PROVE LogFits'
    <2>1. /\ Len(log') <= LogCapacity /\ Len(log') <= Len(log) + 1
          /\ Len(log') \in Nat
      BY <1>1, TurnMoves, BoundedShifts
    <2>2. Len(log) \in Nat BY <1>1, TurnMoves
    <2> QED BY <1>1, <2>1, <2>2, TurnMoves DEF FramesInv, LogFits
  <1>2. CASE \A r \in Requests : ~Speak(r)
    BY <1>2, OthersLeaveTheLog DEF FramesInv, LogFits
  <1> QED BY <1>1, <1>2

(* A turn that both states show is the same turn in both.                  *)
TurnsStand ==
    \A k \in TurnIndices \cap TurnIndices' : VisibleTurns[k] = VisibleTurns'[k]

LEMMA RowUntouched ==
    ASSUME NEW row \in LogRows, NEW S, row.reveals \subseteq S
    PROVE  [row EXCEPT !.reveals = @ \cap S] = row
  <1>1. row.reveals \cap S = row.reveals OBVIOUS
  <1> QED BY <1>1 DEF LogRows

LEMMA TurnsStandStep ==
    ASSUME FramesInv, FramesInv', [LearnNext]_learnVars PROVE TurnsStand
  <1> SUFFICES ASSUME NEW k \in TurnIndices \cap TurnIndices'
               PROVE  VisibleTurns[k] = VisibleTurns'[k]
    BY DEF TurnsStand
  <1> DEFINE j == k - turns + Len(log)
             i == k - turns' + Len(log')
  <1>1. /\ log \in Seq(LogRows) /\ log' \in Seq(LogRows) /\ turns \in Nat /\ turns' \in Nat
        /\ Len(log) \in Nat /\ Len(log') \in Nat
    BY DEF FramesInv, LearnInv, LearnTyped, LogFits
  <1>2. k \in Int /\ j \in 1..Len(log) /\ i \in 1..Len(log')
    BY <1>1 DEF TurnIndices
  <1>3. log[j] = log'[i]
    <2>1. ASSUME NEW r \in Requests, Speak(r) PROVE log[j] = log'[i]
      <3>1. turns' = turns + 1 BY <2>1, TurnMoves
      <3>2. j = i + Len(log) + 1 - Len(log')
        BY <1>1, <1>2, <3>1
      <3> HIDE DEF i, j
      <3>3. \A n \in 1..Len(log') :
               n + Len(log) + 1 - Len(log') \in 1..Len(log) =>
                  log'[n] = log[n + Len(log) + 1 - Len(log')]
        <4>1. /\ LogRow(r) \in LogRows /\ log' = Bounded(Append(log, LogRow(r)))
              /\ log \in Seq(LogRows) /\ Len(log) <= LogCapacity
          BY <2>1, TurnMoves
        <4> QED BY <4>1, BoundedShifts
      <3> QED BY <1>2, <3>2, <3>3
    <2>2. CASE \A r \in Requests : ~Speak(r)
      BY <2>2, OthersLeaveTheLog
    <2> QED BY <2>1, <2>2
  <1> HIDE DEF i, j
  <1>4. /\ log[j] \in LogRows /\ log[j].reveals \subseteq known
        /\ log'[i] \in LogRows /\ log'[i].reveals \subseteq known'
    BY <1>1, <1>2 DEF FramesInv, LearnInv, RevealsKnown
  <1>5. VisibleTurns[k] = [log[j] EXCEPT !.reveals = @ \cap known]
    BY DEF VisibleTurns, j
  <1>6. VisibleTurns'[k] = [log'[i] EXCEPT !.reveals = @ \cap known']
    BY DEF VisibleTurns, i
  <1> QED BY <1>3, <1>4, <1>5, <1>6, RowUntouched

-------------------------------------------------------------------------------
(* The frame.                                                              *)

(* An outcome that did not change is not replaced, but has its status set  *)
(* to the one it had.                                                      *)
LEMMA OutcomeCarries ==
    ASSUME NEW told, NEW next, IsFcn(told), "available" \in DOMAIN told
    PROVE  Taken([told EXCEPT !.available =
                     Taken(@, Changed(told.available, next.available))],
                 Changed(told, next)) = next
  <1>1. CASE told = next
    <2>1. Taken(told.available, Changed(told.available, next.available)) = told.available
      BY <1>1, ChangeCarries
    <2>2. [told EXCEPT !.available = told.available] = told BY DEF IsFcn
    <2>3. Changed(told, next) = {} BY <1>1 DEF Changed
    <2> QED BY <1>1, <2>1, <2>2, <2>3 DEF Taken
  <1>2. CASE told # next
    <2>1. Changed(told, next) = {next} BY <1>2 DEF Changed
    <2> QED BY <2>1 DEF Taken
  <1> QED BY <1>1, <1>2

PartsAreTables ==
    /\ IsFcn(Recap) /\ "available" \in DOMAIN Recap
    /\ IsFcn(VisiblePeople) /\ DOMAIN VisiblePeople = Npcs
    /\ IsFcn(VisibleObjects) /\ DOMAIN VisibleObjects = DOMAIN AffordancesOf
    /\ IsFcn(VisibleTurns) /\ DOMAIN VisibleTurns = TurnIndices
    /\ IsFcn(VisibleLearning.minigames) /\ DOMAIN VisibleLearning.minigames = Minigames

LEMMA PartsStayTables == PartsAreTables /\ PartsAreTables'
  BY DEF PartsAreTables, IsFcn, Recap, VisiblePeople, VisibleObjects, VisibleTurns,
         VisibleLearning

LEMMA FrameCarries ==
    ASSUME TypeOK, TypeOK', Kept, TurnsStand
    PROVE  Carried(ChannelState, ChannelState')
  <1> DEFINE from == ChannelState
             to == ChannelState'
             got == Converted(from, FrameOps(from, to))
             shown == [k \in DOMAIN got.turns \cap DOMAIN to.turns |-> got.turns[k]]
  <1>0. PartsAreTables /\ PartsAreTables' BY PartsStayTables
  <1>1. /\ got.npcs = to.npcs /\ got.objects = to.objects
        /\ got.completion = to.completion /\ got.minigames = to.minigames
    <2>1. got.npcs = to.npcs
      <3>1. Merged(VisiblePeople, Upserts(VisiblePeople, VisiblePeople')) = VisiblePeople'
        BY <1>0, UpsertsCarry DEF PartsAreTables
      <3> QED BY <3>1 DEF Converted, FrameOps, ChannelState
    <2>2. got.objects = to.objects
      <3>1. Merged(VisibleObjects, Upserts(VisibleObjects, VisibleObjects'))
               = VisibleObjects'
        BY <1>0, UpsertsCarry DEF PartsAreTables
      <3> QED BY <3>1 DEF Converted, FrameOps, ChannelState
    <2>3. got.completion = to.completion
      <3>1. /\ DOMAIN completion = Scenes /\ IsFcn(completion)
            /\ DOMAIN completion' = Scenes /\ IsFcn(completion')
        BY DEF TypeOK, IsFcn
      <3>2. Merged(completion, Upserts(completion, completion')) = completion'
        BY <3>1, UpsertsCarry
      <3> QED BY <3>2 DEF Converted, FrameOps, ChannelState
    <2>4. got.minigames = to.minigames
      <3> DEFINE old == VisibleLearning.minigames
                 new == VisibleLearning'.minigames
      <3>1. /\ DOMAIN old = Minigames /\ DOMAIN new = Minigames /\ IsFcn(new)
        BY <1>0 DEF PartsAreTables
      <3>2. Merged(old, Upserts(old, new)) = new
        BY <3>1, UpsertsCarry
      <3> QED BY <3>2 DEF Converted, FrameOps, ChannelState
    <2> QED BY <2>1, <2>2, <2>3, <2>4
  <1>2. /\ got.discovered = to.discovered /\ got.collected = to.collected
        /\ got.facts = to.facts
    <2>1. /\ got.discovered = discovered \cup (discovered' \ discovered)
          /\ got.collected = collected \cup (collected' \ collected)
          /\ got.facts = known \cup (known' \ known)
      BY DEF Converted, FrameOps, ChannelState
    <2>2. /\ to.discovered = discovered' /\ to.collected = collected'
          /\ to.facts = known'
      BY DEF ChannelState
    <2>3. discovered \subseteq discovered' /\ collected \subseteq collected'
            /\ known \subseteq known'
      BY DEF Kept
    <2> HIDE DEF from, to, got
    <2> QED BY <2>1, <2>2, <2>3
  <1>3. got.unlockable = to.unlockable
    <2>1. got.unlockable = (from.unlockable \cup (to.unlockable \ from.unlockable))
                              \ (from.unlockable \ to.unlockable)
      BY DEF Converted, FrameOps
    <2> HIDE DEF from, to, got
    <2> QED BY <2>1
  <1>4. got.active = to.active /\ got.rank = to.rank
    <2>1. /\ Taken(active, Changed(active, active')) = active'
          /\ Taken(VisibleLearning.rank, Changed(VisibleLearning.rank, VisibleLearning'.rank))
                = VisibleLearning'.rank
      BY ChangeCarries
    <2> QED BY <2>1 DEF Converted, FrameOps, ChannelState
  <1>5. got.summary = to.summary /\ got.recap = to.recap
    <2>1. /\ got.summary = Taken(from.summary, Changed(from.summary, to.summary))
          /\ got.recap = Taken(from.recap, Changed(from.recap, to.recap))
      BY DEF Converted, FrameOps
    <2> HIDE DEF from, to, got
    <2> QED BY <2>1, ChangeCarries
  <1>6. got.outcome = to.outcome /\ shown = to.turns
    <2>1. got.outcome = to.outcome
      <3>1. Taken([Recap EXCEPT !.available =
                      Taken(@, Changed(Recap.available, Recap'.available))],
                  Changed(Recap, Recap')) = Recap'
        BY <1>0, OutcomeCarries DEF PartsAreTables
      <3> QED BY <3>1 DEF Converted, FrameOps, ChannelState
    <2>2. shown = to.turns
      <3>1. \A k \in DOMAIN VisibleTurns \cap DOMAIN VisibleTurns' :
               VisibleTurns[k] = VisibleTurns'[k]
        BY <1>0 DEF PartsAreTables, TurnsStand
      <3> DEFINE all == Merged(AppendedTurns(VisibleTurns, VisibleTurns'), VisibleTurns)
      <3>2. got.turns = all /\ to.turns = VisibleTurns'
        BY DEF Converted, FrameOps, ChannelState
      <3>3. IsFcn(VisibleTurns') BY <1>0 DEF PartsAreTables
      <3>4. [k \in DOMAIN all \cap DOMAIN VisibleTurns' |-> all[k]] = VisibleTurns'
        <4>1. \A val : val = all =>
                 [k \in DOMAIN val \cap DOMAIN VisibleTurns' |-> val[k]] = VisibleTurns'
          BY <3>1, <3>3, AppendsCarry
        <4> QED BY <4>1
      <3> HIDE DEF got, to, from, all
      <3> QED BY <3>2, <3>4
    <2> QED BY <2>1, <2>2
  <1>7. [got EXCEPT !.turns = shown] = to
    <2>1. got = [npcs |-> got.npcs, discovered |-> got.discovered,
                 collected |-> got.collected, facts |-> got.facts,
                 objects |-> got.objects, unlockable |-> got.unlockable,
                 active |-> got.active, completion |-> got.completion,
                 turns |-> got.turns, rank |-> got.rank, minigames |-> got.minigames,
                 summary |-> got.summary, outcome |-> got.outcome, recap |-> got.recap]
      BY DEF Converted
    <2>2. to = [npcs |-> to.npcs, discovered |-> to.discovered,
                collected |-> to.collected, facts |-> to.facts,
                objects |-> to.objects, unlockable |-> to.unlockable,
                active |-> to.active, completion |-> to.completion,
                turns |-> to.turns, rank |-> to.rank, minigames |-> to.minigames,
                summary |-> to.summary, outcome |-> to.outcome, recap |-> to.recap]
      BY DEF ChannelState
    <2> HIDE DEF got, to, from, shown
    <2> QED BY <1>1, <1>2, <1>3, <1>4, <1>5, <1>6, <2>1, <2>2
  <1> QED BY <1>7 DEF Carried

LEMMA FramesStepInv ==
    ASSUME FramesInv, FramesInv', TypeOK, TypeOK', ContradictionEarned,
           [LearnNext]_learnVars
    PROVE  Carried(ChannelState, ChannelState')
  BY LearnStepIsStep, StepKeeps, TurnsStandStep, FrameCarries

LEMMA FramesHold == LearnSpec => []FramesInv
  <1>1. FramesInv /\ LearnInv' /\ [LearnNext]_learnVars => FramesInv'
    BY LogFitsStep DEF FramesInv
  <1> QED BY <1>1, FramesInitInv, LearnHolds, PTL DEF LearnSpec

(* A client that applies every frame has, after each, the case as the      *)
(* projections show it, in everything the operations can carry: no fact,   *)
(* clue, turn, scene, rank or outcome is missed, none is left over.        *)
THEOREM FramesArriveWhole == LearnSpec => FramesCarryTheCase
  <1>1. FramesInv /\ FramesInv' /\ TypeOK /\ TypeOK' /\ ContradictionEarned
          /\ [LearnNext]_learnVars
          => [\A from \in {ChannelState}, to \in {ChannelState'} :
                 Carried(from, to)]_learnVars
    BY FramesStepInv
  <1> QED
    BY <1>1, FramesHold, LearningPlaysTheCase, TypeCorrect, ContradictionIsEarned, PTL
       DEF LearnSpec, FramesCarryTheCase

-------------------------------------------------------------------------------
(* The summaries.  A pass is the last word on its scene: the scene is over *)
(* with it, and a turn in a scene that is over enters nothing, so that it  *)
(* is not judged as a summary.                                             *)

PassedRows == {i \in DOMAIN log : log[i].code = "summary_passed"}
LogIsFull == Len(log) = IF turns < LogCapacity THEN turns ELSE LogCapacity
PassesCounted == passes = {turns - Len(log) + i : i \in PassedRows}
PassesAreLast ==
    \A i \in PassedRows :
        /\ completion[log[i].scene] = "completed"
        /\ \A j \in DOMAIN log :
              j > i /\ log[j].scene = log[i].scene => log[j].code = "none"
CompletedPassed ==
    \A s \in Scenes : completion[s] = "completed" =>
        turns > LogCapacity \/ \E i \in PassedRows : log[i].scene = s
ActiveIsPlayed ==
    active # "none" => active \in Scenes /\ completion[active] = "in_progress"
SummaryInv ==
    /\ LogIsFull /\ PassesCounted /\ PassesAreLast /\ CompletedPassed /\ ActiveIsPlayed

(* What a turn appended to the log leaves of it: the rows move down by the *)
(* number of those that fell out.                                          *)
Dropped == Len(log) + 1 - Len(log')
Moved(row) ==
    \A i \in 1..Len(log') :
        log'[i] = IF i + Dropped = Len(log) + 1 THEN row ELSE log[i + Dropped]

LEMMA AppendMoves ==
    ASSUME NEW S, NEW rows \in Seq(S), NEW x \in S, Len(rows) <= LogCapacity
    PROVE  /\ Len(Bounded(Append(rows, x))) =
                 IF Len(rows) < LogCapacity THEN Len(rows) + 1 ELSE LogCapacity
           /\ \A i \in 1..Len(Bounded(Append(rows, x))) :
                 LET j == i + (Len(rows) + 1 - Len(Bounded(Append(rows, x))))
                 IN  Bounded(Append(rows, x))[i] =
                        IF j = Len(rows) + 1 THEN x ELSE rows[j]
  <1> DEFINE more == Append(rows, x)
  <1>1. /\ more \in Seq(S) /\ Len(rows) \in Nat /\ Len(more) = Len(rows) + 1
        /\ \A j \in 1..(Len(rows) + 1) :
              more[j] = IF j = Len(rows) + 1 THEN x ELSE rows[j]
    OBVIOUS
  <1>2. LogCapacity \in Nat BY BoundsAssumption
  <1>3. CASE Len(more) > LogCapacity
    <2> DEFINE first == Len(more) - LogCapacity + 1
    <2>1. first \in 1..(Len(more) + 1) BY <1>1, <1>2, <1>3
    <2>2. Bounded(more) = SubSeq(more, first, Len(more)) BY <1>3 DEF Bounded
    <2> HIDE DEF more
    <2>3. /\ Len(SubSeq(more, first, Len(more))) = LogCapacity
          /\ \A i \in 1..LogCapacity :
                SubSeq(more, first, Len(more))[i] = more[first + i - 1]
      BY <1>1, <1>2, <1>3, <2>1
    <2>4. /\ Len(Bounded(more)) = LogCapacity /\ Len(rows) = LogCapacity
          /\ \A i \in 1..LogCapacity : Bounded(more)[i] = more[i + 1]
      BY <1>1, <1>2, <1>3, <2>2, <2>3
    <2> HIDE DEF first
    <2> QED BY <1>1, <1>2, <2>4 DEF more
  <1>4. CASE ~(Len(more) > LogCapacity)
    <2>1. Bounded(more) = more BY <1>4 DEF Bounded
    <2> HIDE DEF more
    <2> QED BY <1>1, <1>2, <1>4, <2>1 DEF more
  <1> QED BY <1>3, <1>4

(* What a turn does to the log and to the scenes.                          *)
LEMMA SpokenTurn ==
    ASSUME FramesInv, LogIsFull, NEW r \in Requests, Speak(r)
    PROVE  /\ turns \in Nat /\ turns' = turns + 1 /\ LogCapacity \in Nat
           /\ log \in Seq(LogRows) /\ log' \in Seq(LogRows)
           /\ Len(log) \in Nat /\ Len(log') \in Nat
           /\ LogIsFull' /\ Dropped \in {0, 1}
           /\ Dropped = 1 <=> Len(log) = LogCapacity
           /\ Moved(LogRow(r)) /\ LogRow(r).scene = r.scene
  <1>1. /\ turns' = turns + 1 /\ LogRow(r) \in LogRows
        /\ log' = Bounded(Append(log, LogRow(r))) /\ log \in Seq(LogRows)
        /\ Len(log) <= LogCapacity /\ turns \in Nat
    BY TurnMoves DEF FramesInv, LogFits
  <1>2. /\ Len(log') = IF Len(log) < LogCapacity THEN Len(log) + 1 ELSE LogCapacity
        /\ \A i \in 1..Len(log') :
              log'[i] = IF i + (Len(log) + 1 - Len(log')) = Len(log) + 1
                        THEN LogRow(r) ELSE log[i + (Len(log) + 1 - Len(log'))]
    BY <1>1, AppendMoves
  <1>3. LogCapacity \in Nat /\ Len(log) \in Nat
    BY <1>1, BoundsAssumption
  <1>4. log' \in Seq(LogRows)
    BY <1>1, BoundedKeeps
  <1>5. Moved(LogRow(r))
    BY <1>2 DEF Moved, Dropped
  <1>6. LogRow(r).scene = r.scene
    BY DEF LogRow
  <1> QED BY <1>1, <1>2, <1>3, <1>4, <1>5, <1>6 DEF LogIsFull, Dropped

LEMMA CodePassed ==
    ASSUME NEW r \in Requests
    PROVE  /\ LogRow(r).code = "summary_passed" <=> Completes(r)
           /\ ~Enters(r) => LogRow(r).code = "none" /\ ~Completes(r)
           /\ completion[r.scene] = "completed" => ~Enters(r)
  <1>1. LogRow(r).code = SummaryCode(r) BY DEF LogRow
  <1>2. ~Enters(r) => Verdict(r) = "not_entered" BY DEF Verdict
  <1>3. Verdict(r) = "not_entered" => ~Completes(r) BY DEF Completes, Accepted
  <1>4. SummaryCode(r) = "summary_passed" <=> Completes(r)
    <2>1. Completes(r) => SummaryCode(r) = "summary_passed" BY DEF SummaryCode, Completes, Accepted
    <2>2. ~Completes(r) => SummaryCode(r) # "summary_passed" BY DEF SummaryCode
    <2> QED BY <2>1, <2>2
  <1>5. Verdict(r) = "not_entered" => SummaryCode(r) = "none"
    BY <1>3 DEF SummaryCode
  <1>6. completion[r.scene] = "completed" => ~Enters(r) BY DEF Enters
  <1> QED BY <1>1, <1>2, <1>3, <1>4, <1>5, <1>6

(* A row of the log after a turn is the turn's, or one the log had before.  *)
LEMMA RowsAfter ==
    ASSUME FramesInv, LogIsFull, NEW r \in Requests, Speak(r), NEW i \in DOMAIN log'
    PROVE  /\ i \in Nat /\ i + Dropped \in 1..(Len(log) + 1)
           /\ i + Dropped = Len(log) + 1 => log'[i] = LogRow(r)
           /\ i + Dropped # Len(log) + 1 =>
                 i + Dropped \in DOMAIN log /\ log'[i] = log[i + Dropped]
  <1>1. /\ log' \in Seq(LogRows) /\ log \in Seq(LogRows)
        /\ Len(log) \in Nat /\ Len(log') \in Nat /\ Dropped \in {0, 1} /\ Moved(LogRow(r))
    BY SpokenTurn
  <1>2. i \in 1..Len(log') BY <1>1
  <1> QED BY <1>1, <1>2 DEF Moved, Dropped

LEMMA PassesCountedStep ==
    ASSUME FramesInv, LogIsFull, PassesCounted, NEW r \in Requests, Speak(r)
    PROVE  PassesCounted'
  <1>1. passes' = {t \in passes \cup {u \in {turns'} : Completes(r)} :
                      t > turns' - LogCapacity}
    BY DEF Speak, DialogueTurn
  <1>2. /\ turns \in Nat /\ turns' = turns + 1 /\ LogCapacity \in Nat
        /\ log \in Seq(LogRows) /\ log' \in Seq(LogRows)
        /\ Len(log) \in Nat /\ Len(log') \in Nat
        /\ LogIsFull' /\ Dropped \in {0, 1} /\ Moved(LogRow(r))
    BY SpokenTurn
  <1>3. LogRow(r).code = "summary_passed" <=> Completes(r)
    BY CodePassed
  <1>4. DOMAIN log = 1..Len(log) /\ DOMAIN log' = 1..Len(log')
    BY <1>2
  <1>5. Dropped = Len(log) + 1 - Len(log') BY DEF Dropped
  <1>6. ASSUME NEW t \in passes' PROVE \E i \in PassedRows' : t = turns' - Len(log') + i
    <2>1. CASE t \in passes
      <3>1. PICK j \in PassedRows : t = turns - Len(log) + j
        BY <2>1 DEF PassesCounted
      <3>2. j \in 1..Len(log) /\ log[j].code = "summary_passed"
        BY <1>4, <3>1 DEF PassedRows
      <3>3. t > turns' - LogCapacity BY <1>1
      <3>4. j - Dropped \in 1..Len(log')
        BY <1>2, <1>5, <3>1, <3>2, <3>3 DEF LogIsFull
      <3>5. log'[j - Dropped] = log[j]
        <4>1. \A i \in 1..Len(log') :
                 log'[i] = IF i + Dropped = Len(log) + 1 THEN LogRow(r) ELSE log[i + Dropped]
          BY <1>2 DEF Moved
        <4>2. (j - Dropped) + Dropped = j /\ j # Len(log) + 1
          BY <1>2, <3>2
        <4> QED BY <3>4, <4>1, <4>2
      <3>6. t = turns' - Len(log') + (j - Dropped)
        BY <1>2, <1>5, <3>1, <3>2
      <3> QED BY <1>4, <3>2, <3>4, <3>5, <3>6 DEF PassedRows
    <2>2. CASE t = turns' /\ Completes(r)
      <3>1. t > turns' - LogCapacity BY <1>1
      <3>2. Len(log') \in 1..Len(log') /\ Len(log') + Dropped = Len(log) + 1
        BY <1>2, <1>5, <2>2, <3>1 DEF LogIsFull
      <3>3. log'[Len(log')].code = "summary_passed"
        BY <1>2, <1>3, <2>2, <3>2 DEF Moved
      <3>4. t = turns' - Len(log') + Len(log') BY <1>2, <2>2
      <3> QED BY <1>4, <3>2, <3>3, <3>4 DEF PassedRows
    <2> QED BY <1>1, <2>1, <2>2
  <1>7. ASSUME NEW i \in PassedRows' PROVE turns' - Len(log') + i \in passes'
    <2> DEFINE t == turns' - Len(log') + i
    <2>1. i \in 1..Len(log') /\ log'[i].code = "summary_passed"
      BY <1>4 DEF PassedRows
    <2>2. t > turns' - LogCapacity
      BY <1>2, <2>1 DEF LogIsFull
    <2>3. CASE i + Dropped = Len(log) + 1
      <3>1. log'[i] = LogRow(r) BY <2>1, <2>3, <1>2 DEF Moved
      <3>2. t = turns' BY <1>2, <1>5, <2>1, <2>3
      <3> QED BY <1>1, <1>3, <2>1, <2>2, <3>1, <3>2
    <2>4. CASE i + Dropped # Len(log) + 1
      <3>1. log'[i] = log[i + Dropped] BY <2>1, <2>4, <1>2 DEF Moved
      <3>2. i + Dropped \in 1..Len(log) BY <1>2, <1>5, <2>1, <2>4
      <3>3. i + Dropped \in PassedRows BY <1>4, <2>1, <3>1, <3>2 DEF PassedRows
      <3>4. t = turns - Len(log) + (i + Dropped) BY <1>2, <1>5, <2>1
      <3>5. t \in passes BY <3>3, <3>4 DEF PassesCounted
      <3> QED BY <1>1, <2>2, <3>5
    <2> QED BY <2>3, <2>4
  <1> QED BY <1>6, <1>7 DEF PassesCounted

(* What a turn does to the completion of the scenes.                       *)
LEMMA CompletionMoves ==
    ASSUME TypeOK, NEW r \in Requests, Speak(r)
    PROVE  /\ r.scene \in Scenes
           /\ completion'[r.scene] = IF Completes(r) THEN "completed"
                 ELSE IF Enters(r) THEN "in_progress" ELSE completion[r.scene]
           /\ \A s \in Scenes : s # r.scene =>
                 \/ completion'[s] = completion[s]
                 \/ Completes(r) /\ completion[s] = "locked" /\ completion'[s] = "available"
           /\ active' = IF Completes(r) THEN "none" ELSE IF Enters(r) THEN r.scene ELSE active
  <1>1. completion' = CompletionAfter(r) /\ r.scene \in Scenes
    BY RequestFields DEF Speak, DialogueTurn
  <1> QED BY <1>1 DEF CompletionAfter, Speak

LEMMA PassesAreLastStep ==
    ASSUME FramesInv, LogIsFull, TypeOK, PassesAreLast, NEW r \in Requests, Speak(r)
    PROVE  PassesAreLast'
  <1> SUFFICES ASSUME NEW i \in PassedRows'
               PROVE  /\ completion'[log'[i].scene] = "completed"
                      /\ \A j \in DOMAIN log' :
                            j > i /\ log'[j].scene = log'[i].scene => log'[j].code = "none"
    BY DEF PassesAreLast
  <1>1. /\ i \in DOMAIN log' /\ log'[i].code = "summary_passed"
        /\ Len(log) \in Nat /\ Dropped \in {0, 1} /\ LogRow(r).scene = r.scene
        /\ log \in Seq(LogRows) /\ log' \in Seq(LogRows)
    BY SpokenTurn DEF PassedRows
  <1>2. /\ i \in Nat /\ i + Dropped \in 1..(Len(log) + 1)
        /\ i + Dropped = Len(log) + 1 => log'[i] = LogRow(r)
        /\ i + Dropped # Len(log) + 1 =>
              i + Dropped \in DOMAIN log /\ log'[i] = log[i + Dropped]
    BY <1>1, RowsAfter
  <1>3. /\ r.scene \in Scenes
        /\ completion'[r.scene] = IF Completes(r) THEN "completed"
              ELSE IF Enters(r) THEN "in_progress" ELSE completion[r.scene]
        /\ \A s \in Scenes : s # r.scene =>
              \/ completion'[s] = completion[s]
              \/ Completes(r) /\ completion[s] = "locked" /\ completion'[s] = "available"
    BY CompletionMoves
  <1>4. /\ LogRow(r).code = "summary_passed" <=> Completes(r)
        /\ ~Enters(r) => LogRow(r).code = "none" /\ ~Completes(r)
        /\ completion[r.scene] = "completed" => ~Enters(r)
    BY CodePassed
  <1>5. ASSUME NEW j \in DOMAIN log'
        PROVE  /\ j \in Nat /\ j + Dropped \in 1..(Len(log) + 1)
               /\ j + Dropped = Len(log) + 1 => log'[j] = LogRow(r)
               /\ j + Dropped # Len(log) + 1 =>
                     j + Dropped \in DOMAIN log /\ log'[j] = log[j + Dropped]
    BY RowsAfter
  <1>6. CASE i + Dropped = Len(log) + 1
    <2>1. completion'[log'[i].scene] = "completed"
      BY <1>1, <1>2, <1>3, <1>4, <1>6
    <2>2. \A j \in DOMAIN log' : ~(j > i)
      BY <1>1, <1>2, <1>5, <1>6
    <2> QED BY <2>1, <2>2
  <1>7. CASE i + Dropped # Len(log) + 1
    <2> DEFINE k == i + Dropped
    <2>1. k \in PassedRows /\ log'[i] = log[k]
      BY <1>1, <1>2, <1>7 DEF PassedRows
    <2> HIDE DEF k
    <2>2. /\ completion[log[k].scene] = "completed" /\ log[k].scene \in Scenes
          /\ \A j \in DOMAIN log :
                j > k /\ log[j].scene = log[k].scene => log[j].code = "none"
      <3>1. k \in DOMAIN log BY <2>1 DEF PassedRows
      <3>2. log[k] \in LogRows BY <1>1, <3>1
      <3>3. log[k].scene \in Scenes BY <3>2 DEF LogRows
      <3> QED BY <2>1, <3>3 DEF PassesAreLast
    <2>3. completion'[log[k].scene] = "completed"
      BY <1>3, <1>4, <2>2
    <2>4. ASSUME NEW j \in DOMAIN log', j > i, log'[j].scene = log'[i].scene
          PROVE  log'[j].code = "none"
      <3>1. CASE j + Dropped = Len(log) + 1
        BY <1>1, <1>4, <1>5, <2>1, <2>2, <2>4, <3>1
      <3>2. CASE j + Dropped # Len(log) + 1
        <4>1. j + Dropped \in DOMAIN log /\ log'[j] = log[j + Dropped] /\ j \in Nat
          BY <1>5, <3>2
        <4>2. j + Dropped > k BY <1>1, <1>2, <2>4, <4>1 DEF k
        <4> QED BY <2>1, <2>2, <2>4, <4>1, <4>2
      <3> QED BY <3>1, <3>2
    <2> QED BY <2>1, <2>3, <2>4
  <1> QED BY <1>6, <1>7

LEMMA CompletedPassedStep ==
    ASSUME FramesInv, LogIsFull, TypeOK, CompletedPassed, NEW r \in Requests, Speak(r)
    PROVE  CompletedPassed'
  <1> SUFFICES ASSUME NEW s \in Scenes, completion'[s] = "completed",
                      ~(turns' > LogCapacity)
               PROVE  \E i \in PassedRows' : log'[i].scene = s
    BY DEF CompletedPassed
  <1>1. /\ turns \in Nat /\ turns' = turns + 1 /\ LogCapacity \in Nat
        /\ log \in Seq(LogRows) /\ log' \in Seq(LogRows)
        /\ Len(log) \in Nat /\ Len(log') \in Nat
        /\ LogIsFull' /\ Dropped \in {0, 1} /\ LogRow(r).scene = r.scene
    BY SpokenTurn
  <1>2. Dropped = 0 /\ Len(log') = Len(log) + 1 /\ DOMAIN log' = 1..Len(log')
    BY <1>1 DEF LogIsFull, Dropped
  <1>3. /\ log'[Len(log) + 1] = LogRow(r)
        /\ \A i \in DOMAIN log : i \in DOMAIN log' /\ log'[i] = log[i]
    <2>1. \A i \in 1..Len(log') :
             log'[i] = IF i + Dropped = Len(log) + 1 THEN LogRow(r) ELSE log[i + Dropped]
      BY SpokenTurn DEF Moved
    <2>2. \A i \in 1..Len(log') :
             log'[i] = IF i = Len(log) + 1 THEN LogRow(r) ELSE log[i]
      BY <1>1, <1>2, <2>1
    <2> QED BY <1>1, <1>2, <2>2
  <1>4. LogRow(r).code = "summary_passed" <=> Completes(r)
    BY CodePassed
  <1>5. CASE s = r.scene /\ Completes(r)
    BY <1>1, <1>2, <1>3, <1>4, <1>5 DEF PassedRows
  <1>6. CASE ~(s = r.scene /\ Completes(r))
    <2>1. completion[s] = "completed"
      BY <1>6, CompletionMoves
    <2>2. PICK i \in PassedRows : log[i].scene = s
      BY <1>1, <2>1 DEF CompletedPassed
    <2> QED BY <1>3, <2>2 DEF PassedRows
  <1> QED BY <1>5, <1>6

LEMMA ActiveStep ==
    ASSUME TypeOK, ActiveIsPlayed, NEW r \in Requests, Speak(r)
    PROVE  ActiveIsPlayed'
  BY CompletionMoves DEF ActiveIsPlayed

(* The completions, too, are left alone by whatever does not speak.        *)
LEMMA OthersLeaveTheScenes ==
    ASSUME [LearnNext]_learnVars, \A r \in Requests : ~Speak(r)
    PROVE  UNCHANGED <<log, turns, completion, passes, active>>
  <1> USE DEF dialogue, progress
  <1>1. ASSUME NEW a \in Commands, NEW granted \in Grants, Look(a, granted)
        PROVE  UNCHANGED <<log, turns, completion, passes, active>>
    BY <1>1 DEF Look, Investigate
  <1>2. ASSUME Unrecorded PROVE UNCHANGED <<log, turns, completion, passes, active>>
    <2>1. UNCHANGED <<log, active>> BY <1>2 DEF Unrecorded
    <2>2. CASE SubmitContradictionEdge BY <2>1, <2>2 DEF SubmitContradictionEdge
    <2>3. ASSUME NEW quiet \in BOOLEAN, AttemptRecovery(quiet)
          PROVE  UNCHANGED <<log, turns, completion, passes, active>>
      BY <2>1, <2>3 DEF AttemptRecovery
    <2>4. ASSUME NEW public \in BOOLEAN, AccuseCulprit(public)
          PROVE  UNCHANGED <<log, turns, completion, passes, active>>
      BY <2>1, <2>4 DEF AccuseCulprit
    <2>5. ASSUME NEW suspect \in Suspects, NEW public \in BOOLEAN,
                 AccuseInnocent(suspect, public)
          PROVE  UNCHANGED <<log, turns, completion, passes, active>>
      BY <2>1, <2>5 DEF AccuseInnocent
    <2>6. ASSUME NEW t \in Instants, AdvanceTo(t)
          PROVE  UNCHANGED <<log, turns, completion, passes, active>>
      BY <2>1, <2>6 DEF AdvanceTo
    <2> QED BY <1>2, <2>2, <2>3, <2>4, <2>5, <2>6 DEF Unrecorded
  <1>3. CASE UNCHANGED learnVars BY <1>3 DEF learnVars, vars
  <1> QED BY <1>1, <1>2, <1>3 DEF LearnNext

LEMMA SummaryInitInv == LearnInit => SummaryInv
  <1> SUFFICES ASSUME LearnInit PROVE SummaryInv OBVIOUS
  <1>1. /\ log = <<>> /\ turns = 0 /\ passes = {} /\ active = "none"
        /\ completion = InitialCompletion
    BY DEF LearnInit, Init
  <1>2. PassedRows = {} /\ Len(log) = 0 /\ DOMAIN log = {} BY <1>1 DEF PassedRows
  <1>3. \A s \in Scenes : completion[s] # "completed"
    BY <1>1 DEF InitialCompletion
  <1> QED BY <1>1, <1>2, <1>3, BoundsAssumption
    DEF SummaryInv, LogIsFull, PassesCounted, PassesAreLast, CompletedPassed, ActiveIsPlayed

LEMMA SummaryStep ==
    FramesInv /\ TypeOK /\ SummaryInv /\ [LearnNext]_learnVars => SummaryInv'
  <1> SUFFICES ASSUME FramesInv, TypeOK, SummaryInv, [LearnNext]_learnVars
               PROVE  SummaryInv'
    OBVIOUS
  <1>1. ASSUME NEW r \in Requests, Speak(r) PROVE SummaryInv'
    BY <1>1, SpokenTurn, PassesCountedStep, PassesAreLastStep, CompletedPassedStep,
       ActiveStep DEF SummaryInv
  <1>2. CASE \A r \in Requests : ~Speak(r)
    BY <1>2, OthersLeaveTheScenes
    DEF SummaryInv, LogIsFull, PassesCounted, PassesAreLast, CompletedPassed,
        ActiveIsPlayed, PassedRows
  <1> QED BY <1>1, <1>2

LEMMA SummariesHold == LearnSpec => []SummaryInv
  BY SummaryInitInv, SummaryStep, FramesHold, LearningPlaysTheCase, TypeCorrect, PTL
  DEF LearnSpec

(* The latest of some of the first rows.                                   *)
LEMMA LatestExists ==
    ASSUME NEW n \in Nat, NEW rows \in SUBSET (1..n), rows # {}
    PROVE  Latest(rows) \in rows /\ \A j \in rows : j <= Latest(rows)
  <1> DEFINE above == {m \in Nat : \A j \in rows : j <= m}
  <1>2. n \in above OBVIOUS
  <1>3. PICK m \in above : \A k \in above : ~(<<k, m>> \in OpToRel(<, Nat))
    BY <1>2, WFMin, NatLessThanWellFounded
  <1>4. m \in Nat /\ \A k \in above : ~(k < m)
    BY <1>3 DEF OpToRel
  <1>5. m \in rows
    <2> SUFFICES ASSUME m \notin rows PROVE FALSE OBVIOUS
    <2>1. \A j \in rows : j \in Nat /\ 1 <= j /\ j <= m
      <3>1. rows \subseteq 1..n OBVIOUS
      <3>2. \A j \in rows : j <= m BY <1>3
      <3> HIDE DEF above
      <3> QED BY <3>1, <3>2
    <2>2. m # 0
      <3>1. PICK j \in rows : TRUE OBVIOUS
      <3>2. j \in Nat /\ 1 <= j /\ j <= m BY <2>1
      <3> HIDE DEF above
      <3> QED BY <3>2
    <2>3. m - 1 \in Nat BY <1>4, <2>2
    <2>5. \A j \in rows : j <= m - 1
      <3> SUFFICES ASSUME NEW j \in rows PROVE j <= m - 1 OBVIOUS
      <3>1. j # m OBVIOUS
      <3>2. j \in Nat /\ j <= m BY <2>1
      <3>3. m \in Nat BY <1>4
      <3> HIDE DEF above
      <3> QED BY <3>1, <3>2, <3>3
    <2>4. m - 1 \in above BY <2>3, <2>5
    <2> QED BY <1>4, <2>4
  <1>6. \A j \in rows : j <= m BY <1>3
  <1> QED BY <1>5, <1>6 DEF Latest

(* ... is any that none comes after.                                       *)
LEMMA LatestIs ==
    ASSUME NEW n \in Nat, NEW rows \in SUBSET (1..n), NEW i \in rows,
           \A j \in rows : j <= i
    PROVE  Latest(rows) = i
  <1>1. Latest(rows) \in rows /\ \A j \in rows : j <= Latest(rows)
    BY LatestExists
  <1>2. \A j \in rows : j \in Nat
    <2>1. rows \subseteq 1..n OBVIOUS
    <2> QED BY <2>1
  <1>3. Latest(rows) \in Nat /\ i \in Nat /\ i <= Latest(rows) /\ Latest(rows) <= i
    BY <1>1, <1>2
  <1> QED BY <1>3

LEMMA PassIsLastCode ==
    ASSUME LearnInv, PassesAreLast, NEW s \in Scenes
    PROVE  LastCode(s) = "summary_passed" <=> \E i \in PassedRows : log[i].scene = s
  <1> DEFINE coded == CodedRows(s)
  <1>2. Len(log) \in Nat /\ DOMAIN log = 1..Len(log) BY DEF LearnInv, LearnTyped
  <1>1. coded \in SUBSET (1..Len(log)) BY <1>2 DEF CodedRows, RowsOf
  <1>3. ASSUME NEW i \in PassedRows, log[i].scene = s PROVE LastCode(s) = "summary_passed"
    <2>1. i \in coded BY <1>3 DEF PassedRows, CodedRows, RowsOf
    <2>2. \A j \in coded : j <= i
      BY <1>2, <1>3 DEF PassesAreLast, CodedRows, RowsOf, PassedRows
    <2>3. Latest(coded) = i
      <3> HIDE DEF coded
      <3> QED BY <1>1, <1>2, <2>1, <2>2, LatestIs
    <2> QED BY <2>1, <2>3 DEF LastCode, PassedRows
  <1>4. ASSUME LastCode(s) = "summary_passed"
        PROVE  \E i \in PassedRows : log[i].scene = s
    <2>1. coded # {} /\ log[Latest(coded)].code = "summary_passed"
      BY <1>4 DEF LastCode
    <2>2. Latest(coded) \in coded
      <3> HIDE DEF coded
      <3> QED BY <1>1, <1>2, <2>1, LatestExists
    <2> QED BY <2>1, <2>2 DEF CodedRows, RowsOf, PassedRows
  <1> QED BY <1>3, <1>4

LEMMA SummariesFollow == ASSUME LearnInv, SummaryInv PROVE SummariesShownTrue
  <1> SUFFICES
        ASSUME NEW s \in Scenes
        PROVE  /\ SummaryStatus(s) = "passed" => completion[s] = "completed"
               /\ completion[s] = "completed" /\ SummaryStatus(s) # "passed"
                     => turns > LogCapacity
               /\ completion[s] = "completed" => \A i \in RowsOf(s) :
                     log[i].code = "summary_passed" => SummaryStatus(s) = "passed"
    BY DEF SummariesShownTrue, VisibleLearning
  <1>1. SummaryStatus(s) = "passed" <=> \E i \in PassedRows : log[i].scene = s
    BY PassIsLastCode DEF SummaryStatus, SummaryInv
  <1>2. (\E i \in PassedRows : log[i].scene = s) => completion[s] = "completed"
    BY DEF SummaryInv, PassesAreLast
  <1>3. completion[s] = "completed" /\ ~(\E i \in PassedRows : log[i].scene = s)
            => turns > LogCapacity
    BY DEF SummaryInv, CompletedPassed
  <1>4. \A i \in RowsOf(s) : log[i].code = "summary_passed" =>
            \E k \in PassedRows : log[k].scene = s
    BY DEF RowsOf, PassedRows
  <1> QED BY <1>1, <1>2, <1>3, <1>4

LEMMA ScenesFollow ==
    ASSUME FramesInv, SummaryInv
    PROVE  LET shown == VisibleDialogue
           IN  /\ shown.active # "none" => shown.completion[shown.active] = "in_progress"
               /\ \A k \in DOMAIN shown.turns :
                     shown.turns[k].code = "summary_passed" =>
                        shown.completion[shown.turns[k].scene] = "completed"
  <1>1. active # "none" => completion[active] = "in_progress"
    BY DEF SummaryInv, ActiveIsPlayed
  <1>2. ASSUME NEW k \in TurnIndices, VisibleTurns[k].code = "summary_passed"
        PROVE  completion[VisibleTurns[k].scene] = "completed"
    <2> DEFINE i == k - turns + Len(log)
    <2>1. log \in Seq(LogRows) /\ Len(log) \in Nat /\ turns \in Nat
      BY DEF FramesInv, LearnInv, LearnTyped, LogFits
    <2>2. i \in 1..Len(log) BY <2>1 DEF TurnIndices
    <2> HIDE DEF i
    <2>3. VisibleTurns[k] = [log[i] EXCEPT !.reveals = @ \cap known]
      BY <1>2 DEF VisibleTurns, i
    <2>4. log[i] \in LogRows /\ i \in DOMAIN log BY <2>1, <2>2
    <2>5. VisibleTurns[k].code = log[i].code /\ VisibleTurns[k].scene = log[i].scene
      BY <2>3, <2>4 DEF LogRows
    <2>6. i \in PassedRows BY <1>2, <2>4, <2>5 DEF PassedRows
    <2> QED BY <2>5, <2>6 DEF SummaryInv, PassesAreLast
  <1>3. DOMAIN VisibleTurns = TurnIndices BY DEF VisibleTurns
  <1> QED BY <1>1, <1>2, <1>3 DEF VisibleDialogue

(* What the player is shown is true of the case: no fact, clue, summary,   *)
(* minigame, scene or turn is shown that the case does not bear out, for   *)
(* every log length.                                                       *)
THEOREM WhatIsShownIsTrue == LearnSpec => []ShownIsTrue
  <1>1. FramesInv /\ SummaryInv /\ SurfacedIsUnlocked => ShownIsTrue
    <2> SUFFICES ASSUME FramesInv, SummaryInv, SurfacedIsUnlocked PROVE ShownIsTrue
      OBVIOUS
    <2>1. NothingShownUnearned /\ MinigamesShownTrue /\ SummariesShownTrue
      BY ShownFollows, MinigamesFollow, SummariesFollow DEF FramesInv
    <2>2. passes = {turns - Len(log) + i :
                      i \in {j \in DOMAIN log : log[j].code = "summary_passed"}}
      BY DEF SummaryInv, PassesCounted, PassedRows
    <2> QED BY <2>1, <2>2, ScenesFollow DEF ShownIsTrue
  <1> QED
    BY <1>1, FramesHold, SummariesHold, LearningPlaysTheCase, SurfacedScenesAreUnlocked, PTL

-------------------------------------------------------------------------------
(* The support.  Its three reasons are counts over the rows of the active  *)
(* scene and the state of one minigame; unless a turn in the scene is      *)
(* accepted or a row of it falls out, each row counted before is counted   *)
(* after, one place further down.                                          *)

(* Seed B hides another clue in the bench, and nothing else gives E1; so a *)
(* half solved minigame is only solved in the scene it belongs to.         *)
BenchHidesOther == Seed = "B" => "E1" \notin discovered

LEMMA BenchInit == LearnInit => BenchHidesOther
  BY DEF LearnInit, Init, BenchHidesOther

LEMMA BenchStep ==
    ASSUME BenchHidesOther, [LearnNext]_learnVars
    PROVE  BenchHidesOther' /\ (Seed = "B" /\ (\A r \in Requests : ~Speak(r))
                                   /\ "N6" \notin known => "N6" \notin known')
  <1> USE DEF progress
  <1>1. ASSUME NEW a \in Commands, NEW granted \in Grants, Look(a, granted), Seed = "B"
        PROVE  "E1" \notin discovered' /\ ("N6" \notin known => "N6" \notin known')
    <2>1. a \in Affordances BY CommandsAssumption
    <2>2. /\ "N6" \notin FactsShown[a] /\ "E1" \notin EvidenceShown[a]
          /\ EvidenceShown[a] \subseteq {"E2", "E3"}
      BY <1>1, <2>1 DEF FactsShown, EvidenceShown, Affordances
    <2>3. FactOf["E2"] = "N4" /\ FactOf["E3"] = "N7" BY DEF FactOf
    <2> DEFINE found == IF Succeeds(a, granted) THEN EvidenceShown[a] ELSE {}
               shown == IF Succeeds(a, granted) THEN FactsShown[a] ELSE {}
    <2>4. /\ known' = known \cup shown \cup {FactOf[e] : e \in found}
          /\ discovered' = discovered \cup found
      BY <1>1 DEF Look, Investigate
    <2>5. "N6" \notin {FactOf[e] : e \in found} BY <2>2, <2>3
    <2> QED BY <1>1, <2>2, <2>4, <2>5 DEF BenchHidesOther
  <1>2. ASSUME NEW r \in Requests, Speak(r) PROVE UNCHANGED discovered
    BY <1>2 DEF Speak, DialogueTurn
  <1>3. ASSUME Unrecorded PROVE UNCHANGED <<known, discovered>>
    <2>2. CASE SubmitContradictionEdge BY <2>2 DEF SubmitContradictionEdge
    <2>3. ASSUME NEW quiet \in BOOLEAN, AttemptRecovery(quiet)
          PROVE  UNCHANGED <<known, discovered>>
      BY <2>3 DEF AttemptRecovery
    <2>4. ASSUME NEW public \in BOOLEAN, AccuseCulprit(public)
          PROVE  UNCHANGED <<known, discovered>>
      BY <2>4 DEF AccuseCulprit
    <2>5. ASSUME NEW suspect \in Suspects, NEW public \in BOOLEAN,
                 AccuseInnocent(suspect, public)
          PROVE  UNCHANGED <<known, discovered>>
      BY <2>5 DEF AccuseInnocent
    <2>6. ASSUME NEW t \in Instants, AdvanceTo(t) PROVE UNCHANGED <<known, discovered>>
      BY <2>6 DEF AdvanceTo
    <2> QED BY <1>3, <2>2, <2>3, <2>4, <2>5, <2>6 DEF Unrecorded
  <1>4. CASE UNCHANGED learnVars BY <1>4 DEF learnVars, vars, BenchHidesOther
  <1> QED BY <1>1, <1>2, <1>3, <1>4 DEF LearnNext, BenchHidesOther

(* N6 is only said in the scene that the torn note's minigame belongs to.  *)
LEMMA TornNoteIsTold ==
    ASSUME NEW r \in Requests, "N6" \in Revealed(r)
    PROVE  r.scene = "S3" /\ Accepted(r) /\ Enters(r)
  <1>1. Accepted(r) /\ Enters(r) BY DEF Revealed, Accepted, Verdict
  <1>2. r.scene \in Scenes BY RequestFields
  <1>3. \/ "N6" \in Answer(r.scene, r.intent, r.evidence, known, discovered)
        \/ "N6" \in UnlockedFacts[r.scene]
    BY DEF Revealed
  <1>4. "N6" \in UnlockedFacts[r.scene] => r.scene = "S3"
    BY <1>2 DEF UnlockedFacts, Scenes
  <1>5. "N6" \in Answer(r.scene, r.intent, r.evidence, known, discovered)
            => r.scene = "S3"
    BY <1>2 DEF Answer, DropLocation, Scenes
  <1> QED BY <1>1, <1>3, <1>4, <1>5

(* A half solved minigame stays so, unless a turn in its scene is accepted. *)
(* That of the archived logs belongs to a scene that is never played.      *)
LEMMA MinigameStays ==
    ASSUME LearnInv, BenchHidesOther, MinigamesShownTrue, [LearnNext]_learnVars,
           NEW s \in Scenes, s # "S2", MinigamePressure(s) = 1,
           \A r \in Requests : Speak(r) => ~(r.scene = s /\ Accepted(r))
    PROVE  MinigamePressure(s)' = 1
  <1>1. TargetOf[s] # "none" /\ MinigameStatus(TargetOf[s]) = "needs_retry"
    BY DEF MinigamePressure
  <1>2. TargetOf[s] \in Minigames
    BY <1>1 DEF TargetOf, Scenes, Minigames
  <1>3. TargetOf[s] = "MG4" /\ Seed = "B" /\ "N6" \notin known
    <2>1. TargetOf[s] # "MG2" BY DEF TargetOf, Scenes
    <2> QED BY <1>1, <1>2, <2>1 DEF MinigamesShownTrue, VisibleLearning
  <1>4. s = "S3" BY <1>3 DEF TargetOf, Scenes
  <1>5. "O4.inspect" \in observed
    BY <1>1, <1>3 DEF MinigameStatus, Attempted, GateIsOpen, BenchHidesOther
  <1>6. "O4.inspect" \in observed'
    BY <1>5 DEF LearnNext, Look, Speak, Unrecorded, learnVars
  <1>7. "N6" \notin known'
    <2>1. ASSUME NEW r \in Requests, Speak(r) PROVE "N6" \notin known'
      <3>1. known' = known \cup Revealed(r) BY <2>1 DEF Speak, DialogueTurn
      <3> QED BY <1>3, <1>4, <2>1, <3>1, TornNoteIsTold
    <2>2. CASE \A r \in Requests : ~Speak(r)
      BY <1>3, <2>2, BenchStep
    <2> QED BY <2>1, <2>2
  <1>8. MinigameStatus("MG4")' = "needs_retry"
    BY <1>6, <1>7 DEF MinigameStatus, Solved, Attempted, GateIsOpen
  <1> QED BY <1>3, <1>8 DEF MinigamePressure

(* A turn that leaves every row of scene s where the support can see it.    *)
Spares(r, s) ==
    /\ Speak(r) /\ ~Completes(r)
    /\ r.scene = s => ~Accepted(r)
    /\ Dropped = 1 => log[1].scene # s

(* Its rows move down together, and at most a failure joins them.          *)
LEMMA RowsMove ==
    ASSUME FramesInv, LogIsFull, NEW r \in Requests, NEW s \in Scenes, Spares(r, s)
    PROVE  /\ RowsOf(s) \subseteq Nat /\ RowsOf(s)' \subseteq Nat /\ Dropped \in {0, 1}
           /\ IsFiniteSet(RowsOf(s)) /\ IsFiniteSet(RowsOf(s)')
           /\ \A i \in RowsOf(s) :
                 i - Dropped \in RowsOf(s)' /\ log'[i - Dropped] = log[i]
           /\ \A i \in RowsOf(s)' :
                 \/ i = Len(log') /\ r.scene = s /\ log'[i] = LogRow(r)
                 \/ i + Dropped \in RowsOf(s) /\ log'[i] = log[i + Dropped]
  <1>1. /\ log \in Seq(LogRows) /\ log' \in Seq(LogRows)
        /\ Len(log) \in Nat /\ Len(log') \in Nat
        /\ Dropped \in {0, 1} /\ Moved(LogRow(r)) /\ LogRow(r).scene = r.scene
    BY SpokenTurn DEF Spares
  <1>2. DOMAIN log = 1..Len(log) /\ DOMAIN log' = 1..Len(log')
    BY <1>1
  <1>3. Dropped = Len(log) + 1 - Len(log') BY DEF Dropped
  <1>4. /\ RowsOf(s) = {i \in 1..Len(log) : log[i].scene = s}
        /\ RowsOf(s)' = {i \in 1..Len(log') : log'[i].scene = s}
    BY <1>2 DEF RowsOf
  <1>5. RowsOf(s) \in SUBSET (1..Len(log)) /\ RowsOf(s)' \in SUBSET (1..Len(log'))
    BY <1>4
  <1>10. IsFiniteSet(1..Len(log)) /\ IsFiniteSet(1..Len(log'))
    <2>1. 1 \in Int /\ Len(log) \in Int /\ Len(log') \in Int BY <1>1
    <2> QED BY <2>1, FS_Interval
  <1>6. IsFiniteSet(RowsOf(s)) /\ IsFiniteSet(RowsOf(s)')
    BY <1>5, <1>10, FS_Subset
  <1>7. ASSUME NEW i \in RowsOf(s)
        PROVE  i - Dropped \in RowsOf(s)' /\ log'[i - Dropped] = log[i]
    <2>1. i \in 1..Len(log) /\ log[i].scene = s BY <1>4
    <2>2. Dropped = 1 => i # 1 BY <2>1 DEF Spares
    <2>3. i - Dropped \in 1..Len(log') /\ (i - Dropped) + Dropped = i /\ i # Len(log) + 1
      BY <1>1, <1>3, <2>1, <2>2
    <2>4. log'[i - Dropped] = log[i]
      <3>1. \A k \in 1..Len(log') :
               log'[k] = IF k + Dropped = Len(log) + 1 THEN LogRow(r) ELSE log[k + Dropped]
        BY <1>1 DEF Moved
      <3> QED BY <2>3, <3>1
    <2> QED BY <1>4, <2>1, <2>3, <2>4
  <1>8. ASSUME NEW i \in RowsOf(s)'
        PROVE  \/ i = Len(log') /\ r.scene = s /\ log'[i] = LogRow(r)
               \/ i + Dropped \in RowsOf(s) /\ log'[i] = log[i + Dropped]
    <2>1. i \in 1..Len(log') /\ log'[i].scene = s BY <1>4
    <2>2. log'[i] = IF i + Dropped = Len(log) + 1 THEN LogRow(r) ELSE log[i + Dropped]
      BY <1>1, <2>1 DEF Moved
    <2>3. CASE i + Dropped = Len(log) + 1
      <3>1. i = Len(log') BY <1>1, <1>3, <2>1, <2>3
      <3> QED BY <1>1, <2>1, <2>2, <2>3, <3>1
    <2>4. CASE i + Dropped # Len(log) + 1
      <3>1. i + Dropped \in 1..Len(log) BY <1>1, <1>3, <2>1, <2>4
      <3> QED BY <1>4, <2>1, <2>2, <2>4, <3>1
    <2> QED BY <2>3, <2>4
  <1>9. RowsOf(s) \subseteq Nat /\ RowsOf(s)' \subseteq Nat BY <1>1, <1>5
  <1> QED BY <1>1, <1>6, <1>7, <1>8, <1>9

(* So no failure is forgotten.                                             *)
LEMMA FailuresStay ==
    ASSUME FramesInv, LogIsFull, NEW r \in Requests, NEW s \in Scenes, Spares(r, s)
    PROVE  Failures(s) \in Nat /\ Failures(s)' \in Nat /\ Failures(s) <= Failures(s)'
  <1> DEFINE old == {i \in RowsOf(s) :
                        /\ log[i].status \in NonAccepts
                        /\ \A j \in RowsOf(s) : j >= i => log[j].status # "accepted"}
             new == {i \in RowsOf(s)' :
                        /\ log'[i].status \in NonAccepts
                        /\ \A j \in RowsOf(s)' : j >= i => log'[j].status # "accepted"}
             down == [i \in old |-> i - Dropped]
  <1>1. /\ RowsOf(s) \subseteq Nat /\ RowsOf(s)' \subseteq Nat /\ Dropped \in {0, 1}
        /\ IsFiniteSet(RowsOf(s)) /\ IsFiniteSet(RowsOf(s)')
        /\ \A i \in RowsOf(s) :
              i - Dropped \in RowsOf(s)' /\ log'[i - Dropped] = log[i]
        /\ \A i \in RowsOf(s)' :
              \/ i = Len(log') /\ r.scene = s /\ log'[i] = LogRow(r)
              \/ i + Dropped \in RowsOf(s) /\ log'[i] = log[i + Dropped]
    BY RowsMove
  <1>2. Failures(s) = Cardinality(old) /\ Failures(s)' = Cardinality(new)
    BY DEF Failures
  <1>3. old \in SUBSET RowsOf(s) /\ new \in SUBSET (RowsOf(s)')
    OBVIOUS
  <1>4. r.scene = s => LogRow(r).status # "accepted"
    <2>1. LogRow(r).status = Status(r) BY DEF LogRow
    <2>2. Status(r) = "accepted" => Verdict(r) = "accepted" BY DEF Status, Verdict
    <2> QED BY <2>1, <2>2 DEF Spares, Accepted
  <1>5. ASSUME NEW i \in old PROVE i - Dropped \in new
    <2>1. /\ i \in RowsOf(s) /\ log[i].status \in NonAccepts
          /\ \A j \in RowsOf(s) : j >= i => log[j].status # "accepted"
      OBVIOUS
    <2>2. i - Dropped \in RowsOf(s)' /\ log'[i - Dropped] = log[i]
      BY <1>1, <2>1
    <2>3. ASSUME NEW j \in RowsOf(s)', j >= i - Dropped PROVE log'[j].status # "accepted"
      <3>1. CASE r.scene = s /\ log'[j] = LogRow(r)
        BY <1>4, <3>1
      <3>2. CASE j + Dropped \in RowsOf(s) /\ log'[j] = log[j + Dropped]
        <4>1. j \in Nat /\ i \in Nat BY <1>1, <2>1
        <4>2. j + Dropped >= i BY <1>1, <2>3, <4>1
        <4> QED BY <2>1, <3>2, <4>2
      <3> QED BY <1>1, <3>1, <3>2
    <2> QED BY <2>1, <2>2, <2>3
  <1> HIDE DEF old, new
  <1>6. IsFiniteSet(old) /\ IsFiniteSet(new) BY <1>1, <1>3, FS_Subset
  <1>7. down \in Injection(old, new)
    <2>1. down \in [old -> new] BY <1>5
    <2>2. \A i, j \in old : down[i] = down[j] => i = j
      <3> SUFFICES ASSUME NEW i \in old, NEW j \in old, down[i] = down[j] PROVE i = j
        OBVIOUS
      <3>1. i \in Nat /\ j \in Nat BY <1>1, <1>3
      <3>2. i - Dropped = j - Dropped OBVIOUS
      <3> QED BY <1>1, <3>1, <3>2
    <2> HIDE DEF down
    <2> QED BY <2>1, <2>2 DEF Injection, IsInjective
  <1>8. Cardinality(old) <= Cardinality(new) BY <1>6, <1>7, FS_Injection
  <1>9. Cardinality(old) \in Nat /\ Cardinality(new) \in Nat BY <1>6, FS_CardinalityType
  <1> QED BY <1>2, <1>8, <1>9

(* Nor is the last summary that fell short.                                *)
LEMMA PressureStays ==
    ASSUME FramesInv, FramesInv', LogIsFull, NEW r \in Requests, NEW s \in Scenes,
           Spares(r, s), SummaryPressure(s) = 1
    PROVE  SummaryPressure(s)' = 1
  <1> DEFINE old == CodedRows(s)
             new == CodedRows(s)'
  <1>1. /\ RowsOf(s) \subseteq Nat /\ RowsOf(s)' \subseteq Nat /\ Dropped \in {0, 1}
        /\ \A i \in RowsOf(s) :
              i - Dropped \in RowsOf(s)' /\ log'[i - Dropped] = log[i]
        /\ \A i \in RowsOf(s)' :
              \/ i = Len(log') /\ r.scene = s /\ log'[i] = LogRow(r)
              \/ i + Dropped \in RowsOf(s) /\ log'[i] = log[i + Dropped]
    BY RowsMove
  <1>2. /\ old = {i \in RowsOf(s) : log[i].code # "none"}
        /\ new = {i \in RowsOf(s)' : log'[i].code # "none"}
    BY DEF CodedRows
  <1>3. /\ old \in SUBSET (DOMAIN log) /\ new \in SUBSET (DOMAIN log')
    BY DEF CodedRows, RowsOf
  <1>4. LogRow(r).code # "summary_passed" BY CodePassed DEF Spares
  <1>5. /\ old # {} /\ log[Latest(old)].code # "summary_passed"
    BY DEF SummaryPressure, LastCode
  <1>6. /\ SummaryPressure(s)' = IF new = {} THEN 0
              ELSE IF log'[Latest(new)].code \in {"none", "summary_passed"} THEN 0 ELSE 1
    BY DEF SummaryPressure, LastCode
  <1> HIDE DEF old, new
  <1>7. /\ Len(log) \in Nat /\ Len(log') \in Nat
        /\ DOMAIN log = 1..Len(log) /\ DOMAIN log' = 1..Len(log')
    BY DEF FramesInv, LearnInv, LearnTyped
  <1>8. Latest(old) \in old /\ \A j \in old : j <= Latest(old)
    BY <1>3, <1>5, <1>7, LatestExists
  <1>9. Latest(old) - Dropped \in new
    BY <1>1, <1>2, <1>8
  <1>10. Latest(new) \in new /\ \A j \in new : j <= Latest(new)
    BY <1>3, <1>7, <1>9, LatestExists
  <1>11. log'[Latest(new)].code \notin {"none", "summary_passed"}
    <2>1. Latest(new) \in RowsOf(s)' /\ log'[Latest(new)].code # "none"
      BY <1>2, <1>10
    <2>2. CASE log'[Latest(new)] = LogRow(r)
      BY <1>4, <2>1, <2>2
    <2>3. CASE /\ Latest(new) + Dropped \in RowsOf(s)
               /\ log'[Latest(new)] = log[Latest(new) + Dropped]
      <3>1. Latest(new) + Dropped \in old BY <1>2, <2>1, <2>3
      <3>2. Latest(new) + Dropped <= Latest(old) BY <1>8, <3>1
      <3>3. Latest(old) - Dropped <= Latest(new) BY <1>9, <1>10
      <3>4. Latest(new) \in Nat /\ Latest(old) \in Nat BY <1>1, <1>2, <1>8, <2>1
      <3>5. Latest(new) + Dropped = Latest(old) BY <1>1, <3>2, <3>3, <3>4
      <3> QED BY <1>5, <2>1, <2>3, <3>5
    <2> QED BY <1>1, <2>1, <2>2, <2>3
  <1> QED BY <1>6, <1>9, <1>11

-------------------------------------------------------------------------------
(* The rank they add up to.                                                *)

Excused ==
    \/ active' # active
    \/ /\ turns' # turns
       /\ \/ /\ log'[Len(log')].scene = active
             /\ log'[Len(log')].status = "accepted"
          \/ Len(log) = LogCapacity /\ log[1].scene = active
NotWeaker(s) ==
    /\ Failures(s) \in Nat /\ Failures(s)' \in Nat /\ Failures(s) <= Failures(s)'
    /\ SummaryPressure(s) = 1 => SummaryPressure(s)' = 1
    /\ MinigamePressure(s) = 1 => MinigamePressure(s)' = 1

LEMMA RankFollows ==
    ASSUME NEW s \in Scenes, active = s, active' = s, NotWeaker(s)
    PROVE  ~(HintRank' < HintRank)
  <1> DEFINE strength == BaseRank + Failures(s) + SummaryPressure(s) + MinigamePressure(s)
             next == BaseRank + Failures(s)' + SummaryPressure(s)' + MinigamePressure(s)'
  <1>1. s # "none" BY DEF Scenes
  <1>2. /\ HintRank = IF strength > MaxRank THEN MaxRank ELSE strength
        /\ HintRank' = IF next > MaxRank THEN MaxRank ELSE next
    BY <1>1 DEF HintRank, BaseRank, MaxRank
  <1>3. /\ SummaryPressure(s) \in {0, 1} /\ SummaryPressure(s)' \in {0, 1}
        /\ MinigamePressure(s) \in {0, 1} /\ MinigamePressure(s)' \in {0, 1}
        /\ BaseRank \in Nat /\ MaxRank \in Nat
    BY DEF SummaryPressure, MinigamePressure, BaseRank, MaxRank
  <1>4. Failures(s) \in Nat /\ Failures(s)' \in Nat /\ Failures(s) <= Failures(s)'
    BY DEF NotWeaker
  <1>5. SummaryPressure(s) <= SummaryPressure(s)' /\ MinigamePressure(s) <= MinigamePressure(s)'
    BY <1>3 DEF NotWeaker
  <1>6. strength \in Nat /\ next \in Nat /\ strength <= next
    BY <1>3, <1>4, <1>5
  <1> HIDE DEF strength, next
  <1> QED BY <1>2, <1>3, <1>6

LEMMA FailuresCount == ASSUME LearnInv, NEW s \in Scenes PROVE Failures(s) \in Nat
  <1> DEFINE rows == {i \in RowsOf(s) :
                        /\ log[i].status \in NonAccepts
                        /\ \A j \in RowsOf(s) : j >= i => log[j].status # "accepted"}
  <1>1. Len(log) \in Nat /\ DOMAIN log = 1..Len(log) BY DEF LearnInv, LearnTyped
  <1>2. rows \in SUBSET (1..Len(log)) BY <1>1 DEF RowsOf
  <1>3. Failures(s) = Cardinality(rows) BY DEF Failures
  <1> HIDE DEF rows
  <1>4. IsFiniteSet(1..Len(log)) BY <1>1, FS_Interval
  <1>5. IsFiniteSet(rows) BY <1>2, <1>4, FS_Subset
  <1> QED BY <1>3, <1>5, FS_CardinalityType

(* A turn in the scene that is not excused spares its rows.                *)
LEMMA UnexcusedSpares ==
    ASSUME FramesInv, LogIsFull, LogCapacity # 0, NEW r \in Requests, Speak(r),
           NEW s \in Scenes, active = s, ~Excused
    PROVE  Spares(r, s)
  <1>1. /\ turns \in Nat /\ turns' = turns + 1 /\ LogCapacity \in Nat
        /\ Len(log) \in Nat /\ Len(log') \in Nat /\ LogIsFull'
        /\ Dropped \in {0, 1} /\ Dropped = 1 <=> Len(log) = LogCapacity
        /\ Moved(LogRow(r)) /\ LogRow(r).scene = r.scene
    BY SpokenTurn
  <1>2. Len(log') \in 1..Len(log') /\ Len(log') + Dropped = Len(log) + 1
    BY <1>1 DEF LogIsFull, Dropped
  <1>3. log'[Len(log')] = LogRow(r) BY <1>1, <1>2 DEF Moved
  <1>4. active' = active /\ turns' # turns BY <1>1 DEF Excused
  <1>5. ~Completes(r) BY <1>4 DEF Speak, Scenes
  <1>6. Accepted(r) => LogRow(r).status = "accepted" BY DEF Accepted, LogRow, Status
  <1>7. r.scene = s => ~Accepted(r) BY <1>1, <1>3, <1>4, <1>6 DEF Excused
  <1>8. Dropped = 1 => log[1].scene # s BY <1>1, <1>4 DEF Excused
  <1> QED BY <1>5, <1>7, <1>8 DEF Spares

LEMMA SupportStep ==
    ASSUME FramesInv, FramesInv', SummaryInv, BenchHidesOther, MinigamesShownTrue,
           SecuritySceneStaysShut, LogCapacity # 0, [LearnNext]_learnVars,
           HintRank' < HintRank
    PROVE  Excused
  <1> SUFFICES ASSUME ~Excused PROVE FALSE OBVIOUS
  <1>1. active' = active BY DEF Excused
  <1>2. CASE active = "none"
    <2>1. HintRank = BaseRank /\ HintRank' = BaseRank
      BY <1>1, <1>2 DEF HintRank, BaseRank
    <2>2. BaseRank \in Nat BY DEF BaseRank
    <2> QED BY <2>1, <2>2
  <1>3. CASE active # "none"
    <2>1. PICK s \in Scenes : s = active
      BY <1>3 DEF SummaryInv, ActiveIsPlayed
    <2>2. LearnInv /\ LogIsFull BY DEF FramesInv, SummaryInv
    <2>a. s # "S2"
      BY <1>3, <2>1 DEF SummaryInv, ActiveIsPlayed, SecuritySceneStaysShut
    <2>3. ASSUME NEW r \in Requests, Speak(r) PROVE Spares(r, s)
      BY <2>1, <2>2, <2>3, UnexcusedSpares
    <2>4. MinigamePressure(s) = 1 => MinigamePressure(s)' = 1
      BY <2>2, <2>3, <2>a, MinigameStays DEF Spares
    <2>5. NotWeaker(s)
      <3>1. ASSUME NEW r \in Requests, Speak(r) PROVE NotWeaker(s)
        BY <2>2, <2>3, <2>4, <3>1, FailuresStay, PressureStays DEF NotWeaker
      <3>2. CASE \A r \in Requests : ~Speak(r)
        <4>1. log' = log BY <3>2, OthersLeaveTheScenes
        <4>2. Failures(s)' = Failures(s) /\ SummaryPressure(s)' = SummaryPressure(s)
          BY <4>1 DEF Failures, SummaryPressure, LastCode, CodedRows, RowsOf
        <4>3. Failures(s) \in Nat BY <2>2, FailuresCount
        <4> QED BY <2>4, <4>2, <4>3 DEF NotWeaker
      <3> QED BY <3>1, <3>2
    <2> QED BY <1>1, <2>1, <2>5, RankFollows
  <1> QED BY <1>2, <1>3

(* The support for the scene being played only weakens for a reason,       *)
(* whatever the turns in between, for every log that holds a turn.         *)
THEOREM SupportIsKept == ASSUME LogCapacity # 0 PROVE LearnSpec => SupportNeverWeakens
  <1>1. /\ FramesInv /\ FramesInv' /\ SummaryInv /\ BenchHidesOther /\ MinigamesShownTrue
        /\ SecuritySceneStaysShut /\ [LearnNext]_learnVars
        => [HintRank' < HintRank =>
              \/ active' # active
              \/ /\ turns' # turns
                 /\ \/ log'[Len(log')].scene = active
                          /\ log'[Len(log')].status = "accepted"
                    \/ Len(log) = LogCapacity /\ log[1].scene = active]_learnVars
    BY SupportStep DEF Excused
  <1>2. LearnSpec => []BenchHidesOther
    <2>1. BenchHidesOther /\ [LearnNext]_learnVars => BenchHidesOther' BY BenchStep
    <2> QED BY <2>1, BenchInit, PTL DEF LearnSpec
  <1> QED
    BY <1>1, <1>2, FramesHold, SummariesHold, MinigamesAreShownTrue,
       LearningPlaysTheCase, SecuritySceneIsUnreachable, PTL
    DEF LearnSpec, SupportNeverWeakens
=============================================================================

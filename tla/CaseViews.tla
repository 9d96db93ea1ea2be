------------------------------ MODULE CaseViews ------------------------------
(***************************************************************************)
(* What the player is shown of the case between its beginning and its end: *)
(* the visible dialogue, learning and investigation projections, which     *)
(* SimRunner builds for every tick it records and every frame it sends.    *)
(* A projection is a function of the state; the titles, prompts and other  *)
(* wording it carries are left out, its fields are named for what they     *)
(* tell.                                                                   *)
(***************************************************************************)
EXTENDS CaseLearning

(* The fields an object's known state may have, and what brings each.      *)
FieldSources ==
    [lock |-> {"O1.inspect", "O1.check_lock"}, contents |-> {"O1.inspect"},
     surface |-> {"O1.examine_surface"}, medallion |-> {"O2.examine"},
     label |-> {"O3.read"}, bench |-> {"O4.inspect"}, torn_note |-> {"O4.inspect"},
     logbook |-> {"O5.read"}, terminal |-> {"O6.request_access", "O6.view_logs"},
     log_entries |-> {"O6.view_logs"}, binder |-> {"O7.read"},
     door |-> {"O8.inspect", "O8.attempt_code"}, code_hint |-> {"O8.inspect"},
     receipts |-> {"O9.ask_for_receipt", "O9.read_receipt"},
     receipt |-> {"O9.read_receipt"}, board |-> {"O10.read"}]

KnownState ==
    {f \in DOMAIN FieldSources :
        /\ FieldSources[f] \cap observed # {}
        /\ f = "torn_note" => "E1" \in discovered}

VisibleInvestigation ==
    [observed |-> observed, known_state |-> KnownState,
     discovered |-> discovered, collected |-> collected, facts |-> known,
     unlockable |-> unlockable, edges |-> acknowledged,
     satisfied |-> "state_contradiction_N3_N4" \in actions]

(* The key facts of a summary are listed once they are known.              *)
KeysShown(s) == SummaryKeys[s] \cap known

VisibleLearning ==
    [active |-> active, rank |-> HintRank, reason |-> HintReason,
     summaries |-> [s \in Scenes |->
        [status |-> SummaryStatus(s), last |-> LastCode(s),
         attempts |-> Cardinality(SummaryAttempts(s)),
         completed |-> completion[s] = "completed", keys |-> KeysShown(s)]],
     minigames |-> [g \in Minigames |->
        [status |-> MinigameStatus(g), gate |-> GateIsOpen(g)]]]

(* The dialogue projection lists the last turns of the log by their index, *)
(* each with the facts it revealed, those that are known.                  *)
TurnsShown == 8
TurnIndices == {k \in (turns - Len(log) + 1)..turns : k > turns - TurnsShown}
VisibleTurns ==
    [k \in TurnIndices |-> [log[k - turns + Len(log)] EXCEPT !.reveals = @ \cap known]]
VisibleDialogue ==
    [active |-> active, completion |-> completion, surfaced |-> surfaced,
     turns |-> VisibleTurns,
     satisfied |-> "state_contradiction_N3_N4" \in actions,
     learning |-> VisibleLearning]

-------------------------------------------------------------------------------
(* Properties.                                                             *)

(* The facts a field gives away.  What O1.inspect shows of the latch is    *)
(* N7 in other words and is given to whoever looks, known or not.  The     *)
(* reveals are taken from the log, before the projection withholds any.    *)
FactInField == [label |-> "N1", code_hint |-> "N2", log_entries |-> "N3",
                receipt |-> "N4", torn_note |-> "N6", surface |-> "N7"]
FactsTold ==
    (UNION {log[i].reveals : i \in DOMAIN log})
        \cup (UNION {VisibleLearning.summaries[s].keys : s \in Scenes})
        \cup {FactInField[f] :
                f \in VisibleInvestigation.known_state \cap DOMAIN FactInField}

(* The badge logs can have been asked for in vain: they are archived, and  *)
(* somebody may have vouched for the way to them.                          *)
LogsWithheld ==
    /\ Archived
    /\ VouchedFor("access:terminal_granted") \/ VouchedFor("trust:marc>=gate")

(* Nothing the projections show is ahead of what the player has learned,   *)
(* whichever path the knowledge came by, but for the archived logs; and    *)
(* the medallion is described only to a player who holds it.               *)
NothingShownUnearned ==
    /\ FactsTold \subseteq known \cup {f \in {"N3"} : LogsWithheld}
    /\ "medallion" \in VisibleInvestigation.known_state => Recovered

(* A summary is shown as passed exactly when its scene is over and the log *)
(* still holds the pass: after that the completed scene is shown as not    *)
(* begun, or as to be tried again.                                         *)
SummariesShownTrue ==
    \A s \in Scenes :
        LET shown == VisibleLearning.summaries[s]
        IN  /\ shown.status = "passed" => shown.completed
            /\ shown.completed /\ shown.status # "passed" => turns > LogCapacity
            /\ shown.completed => \A i \in RowsOf(s) :
                  log[i].code = "summary_passed" => shown.status = "passed"

(* A minigame shown as solved has taught its fact, and the only ones that  *)
(* can be left half done are the torn note's on seed B, where the bench    *)
(* hides another clue, and that of the archived logs.                      *)
MinigamesShownTrue ==
    \A g \in Minigames :
        LET status == VisibleLearning.minigames[g].status
            fact == [MG1 |-> "N1", MG2 |-> "N3", MG3 |-> "N4", MG4 |-> "N6"][g]
        IN  /\ status = "completed" => fact \in known
            /\ status = "needs_retry" =>
                  \/ g = "MG4" /\ Seed = "B" /\ "N6" \notin known
                  \/ g = "MG2" /\ LogsWithheld /\ "N3" \notin known

(* What the player is shown is true of the case: the parts above, the      *)
(* surfaced scenes those that are not locked (a scene may be entered       *)
(* without ever having been unlocked), a scene called active that is being *)
(* played, a turn shown as a passed summary whose scene is shown as        *)
(* completed, and a log that holds the passes the engine counts.           *)
ShownIsTrue ==
    /\ NothingShownUnearned /\ SummariesShownTrue /\ MinigamesShownTrue
    /\ SurfacedIsUnlocked
    /\ LET shown == VisibleDialogue
       IN  /\ shown.active # "none" => shown.completion[shown.active] = "in_progress"
           /\ \A k \in DOMAIN shown.turns :
                 shown.turns[k].code = "summary_passed" =>
                    shown.completion[shown.turns[k].scene] = "completed"
    /\ passes = {turns - Len(log) + i :
                    i \in {j \in DOMAIN log : log[j].code = "summary_passed"}}

(* The support for the scene being played only weakens for a reason: a     *)
(* turn in it was accepted, another scene is played, or its oldest turn    *)
(* fell out of the log.                                                    *)
SupportNeverWeakens ==
    [][HintRank' < HintRank =>
          \/ active' # active
          \/ /\ turns' # turns
             /\ \/ log'[Len(log')].scene = active
                      /\ log'[Len(log')].status = "accepted"
                \/ Len(log) = LogCapacity /\ log[1].scene = active]_learnVars
=============================================================================

------------------------------- MODULE CaseLive -------------------------------
(***************************************************************************)
(* The case as it can be played through the live host.  SimRunner offers   *)
(* the calls of CaseEngine to whoever holds it; the command handlers of    *)
(* EnqueteurLiveSessionHost offer a viewer only some of them, with some of *)
(* their arguments, and one call that the runner does not have: a minigame *)
(* is a plan of investigation commands run one after another.              *)
(*                                                                         *)
(* A handler never awaits, so that while a plan is run nothing else        *)
(* happens.  Handlers whose checks fail before they call the runner change *)
(* nothing and have no action; so has the check that an accusation names   *)
(* only what the player holds, for an accusation need not name anything.   *)
(***************************************************************************)
EXTENDS CaseRecap, Sequences

CONSTANT
    ViewerTurns  \* bound on the dialogue turns of a viewer's run

VARIABLES
    host,  \* who calls: the runner's own program, or the live host
    plan,  \* the minigame being handled: its rest, what was held before it
    won    \* the minigames accepted so far

liveVars == <<vars, host, plan, won>>

Live == host = "live"
Idling == [game |-> "none", rest |-> <<>>, held |-> <<>>]

(* ENQUETEUR_MINIGAME_ACTION_PLAN.                                         *)
ActionPlan == [MG1 |-> <<"O3.read">>,
               MG2 |-> <<"O6.request_access", "O6.view_logs">>,
               MG3 |-> <<"O9.ask_for_receipt", "O9.read_receipt">>,
               MG4 |-> <<"O4.inspect">>]
StepsOf(g) == {ActionPlan[g][i] : i \in DOMAIN ActionPlan[g]}

(* INVESTIGATE_OBJECT carries no code for the keypad, which the object     *)
(* then refuses for its shape, and the host vouches for no prerequisite.   *)
Offered(a, granted) == Live => a # "O8.attempt_code" /\ granted = {}

(* Mutated form: only the clues are left out.                              *)
WithoutClues(r) == [r EXCEPT !.tone = "proper", !.evidence = {}]

(* DIALOGUE_TURN carries a scene, a person, an intent and slots: whatever  *)
(* the player has in mind, the turn the host makes of it presents neither  *)
(* facts nor clues, and has no wording that could be rude.                 *)
Submitted(r) == [r EXCEPT !.tone = "proper", !.facts = {}, !.evidence = {}]

-------------------------------------------------------------------------------
(* MINIGAME_SUBMIT.                                                        *)

Held == <<known, discovered, collected, actions, objects>>

SubmitMinigame(g) ==
    /\ Live /\ plan = Idling /\ StepsOf(g) \subseteq Commands
    /\ plan' = [game |-> g, rest |-> ActionPlan[g], held |-> Held]
    /\ UNCHANGED <<vars, host, won>>

(* The plan goes on while its steps are answered, and is accepted after    *)
(* the last; the first step refused is the answer, and nothing is undone.  *)
PlayOn ==
    /\ plan # Idling
    /\ LET a == Head(plan.rest)
           over == Tail(plan.rest) = <<>>
       IN  /\ Investigate(a, {})
           /\ plan' = IF Answered(a, {}) /\ ~over
                      THEN [game |-> plan.game, rest |-> Tail(plan.rest), held |-> plan.held]
                      ELSE Idling
           /\ won' = IF Answered(a, {}) /\ over THEN won \cup {plan.game} ELSE won
    /\ UNCHANGED host

-------------------------------------------------------------------------------
(* The other handlers, by the runner's call they make.  The host attempts  *)
(* a recovery quietly and an accusation in private, and has no command     *)
(* that submits a contradiction.                                           *)

InvestigateObject(a, granted) == Offered(a, granted) /\ Investigate(a, granted)
SayTurn(r) ==
    /\ Live => turns < ViewerTurns
    /\ DialogueTurn(IF Live THEN Submitted(r) ELSE r)
StateContradiction == ~Live /\ SubmitContradictionEdge
Recover(quiet) == (Live => quiet) /\ AttemptRecovery(quiet)
Accuse(suspect, public) ==
    /\ ~(Live /\ public)
    /\ \/ suspect = Culprit /\ AccuseCulprit(public)
       \/ AccuseInnocent(suspect, public)

Command ==
    /\ plan = Idling
    /\ \/ \E a \in Commands, granted \in Grants : InvestigateObject(a, granted)
       \/ \E r \in Requests : SayTurn(r)
       \/ StateContradiction
       \/ \E quiet \in BOOLEAN : Recover(quiet)
       \/ \E suspect \in Suspects, public \in BOOLEAN : Accuse(suspect, public)
       \/ \E t \in Instants : AdvanceTo(t)
    /\ UNCHANGED <<host, plan, won>>

LiveInit == Init /\ host \in {"runner", "live"} /\ plan = Idling /\ won = {}
LiveNext ==
    \/ Command
    \/ \E g \in DOMAIN ActionPlan : SubmitMinigame(g)
    \/ PlayOn
LiveSpec == LiveInit /\ [][LiveNext]_liveVars

-------------------------------------------------------------------------------
(* Properties.                                                             *)

(* Through the live host the badge terminal never opens: no caller vouches *)
(* for Marc's trust and no turn earns it, so that the badge log's minigame *)
(* is never won, alone or as part of a plan.                               *)
TerminalStaysShut == Live => ~objects.access /\ "MG2" \notin won

(* Through the live host the case cannot be solved, on any seed: the badge *)
(* terminal never opens, no scene is ever completed, the contradiction is  *)
(* never stated and the drop location never learned, so that every         *)
(* recovery and every accusation is turned down and the case ends by its   *)
(* deadline alone.                                                         *)
OnlyTimeEndsIt ==
    /\ TerminalStaysShut
    /\ Live => /\ "N8" \notin known /\ actions \subseteq {"polite_gate_usage"}
               /\ \A s \in Scenes : completion[s] # "completed"
               /\ ~ConfrontationReady
               /\ PrimaryOutcome =
                     IF clock >= SoftFailTime THEN "soft_fail" ELSE "in_progress"

(* A minigame is refused as a whole although it is played step by step:    *)
(* what its earlier steps would leave behind is never there when a later   *)
(* one is refused.  And one that was accepted is accepted again.           *)
MinigamesSettle ==
    [][plan # Idling /\ ~Answered(Head(plan.rest), {}) =>
          Held' = plan.held /\ plan.game \notin won]_liveVars
=============================================================================

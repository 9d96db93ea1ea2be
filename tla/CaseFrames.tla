------------------------------ MODULE CaseFrames ------------------------------
(***************************************************************************)
(* The case on its way to the viewer: the state of the subscribed channels *)
(* that a baseline sends, the operations a FRAME_DIFF makes of two such    *)
(* states, and what the client's liveStateBridge makes of the operations.  *)
(* The world channel is not the case's and is left out.                    *)
(*                                                                         *)
(* No operation carries the surfaced scenes, the acknowledged edges, what  *)
(* was observed and not collected, nor whether the contradiction is        *)
(* satisfied: a client keeps those of its last baseline, and they are no   *)
(* part of the state below.                                                *)
(***************************************************************************)
EXTENDS CaseViews, CaseRecap

(* A cast member's row: where the timeline has put it, and its feelings.   *)
VisiblePeople ==
    [n \in Npcs |->
        [beats |-> {b \in Beats : BeatNpc[b] = n /\ BeatTime[b] <= clock},
         trust |-> {trust[m] : m \in Gatekeepers \cap {n}}, stress |-> stress[n]]]

AffordancesOf ==
    [O1 |-> {"O1.inspect", "O1.check_lock", "O1.examine_surface"},
     O2 |-> {"O2.examine"}, O3 |-> {"O3.read"}, O4 |-> {"O4.inspect"},
     O5 |-> {"O5.read"}, O6 |-> {"O6.request_access", "O6.view_logs"},
     O7 |-> {"O7.read"}, O8 |-> {"O8.inspect", "O8.attempt_code"},
     O9 |-> {"O9.ask_for_receipt", "O9.read_receipt"}, O10 |-> {"O10.read"}]
FieldsOf ==
    [o \in DOMAIN AffordancesOf |->
        {f \in DOMAIN FieldSources : FieldSources[f] \subseteq AffordancesOf[o]}]
VisibleObjects ==
    LET fields == KnownState
    IN  [o \in DOMAIN AffordancesOf |->
            [observed |-> observed \cap AffordancesOf[o],
             known_state |-> fields \cap FieldsOf[o]]]

(* What of the channels' state the operations can carry.                   *)
ChannelState ==
    LET learning == VisibleLearning
        told == Recap
    IN  [npcs |-> VisiblePeople,
         discovered |-> discovered, collected |-> collected, facts |-> known,
         objects |-> VisibleObjects, unlockable |-> {e \in {"N3_N4"} : unlockable},
         active |-> active, completion |-> completion, turns |-> VisibleTurns,
         rank |-> learning.rank, minigames |-> learning.minigames,
         \* The summaries go with the policy: its scene, its rank and its reason.
         summary |-> [learning EXCEPT !.minigames = <<>>],
         outcome |-> told, recap |-> {r \in {told} : r.available}]

-------------------------------------------------------------------------------
(* _compute_enqueteur_frame_diff_ops.  An operation that may or may not be *)
(* sent is a set with at most one value.                                   *)

Changed(old, new) == {v \in {new} : new # old}
Upserts(old, new) ==
    [k \in {j \in DOMAIN new : j \notin DOMAIN old \/ old[j] # new[j]} |-> new[k]]

(* Mutated form: the list is looked at as one that only grows.             *)
TurnsAfterPrefix(old, new) ==
    [k \in {j \in DOMAIN new \ DOMAIN old : DOMAIN old \subseteq DOMAIN new} |-> new[k]]

(* A turn is sent once, by its index.                                      *)
AppendedTurns(old, new) == [k \in DOMAIN new \ DOMAIN old |-> new[k]]

FrameOps(from, to) ==
    [npcs |-> Upserts(from.npcs, to.npcs),
     discovered |-> to.discovered \ from.discovered,
     collected |-> to.collected \ from.collected,
     facts |-> to.facts \ from.facts,
     objects |-> Upserts(from.objects, to.objects),
     available |-> to.unlockable \ from.unlockable,
     cleared |-> from.unlockable \ to.unlockable,
     active |-> Changed(from.active, to.active),
     completion |-> Upserts(from.completion, to.completion),
     turns |-> AppendedTurns(from.turns, to.turns),
     rank |-> Changed(from.rank, to.rank),
     minigames |-> Upserts(from.minigames, to.minigames),
     summary |-> Changed(from.summary, to.summary),
     status |-> Changed(from.outcome.available, to.outcome.available),
     outcome |-> Changed(from.outcome, to.outcome),
     recap |-> Changed(from.recap, to.recap)]

-------------------------------------------------------------------------------
(* convertLiveFrameDiff on what the client holds.                          *)

Taken(held, op) == IF op = {} THEN held ELSE CHOOSE v \in op : TRUE
Merged(held, rows) ==
    [k \in DOMAIN held \cup DOMAIN rows |->
        IF k \in DOMAIN rows THEN rows[k] ELSE held[k]]

(* A turn the client already has is not taken again, and none is dropped;  *)
(* the status goes into the outcome, which an outcome then replaces.       *)
Converted(held, ops) ==
    [npcs |-> Merged(held.npcs, ops.npcs),
     discovered |-> held.discovered \cup ops.discovered,
     collected |-> held.collected \cup ops.collected,
     facts |-> held.facts \cup ops.facts,
     objects |-> Merged(held.objects, ops.objects),
     unlockable |-> (held.unlockable \cup ops.available) \ ops.cleared,
     active |-> Taken(held.active, ops.active),
     completion |-> Merged(held.completion, ops.completion),
     turns |-> Merged(ops.turns, held.turns),
     rank |-> Taken(held.rank, ops.rank),
     minigames |-> Merged(held.minigames, ops.minigames),
     summary |-> Taken(held.summary, ops.summary),
     outcome |-> Taken([held.outcome EXCEPT !.available = Taken(@, ops.status)],
                       ops.outcome),
     recap |-> Taken(held.recap, ops.recap)]

-------------------------------------------------------------------------------
(* Properties.                                                             *)

(* What a client that held the state before makes of the frame is the      *)
(* state after, but for turns too old to be shown, which it keeps.  The    *)
(* operations only ever add facts, clues and turns: this is true because   *)
(* nothing of the case is taken back and no logged turn is ever rewritten. *)
Carried(from, to) ==
    LET got == Converted(from, FrameOps(from, to))
    IN  [got EXCEPT !.turns = [k \in DOMAIN @ \cap DOMAIN to.turns |-> @[k]]] = to
FramesCarryTheCase ==
    [][\A from \in {ChannelState}, to \in {ChannelState'} : Carried(from, to)]_learnVars
=============================================================================

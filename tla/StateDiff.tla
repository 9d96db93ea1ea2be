------------------------------- MODULE StateDiff -------------------------------
(* compute_state_diff_ops and apply_state_diff_ops on canonical states.       *)
(*                                                                            *)
(* A canonical state holds groups of rows keyed by an id (rooms, agents,      *)
(* items, objects, events), slices that are replaced whole (world, case,      *)
(* npc_semantic, investigation, dialogue, case_outcome, case_recap), and the  *)
(* fields no op names (learning, debug).  The lists are sorted by id when     *)
(* they are rebuilt, so a group is a function.  SimRunner's case is attached  *)
(* before the first tick, so that no slice is ever missing.                   *)

CONSTANTS Groups, Ids, Slices, Values

Rows == UNION {[S -> Values] : S \in SUBSET Ids}
States ==
    [groups : [Groups -> Rows], slices : [Slices -> Values], uncarried : Values]

\* What the ops of a diff can carry.
Carried(s) == [groups |-> s.groups, slices |-> s.slices]

(* Mutated form: an entity that is gone leaves no op.                         *)
RemovedNever(from, to) == [g \in Groups |-> {}]

Removed(from, to) ==
    [g \in Groups |-> DOMAIN from.groups[g] \ DOMAIN to.groups[g]]

Upserted(from, to) ==
    [g \in Groups |->
        [i \in {j \in DOMAIN to.groups[g] :
                    j \notin DOMAIN from.groups[g]
                    \/ to.groups[g][j] # from.groups[g][j]} |-> to.groups[g][i]]]

\* The ops: slices to set, rows to remove and rows to put.  A key has at most
\* one op, so their order does not matter.
Diff(from, to) ==
    [set |-> [k \in {j \in Slices : from.slices[j] # to.slices[j]} |-> to.slices[k]],
     removed |-> Removed(from, to),
     upserted |-> Upserted(from, to)]

PatchedRows(rows, removed, upserted) ==
    [i \in (DOMAIN rows \ removed) \cup DOMAIN upserted |->
        IF i \in DOMAIN upserted THEN upserted[i] ELSE rows[i]]

Patch(s, ops) ==
    [groups |-> [g \in Groups |->
                    PatchedRows(s.groups[g], ops.removed[g], ops.upserted[g])],
     slices |-> [k \in Slices |->
                    IF k \in DOMAIN ops.set THEN ops.set[k] ELSE s.slices[k]],
     uncarried |-> s.uncarried]
=============================================================================

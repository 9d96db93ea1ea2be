------------------------------- MODULE EcsStore -------------------------------
(* What ECSWorld promises to systems, snapshots and tests: every living       *)
(* entity has a set of components and one value for each of them, an          *)
(* operation on one entity leaves every other entity as it was, and an id is  *)
(* given out once.  There are no archetypes, rows or indices here: EcsWorld   *)
(* keeps those and implements this module.                                    *)
EXTENDS Naturals

CONSTANTS
    Comps,    \* component types
    Values    \* component values

VARIABLES
    entities, \* id of a living entity -> [its components -> Values]
    next      \* the id the next entity gets

storeVars == <<entities, next>>

\* A set of components with their values.
Bundle == UNION {[S -> Values] : S \in SUBSET Comps}

\* The function f with f[x] = v, and without x.
Put(f, x, v) == [y \in DOMAIN f \cup {x} |-> IF y = x THEN v ELSE f[y]]
Drop(f, x) == [y \in DOMAIN f \ {x} |-> f[y]]

Init ==
    /\ entities = [e \in {} |-> {}]
    /\ next = 1

Create ==
    \E m \in Bundle :
        /\ entities' = Put(entities, next, m)
        /\ next' = next + 1

Destroy ==
    \E e \in DOMAIN entities :
        /\ entities' = Drop(entities, e)
        /\ UNCHANGED next

Write ==
    \E e \in DOMAIN entities, c \in Comps, v \in Values :
        /\ entities' = [entities EXCEPT ![e] = Put(@, c, v)]
        /\ UNCHANGED next

Remove ==
    \E e \in DOMAIN entities, c \in Comps :
        /\ entities' = [entities EXCEPT ![e] = Drop(@, c)]
        /\ UNCHANGED next

Next == Create \/ Destroy \/ Write \/ Remove

Spec == Init /\ [][Next]_storeVars
=============================================================================

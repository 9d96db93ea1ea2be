------------------------------- MODULE EcsWorld -------------------------------
(* ECSWorld: an id allocator, one ArchetypeStorage per component signature,   *)
(* and the world's own index from an entity to its signature and row.         *)
(*                                                                            *)
(* A storage keeps its entities in rows, one column per component, and its    *)
(* own index from entity to row.  Removing a row moves the last row into the  *)
(* hole, so that the entity of another row moves, and two indices kept by two *)
(* classes have to follow it.  Adding or removing a component moves the       *)
(* entity to another storage.  Operations are functions from a world to a     *)
(* world, so that a batch of commands can apply them one after the other.     *)
(* Rows count from 1 here and from 0 in the code; a storage that was not yet  *)
(* asked for is an empty one.                                                 *)
EXTENDS Naturals, Sequences

CONSTANTS
    Comps,      \* component types
    Values,     \* component values
    MaxId       \* bound: ids given out in a run

ASSUME MaxIdAssumption == MaxId \in Nat

VARIABLE ecs    \* the world: next, alive, loc and stores

Put(f, x, v) == [y \in DOMAIN f \cup {x} |-> IF y = x THEN v ELSE f[y]]
Drop(f, x) == [y \in DOMAIN f \ {x} |-> f[y]]

Signatures == SUBSET Comps
Bundle == UNION {[S -> Values] : S \in Signatures}
Nothing == [x \in {} |-> x]

-----------------------------------------------------------------------------
(* ArchetypeStorage *)

EmptyStorage(sig) ==
    [ids |-> <<>>, index |-> Nothing, cols |-> [c \in sig |-> <<>>]]

\* The sequence without its i-th element, whose place the last one takes.
SwapRemove(s, i) ==
    [k \in 1..(Len(s) - 1) |-> IF k = i THEN s[Len(s)] ELSE s[k]]

AddRow(st, e, m) ==
    [ids   |-> Append(st.ids, e),
     index |-> Put(st.index, e, Len(st.ids) + 1),
     cols  |-> [c \in DOMAIN st.cols |-> Append(st.cols[c], m[c])]]

(* Mutated form: the columns close up, the ids swap.                        *)
RemoveRowUnevenly(st, e) ==
    LET row == st.index[e]
    IN  [ids   |-> SwapRemove(st.ids, row),
         index |-> Drop([st.index EXCEPT ![st.ids[Len(st.ids)]] = row], e),
         cols  |-> [c \in DOMAIN st.cols |->
                       SubSeq(st.cols[c], 1, row - 1)
                       \o SubSeq(st.cols[c], row + 1, Len(st.cols[c]))]]

(* Mutated form: the entity in the hole keeps its old index.                 *)
RemoveRowForgetful(st, e) ==
    [ids   |-> SwapRemove(st.ids, st.index[e]),
     index |-> Drop(st.index, e),
     cols  |-> [c \in DOMAIN st.cols |-> SwapRemove(st.cols[c], st.index[e])]]

RemoveRow(st, e) ==
    LET row == st.index[e]
        last == st.ids[Len(st.ids)]
    IN  [ids   |-> SwapRemove(st.ids, row),
         index |-> Drop([st.index EXCEPT ![last] = row], e),
         cols  |-> [c \in DOMAIN st.cols |-> SwapRemove(st.cols[c], row)]]

SetCell(st, e, c, v) == [st EXCEPT !.cols[c][st.index[e]] = v]

\* What the storage returns for an entity: the values of its row.
RowOf(st, e) == [c \in DOMAIN st.cols |-> st.cols[c][st.index[e]]]

-----------------------------------------------------------------------------
(* ECSWorld *)

EmptyWorld ==
    [next |-> 1, alive |-> {}, loc |-> Nothing,
     stores |-> [s \in Signatures |-> EmptyStorage(s)]]

HasEntity(w, e) == e \in DOMAIN w.loc
HasComponent(w, e, c) == HasEntity(w, e) /\ c \in w.loc[e].sig
ComponentsOf(w, e) == RowOf(w.stores[w.loc[e].sig], e)

\* The world's index after the rows of storage s closed over that of e.
Relocate(w, e) ==
    LET s == w.loc[e].sig
        last == w.stores[s].ids[Len(w.stores[s].ids)]
    IN  [w.loc EXCEPT ![last] = [sig |-> s, row |-> w.loc[e].row]]

CreateEntity(w, m) ==
    LET s == DOMAIN m
    IN  [next   |-> w.next + 1,
         alive  |-> w.alive \cup {w.next},
         loc    |-> Put(w.loc, w.next, [sig |-> s, row |-> Len(w.stores[s].ids) + 1]),
         stores |-> [w.stores EXCEPT ![s] = AddRow(@, w.next, m)]]

DestroyEntity(w, e) ==
    IF ~HasEntity(w, e)
    THEN w
    ELSE [next   |-> w.next,
          alive  |-> w.alive \ {e},
          loc    |-> Drop(Relocate(w, e), e),
          stores |-> [w.stores EXCEPT ![w.loc[e].sig] = RemoveRow(@, e)]]

\* The entity's row leaves its storage and a new row enters that of m's signature.
MoveTo(w, e, m) ==
    LET s == DOMAIN m
        left == [w.stores EXCEPT ![w.loc[e].sig] = RemoveRow(@, e)]
    IN  [next   |-> w.next,
         alive  |-> w.alive,
         loc    |-> [Relocate(w, e) EXCEPT ![e] = [sig |-> s, row |-> Len(left[s].ids) + 1]],
         stores |-> [left EXCEPT ![s] = AddRow(@, e, m)]]

AddComponent(w, e, c, v) ==
    IF ~HasEntity(w, e) THEN w
    ELSE IF HasComponent(w, e, c)
         THEN [next |-> w.next, alive |-> w.alive, loc |-> w.loc,
               stores |-> [w.stores EXCEPT ![w.loc[e].sig] = SetCell(@, e, c, v)]]
         ELSE MoveTo(w, e, Put(ComponentsOf(w, e), c, v))

RemoveComponent(w, e, c) ==
    IF ~HasComponent(w, e, c) THEN w
    ELSE MoveTo(w, e, Drop(ComponentsOf(w, e), c))

\* Entities in ascending order with every required component and no excluded one.
Query(w, required, excluded) ==
    {e \in DOMAIN w.loc : required \subseteq w.loc[e].sig
                          /\ excluded \cap w.loc[e].sig = {}}

-----------------------------------------------------------------------------
(* What callers see, and the specification *)

EntitiesOf(w) == [e \in DOMAIN w.loc |-> ComponentsOf(w, e)]

Init == ecs = EmptyWorld

Create ==
    /\ ecs.next <= MaxId
    /\ \E m \in Bundle : ecs' = CreateEntity(ecs, m)
Destroy == \E e \in 1..MaxId : ecs' = DestroyEntity(ecs, e)
Attach == \E e \in 1..MaxId, c \in Comps, v \in Values : ecs' = AddComponent(ecs, e, c, v)
Detach == \E e \in 1..MaxId, c \in Comps : ecs' = RemoveComponent(ecs, e, c)

Next == Create \/ Destroy \/ Attach \/ Detach

Spec == Init /\ [][Next]_ecs

-----------------------------------------------------------------------------
(* Properties *)

\* A storage is a record of these three fields.
Shape(st) == st = [ids |-> st.ids, index |-> st.index, cols |-> st.cols]

\* A storage's rows, columns and index describe the same entities.
StorageOK(st, sig) ==
    /\ st.ids \in Seq(Nat)
    /\ st.cols \in [sig -> Seq(Values)]
    /\ \A c \in sig : Len(st.cols[c]) = Len(st.ids)
    /\ \A e \in DOMAIN st.index :
           st.index[e] \in 1..Len(st.ids) /\ st.ids[st.index[e]] = e
    /\ \A i \in 1..Len(st.ids) :
           st.ids[i] \in DOMAIN st.index /\ st.index[st.ids[i]] = i

\* The world's index and the storages' indices, kept by two classes, place
\* every entity in the same row of the same storage, and in no other.
IndexesAgree(w) ==
    /\ \A e \in DOMAIN w.loc :
           /\ w.loc[e] \in [sig : Signatures, row : Nat]
           /\ e \in DOMAIN w.stores[w.loc[e].sig].index
           /\ w.loc[e].row = w.stores[w.loc[e].sig].index[e]
    /\ \A s \in Signatures : \A e \in DOMAIN w.stores[s].index :
           e \in DOMAIN w.loc /\ w.loc[e].sig = s

\* The allocator knows the living, and gives out no id of theirs again.
IdsOK(w) ==
    /\ w.next \in Nat \ {0}
    /\ w.alive = DOMAIN w.loc
    /\ \A e \in DOMAIN w.loc : e \in Nat /\ 0 < e /\ e < w.next

StoresOK(w) ==
    /\ w.stores = [s \in Signatures |-> w.stores[s]]
    /\ \A s \in Signatures : Shape(w.stores[s]) /\ StorageOK(w.stores[s], s)

WorldOK(w) == IdsOK(w) /\ StoresOK(w) /\ IndexesAgree(w)

(* Whatever rows moved, the two indices agree, the rows and columns line up,  *)
(* the allocator knows exactly the living, and no living id is due to be      *)
(* given out again (world.py, storage.py, entity.py).                         *)
WorldConsistent == WorldOK(ecs)

Store == INSTANCE EcsStore WITH entities <- EntitiesOf(ecs), next <- ecs.next

(* Seen from outside, every operation changes the one entity it names, and a  *)
(* component keeps the value last written to it however often its entity and  *)
(* its neighbours moved between storages.                                     *)
ImplementsStore == Store!Spec
=============================================================================

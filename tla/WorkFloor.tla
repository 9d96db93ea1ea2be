------------------------------- MODULE WorkFloor -------------------------------
(* The systems of the workshop: WorkDesireSystem, WorkAssignmentSystem and    *)
(* ObjectWorkstationSystem, in the order the scheduler runs them.             *)
(*                                                                            *)
(* Each reads the components as they were before the tick and only appends    *)
(* field writes to the tick's batch; the batch is applied afterwards, so that *)
(* of two writes of one field the later system's wins.  Both the assignment   *)
(* and the workstation system write an object's status and occupant, each     *)
(* from what it read.  Scalars are counted in steps: desire in steps of a     *)
(* load band, wear and efficiency in ticks of use.                            *)
EXTENDS Integers, Sequences, SequencesExt, FiniteSets

CONSTANTS
    Workers,       \* agents with a WorkDesire and a WorkAssignment, by id
    Stations,      \* objects with a WorkstationState, by id
    RoomOf,        \* the room of every worker and station; no system moves them
    None,          \* no object, nobody
    Threshold,     \* desire from which a worker wants work
    MaxDesire,     \* desire 1.0, where it is clamped
    MaxEfficiency  \* efficiency 1.0

ASSUME FloorAssumption ==
    /\ Workers \subseteq Int /\ IsFiniteSet(Workers)
    /\ Stations \subseteq Int /\ IsFiniteSet(Stations)
    /\ None \notin Workers \cup Stations
    /\ RoomOf \in [Workers \cup Stations -> Int]
    /\ {Threshold, MaxDesire, MaxEfficiency} \subseteq Nat

Statuses == {"UNAVAILABLE", "BROKEN", "NOT_OCCUPIED", "RUNNING_IDLE",
             "PRODUCING_HALF", "PRODUCING_CAPACITY", "PRODUCING_OVERDRIVE"}
Active == Statuses \ {"UNAVAILABLE", "BROKEN", "NOT_OCCUPIED"}

LeastOf(S) == CHOOSE x \in S : \A y \in S : x <= y

\* The elements of S, each once, those before others first.
InOrder(S, before) ==
    CHOOSE s \in [1..Cardinality(S) -> S] :
        /\ \A x \in S : \E i \in DOMAIN s : s[i] = x
        /\ \A i, j \in DOMAIN s : i < j => <<s[i], s[j]>> \in before
Ascending(S) == InOrder(S, {p \in S \X S : p[1] < p[2]})

Wants(f, a) == f.desire[a] >= Threshold

\* Excess of desire over the threshold, in steps: bands 0 to 3.
LoadBand(f, a) ==
    IF ~Wants(f, a) THEN 0
    ELSE IF f.desire[a] - Threshold > 3 THEN 3 ELSE f.desire[a] - Threshold

Usable(f, o) == f.status[o] \notin {"UNAVAILABLE", "BROKEN"} /\ f.durability[o] > 0

-----------------------------------------------------------------------------
(* Writes of a tick: [field, of, value], applied in order. *)

Set(field, x, v) == [field |-> field, of |-> x, value |-> v]

\* WorkDesireSystem: desire grows up to its clamp, at work or not.
DesireWrites(f) ==
    LET growing == Ascending({a \in Workers : f.desire[a] < MaxDesire})
    IN  [i \in DOMAIN growing |-> Set("desire", growing[i], f.desire[growing[i]] + 1)]

\* The worker gives its station up: no wish to work, unusable, elsewhere, taken.
GivesUp(f, a) ==
    LET o == f.assigned[a]
    IN  /\ o # None
        /\ \/ ~Wants(f, a)
           \/ ~Usable(f, o)
           \/ RoomOf[o] # RoomOf[a]
           \/ f.occupant[o] \notin {None, a}

ReleaseWrites(f, a) ==
    LET o == f.assigned[a]
    IN  IF GivesUp(f, a) /\ f.occupant[o] = a
        THEN <<Set("occupant", o, None)>>
             \o (IF f.status[o] \in {"BROKEN", "UNAVAILABLE"} THEN <<>>
                 ELSE <<Set("status", o, "NOT_OCCUPIED")>>)
        ELSE <<>>

(* Mutated form: of two workers who would choose the same station one goes without.*)
ChoiceOnlyFirst(f, a, claimed) ==
    LET free == {o \in Stations :
                    RoomOf[o] = RoomOf[a] /\ Usable(f, o) /\ f.occupant[o] = None}
    IN  IF free = {} \/ LeastOf(free) \in claimed THEN None ELSE LeastOf(free)

\* The free station of the worker's room with the least id, if any.
Choice(f, a, claimed) ==
    LET free == {o \in Stations \ claimed :
                    RoomOf[o] = RoomOf[a] /\ Usable(f, o) /\ f.occupant[o] = None}
    IN  IF free = {} THEN None ELSE LeastOf(free)

(* Mutated form: the station is occupied and not started.                   *)
TakeWithoutStart(f, a, o) == IF f.occupant[o] # a THEN <<Set("occupant", o, a)>> ELSE <<>>

TakeWrites(f, a, o) ==
    (IF f.occupant[o] # a THEN <<Set("occupant", o, a)>> ELSE <<>>)
    \o (IF f.status[o] = "NOT_OCCUPIED" THEN <<Set("status", o, "RUNNING_IDLE")>> ELSE <<>>)

\* One worker's turn in WorkAssignmentSystem: t carries what the system read,
\* the claims and the writes of the turns before.
AssignTurn(t, a) ==
    LET f == t.read
        keeps == f.assigned[a] # None /\ ~GivesUp(f, a)
        chosen == IF keeps \/ ~Wants(f, a) THEN None ELSE Choice(f, a, t.claimed)
        now == IF keeps THEN f.assigned[a] ELSE chosen
    IN  [read    |-> f,
         claimed |-> t.claimed \cup ({chosen} \ {None}),
         writes  |-> t.writes \o ReleaseWrites(f, a)
                     \o (IF chosen # None THEN TakeWrites(f, a, chosen) ELSE <<>>)
                     \o (IF f.assigned[a] # now THEN <<Set("assigned", a, now)>> ELSE <<>>)
                     \o (IF f.band[a] # LoadBand(f, a)
                         THEN <<Set("band", a, LoadBand(f, a))>> ELSE <<>>)]

AssignTurns(t, as) == FoldLeft(AssignTurn, t, as)

AssignmentWrites(f) ==
    AssignTurns([read |-> f, claimed |-> {}, writes |-> <<>>], Ascending(Workers)).writes

\* The status of an occupied station, from the load its worker had.
StatusFromLoad(f, o, a) ==
    LET load == IF f.assigned[a] # None THEN f.band[a] ELSE 0
    IN  IF f.efficiency[o] = 0 \/ load <= 0 THEN "RUNNING_IDLE"
        ELSE IF load = 1 THEN "PRODUCING_HALF"
        ELSE IF load = 2 \/ f.efficiency[o] < MaxEfficiency THEN "PRODUCING_CAPACITY"
        ELSE "PRODUCING_OVERDRIVE"

\* ObjectWorkstationSystem for one station, on what it read before the tick.
StationWrites(f, o) ==
    LET spent == f.durability[o] = 0
        status == IF spent THEN "BROKEN" ELSE f.status[o]
        dead == status \in {"UNAVAILABLE", "BROKEN"}
        occupant == IF dead THEN None ELSE f.occupant[o]
        desired == IF dead THEN status
                   ELSE IF occupant = None THEN "NOT_OCCUPIED"
                   ELSE StatusFromLoad(f, o, occupant)
        use == IF desired = "PRODUCING_OVERDRIVE" THEN 2 ELSE 1
        less(x) == IF x > use THEN x - use ELSE 0
        durability == IF desired \in Active THEN less(f.durability[o]) ELSE f.durability[o]
        efficiency == IF desired \in Active THEN less(f.efficiency[o])
                      ELSE IF desired = "NOT_OCCUPIED" /\ f.efficiency[o] < MaxEfficiency
                           THEN f.efficiency[o] + 1 ELSE f.efficiency[o]
        breaks == durability = 0
        final == IF breaks THEN "BROKEN" ELSE desired
        holder == IF breaks THEN None ELSE occupant
        changed(field, old, new) == IF old # new THEN <<Set(field, o, new)>> ELSE <<>>
    IN  changed("durability", f.durability[o], durability)
        \o changed("efficiency", f.efficiency[o], efficiency)
        \o changed("status", status, final)
        \o changed("occupant", f.occupant[o], holder)

\* Stations come by room, then by id.
StationOrder ==
    InOrder(Stations, {p \in Stations \X Stations :
                           \/ RoomOf[p[1]] < RoomOf[p[2]]
                           \/ RoomOf[p[1]] = RoomOf[p[2]] /\ p[1] < p[2]})

Joined(ss) == FoldLeft(\o, <<>>, ss)
WorkstationWrites(f) ==
    Joined([i \in DOMAIN StationOrder |-> StationWrites(f, StationOrder[i])])

-----------------------------------------------------------------------------

\* The tick's batch, in the scheduler's order, and its application.
FloorBatch(f) == DesireWrites(f) \o AssignmentWrites(f) \o WorkstationWrites(f)
ApplyWrite(g, s) == [g EXCEPT ![s.field][s.of] = s.value]
ApplyFloor(f, ws) == FoldLeft(ApplyWrite, f, ws)

\* Floors as the world is built: nobody at work, every station usable.
NewFloors(desires, durabilities) ==
    [desire     : [Workers -> desires],
     assigned   : {[a \in Workers |-> None]},
     band       : {[a \in Workers |-> 0]},
     status     : {[o \in Stations |-> "NOT_OCCUPIED"]},
     occupant   : {[o \in Stations |-> None]},
     durability : [Stations -> durabilities],
     efficiency : {[o \in Stations |-> MaxEfficiency]}]

Holds(f, a, o) == f.assigned[a] = o

(* What the systems owe each other between two ticks. *)
HoldersAgree(f) ==
    /\ \A a \in Workers, o \in Stations :
           /\ f.occupant[o] = a => Holds(f, a, o)
           /\ Holds(f, a, o) => f.occupant[o] = a \/ f.status[o] = "BROKEN"
    /\ \A o \in Stations : f.occupant[o] # None <=> f.status[o] \in Active
=============================================================================

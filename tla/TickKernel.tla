------------------------------ MODULE TickKernel ------------------------------
(* runtime.tick(): the clock advances, the systems read the world and fill a  *)
(* batch of ECS commands, the batch is applied, then the world commands, and  *)
(* the tick's output goes to the sink.                                        *)
(*                                                                            *)
(* A command that raises ends the tick where it stands: the clock has         *)
(* advanced, what was applied stays applied, and no output is emitted.  The   *)
(* caller of run() gets the exception and may run further ticks.  The floor's *)
(* systems are those of WorkFloor; a further system and the provider of world *)
(* commands are the caller's, and issue any batch of the constants.           *)
EXTENDS EcsWorld, WorldLayer, WorkFloor

CONSTANTS
    EcsBatches,     \* what the caller's system may issue in a tick
    WorldBatches,   \* what the caller's provider may issue in a tick
    Embodied,       \* components that make an entity an agent of the snapshot
    Founders,       \* the entities built before the first tick, in order
    InitialWorlds,  \* contexts the world may be built as
    InitialFloors,  \* floors the world may be built as
    TicksPerDay,
    MaxTick,        \* bound: ticks of a run
    MaxCalls        \* bound: commands of the caller in a run

\* What a system may enqueue; a create command carries the components to attach.
EcsCommands ==
    [op : {"create"}, with : Seq(Comps \X Values)]
    \cup [op : {"destroy", "set", "field", "remove"}, e : Nat, c : Comps, v : Values]

ASSUME BatchesAssumption ==
    /\ EcsBatches \subseteq Seq(EcsCommands)
    /\ WorldBatches \subseteq Seq(WorldCommands)

\* Worlds are built by registering agents and items, floors with nobody at work.
ASSUME BuiltAssumption ==
    /\ Founders \in Seq(Bundle)
    /\ \A w \in InitialWorlds :
           /\ w.agentRoom \in [DOMAIN w.agentRoom -> Rooms]
           /\ w.itemRoom \in [DOMAIN w.itemRoom -> Rooms \cup {Unplaced}]
           /\ w = NewContext(w.agentRoom, w.itemRoom)
    /\ InitialFloors \subseteq NewFloors(Nat, Nat)

ASSUME TicksPerDayAssumption == TicksPerDay \in Nat \ {0}

VARIABLES
    clock,      \* TickClock.tick_index
    time,       \* WorldContext.time: day and tick in it
    world,      \* WorldContext: rooms, items, doors
    floor,      \* the floor's components
    phase,      \* where the tick stands
    ecsQueue,   \* ECS commands of the tick not yet applied
    worldQueue, \* world commands of the tick not yet applied
    events,     \* world events of the tick
    outputs,    \* what the sink was given: the last two ticks' outputs
    calls       \* commands the caller has issued

kernelVars == <<clock, time, ecs, world, floor, phase, ecsQueue, worldQueue,
                events, outputs, calls>>

-----------------------------------------------------------------------------
(* ECSWorld.apply_commands *)

EcsRaises(w, k) ==
    \/ k.op \in {"set", "remove", "field"} /\ ~HasEntity(w, k.e)
    \/ k.op = "field" /\ ~HasComponent(w, k.e, k.c)

\* A component for the entity created last.
AddToNewest(w, p) == AddComponent(w, w.next - 1, p[1], p[2])
AddAllToNewest(w, ps) == FoldLeft(AddToNewest, w, ps)

ApplyEcs(w, k) ==
    CASE k.op = "create" -> AddAllToNewest(CreateEntity(w, Nothing), k.with)
      [] k.op = "destroy" -> DestroyEntity(w, k.e)
      [] k.op \in {"set", "field"} -> AddComponent(w, k.e, k.c, k.v)
      [] k.op = "remove" -> RemoveComponent(w, k.e, k.c)

-----------------------------------------------------------------------------
(* The tick *)

LastTwo(s) == IF Len(s) > 2 THEN Tail(s) ELSE s

\* update_time: tick 1 is the first of day 1.
TimeAt(t) == [day |-> 1 + (t - 1) \div TicksPerDay, tick |-> (t - 1) % TicksPerDay]

\* Occupants of a room come from the world's index, agents from the ECS: the
\* snapshot has two sources for where an agent is, and nothing joins them.
RoomOccupants == world.roomAgents
AgentBodies == [e \in Query(ecs, Embodied, {}) |-> ComponentsOf(ecs, e)]
PlacedItems == world.itemRoom
StationStates == [status |-> floor.status, occupant |-> floor.occupant]
OpenDoors == world.open

Snapshot ==
    [tick |-> clock, time |-> time, occupants |-> RoomOccupants, items |-> PlacedItems,
     open |-> OpenDoors, agents |-> AgentBodies, stations |-> StationStates]

\* The world is built entity by entity before the first run().
BuildEntity ==
    /\ clock = 0 /\ ecs.next <= Len(Founders)
    /\ ecs' = CreateEntity(ecs, Founders[ecs.next])
    /\ UNCHANGED <<clock, time, world, floor, phase, ecsQueue, worldQueue, events,
                   outputs, calls>>

BeginTick ==
    /\ phase = "idle" /\ clock < MaxTick /\ ecs.next > Len(Founders)
    /\ \E es \in EcsBatches, ws \in WorldBatches :
           /\ calls + Len(es) + Len(ws) <= MaxCalls
           /\ calls' = calls + Len(es) + Len(ws)
           /\ ecsQueue' = es
           /\ worldQueue' = ws
    /\ clock' = clock + 1
    /\ time' = TimeAt(clock + 1)
    /\ events' = <<>>
    /\ phase' = "floor"
    /\ UNCHANGED <<ecs, world, floor, outputs>>

\* The first commands of the batch: those of the scheduler's own systems.
RunFloor ==
    /\ phase = "floor"
    /\ floor' = ApplyFloor(floor, FloorBatch(floor))
    /\ phase' = "commands"
    /\ UNCHANGED <<clock, time, ecs, world, ecsQueue, worldQueue, events, outputs, calls>>

\* The exception leaves tick() and run(): nothing is emitted for this tick.
Raise ==
    /\ phase' = "idle"
    /\ ecsQueue' = <<>>
    /\ worldQueue' = <<>>
    /\ events' = <<>>
    /\ UNCHANGED <<clock, time, ecs, world, floor, outputs, calls>>

EcsCommand ==
    /\ phase = "commands" /\ ecsQueue # <<>> /\ ~EcsRaises(ecs, Head(ecsQueue))
    /\ ecs' = ApplyEcs(ecs, Head(ecsQueue))
    /\ ecsQueue' = Tail(ecsQueue)
    /\ UNCHANGED <<clock, time, world, floor, phase, worldQueue, events, outputs, calls>>

EcsCommandRaises ==
    phase = "commands" /\ ecsQueue # <<>> /\ EcsRaises(ecs, Head(ecsQueue)) /\ Raise

WorldCommand ==
    /\ phase = "commands" /\ ecsQueue = <<>> /\ worldQueue # <<>> /\ ~Refuses(world, Head(worldQueue))
    /\ world' = ApplyWorld(world, Head(worldQueue))
    /\ events' = Append(events, EventOf(world, Head(worldQueue)))
    /\ worldQueue' = Tail(worldQueue)
    /\ UNCHANGED <<clock, time, ecs, floor, phase, ecsQueue, outputs, calls>>

WorldCommandRaises ==
    phase = "commands" /\ ecsQueue = <<>> /\ worldQueue # <<>> /\ Refuses(world, Head(worldQueue)) /\ Raise

\* Events get the tick and their place in it; snapshot and events go to the sink.
EmitTick ==
    /\ phase = "commands" /\ ecsQueue = <<>> /\ worldQueue = <<>>
    /\ outputs' = LastTwo(Append(outputs, [snapshot |-> Snapshot, events |-> events]))
    /\ events' = <<>>
    /\ phase' = "idle"
    /\ UNCHANGED <<clock, time, ecs, world, floor, ecsQueue, worldQueue, calls>>

KernelInit ==
    /\ clock = 0 /\ time = [day |-> 1, tick |-> 0]
    /\ ecs = EmptyWorld
    /\ world \in InitialWorlds
    /\ floor \in InitialFloors
    /\ phase = "idle" /\ ecsQueue = <<>> /\ worldQueue = <<>> /\ events = <<>>
    /\ outputs = <<>> /\ calls = 0

KernelNext ==
    \/ BuildEntity
    \/ BeginTick \/ RunFloor
    \/ EcsCommand \/ EcsCommandRaises
    \/ WorldCommand \/ WorldCommandRaises
    \/ EmitTick

KernelSpec == KernelInit /\ [][KernelNext]_kernelVars

-----------------------------------------------------------------------------
(* Properties *)

(* The rooms' lists of agents and items, kept beside the agents' and items'   *)
(* rooms, say the same after every command, also in a tick that was cut short *)
(* (context.py:217-326).                                                      *)
PlacesAgree == WorldIndexed(world)

\* An observer's picture of the places, changed by one event.
Told(p, ev) ==
    CASE ev.kind = "AGENT_MOVED_ROOM" ->
             [p EXCEPT !.occupants[ev.from] = @ \ {ev.who},
                       !.occupants[ev.room] = @ \cup {ev.who}]
      [] ev.kind = "ITEM_SPAWNED" ->
             [p EXCEPT !.items = [i \in DOMAIN @ \cup {ev.who} |->
                                     IF i = ev.who THEN ev.room ELSE @[i]]]
      [] ev.kind = "ITEM_DESPAWNED" -> [p EXCEPT !.items[ev.who] = Unplaced]
      [] ev.kind = "DOOR_OPENED" -> [p EXCEPT !.open[ev.who] = TRUE]
      [] ev.kind = "DOOR_CLOSED" -> [p EXCEPT !.open[ev.who] = FALSE]

\* And by events one after the other.
Retold(p, evs) == FoldLeft(Told, p, evs)

Places(out) == [occupants |-> out.snapshot.occupants, items |-> out.snapshot.items,
                open |-> out.snapshot.open]

(* Outputs come in the order of ticks, and of two that follow each other      *)
(* without a gap the second's events lead from the first's places to its own: *)
(* changes without an event show only across a tick that raised               *)
(* (tick.py:197-243, apply_world_commands.py:49-125).                         *)
OutputsExplain ==
    Len(outputs) = 2 =>
        LET before == outputs[1]
            after == outputs[2]
        IN  /\ before.snapshot.tick < after.snapshot.tick
            /\ \/ before.snapshot.time.day < after.snapshot.time.day
               \/ /\ before.snapshot.time.day = after.snapshot.time.day
                  /\ before.snapshot.time.tick < after.snapshot.time.tick
            /\ after.snapshot.tick = before.snapshot.tick + 1 =>
                   Retold(Places(before), after.events) = Places(after)

(* Workers and stations agree on who works where although two systems write   *)
(* both sides from what they read before the tick: a worker's station knows   *)
(* it or is broken, and exactly the occupied stations run                     *)
(* (work_assignment_system.py:21-92, object_workstation_system.py:36-123).    *)
FloorAgrees == HoldersAgree(floor)

(* A tick gives as many seekers of a room a station as the room has free      *)
(* ones, and none to two of them (work_assignment_system.py:103-118).         *)
FreeStationsAreTaken ==
    [][RunFloor =>
       \A r \in {RoomOf[a] : a \in Workers} :
           LET seekers == {a \in Workers : RoomOf[a] = r /\ Wants(floor, a)
                               /\ (floor.assigned[a] = None \/ GivesUp(floor, a))}
               free == {o \in Stations : RoomOf[o] = r /\ Usable(floor, o)
                               /\ floor.occupant[o] = None}
               given == {floor'.assigned[a] : a \in seekers} \ {None}
           IN  /\ given \subseteq free
               /\ Cardinality({a \in seekers : floor'.assigned[a] # None}) = Cardinality(given)
               /\ given = free \/ Cardinality(given) = Cardinality(seekers)]_kernelVars
=============================================================================

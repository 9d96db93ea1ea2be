------------------------------ MODULE WorldLayer ------------------------------
(* WorldContext and apply_world_commands: who is in which room, kept twice,   *)
(* once by agent or item and once by room, and the doors.                     *)
(*                                                                            *)
(* Operations are functions from a context to a context; Refuses says which   *)
(* commands raise.  A batch is applied in order, one event a command: what a  *)
(* raising command finds applied stays applied, and the events of the batch   *)
(* are lost with it (TickKernel).                                             *)
EXTENDS FiniteSets

CONSTANTS
    Rooms, Agents, Items, Doors,
    Unplaced    \* the room of an item that lies nowhere

ASSUME UnplacedAssumption == Unplaced \notin Rooms

-----------------------------------------------------------------------------
(* WorldContext *)

\* Agents and items placed when the world is built, doors shut.
NewContext(agentAt, itemAt) ==
    [agentRoom  |-> agentAt,
     roomAgents |-> [r \in Rooms |-> {a \in DOMAIN agentAt : agentAt[a] = r}],
     itemRoom   |-> itemAt,
     roomItems  |-> [r \in Rooms |-> {i \in DOMAIN itemAt : itemAt[i] = r}],
     open       |-> [d \in Doors |-> FALSE]]

(* Mutated form: the room left behind keeps x.                              *)
ReindexOnlyAdds(index, x, from, to) ==
    [r \in Rooms |-> IF r = to THEN index[r] \cup {x} ELSE index[r]]

\* The index by room after x went from one room to another.
Reindex(index, x, from, to) ==
    [r \in Rooms |-> IF r = to THEN index[r] \cup {x}
                     ELSE IF r = from THEN index[r] \ {x} ELSE index[r]]

MoveAgent(w, a, to) ==
    IF w.agentRoom[a] = to THEN w
    ELSE [w EXCEPT !.agentRoom[a] = to,
                   !.roomAgents = Reindex(@, a, w.agentRoom[a], to)]

RegisterItem(w, i, r) ==
    [w EXCEPT !.itemRoom = [j \in DOMAIN @ \cup {i} |-> IF j = i THEN r ELSE @[j]],
              !.roomItems = Reindex(@, i, Unplaced, r)]

MoveItem(w, i, to) ==
    IF w.itemRoom[i] = to THEN w
    ELSE [w EXCEPT !.itemRoom[i] = to,
                   !.roomItems = Reindex(@, i, w.itemRoom[i], to)]

SetDoor(w, d, isOpen) == [w EXCEPT !.open[d] = isOpen]

-----------------------------------------------------------------------------
(* Commands: SET_AGENT_ROOM, SPAWN_ITEM, DESPAWN_ITEM, OPEN_DOOR, CLOSE_DOOR  *)

WorldCommands ==
    [kind : {"SET_AGENT_ROOM", "SPAWN_ITEM"}, who : Agents \cup Items, room : Rooms]
    \cup [kind : {"DESPAWN_ITEM"}, who : Items]
    \cup [kind : {"OPEN_DOOR", "CLOSE_DOOR"}, who : Doors]

\* A despawned item keeps its record, so that its id cannot be spawned again.
Refuses(w, k) ==
    \/ k.kind = "SET_AGENT_ROOM" /\ (k.who \notin DOMAIN w.agentRoom \/ k.room \notin Rooms)
    \/ k.kind = "SPAWN_ITEM" /\ (k.who \in DOMAIN w.itemRoom \/ k.room \notin Rooms)
    \/ k.kind = "DESPAWN_ITEM" /\ k.who \notin DOMAIN w.itemRoom
    \/ k.kind \in {"OPEN_DOOR", "CLOSE_DOOR"} /\ k.who \notin Doors

ApplyWorld(w, k) ==
    CASE k.kind = "SET_AGENT_ROOM" -> MoveAgent(w, k.who, k.room)
      [] k.kind = "SPAWN_ITEM"     -> RegisterItem(w, k.who, k.room)
      [] k.kind = "DESPAWN_ITEM"   -> MoveItem(w, k.who, Unplaced)
      [] k.kind = "OPEN_DOOR"      -> SetDoor(w, k.who, TRUE)
      [] k.kind = "CLOSE_DOOR"     -> SetDoor(w, k.who, FALSE)

(* Mutated form: the event of a move names the room read after it.          *)
EventAfterMove(w, k) ==
    CASE k.kind = "SET_AGENT_ROOM" ->
             [kind |-> "AGENT_MOVED_ROOM", who |-> k.who, from |-> k.room, room |-> k.room]
      [] k.kind = "SPAWN_ITEM"   -> [kind |-> "ITEM_SPAWNED", who |-> k.who, room |-> k.room]
      [] k.kind = "DESPAWN_ITEM" -> [kind |-> "ITEM_DESPAWNED", who |-> k.who]
      [] k.kind = "OPEN_DOOR"    -> [kind |-> "DOOR_OPENED", who |-> k.who]
      [] k.kind = "CLOSE_DOOR"   -> [kind |-> "DOOR_CLOSED", who |-> k.who]

\* The event of an applied command, the room the agent came from with it.
EventOf(w, k) ==
    CASE k.kind = "SET_AGENT_ROOM" ->
             [kind |-> "AGENT_MOVED_ROOM", who |-> k.who,
              from |-> w.agentRoom[k.who], room |-> k.room]
      [] k.kind = "SPAWN_ITEM"   -> [kind |-> "ITEM_SPAWNED", who |-> k.who, room |-> k.room]
      [] k.kind = "DESPAWN_ITEM" -> [kind |-> "ITEM_DESPAWNED", who |-> k.who]
      [] k.kind = "OPEN_DOOR"    -> [kind |-> "DOOR_OPENED", who |-> k.who]
      [] k.kind = "CLOSE_DOOR"   -> [kind |-> "DOOR_CLOSED", who |-> k.who]

-----------------------------------------------------------------------------
(* What the index by room has to say. *)

WorldIndexed(w) ==
    /\ w.roomAgents = [r \in Rooms |-> {a \in DOMAIN w.agentRoom : w.agentRoom[a] = r}]
    /\ w.roomItems = [r \in Rooms |-> {i \in DOMAIN w.itemRoom : w.itemRoom[i] = r}]
=============================================================================

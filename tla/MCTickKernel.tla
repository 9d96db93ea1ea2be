------------------------------ MODULE MCTickKernel ------------------------------
(* A small instance of the tick kernel for TLC.                              *)
EXTENDS TickKernel, TLC

\* Three agents of one archetype, whose rows a removal rearranges.
MCFounders == <<"body" :> "u", "body" :> "v", "body" :> "u">>

Command(op, e, c, v) == [op |-> op, e |-> e, c |-> c, v |-> v]

MCEcsBatches ==
    {<<>>} \cup
    {<<k>> : k \in {Command("destroy", 1, "body", "u"), Command("set", 1, "tag", "v"),
                    Command("field", 2, "body", "u"), Command("field", 1, "body", "v"),
                    Command("remove", 1, "body", "u"),
                    Command("set", 3, "tag", "v"), Command("destroy", 4, "body", "u"),
                    [op |-> "create", with |-> <<<<"tag", "u">>, <<"body", "v">>>>]}}
    \cup {<<Command("set", 2, "tag", "u"), Command("field", 4, "tag", "v")>>}

MCWorldBatches ==
    {<<>>} \cup
    {<<k>> : k \in {[kind |-> "SET_AGENT_ROOM", who |-> 1, room |-> 2],
                    [kind |-> "SPAWN_ITEM", who |-> 101, room |-> 1],
                    [kind |-> "DESPAWN_ITEM", who |-> 101],
                    [kind |-> "CLOSE_DOOR", who |-> 9]}}
    \cup {<<[kind |-> "OPEN_DOOR", who |-> 9], [kind |-> "SPAWN_ITEM", who |-> 100, room |-> 2]>>}

MCInitialWorlds == {NewContext(1 :> 1 @@ 2 :> 2, 100 :> 1)}

MCRoomOf == 11 :> 1 @@ 12 :> 1 @@ 13 :> 2 @@ 21 :> 1 @@ 22 :> 1 @@ 23 :> 2
MCInitialFloors ==
    {f \in NewFloors({0, 2}, {2, 3}) :
        /\ f.desire[12] = 2 /\ f.desire[13] = 2
        /\ f.durability[22] = 3 /\ f.durability[23] = 2}
=============================================================================

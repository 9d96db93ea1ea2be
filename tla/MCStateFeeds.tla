----------------------------- MODULE MCStateFeeds -----------------------------
(* Instances of StateFeeds for TLC.                                           *)
EXTENDS StateFeeds

\* Rows come, go and change, with the slice and with the uncarried field.
S(rows, world, rest) ==
    [groups |-> [g \in Groups |-> rows], slices |-> [k \in Slices |-> world],
     uncarried |-> rest]
MCStates ==
    {S([i \in {1} |-> 0], 0, 0), S([i \in {2} |-> 0], 1, 0),
     S([i \in {1, 2} |-> 1], 1, 1)}
MCPolicies ==
    {[interval |-> 2, ticks |-> {}], [interval |-> 100, ticks |-> {}],
     [interval |-> 0, ticks |-> {3, 9}]}
=============================================================================

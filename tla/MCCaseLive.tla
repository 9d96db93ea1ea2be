------------------------------ MODULE MCCaseLive ------------------------------
(* An instance of the case as the runner's program or a viewer plays it.   *)
EXTENDS MCCaseEngine, CaseLive

(* With the steps of the two minigames that have more than one.            *)
MCPlayed == MCCommands \cup {"O6.view_logs", "O9.read_receipt"}
=============================================================================

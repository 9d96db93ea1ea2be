----------------------------- MODULE MCCaseViews -----------------------------
(* An instance of the case with its learner and its client, for TLC.       *)
EXTENDS MCCaseEngine, CaseFrames

(* Objects that show or hand over something, the terminal among them.      *)
MCLooks == {"O4.inspect", "O8.inspect", "O6.request_access", "O6.view_logs",
            "O9.read_receipt"}

(* A caller who vouches for the access reaches the logs, archived or not.  *)
MCAccess == {{}, {"access:terminal_granted"}}

(* Of the turns, those that differ in what they leave in a log of two.     *)
MCTurns ==
    {r \in MCAllRequests :
        /\ r.npc = PrimaryNpc[r.scene] /\ r.slots /\ r.scene # "S5"
        /\ r.scene = "S1" => r.intent # "request_permission"
        /\ r.scene = "S3" => r.intent \notin {"ask_who", "present_evidence"}
        /\ r.scene = "S4" => r.intent = "ask_when"
        /\ r.intent = "challenge_contradiction" => r.facts # {}}
=============================================================================

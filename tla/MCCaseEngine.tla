----------------------------- MODULE MCCaseEngine -----------------------------
(* Instances of the case for TLC: the turns a player may submit.           *)
EXTENDS CaseRecap

Says(s, i, f, e) ==
    [scene |-> s, npc |-> PrimaryNpc[s], intent |-> i, tone |-> "proper",
     slots |-> TRUE, facts |-> f, evidence |-> e]

(* The turns that bring the case to its best outcome.                      *)
Moves ==
    {Says("S1", "reassure", {}, {}), Says("S1", "request_permission", {}, {}),
     Says("S1", "summarize_understanding", {"N1"}, {}),
     Says("S3", "ask_when", {}, {}), Says("S3", "ask_who", {}, {}),
     Says("S3", "challenge_contradiction", {"N3", "N4"}, {}),
     Says("S3", "summarize_understanding", {"N2", "N3"}, {})}

(* The rest of the scenes, and one turn for every way a turn can go wrong. *)
Slips ==
    {[Says("S1", "reassure", {}, {}) EXCEPT !.tone = "aggressive"],
     [Says("S1", "reassure", {}, {}) EXCEPT !.npc = "marc"],
     Says("S2", "request_access", {}, {}),
     [Says("S3", "ask_when", {}, {}) EXCEPT !.slots = FALSE],
     Says("S3", "challenge_contradiction", {}, {}),
     Says("S3", "present_evidence", {}, {}), Says("S3", "request_access", {}, {}),
     Says("S4", "ask_when", {}, {}),
     Says("S4", "summarize_understanding", {"N1", "N4"}, {}),
     Says("S5", "summarize_understanding", {"N3", "N8"}, {}),
     Says("S5", "accuse", {}, {}), Says("S5", "goodbye", {}, {}),
     Says("S5", "present_evidence", {}, {"E3"})}

MCAllRequests == Moves \cup Slips
MCInstants == {0, 8, 20}
MCCommands == {"O1.examine_surface", "O6.request_access", "O8.inspect",
               "O9.ask_for_receipt"}

(* What the end-to-end test of the runner vouches for on its way to the    *)
(* badge logs, and the override that opens them once they are archived.    *)
MCGrants == {{}, {"scene:S2", "trust:marc>=gate", "override:terminal_archive"}}
=============================================================================

------------------------------- MODULE CaseFile -------------------------------
(***************************************************************************)
(* The MBAM case of one shipped seed: what generator.py, scaffold.py,      *)
(* scene_definitions.py and object_state.py put on the table before the    *)
(* first command.  There is no state here, only the tables CaseEngine      *)
(* reads.  Trust and stress are hundredths; times are minutes.             *)
(***************************************************************************)
EXTENDS Integers

CONSTANTS
    Seed,       \* the shipped seed, A, B or C
    Difficulty  \* the difficulty profile, D0 or D1

ASSUME SeedAssumption == Seed \in {"A", "B", "C"}
ASSUME DifficultyAssumption == Difficulty \in {"D0", "D1"}

Facts == {"N1", "N2", "N3", "N4", "N5", "N6", "N7", "N8"}
Evidence == {"E1", "E2", "E3"}
Scenes == {"S1", "S2", "S3", "S4", "S5"}
Suspects == {"samira", "laurent", "outsider"}

(* The cast members a scene is played with.                                *)
Npcs == {"elodie", "marc", "samira", "jo"}

Culprit == [A |-> "outsider", B |-> "samira", C |-> "laurent"][Seed]
Ally == [A |-> "marc", B |-> "jo", C |-> "elodie"][Seed]
Misdirector == [A |-> "elodie", B |-> "laurent", C |-> "samira"][Seed]

(* How an overlay's role and helpfulness set the first trust and stress.   *)
InitialTrust == [n \in Npcs |->
    IF n = Ally THEN 20 ELSE IF n \in {Culprit, Misdirector} THEN 0 ELSE 10]
InitialStress == [n \in Npcs |->
    IF n = Culprit THEN 25 ELSE IF n = Misdirector THEN 15
    ELSE IF n = Ally THEN 5 ELSE 0]

-------------------------------------------------------------------------------
(* Scenes: who plays them and what opens them.                             *)

PrimaryNpc == [S1 |-> "elodie", S2 |-> "marc",
               S3 |-> IF Culprit = "samira" THEN "elodie" ELSE "samira",
               S4 |-> "jo", S5 |-> "elodie"]

RequiredFacts == [S1 |-> {}, S2 |-> {"N1"}, S3 |-> {"N2"}, S4 |-> {"N1"},
                  S5 |-> {"N3", "N4", "N8"}]
RequiredItems == [s \in Scenes |-> IF s = "S5" THEN {"E2"} ELSE {}]
TrustGate == [s \in Scenes |->
    CASE s = "S2" -> IF Ally = "marc" THEN 25 ELSE 45
      [] s = "S5" -> IF Ally \in {"marc", "elodie"} THEN 30 ELSE 40
      [] OTHER -> 0]
InTimeWindow(s, t) == (s = "S2" => t <= 15) /\ (s = "S4" => t \in 8..18)

(* A scene is open for play at once when the starting facts, N1 alone, and *)
(* an empty inventory meet its gate.                                       *)
InitialCompletion == [s \in Scenes |->
    IF RequiredFacts[s] \subseteq {"N1"} /\ RequiredItems[s] = {}
    THEN "available" ELSE "locked"]

(* Scenes: what may be said in them.                                       *)

StressLimit == [S1 |-> 90, S2 |-> 85, S3 |-> 88, S4 |-> 95, S5 |-> 82]
Intents == {"ask_what_happened", "ask_when", "ask_where", "ask_who",
            "ask_what_seen", "request_access", "request_permission",
            "present_evidence", "challenge_contradiction",
            "summarize_understanding", "accuse", "reassure", "goodbye"}
AllowedIntents == [s \in Scenes |->
    {"summarize_understanding", "reassure", "goodbye"} \cup
    CASE s = "S1" -> {"ask_what_happened", "ask_when", "ask_where", "ask_who",
                      "request_permission"}
      [] s = "S2" -> {"ask_what_seen", "ask_when", "request_access",
                      "request_permission", "present_evidence"}
      [] s = "S3" -> {"ask_when", "ask_where", "ask_who", "ask_what_seen",
                      "present_evidence", "challenge_contradiction"}
      [] s = "S4" -> {"ask_what_seen", "ask_when", "ask_where", "ask_who",
                      "present_evidence"}
      [] s = "S5" -> {"present_evidence", "challenge_contradiction", "accuse",
                      "request_permission"}]
AllowedFacts == [
    S1 |-> {"N1", "N7"}, S2 |-> {"N1", "N2", "N3", "N7"},
    S3 |-> {"N2", "N3", "N5", "N6", "N7", "N8"}, S4 |-> {"N1", "N4", "N5"},
    S5 |-> {"N3", "N4", "N5", "N6", "N7", "N8"}]

(* What a passed summary must hold, and what it unlocks.                   *)
SummaryMinimum == [s \in Scenes |-> IF s = "S5" /\ Difficulty = "D1" THEN 2 ELSE 1]
SummaryKeys == [s \in Scenes |->
    IF Difficulty = "D0" THEN {}
    ELSE [S1 |-> {"N1"}, S2 |-> {"N2"}, S3 |-> {"N3"}, S4 |-> {"N4"},
          S5 |-> {"N8"}][s]]
UnlockedFacts == [S1 |-> {"N1"}, S2 |-> {"N2"}, S3 |-> {"N3", "N6"},
                  S4 |-> {"N4", "N5"}, S5 |-> {"N8"}]
UnlockedScenes == [S1 |-> {"S2", "S4"}, S2 |-> {"S3"}, S3 |-> {"S4", "S5"},
                   S4 |-> {"S5"}, S5 |-> {}]

(* Mutated form: both times are enough, the receipt is not asked for.      *)
DropLocationByTimes(known, items) == {f \in {"N8"} : {"N3", "N4"} \subseteq known}

(* The drop location is given away by a challenge with both times known    *)
(* and the receipt in hand, and by nothing else that can be asked.         *)
DropLocation(known, items) ==
    {f \in {"N8"} : {"N3", "N4"} \subseteq known /\ "E2" \in items}

(* What an answer may reveal beyond a summary's unlocks, before the scene's *)
(* own allowed facts are applied.                                          *)
Answer(s, intent, presented, known, items) ==
    CASE s = "S1" /\ intent \in {"ask_what_happened", "ask_when", "ask_where",
                                 "ask_who"} -> {"N1"}
      [] s = "S1" /\ intent = "request_permission" -> {"N7"}
      [] s = "S2" /\ intent \in {"request_access", "ask_when", "ask_what_seen"}
            -> {"N2"}
      [] s = "S2" /\ intent = "present_evidence"
            -> {f \in {"N7"} : "E3" \in presented}
                 \cup {f \in {"N3"} : "E2" \in presented}
      [] s = "S3" /\ intent = "ask_when" -> {"N3"}
      [] s = "S3" /\ intent = "ask_where" -> {"N6"}
      [] s = "S3" /\ intent = "ask_who" -> {"N5"}
      [] s = "S3" /\ intent = "ask_what_seen" -> {"N5", "N6"}
      [] s = "S4" /\ intent \in {"ask_what_seen", "ask_where", "ask_who"} -> {"N5"}
      [] s = "S4" /\ intent = "ask_when" -> {"N4"}
      [] s = "S4" /\ intent = "present_evidence" -> {f \in {"N4"} : "E2" \in presented}
      [] s = "S5" /\ intent = "present_evidence"
            -> {f \in {"N7"} : "E3" \in presented}
                 \cup {f \in {"N4"} : "E2" \in presented}
      [] s \in {"S3", "S5"} /\ intent = "challenge_contradiction"
            -> DropLocation(known, items)
      [] OTHER -> {}

-------------------------------------------------------------------------------
(* Objects and their affordances.  Four of them (O1.inspect, O5.read,      *)
(* O7.read, O10.read) only describe the object.                            *)

Affordances == {"O1.inspect", "O1.check_lock", "O1.examine_surface", "O2.examine",
                "O3.read", "O4.inspect", "O5.read", "O6.request_access",
                "O6.view_logs", "O7.read", "O8.inspect", "O8.attempt_code",
                "O9.ask_for_receipt", "O9.read_receipt", "O10.read"}
FactsShown == [a \in Affordances |->
    CASE a \in {"O1.check_lock", "O1.examine_surface"} -> {"N7"}
      [] a = "O3.read" -> {"N1"}
      [] a \in {"O6.request_access", "O8.inspect"} -> {"N2"}
      [] a = "O6.view_logs" -> {"N3"}
      [] a = "O9.read_receipt" -> {"N4"}
      [] OTHER -> {}]
EvidenceShown == [a \in Affordances |->
    CASE a = "O1.examine_surface" -> {"E3"}
      [] a = "O4.inspect" -> IF Seed = "B" THEN {"E2"} ELSE {"E1"}
      [] a \in {"O9.ask_for_receipt", "O9.read_receipt"} -> {"E2"}
      [] OTHER -> {}]
(* What a command asks for before its object is tried, by the tokens of    *)
(* object_state.py, and the token that spares the terminal its archive.    *)
(* Two more tokens open nothing, whoever holds them: the medallion's, for  *)
(* the object is then still missing, and that of a code's shape.           *)
Tokens == {"scene:S2", "trust:marc>=gate", "access:terminal_granted", "scene:S4",
           "inventory:E2_CAFE_RECEIPT", "override:terminal_archive"}
Prerequisites == [a \in Affordances |->
    CASE a = "O6.request_access" -> {"scene:S2", "trust:marc>=gate"}
      [] a = "O6.view_logs" -> {"access:terminal_granted"}
      [] a = "O9.ask_for_receipt" -> {"scene:S4"}
      [] a = "O9.read_receipt" -> {"inventory:E2_CAFE_RECEIPT"}
      [] OTHER -> {}]
AutoCollects == {"O4.inspect", "O9.ask_for_receipt"}
FactOf == [E1 |-> "N6", E2 |-> "N4", E3 |-> "N7"]

-------------------------------------------------------------------------------
(* The timeline: the beats that touch a cast member's trust or stress.     *)

Beats == {"CURATOR_CONTAINMENT", "GUARD_PATROL_SHIFT", "INTERN_MOVEMENT",
          "BARISTA_WITNESS_WINDOW", "TERMINAL_ARCHIVE"}
BeatTime == [CURATOR_CONTAINMENT |-> 2, GUARD_PATROL_SHIFT |-> 5,
             INTERN_MOVEMENT |-> 8, BARISTA_WITNESS_WINDOW |-> 12,
             TERMINAL_ARCHIVE |-> 15]
BeatNpc == [CURATOR_CONTAINMENT |-> "elodie", GUARD_PATROL_SHIFT |-> "marc",
            INTERN_MOVEMENT |-> "samira", BARISTA_WITNESS_WINDOW |-> "jo",
            TERMINAL_ARCHIVE |-> "marc"]
BeatStress == [CURATOR_CONTAINMENT |-> 10, GUARD_PATROL_SHIFT |-> 5,
               INTERN_MOVEMENT |-> 10, BARISTA_WITNESS_WINDOW |-> -5,
               TERMINAL_ARCHIVE |-> 10]
BeatTrust == [b \in Beats |-> IF b = "TERMINAL_ARCHIVE" THEN -5 ELSE 0]
ArchiveTime == 15
SoftFailTime == 20
=============================================================================

------------------------------ MODULE MCViewerFlow ------------------------------
(* Small instances of ViewerFlow for TLC. *)
EXTENDS ViewerFlow, TLC
LOCAL INSTANCE SequencesExt

\* Launches, sockets and command ids are interchangeable; used by safety runs only.
Interchangeable == Permutations(Runs) \cup Permutations(Conns) \cup Permutations(Cmds)

\* IngestDiffs is written without its loop, so that it can be reasoned about: on
\* up to three diffs, chained or not, it is applyDiff on one after the other.
SomeStates == {NoState} \cup [run : {NoRun}, tick : {0, 1, 2}, ver : {0, 1}]
SomeDiffs == [from : SomeStates \ {NoState}, to : {s \in SomeStates : s.ver = 1}]
ASSUME IngestDiffsIsItsLoop ==
  \A s \in [anchor : {NoRun}, state : SomeStates, desynced : BOOLEAN] :
    \A diffs \in SeqOf(SomeDiffs, 3) : IngestDiffs(s, diffs) = FoldLeft(IngestDiff, s, diffs)
=============================================================================

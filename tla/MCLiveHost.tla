------------------------------ MODULE MCLiveHost ------------------------------
(* Small instances of LiveHost for TLC. *)
EXTENDS LiveHost, TLC

\* Connections are interchangeable, and so are runs; used by safety runs only.
Interchangeable == Permutations(Conns) \cup Permutations(Runs)
=============================================================================

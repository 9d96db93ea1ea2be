------------------------------ MODULE LiveStream ------------------------------
(***************************************************************************)
(* What the LIVE stream promises one viewer, without registry, sessions or *)
(* awaits: it is greeted, subscribed, given one baseline of its run's true *)
(* state, and from then on only the diffs that carry the state it already  *)
(* has to the next tick; the stream ends once and for all.                 *)
(***************************************************************************)
EXTENDS Integers

CONSTANTS Runs, Conns, NoRun

VARIABLES
  truth, \* authoritative position (tick and version) of each run
  watch, \* run a viewer watches
  stage, \* how far a viewer's stream is
  view   \* position of the state the viewer holds

streamVars == <<truth, watch, stage, view>>

Blank == [tick |-> -1, ver |-> -1]

StreamInit ==
  /\ truth = [r \in Runs |-> [tick |-> 0, ver |-> 0]]
  /\ watch = [c \in Conns |-> NoRun]
  /\ stage = [c \in Conns |-> "silent"]
  /\ view = [c \in Conns |-> Blank]

Watch(c, r) ==
  /\ stage[c] = "silent" /\ watch[c] = NoRun
  /\ watch' = [watch EXCEPT ![c] = r]
  /\ UNCHANGED <<truth, stage, view>>

Advance(c, from, to) ==
  /\ stage[c] = from
  /\ stage' = [stage EXCEPT ![c] = to]

Greet(c) ==
  /\ watch[c] # NoRun
  /\ Advance(c, "silent", "greeted")
  /\ UNCHANGED <<truth, watch, view>>

Subscribed(c) ==
  /\ Advance(c, "greeted", "subscribed")
  /\ UNCHANGED <<truth, watch, view>>

\* The baseline is the run's true state at the moment it is taken.
Baseline(c) ==
  /\ Advance(c, "subscribed", "streaming")
  /\ view' = [view EXCEPT ![c] = truth[watch[c]]]
  /\ UNCHANGED <<truth, watch>>

\* A command changes the run's state within its tick.
Change(r) ==
  /\ truth' = [truth EXCEPT ![r].ver = @ + 1]
  /\ UNCHANGED <<watch, stage, view>>

\* The run advances one tick and the viewer that caused it follows; it held the
\* state of the tick before.
Diff(c) ==
  LET r == watch[c] IN
  /\ stage[c] = "streaming"
  /\ view[c].tick = truth[r].tick
  /\ truth' = [truth EXCEPT ![r].tick = @ + 1]
  /\ view' = [view EXCEPT ![c] = truth'[r]]
  /\ UNCHANGED <<watch, stage>>

\* The run advances although its viewer's state is older: that stream is cut.
Overrun(c) ==
  LET r == watch[c] IN
  /\ Advance(c, "streaming", "over")
  /\ view[c].tick < truth[r].tick
  /\ truth' = [truth EXCEPT ![r].tick = @ + 1]
  /\ UNCHANGED <<watch, view>>

End(c) ==
  /\ stage[c] # "over"
  /\ stage' = [stage EXCEPT ![c] = "over"]
  /\ UNCHANGED <<truth, watch, view>>

StreamNext ==
  \/ \E r \in Runs : Change(r)
  \/ \E c \in Conns :
       \/ \E r \in Runs : Watch(c, r)
       \/ Greet(c) \/ Subscribed(c) \/ Baseline(c) \/ Diff(c) \/ Overrun(c) \/ End(c)

StreamSpec == StreamInit /\ [][StreamNext]_streamVars
=============================================================================

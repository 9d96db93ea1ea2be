# Enqueteur, in TLA+

A verification of Enqueteur: a runtime host that starts deterministic case runs over HTTP
and serves them live over websockets, the simulation and case engine behind it, and the
browser application that shows them. `PROJECT.json` lists every component with its sources,
every run, every mapped definition and the hazards; this file says how they belong together.

## Inventory

| part | state | operations | talks to | hard because |
|---|---|---|---|---|
| Run registry (`backend/server/run_registry.py`) | run id to launch payload, started run and host metadata (active session, last activity, detached at) | register, touch, attach, detach; lazy eviction in every lookup | called by the HTTP routes and the session controller | any caller's lookup evicts anybody's run |
| Session controller (`backend/server/session_controller.py`) and live session host (`backend/api/live_ws.py`) | a record and a session per connection, each with its diff cursor | handshake, subscription, baseline, commands, diffs, errors, teardown, shutdown | registry, runner, websocket | one event loop: everything else may run at each await; drops, failing sends, cancellation |
| Simulation runner (`backend/sim4/host/sim_runner.py`) | clock, world, the whole case state of a run, the dialogue log | the runner's submit and attempt calls, ticks, the offline artefacts | case engine, tick pipeline, sinks | shared by all connections of a run |
| Case engine (`backend/sim4/case_mbam/`) | objects, investigation progress, dialogue scenes, people, outcome | investigation actions, dialogue turns, contradiction edge, recovery, accusation, timeline beats | the runner, which holds its state | long sequences of legal moves; one-shot and terminal transitions that several modules derive from one another |
| Learning state, projections, recap (`learning_state.py`, `projection.py`, `outcome_engine.py`) | none: derived from the above and from a log of 16 turns | computed for every tick and frame | runner, live host | what was shown goes away with the turns that leave the log |
| State diffs (`live_ws.py` 1808-2109, `sim4/integration/diff_ops.py`) and `liveStateBridge.ts` | none | ops from an old to a new projected state, and back | live host, history, viewer's stores | what the ops leave out stays stale in the viewer |
| Tick pipeline, ECS, world layer (`backend/sim4/runtime`, `ecs`, `world`, `snapshot`) | clock, entities and components in rows, agents and items in rooms, doors | phases of a tick, batches of commands, snapshot | runner | indices kept twice, a command that raises half-way, systems that write from what they read before |
| History, export, live sink (`sim4/integration`) | state by tick, keyframes and diffs on disk, a session's baseline flag and the sink's cursor | record, export, reconstruct, verify, publish | runner, a viewer | lost ticks, failing sends and writes, a viewer that comes late or twice |
| Viewer application (`app/appFlow.ts`, `app/live`, `state/`) | screen, launch attempt, live client, mounted shell, world store | clicks, launch answers, socket events, timers, mounts | HTTP, websocket | revisions captured before an await and compared after it |
| Presentation (rendering, panels, locale, audio; dialogue adapters), narrative sidecar | none that others read | | | not modelled |

What makes each part correct: the registry keeps a run as long as somebody plays it; the
live host sends each viewer one baseline and then exactly the diffs that carry the state the
viewer has to the next tick, and releases everything when a connection ends however it ends;
the viewer shows the run the user asked for last and keeps in step with the kernel; the case
engine never forgets what was found out, earns what it grants and closes a case once; what
the player is shown is true of the case and arrives whole; the kernel's stores agree with
themselves and its outputs with its stores; what was recorded can be reconstructed.

## Modules

| module | models |
|---|---|
| `RunRegistry` | the registry's operations on a registry value, with the time passed in, lazy eviction included |
| `LiveHost` | EXTENDS it: `serve_live_session` of each connection, the live session host, the runners' tick and version, launch and shutdown |
| `LiveStream` | the abstract promise to one viewer: greeted, subscribed, one true baseline, contiguous diffs, over |
| `ViewerFlow` | EXTENDS `LiveStream`: the browser application and a kernel that keeps `LiveStream` over an ordered, lossy-by-drop socket |
| `CaseFile` | the MBAM case of a shipped seed as tables: roles, gates, answers, affordances, beats |
| `CaseEngine` | EXTENDS it: the case under `SimRunner`'s submit and attempt calls and its ticks |
| `CaseRecap` | EXTENDS `CaseEngine`: the outcome and recap projections, which evaluate the case once more |
| `CaseLive` | EXTENDS `CaseRecap`: the part of those calls that the live host's command handlers offer a viewer, and minigame plans |
| `CaseLearning` | EXTENDS `CaseEngine`: the dialogue log, the active scene, the observations, and the learning state computed from them |
| `CaseViews` | EXTENDS `CaseLearning`: the visible investigation, dialogue and learning projections |
| `CaseFrames` | EXTENDS `CaseViews`, `CaseRecap`: the channels' state, the ops of a FRAME_DIFF, and what the client makes of them |
| `EcsStore` | the abstract promise of the ECS: a map from entities to components, ids given out once |
| `EcsWorld` | allocator, archetype storages with swap-removal, the world's index, queries; implements `EcsStore` |
| `WorldLayer` | rooms with agents and items, doors, world commands and their events |
| `WorkFloor` | the systems of the workshop: desire, assignment, workstations |
| `TickKernel` | EXTENDS the last three: a tick with its phases, batches applied one command at a time, raising commands, outputs |
| `StateDiff` | `compute_state_diff_ops` and `apply_state_diff_ops` |
| `StateFeeds` | EXTENDS it: the history, its export and verification, and the live sink with its session |
| `LiveHostProofs`, `ViewerFlowProofs`, `CaseEngineProofs`, `CaseEndProofs`, `CaseViewsProofs`, `TickKernelProofs`, `StateFeedsProofs` | theorems about the modules they are named for and those these extend |
| `FoldFacts` | theorems about `FoldLeft` for any operator, and the induction they rest on |
| `MC...` | model values, symmetry and small sets for TLC |

### RunRegistry and LiveHost

`registry` is a function from the registered run ids to their host metadata; each operator
is one method and evicts first exactly where the method calls `_evict_stale_locked`. The
order of `touch` and `detach` in the teardown is kept, because the first evicts.

A connection's `pc` names the await its coroutine stands at; an action is the code between
two awaits, so what may interleave is what the event loop may interleave. `sess` is the live
host's session, `rec` the controller's record, `payload` the snapshot or diff that was built
and not yet sent, `sent` and `acked` are history: what the viewer was sent, and what it is
still owed. Every await may raise (`Fault`): the peer drops, a send fails, an internal error,
a cancellation. A command is abstracted to what the stream can tell: whether it was accepted
and whether it changed the run's state (`ver`); a rejected one may have changed it. A launch's
payload, the ticks' contents and the messages' texts are left out.

`Stream` in `LiveHost` is the refinement mapping: a run's truth is its runner's position, a
viewer's state is what it was sent, its stage is read off the await it stands at.

### ViewerFlow

One JavaScript handler runs at a time and `transition` renders synchronously, so an action is
a whole handler with the renders and the `stopLiveConnection` it causes. The code compares a
captured revision with the current one and nothing else; so a launch, a connection or a mount
in flight is either the current one or stale for good, and the model says just that
(`attempt`, `link.client`, `boots`). `link` holds the connection variables of
`mountAppFlow`'s closure, `store` the mounted shell's `WorldStore`, `up` and `down` the
messages under way. The kernel's steps are `LiveStream`'s actions, each carried by a message;
it may stream a frame unprompted, which `LiveStream` and the viewer allow and today's host does
only after a command. WARN, PONG and non-fatal ERROR messages change no state here and are
left out; a kernel that refuses the handshake is `KernelEnds`.

`BoundClient` says whether the live client's methods may be called without the client, which
`AppFlowOpts.createLiveClient` leaves to its caller. The tests' clients may, the app's own
`EnqueteurLiveClient` may not; see the findings.

### CaseFile, CaseEngine, CaseRecap

`CaseFile` has no state: it is what the generator, the scene definitions and the object table
put on the table for seed A, B or C at profile D0 or D1. `CaseEngine` has one action per call
of `SimRunner` (`submit_investigation_command`, `submit_contradiction_edge`,
`submit_dialogue_turn`, `attempt_case_recovery`, `attempt_case_accusation`) and `AdvanceTo`
for the ticks of `run` up to the next chosen minute; each ends, as each call does, with
`BranchTransitions`. A command of the runner may come with prerequisites its caller vouches
for (`available_prerequisites`): `Grants` are the sets a caller may pass, `Derives` what the
runner finds fulfilled itself, `Admitted` and `Gives` what the executor makes of both, the
override of the archive included. `Verdict` is the chain of checks of `execute_dialogue_turn`
in its order; trust, stress, revealed facts, flags and completion are read off it. `passes`
are the turns of the last `LogCapacity` (16 in the code) that were passed summaries.
`CaseRecap` is the second evaluation, made for the outcome and recap projections.

Abstractions: trust and stress are hundredths, where the code adds floats; the clock stops at
chosen minutes; the facts a turn presents are a set; required slots are all there or not; the
code of the keypad is right. Two prerequisites open nothing, whoever vouches for them, and
have no token: that of the medallion, which is not at its place then, and the code's shape.
Left out because the engine writes and never reads them: cards, rooms, the trust of people who
guard no gate, the dialogue runtime's own list of revealed facts, which is always part of the
known ones.

### CaseLive

`host` says whose run it is: `"runner"`, where any program that holds the runner (the tests,
the offline runs) makes any of its submit and attempt calls, or `"live"`, where a viewer makes
those the handlers of `EnqueteurLiveSessionHost` make of its commands, which vouch for no
prerequisite. `MINIGAME_SUBMIT` is several steps, one per investigation command of its plan,
with `plan` keeping what was held before it. Handlers that refuse before they call the runner
have no action, and neither have the reason codes. The quiet of a recovery and the privacy of
an accusation are the host's constants.

### CaseLearning, CaseViews, CaseFrames

Each step of `CaseLearning` is a step of `CaseEngine` that also keeps the log with one
`LogRow` a turn, `active` and `observed`. Everything else is computed: minigame and summary
states, the hint level with its reason, and in `CaseViews` the fields of the projections,
named for what they tell rather than spelled. `CaseFrames` follows
the projections to the client: `ChannelState` is what the ops can carry, `FrameOps` is
`_compute_enqueteur_frame_diff_ops`, `Converted` is `convertLiveFrameDiff`. The rows of the
cast are abstracted to what they are computed from: the beats passed, trust and stress.

### EcsWorld, WorldLayer, WorkFloor, TickKernel

Operations are functions from a world to a world, so that a batch applies them one after the
other. `EcsWorld` keeps both indices the code keeps: a storage's from entity to row and the
world's from entity to signature and row; `Relocate` is what follows a swap. A tick of
`TickKernel` is `BeginTick` (the clock and the time of day), `RunFloor` (the systems read the
components as they were and append writes), one action per command applied, `EmitTick`. A
command that raises ends the tick where it stands. The systems' batches are `WorkFloor`'s;
any other system and the provider of world commands are the caller's, from two constants.
Components are values, so two entities never share one; in the code a caller could make them.
Wear, desire and efficiency are counted in steps where the code adds floats. The workshop's
systems iterate in the order of ids, as the code sorts them, so a batch is a fold over an
ascending sequence (`AssignTurns`, `Joined`), and so is its application (`ApplyFloor`).

### StateDiff, StateFeeds

A canonical state has groups of rows by id, slices replaced whole, and the fields no op names
(`learning`, `debug`). A hash is the state it is taken of. A tick either reaches the sinks or
is lost (the composite sink swallows exceptions); a send may fail before or after it reached
the viewer; the export writes record by record, may fail at each and may be repeated over the
same directory, also when the history has grown since. The viewer patches what it holds.

## Runs

| run | checks | bounds |
|---|---|---|
| `livehost_safety` | the host's invariants, contiguous diffs and `ImplementsStream`, over every interleaving of evictions, drops, failing sends and a shutdown | one run, two connections (an old and a new socket, or two tabs), time 2 with TTL 1 (fresh, ageing, evicted), two ticks, two versions |
| `livehost_liveness` | a drop is torn down; an accepted command leads to its diff or the end | one of each counter: enough for each await of a command to be abandoned |
| `livehost_evicted`, `livehost_leaked` | one claim each that the code breaks | as small as the counterexample allows |
| `viewer_safety` | six invariants of the application | two launches, two connections (a connection and its retry, or one per launch), two commands, one unprompted tick; a locale change while a stale mount is in flight is left to `viewer_liveness` |
| `viewer_liveness` | the connecting screen ends, a game gets its shell, a command stops waiting | one launch with a retry, one command, one stale mount |
| `viewer_unbound` | with the app's own client a pending command was sent | one of everything |
| `case_play` | what recovery, flags and latches rest on; nothing is taken back; the recap tells what happened; a minigame settles; through the live host the terminal stays shut and only time ends the case | seed C, D0; the turns that lead to the best outcome; the commands of the minigames with several steps; what the runner's end-to-end test vouches for, with the archive's override, or nothing; six turns, enough where what is vouched for spares one (a viewer's run: four), a log of four, minutes 0, 8 and 20 (before, in and after every window). Every outcome, the best one after a soft fail included, is reached |
| `case_slips` | what the drop location costs; which scene never opens; what is shown is true; the support only weakens for a reason; frames carry the case | seed B, D1; affordances that show or hand over something; turns that pass and turns that fail for their tone, their intent, their gate or what they lack; a caller who vouches for the access to the badge logs, which shows them before and after they are archived; three turns and a log of two, so that turns leave it |
| `case_unwinnable` | the confrontation can be reached as long as the case is open | seed A; every affordance, every turn of the two runs above |
| `kernel` | indices and places agree, outputs explain the snapshots, the floor's two systems agree, the ECS implements its map | three founders of one archetype, six ids, two rooms, single commands of every kind and batches whose second raises, three workers and stations (a room with two, a room with one) |
| `history` | what is published is reconstructed or refused for a reason; a viewer holds the recorded state; a punctual viewer is never refused | four ticks, two faults, three states (rows that come, go and change), three keyframe policies |

Two of each actor are enough for what the host and the viewer compare: equality with the one
current run, session, cursor or revision. A third connection would be another "not the
current one". The case runs cover one seed each because the seeds differ in tables; what they
check is proved for all. Deadlock is not checked where everybody may stop: viewers leave, a
host is shut down, a case has a bounded number of turns, a run of ticks.

### Fairness

`LiveHost`: only what the event loop gives. A pending send completes or fails (`SendDone`)
and a disconnect that happened is delivered (`Disconnected`). Nothing is assumed of viewers,
of time or of commands. `ViewerFlow`: the browser dispatches queued events, requests, imports
and timers end, and the kernel answers what it has heard, which is what `livehost_liveness`
shows of the host. Nobody owes a click. A user who changes the locale for ever does not outrun
every mount of the current revision. The case, the kernel and the feeds have no liveness
property: nothing obliges a player to act or a caller to run another tick.

### Findings

- `livehost_evicted`: a reconnect before the old socket's teardown leaves the run marked
  detached; `detached_at` wins over activity, and the run is evicted under the live session.
- `livehost_leaked`: a transport that fails in `accept()` leaves its session in the host.
- `viewer_unbound`: the command bridge calls the client's method without the client, so that
  no command of the app's own client is sent; the tests use clients with closures.
- `case_unwinnable`: a scene is completed by its first passed summary and is then closed for
  good. On seed A summing up Elodie's first scene at once leaves her trust below the gate that
  the confrontation, the recovery and the accusation share, and no turn can raise it again.

Properties that hold and are no less findings:

- `SecuritySceneStaysShut`: Marc's trust starts below his gate on every seed and only turns
  inside his scene could raise it, so that scene is never entered, and the terminal opens only
  to a caller of the runner who vouches for his trust, as the end-to-end test does
  (`src/backend/sim4/tests/host/test_sim_runner_phase7f_end_to_end.py:125-135`). The
  specification (`src/docs/enqueteur/case_1_implementation_spec.md:780-790`) describes polite
  requests that succeed. Through the live host, which vouches for nothing, the terminal and
  `view_logs` are out of reach and MG2's plan is refused at its first step
  (`TerminalStaysShut`, a part of `OnlyTimeEndsIt`).
- `OnlyTimeEndsIt`: a DIALOGUE_TURN has no place for facts or evidence
  (`live_ws.py:1095-1115`), no command submits the contradiction and the keypad gets no code.
  So through the live host no summary passes, no scene is completed, the drop location is not
  learned, every recovery and accusation is turned down and the case ends by its soft fail, on
  any seed, although "Every shipped seed must remain solvable"
  (`case_1_implementation_spec.md:670`) and the host is accepted when "One full MBAM run is
  manually playable" (`local_runtime_host_spec_v1.md:816`). The backend tests complete cases
  through the runner.
- `FramesCarryTheCase` is about what ops carry. No op carries the surfaced scenes, the
  acknowledged edges, whether the contradiction is satisfied, what was observed and not
  collected, the revealed facts, the active scene's minimum of facts or the learning
  difficulty: a live client keeps those of its baseline, and panels read some of them
  (`dialoguePanel.ts:550`, `notebookPanel.ts:1288`, `resolutionPanel.ts:504`).

Observed while modelling, with no run of their own: with two viewers on a run an accepted
command may end in a fatal `INVALID_TICK_SEQUENCE`, because the runner is advanced before the
cursors are compared (`live_ws.py:529`). A rejected turn still costs stress and enters its
scene. A completed scene whose pass has left the log is shown as not begun
(`SummariesShownTrue` says exactly when); MG4 stays `needs_retry` on seed B
(`MinigamesShownTrue`). After T+15 the badge logs are archived, and looking at them is a no-op
that shows nothing and teaches nothing (`investigation_execution.py:390-397`); but the no-op
counts as an observation, and the projection then lists the logs, N3 among them
(`projection.py:370-379`). Only a caller who vouches for the way to them gets there:
`NothingShownUnearned` and `MinigamesShownTrue` say exactly that (`LogsWithheld`).
`O1.inspect` shows the state of the latch without giving N7. The recap looks for a flag
`continuity:relationship_penalty` that nothing records. After a best outcome a later public
accusation makes the outcome a soft fail while the latch of the quiet ending stays. The client
ignores APPEND_LEARNING_OUTCOME and never trims its turns. A command that raises leaves its
tick half applied and without output, which is a gap in the history, and the export is refused
for good. `context.py:168` calls the first tick dawn where the code says night. A session that
subscribes late or again is refused every diff with a fatal MISSING_BASELINE until a gap
forces a snapshot. A keyframe interval of 0 without ticks would loop for ever
(`sim_runner.py:1002`).

## Proofs

Every invariant and every action property the passing runs check, and both refinements
(`ImplementsStream`, `ImplementsStore`), are theorems, for every value of the constants. Each
was checked by TLC first, the inductive invariant with it.

**The live host.** `LiveHostProofs` proves, for any sets of runs and connections and any
bounds, `TypeOK` and then the invariant `IInv` of a session's life: what each `pc` says about
the session, its record, the payload under way and what the viewer was sent. The safety
properties are not inductive: `DiffBaseIsViewersState` speaks of the awaits where the viewer
streams, and its step out of `snapshotSending` needs that the payload is the state that was
just sent; `AckedCommandsReachViewer` needs the same of a diff; `NoResidue` needs that a
session without a record is accepting or gone. One lemma per action shows that it keeps the
invariant; the lemmas about the registry's operators say what each leaves alone.
`DiffsContiguous` is an action property from the same invariant. `SoleIsServed` adds what
holds of a viewer that is alone on its run: the entry is there and names its session, and the
cursor is the runner's tick. Its invariant must speak of all connections that were ever bound
to the run, those done included, because it is a stale teardown that would spoil it.
`HostImplementsStream` is the refinement: the initial state maps to `LiveStream`'s, and each
action of a connection, of the registry or of a runner to one of its steps or to a stutter.

**The viewer.** `ViewerFlowProofs` proves the six invariants of the application for any runs,
connections, commands and bounds, and for a client that is bound or not. What makes them
inductive is what is on the wire (`WordsInv`): the words under way to the viewer are the next
ones of the kernel's stream after those it has read, an ending is the last, and the diffs
among them form a chain from the state the viewer has to the one the kernel has (`BaseInv`,
and for the diffs kept until the shell is up, `KeptInv`). Around it, `WantedInv` says that
launch, session and connection are those of the run that is wanted, `ScreenInv` that screen,
launch, connection and mount in flight agree, `SocketInv` that no connection but the current
one has an open socket or words to the viewer, `AnswersInv` that a command is sent once and
answered once. Steps are grouped by what they leave alone: those of launches, mounts and the
player move no word down, and each word that arrives has a lemma of its own.

**The case.** `CaseEngineProofs` proves the engine's properties for each seed and difficulty,
any sets of turns and commands, whatever callers may vouch for, and any bounds, where the runs
take one seed and a few turns. The invariants build on one another. Marc's gate is inductive
with the types: a turn that names his scene or him enters nothing, and what enters nothing
moves no trust; so the terminal grants access only where somebody may vouch for that trust.
`DropLocationEarned` needs `ReceiptHeld`: an answer gives the location for a receipt that was
*found*, and only the affordances tell that it is then also held, unless somebody may have
vouched for it: the runner takes a caller's word for a receipt that is read. `RecoveryEarned`
rests on
it, on `SurfacedIsUnlocked` (the code asks for a surfaced *or* an open S5) and on what
`StepKeeps` says no call takes back, where a recorded contradiction needs
`ContradictionEarned`. That the case is closed by the deadline, and stays closed, follows:
past T+20 either the medallion is out of reach or its recovery had the clues a recovery
outcome asks for. `NothingIsLost` puts both halves together.

`CaseEndProofs` is about the ends of a case. `RecapIsTrue`: the second evaluation differs from
the latching one only in the summaries it counts in the log, and `SummariesCounted` says that
two passes in the log have earned the flag already. `LivePlayOnlyTimesOut` strengthens
`OnlyTimeEndsIt` by what makes it inductive: with no presented fact a summary falls short of
its minimum, so no completion changes to `completed`, so N8 has no source and no attempt is
ready; the terminal (`TerminalStaysShut`) is Marc's gate again, for a viewer whom nobody
vouches for, whatever callers of the runner may do. `LivePlaysTheCase`: a viewer's run,
minigames included, is a run of `CaseEngine`, under the assumption that the set of turns is
closed under what the host strips from them; with it the engine's theorems hold of live play.
`MinigamesAreSettled` follows the plan: its first step's answer decides, and what it does is
what an earlier acceptance has done already.

`CaseViewsProofs` is about what the learner is shown. Keeping the log changes nothing of the
case (`LearningPlaysTheCase`, a refinement), no projection is ahead of what is known but for
the archived logs (`LogsWithheld`), and a minigame shown solved has taught its fact.
`WhatIsShownIsTrue` needs `SummaryInv`: the log holds the last turns and no fewer, `passes`
are the indices of its passed summaries, a pass is the last word on its scene, a completed
scene has its pass in the log until the log has been full, and the active scene is one in
progress. `SupportIsKept`: the support of a scene is computed from its rows, its failures and
its minigame; when a turn leaves a scene's rows in the log they move down together and at most
a failure joins them (`RowsMove`), so the failures counted before map into those counted
after; and a half solved minigame stays half solved until a turn in its scene is accepted
(`MinigameStays`), because its other clue is nowhere else (`BenchHidesOther`), or, for the
logs asked for in vain, because it belongs to Marc's scene, which is never the active one. It
supposes a log that holds something, `LogCapacity # 0`; the code's holds 16 turns.
`FramesArriveWhole` (`FramesCarryTheCase`, any log length) needs that known facts and clues
only grow (the engine's theorem) and that the log is the old one with a row appended and at
most one dropped, so that a turn's index names the same row before and after.

**The kernel.** `TickKernelProofs` proves that no sequence of operations brings indices, rows,
columns and allocator of the ECS apart and that the storages implement `EcsStore`, for any
components, values and number of ids; the case that counts is the removal of a row that is not
the last. `TicksKeepWorldConsistent` and `TicksImplementStore` say so of the world under the
ticks: each command of a batch is one operation of the store, and one that raises leaves the
store where it was. `PlacesAgree` and `OutputsExplain` come from `TickInv`: every world
command keeps the rooms and the places of agents and items in step (`WorldIndexed`), and as
long as no tick was lost since the last output, its places, told the events of the tick so
far, are the places of the world now (`OutputsInv`). A command that raises leaves a gap, and
nothing is claimed across it but the order of ticks. `FloorAgrees` and `FreeStationsAreTaken`
need a strengthening, `FloorInv`: an assigned worker wants its work and is in the room of its
station, and a running station has wear left. A tick is followed in three phases, each a fold
whose iterations are an induction of its own: the desires grow; the turns of the assignment
take stations that are free and unclaimed, each worker's and each station's fields written
once (`Turned`); and the workstations, which decide on what they read before the tick, settle
or break a station without undoing what a turn has just written (`Worked`, `Settled`).

**The feeds.** `StateFeedsProofs`: `DiffIsExact`, row by row for any two states, and from it
that a based viewer holds the recorded state whatever was lost, for any number of ticks. For
`PublishedIsVerified` the invariant `ExportInv` says what is on disk while an export runs: a
record is truncated or says of its tick what every export would say of it, because the history
of a tick never changes and the hash a diff starts from is read from the record this export
has just written (`DiffIsFull`); a manifest's window lies in the history. The verifier is then
followed tick by tick from the nearest keyframe.

**Folds.** `FoldFacts` says of `FoldLeft` and any operator what it reaches after each element,
of a sequence, of one appended to and of two joined. Its induction is stated for sets of
naturals (a set with zero and every successor is all of them, from well-foundedness), since
the provers cannot instantiate the library's, which takes an operator.

The assumptions are the modules' own about their constants, which TLC evaluates in the runs;
`GrantsAssumption` (nobody need vouch for anything) among them;
`RequestsAreClosed`, which the set of all turns satisfies (`EveryTurnIsClosed`); and
`LogCapacity # 0` where it says so. The viewer's model states the loop of the store's
`ingestDiffs` in closed form; that the two agree is evaluated by TLC over all short sequences
(`IngestDiffsIsItsLoop` in `MCViewerFlow`) and not proved.

Only model-checked: liveness (`DroppedIsReleased`, `AcceptedCommandSettles`, `LaunchSettles`,
`CommandSettles`), which rests on fairness and so on ENABLED, out of the prover's reach; and
the four claims the code breaks, which TLC refutes.

## Not modelled

Formatting and shape validation of HTTP bodies and commands, configuration, the dialogue
adapters, rendering, panels, audio and locales: they keep no state that several actors touch.
The narrative sidecar only reads, and its exceptions are swallowed. The offline replay of the
viewer (`kvp/offline.ts`) reconstructs as the verifier does, which is modelled; its cursor is
not. The handshake of a socket the browser has begun to close is a drop. Operating-system
failures other than failing sends and writes are left out. Within the case: facts presented
twice in one turn (the code counts them twice where two are asked for), `validate_only`
commands, which are acknowledged and applied alike but which nothing submits, the rounding of
float trust, and `record_case_action_flags`, `record_case_relationship_flags` and
`record_case_outcome_flags` (`sim_runner.py:377-399`): they change what an outcome is read off
without latching a branch, and nothing but the runner's own attempts (which are modelled) and
the tests calls them; the case's properties are about runs without such calls. Overlay
streams, digests and index files of the export. The world channel of a live frame.
`CaseRunRegistry` keeps each started run for the life of the process, and the viewer names a
tick that may lag behind the kernel's: neither breaks a promise the code makes.

## Plan

1. Done: registry, live host, stream, viewer; the case engine, its learner, its projections
   and frames, its live play; the tick kernel with ECS, world and workshop; diffs, history and
   live sink; the proofs above.
2. Next to prove: what the theorems leave implicit. That the viewer's kernel and `LiveHost`
   keep the same `LiveStream` is two refinements of one module and is not stated as one
   theorem; a closed form of the longest loops (`IngestDiffs`) from `FoldFacts`; the table
   properties of `CaseFile` that several proofs evaluate seed by seed.
3. Next to model: the replay cursor of the offline viewer, the world channel's operations.

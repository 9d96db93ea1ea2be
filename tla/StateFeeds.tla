------------------------------ MODULE StateFeeds ------------------------------
(* The state of every tick on its two ways out of SimRunner: KvpStateHistory  *)
(* and the offline export made of it, and LiveKvpStateSink, which publishes   *)
(* to the viewer of a LiveSession.                                            *)
(*                                                                            *)
(* Both sinks stand behind CompositeSink, which swallows their exceptions: a  *)
(* state that cannot be built or sent is a gap and not an error.  Hashes are  *)
(* the states they are taken of.  The viewer stands for any client that       *)
(* patches what it holds with the frames it gets.                             *)
EXTENDS StateDiff, Integers, FiniteSets

CONSTANTS
    SourceStates,   \* the states a tick may end in
    Policies,       \* keyframe policies: an interval, or (interval 0) ticks
    MaxTick,        \* bound on the ticks
    MaxFaults,      \* bound on the lost ticks and the failing sends and writes
    None            \* no record, no manifest

NoTick == 0

ASSUME SourceAssumption == SourceStates \subseteq States
ASSUME PolicyAssumption == Policies \subseteq [interval : Nat, ticks : SUBSET Nat]
ASSUME BoundsAssumption == MaxTick \in Nat /\ MaxFaults \in Nat
ASSUME NoneAssumption == None \notin States

VARIABLES
    clock,      \* the last tick
    history,    \* _state_by_tick
    sink,       \* the live sink's _prev_tick and _prev_state
    session,    \* the LiveSession's flags
    viewer,     \* what the subscribed viewer makes of what it received
    policy,     \* keyframe policy of the OfflineExportConfig
    export,     \* the step of the running export
    disk,       \* the run root: records by tick, and the manifest
    faults

live == <<sink, session, viewer>>
feedVars == <<clock, history, live, policy, export, disk, faults>>

-----------------------------------------------------------------------------
(* The live session *)

Blank == [based |-> FALSE, tick |-> NoTick, state |-> None, hash |-> None,
          lostTrack |-> FALSE, early |-> FALSE, refused |-> FALSE]

\* _on_viewer_hello with a schema version the kernel speaks.
ViewerHello ==
    /\ ~session.greeted
    /\ session' = [session EXCEPT !.greeted = TRUE]
    /\ UNCHANGED <<clock, history, sink, viewer, policy, export, disk, faults>>

\* Before the handshake it is answered with BAD_SEQUENCE.  Subscribing again
\* starts a new stream on the same sink, which is not told.
Subscribe(onJoin) ==
    /\ session.greeted
    /\ session' = [session EXCEPT !.subscribed = TRUE, !.onJoin = onJoin,
                                  !.baseline = FALSE]
    /\ viewer' = [Blank EXCEPT !.early = (sink.tick = NoTick)]
    /\ UNCHANGED <<clock, history, sink, policy, export, disk, faults>>

\* The state of tick t can be sent as a diff to the one sent before.
Continues(t) == sink.tick # NoTick /\ t = sink.tick + 1

(* Mutated form: the baseline is asked for before any frame.                  *)
AnswerGuardsSnapshots(t) ==
    IF ~session.subscribed THEN "NOT_SUBSCRIBED"
    ELSE IF session.onJoin /\ ~session.baseline THEN "MISSING_BASELINE"
    ELSE IF Continues(t) THEN "FRAME_DIFF" ELSE "FULL_SNAPSHOT"

\* What on_tick_output makes the session send: an ERROR or a frame.
Answer(t) ==
    IF ~session.subscribed THEN "NOT_SUBSCRIBED"
    ELSE IF ~Continues(t) THEN "FULL_SNAPSHOT"
    ELSE IF session.onJoin /\ ~session.baseline THEN "MISSING_BASELINE"
    ELSE "FRAME_DIFF"

\* A viewer patches its state when the diff starts from the tick and the hash
\* it holds; any other diff finds it on the wrong track.
Received(answer, t, s) ==
    CASE answer = "FULL_SNAPSHOT" ->
            [viewer EXCEPT !.based = TRUE, !.tick = t, !.state = s, !.hash = s]
      [] answer = "FRAME_DIFF" /\ viewer.based ->
            IF viewer.tick + 1 = t /\ viewer.hash = sink.state
            THEN [viewer EXCEPT !.tick = t, !.state = Patch(@, Diff(sink.state, s)),
                                !.hash = s]
            ELSE [viewer EXCEPT !.lostTrack = TRUE]
      [] answer = "MISSING_BASELINE" -> [viewer EXCEPT !.refused = TRUE]
      [] OTHER -> viewer

(* Mutated form: the sink moves on although the send raised.                  *)
SinkMovesOn(t, s, raised) == [tick |-> t, state |-> s]

SinkAfter(t, s, raised) == IF raised THEN sink ELSE [tick |-> t, state |-> s]

\* One tick ends in state s.  The history records it; the sink publishes it,
\* and a send that raises may still have arrived.
Tick(s, raised, arrived) ==
    LET t == clock + 1
    IN  /\ export.step = "idle" /\ clock < MaxTick
        /\ arrived \/ raised
        /\ faults + (IF raised THEN 1 ELSE 0) <= MaxFaults
        /\ faults' = faults + (IF raised THEN 1 ELSE 0)
        /\ clock' = t
        /\ history' = [u \in DOMAIN history \cup {t} |-> IF u = t THEN s ELSE history[u]]
        /\ sink' = SinkAfter(t, s, raised)
        /\ session' = [session EXCEPT !.baseline = @ \/ Answer(t) = "FULL_SNAPSHOT"]
        /\ viewer' = IF arrived THEN Received(Answer(t), t, s) ELSE viewer
        /\ UNCHANGED <<policy, export, disk>>

\* The tick raised, or a projection of its state did.
TickLost ==
    /\ export.step = "idle" /\ clock < MaxTick /\ faults < MaxFaults
    /\ clock' = clock + 1
    /\ faults' = faults + 1
    /\ UNCHANGED <<history, live, policy, export, disk>>

-----------------------------------------------------------------------------
(* The offline export at the end of SimRunner.run *)

Keyframes(start, end) ==
    IF policy.interval = 0 THEN {start} \cup (policy.ticks \cap start..end)
    ELSE {t \in start..end : (t - start) % policy.interval = 0}

Idle == [step |-> "idle", start |-> NoTick, end |-> NoTick, next |-> NoTick]
Contiguous == \E a, b \in 1..clock : DOMAIN history = a..b /\ a <= b

\* A history with a gap is refused; nothing is written then.
BeginExport ==
    /\ export.step = "idle" /\ Contiguous
    /\ export' = LET start == CHOOSE a \in DOMAIN history : \A b \in DOMAIN history : a <= b
                     end   == CHOOSE b \in DOMAIN history : \A a \in DOMAIN history : a <= b
                 IN  [step |-> "snapshots", start |-> start, end |-> end, next |-> start]
    /\ UNCHANGED <<clock, history, live, policy, disk, faults>>

IsKeyframe(t) == t \in Keyframes(export.start, export.end)

With(files, t, record) == [u \in DOMAIN files \cup {t} |-> IF u = t THEN record ELSE files[u]]

SnapshotRecord(t) == [state |-> history[t], hash |-> history[t]]

\* The hash a diff starts from: its keyframe's, or the diff's before it.
PrevHash(t) == IF IsKeyframe(t) THEN disk.snaps[t].hash ELSE disk.diffs[t - 1].hash

DiffRecord(t) ==
    [prev |-> PrevHash(t), ops |-> Diff(history[t], history[t + 1]), hash |-> history[t + 1]]

WriteSnapshot ==
    /\ export.step = "snapshots"
    /\ disk' = IF IsKeyframe(export.next)
               THEN [disk EXCEPT !.snaps = With(@, export.next, SnapshotRecord(export.next))]
               ELSE disk
    /\ export' = IF export.next = export.end
                 THEN [export EXCEPT !.step = "diffs", !.next = export.start]
                 ELSE [export EXCEPT !.next = @ + 1]
    /\ UNCHANGED <<clock, history, live, policy, faults>>

WriteDiff ==
    /\ export.step = "diffs" /\ export.next < export.end
    /\ disk' = [disk EXCEPT !.diffs = With(@, export.next, DiffRecord(export.next))]
    /\ export' = [export EXCEPT !.next = @ + 1]
    /\ UNCHANGED <<clock, history, live, policy, faults>>

\* The checksums are read back from the records just written.
Manifest ==
    LET keys == Keyframes(export.start, export.end)
    IN  [start |-> export.start, end |-> export.end, keys |-> keys,
         sums |-> [snaps |-> [t \in keys |-> disk.snaps[t]],
                   diffs |-> [t \in export.start..(export.end - 1) |-> disk.diffs[t]]]]

\* ManifestV0_1.validate.
Valid(m) ==
    /\ m.start <= m.end
    /\ m.keys # {} /\ m.keys \subseteq m.start..m.end
    /\ m.keys \subseteq DOMAIN m.sums.snaps
    /\ m.start..(m.end - 1) \subseteq DOMAIN m.sums.diffs

WriteManifest ==
    /\ export.step = "diffs" /\ export.next = export.end
    /\ Valid(Manifest)
    /\ disk' = [disk EXCEPT !.manifest = Manifest]
    /\ export' = Idle
    /\ UNCHANGED <<clock, history, live, policy, faults>>

\* Writing the next record raises and leaves its file truncated.
WriteFails ==
    /\ export.step # "idle" /\ faults < MaxFaults
    /\ export.step = "snapshots" => IsKeyframe(export.next)
    /\ disk' = IF export.step = "snapshots"
               THEN [disk EXCEPT !.snaps = With(@, export.next, None)]
               ELSE IF export.next < export.end
               THEN [disk EXCEPT !.diffs = With(@, export.next, None)]
               ELSE [disk EXCEPT !.manifest = None]
    /\ export' = Idle
    /\ faults' = faults + 1
    /\ UNCHANGED <<clock, history, live, policy>>

-----------------------------------------------------------------------------
FeedInit ==
    /\ clock = 0
    /\ history = [t \in {} |-> None]
    /\ sink = [tick |-> NoTick, state |-> None]
    /\ session = [greeted |-> FALSE, subscribed |-> FALSE, onJoin |-> FALSE, baseline |-> FALSE]
    /\ viewer = Blank
    /\ policy \in Policies
    /\ export = Idle
    /\ disk = [snaps |-> [t \in {} |-> None], diffs |-> [t \in {} |-> None], manifest |-> None]
    /\ faults = 0

FeedNext ==
    \/ ViewerHello
    \/ \E onJoin \in BOOLEAN : Subscribe(onJoin)
    \/ \E s \in SourceStates, raised, arrived \in BOOLEAN : Tick(s, raised, arrived)
    \/ TickLost
    \/ BeginExport \/ WriteSnapshot \/ WriteDiff \/ WriteManifest \/ WriteFails

FeedSpec == FeedInit /\ [][FeedNext]_feedVars

-----------------------------------------------------------------------------
(* The verifier *)

\* A record is read unless it is truncated; a snapshot must hash to what it
\* says, and a diff must start from the hash before and end in its own.
Loaded(record) == IF record = None \/ record.state # record.hash THEN None ELSE record.state
Stepped(state, record) ==
    IF state = None \/ record = None THEN None
    ELSE IF record.prev = state /\ Patch(state, record.ops) = record.hash
    THEN record.hash ELSE None

\* reconstruct_state_at_tick: from the nearest keyframe on, diff by diff.
Reconstructed ==
    LET m == disk.manifest
        at[t \in m.start..m.end] ==
            IF t \in m.keys THEN Loaded(disk.snaps[t])
            ELSE Stepped(at[t - 1], disk.diffs[t - 1])
    IN  at

-----------------------------------------------------------------------------
(* Properties *)

NearestKeyframe(m, t) == CHOOSE k \in m.keys : k <= t /\ \A j \in m.keys : j <= t => j <= k

\* No record between tick t and its keyframe is truncated.
Intact(m, t) ==
    LET k == NearestKeyframe(m, t)
    IN  disk.snaps[k] # None /\ \A u \in k..(t - 1) : disk.diffs[u] # None

(* Once a manifest is on disk, and also while a later export overwrites its   *)
(* records or breaks off, every tick of its window is either reconstructed as *)
(* the state recorded for it or refused by the verifier, and it is refused    *)
(* only for a truncated record or because a field no op carries changed since *)
(* the keyframe (export_verify.py:82-112).  Intact records match the          *)
(* manifest's checksums.                                                      *)
PublishedVerifies ==
    LET m == disk.manifest
    IN  m # None =>
          /\ \A t \in m.start..m.end :
                \/ Reconstructed[t] = history[t]
                \/ /\ Reconstructed[t] = None
                   /\ \/ ~Intact(m, t)
                      \/ \E u \in NearestKeyframe(m, t)..t :
                            history[u].uncarried # history[NearestKeyframe(m, t)].uncarried
          /\ \A t \in m.keys : disk.snaps[t] \in {None, m.sums.snaps[t]}
          /\ \A t \in m.start..(m.end - 1) : disk.diffs[t] \in {None, m.sums.diffs[t]}

(* A viewer that has its baseline holds, of everything the ops can carry, the *)
(* state recorded for its tick, whatever ticks were lost and sends failed,    *)
(* and is never handed a diff that starts elsewhere (live_sink.py:225-272).   *)
ViewerFollows ==
    /\ ~viewer.lostTrack
    /\ viewer.based =>
          /\ viewer.tick \in DOMAIN history /\ viewer.hash = history[viewer.tick]
          /\ Carried(viewer.state) = Carried(history[viewer.tick])

(* MISSING_BASELINE is fatal and only ever sent to a viewer that subscribed   *)
(* when the sink had already run: one that is there for the sink's first      *)
(* frame gets a snapshot (live_session.py:99-107, live_sink.py:226).          *)
RefusedOnlyIfLate == viewer.refused => ~viewer.early
=============================================================================

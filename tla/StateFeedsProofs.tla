--------------------------- MODULE StateFeedsProofs ---------------------------
(* Proofs about StateDiff and StateFeeds, the live sink and the export, for   *)
(* any groups, states, policies and bounds.                                   *)
EXTENDS StateFeeds, WellFoundedInduction, TLAPS

-----------------------------------------------------------------------------
(* The ops *)

(* compute_state_diff_ops and apply_state_diff_ops are inverse up to what the *)
(* ops can carry: a state that differs from the diff's first state in nothing *)
(* else is taken to the diff's second (diff_ops.py:62-300).                   *)
THEOREM DiffIsExact ==
  ASSUME NEW held \in States, NEW from \in States, NEW to \in States,
         Carried(held) = Carried(from)
  PROVE  /\ Patch(held, Diff(from, to)) \in States
         /\ Carried(Patch(held, Diff(from, to))) = Carried(to)
<1> DEFINE p == Patch(held, Diff(from, to))
<1>1. held.groups = from.groups /\ held.slices = from.slices
  BY DEF Carried
<1>2. ASSUME NEW g \in Groups
      PROVE  PatchedRows(held.groups[g], Removed(from, to)[g], Upserted(from, to)[g])
                = to.groups[g]
  <2> DEFINE f == from.groups[g]
             h == to.groups[g]
             up == Upserted(from, to)[g]
  <2>1. f \in Rows /\ h \in Rows
    BY DEF States
  <2>2. PICK S \in SUBSET Ids : f \in [S -> Values]
    BY <2>1 DEF Rows
  <2>3. PICK T \in SUBSET Ids : h \in [T -> Values]
    BY <2>1 DEF Rows
  <2>4. /\ DOMAIN up = {j \in T : j \notin S \/ h[j] # f[j]}
        /\ \A i \in DOMAIN up : up[i] = h[i]
    BY <2>2, <2>3 DEF Upserted
  <2>5. Removed(from, to)[g] = S \ T
    BY <2>2, <2>3 DEF Removed
  <2>6. (S \ (S \ T)) \cup DOMAIN up = T
    BY <2>4
  <2>7. \A i \in T : (IF i \in DOMAIN up THEN up[i] ELSE f[i]) = h[i]
    BY <2>4
  <2>8. PatchedRows(f, Removed(from, to)[g], up)
           = [i \in T |-> IF i \in DOMAIN up THEN up[i] ELSE f[i]]
    BY <2>2, <2>5, <2>6 DEF PatchedRows
  <2>9. PatchedRows(f, Removed(from, to)[g], up) = [i \in T |-> h[i]]
    BY <2>7, <2>8
  <2> QED
    BY <1>1, <2>3, <2>9
<1>3. p.groups = [g \in Groups |-> to.groups[g]]
  BY <1>2 DEF Patch, Diff
<1>4. to.groups \in [Groups -> Rows] /\ to.slices \in [Slices -> Values]
      /\ from.slices \in [Slices -> Values] /\ held.uncarried \in Values
  BY DEF States
<1>5. p.groups = to.groups
  BY <1>3, <1>4
<1>6. p.slices = to.slices
  <2> DEFINE set == Diff(from, to).set
  <2>1. /\ DOMAIN set = {j \in Slices : from.slices[j] # to.slices[j]}
        /\ \A k \in DOMAIN set : set[k] = to.slices[k]
    BY DEF Diff
  <2>2. \A k \in Slices : (IF k \in DOMAIN set THEN set[k] ELSE held.slices[k]) = to.slices[k]
    BY <1>1, <2>1
  <2>3. p.slices = [k \in Slices |-> IF k \in DOMAIN set THEN set[k] ELSE held.slices[k]]
    BY DEF Patch
  <2>4. p.slices = [k \in Slices |-> to.slices[k]]
    BY <2>2, <2>3
  <2> QED
    BY <1>4, <2>4
<1>7. p = [groups |-> to.groups, slices |-> to.slices, uncarried |-> held.uncarried]
  BY <1>5, <1>6 DEF Patch
<1> QED
  BY <1>4, <1>7 DEF States, Carried

-----------------------------------------------------------------------------
(* The live feed *)

\* What is recorded, and what the sink sent last, are states that ticks ended in.
HistoryInv ==
  /\ clock \in Nat
  /\ DOMAIN history \subseteq 1..clock
  /\ history = [t \in DOMAIN history |-> history[t]]
  /\ \A t \in DOMAIN history : history[t] \in SourceStates
SinkInv ==
  /\ sink = [tick |-> sink.tick, state |-> sink.state]
  /\ sink.tick \in Nat
  /\ sink.tick # NoTick =>
        sink.tick \in DOMAIN history /\ sink.state = history[sink.tick]
SessionInv ==
  /\ session \in [greeted : BOOLEAN, subscribed : BOOLEAN, onJoin : BOOLEAN, baseline : BOOLEAN]
  /\ viewer.early /\ session.subscribed /\ sink.tick # NoTick => session.baseline
  /\ viewer.early => session.subscribed

\* A viewer with a baseline is at the sink's last tick, or ahead of a sink whose
\* send raised after it had arrived; the sink then starts anew.
ViewerInv ==
  /\ viewer = [based |-> viewer.based, tick |-> viewer.tick, state |-> viewer.state,
               hash |-> viewer.hash, lostTrack |-> viewer.lostTrack,
               early |-> viewer.early, refused |-> viewer.refused]
  /\ viewer.based \in BOOLEAN /\ viewer.early \in BOOLEAN
  /\ viewer.refused \in BOOLEAN /\ viewer.tick \in Nat
  /\ viewer.based =>
        /\ session.subscribed /\ session.baseline
        /\ viewer.state \in States
        /\ sink.tick <= viewer.tick

Inv == HistoryInv /\ SinkInv /\ SessionInv /\ ViewerInv /\ ViewerFollows /\ RefusedOnlyIfLate

LEMMA InitInv == FeedInit => Inv
BY BoundsAssumption DEF FeedInit, Inv, HistoryInv, SinkInv, SessionInv, ViewerInv, ViewerFollows,
   RefusedOnlyIfLate, Blank, NoTick

\* Whatever leaves the feed alone keeps it right.
LEMMA RestInv ==
  ASSUME Inv, clock' \in Nat, clock <= clock', UNCHANGED <<history, sink, session, viewer>>
  PROVE  Inv'
<1>1. \A t \in DOMAIN history : t \in 1..clock'
  BY DEF Inv, HistoryInv
<1> QED
  BY <1>1 DEF Inv, HistoryInv, SinkInv, SessionInv, ViewerInv, ViewerFollows, RefusedOnlyIfLate

LEMMA SubscribeInv ==
  ASSUME Inv, NEW onJoin \in BOOLEAN, Subscribe(onJoin)
  PROVE  Inv'
<1>1. viewer' = [Blank EXCEPT !.early = (sink.tick = NoTick)]
      /\ session' = [session EXCEPT !.subscribed = TRUE, !.onJoin = onJoin, !.baseline = FALSE]
      /\ UNCHANGED <<clock, history, sink>>
  BY DEF Subscribe
<1>2. ~viewer'.based /\ ~viewer'.lostTrack /\ ~viewer'.refused
      /\ viewer'.early = (sink.tick = NoTick)
  BY <1>1 DEF Blank
<1>3. ViewerInv'
  BY <1>1, <1>2 DEF ViewerInv, Blank, NoTick
<1>4. SessionInv'
  BY <1>1, <1>2 DEF Inv, SessionInv
<1> QED
  BY <1>1, <1>2, <1>3, <1>4
     DEF Inv, HistoryInv, SinkInv, ViewerFollows, RefusedOnlyIfLate

LEMMA TickInv ==
  ASSUME Inv, NEW s \in SourceStates, NEW raised \in BOOLEAN, NEW arrived \in BOOLEAN,
         Tick(s, raised, arrived)
  PROVE  Inv'
<1> DEFINE t == clock + 1
           a == Answer(t)
<1>1. /\ arrived \/ raised
      /\ clock' = t
      /\ history' = [u \in DOMAIN history \cup {t} |-> IF u = t THEN s ELSE history[u]]
      /\ sink' = SinkAfter(t, s, raised)
      /\ session' = [session EXCEPT !.baseline = @ \/ a = "FULL_SNAPSHOT"]
      /\ viewer' = IF arrived THEN Received(a, t, s) ELSE viewer
  BY DEF Tick
<1>2. clock \in Nat /\ t \in Nat /\ t # NoTick /\ t \notin DOMAIN history
  BY DEF Inv, HistoryInv, NoTick
<1>3. /\ DOMAIN history' = DOMAIN history \cup {t}
      /\ history'[t] = s
      /\ \A u \in DOMAIN history : history'[u] = history[u]
  BY <1>1, <1>2
<1>4. HistoryInv'
  <2>1. DOMAIN history' \subseteq 1..clock'
    BY <1>1, <1>2, <1>3 DEF Inv, HistoryInv
  <2>2. history' = [u \in DOMAIN history' |-> history'[u]]
    BY <1>1
  <2> QED
    BY <1>1, <1>2, <1>3, <2>1, <2>2 DEF Inv, HistoryInv
<1>5. SinkInv' /\ (sink' = sink \/ sink'.tick = t)
  <2>1. CASE raised
    BY <1>1, <1>3, <2>1 DEF Inv, SinkInv, SinkAfter
  <2>2. CASE ~raised
    BY <1>1, <1>2, <1>3, <2>2 DEF SinkInv, SinkAfter
  <2> QED
    BY <2>1, <2>2
<1>6. /\ session' \in [greeted : BOOLEAN, subscribed : BOOLEAN, onJoin : BOOLEAN, baseline : BOOLEAN]
      /\ session'.subscribed = session.subscribed
      /\ session'.baseline = (session.baseline \/ a = "FULL_SNAPSHOT")
  BY <1>1 DEF Inv, SessionInv
<1>7. s \in States
  BY SourceAssumption
<1>8. CASE ~arrived \/ a = "NOT_SUBSCRIBED" \/ (a = "FRAME_DIFF" /\ ~viewer.based)
  <2>1. viewer' = viewer
    BY <1>1, <1>8 DEF Received
  <2>2. viewer.based => ~arrived
    BY <1>8 DEF Answer, Inv, ViewerInv
  <2>3. viewer.based => sink' = sink
    BY <1>1, <2>2 DEF SinkAfter
  <2>4. ViewerInv'
    BY <1>6, <2>1, <2>3 DEF Inv, ViewerInv
  <2>5. viewer.early /\ session.subscribed /\ sink'.tick # NoTick => session'.baseline
    <3>1. CASE sink.tick # NoTick
      BY <1>6, <3>1 DEF Inv, SessionInv
    <3>2. CASE sink.tick = NoTick
      BY <1>6, <3>2 DEF Answer, Continues, Inv, SessionInv
    <3> QED
      BY <3>1, <3>2
  <2>6. SessionInv'
    BY <1>6, <2>1, <2>5 DEF Inv, SessionInv
  <2> QED
    BY <1>3, <1>4, <1>5, <2>1, <2>4, <2>6 DEF Inv, ViewerFollows, RefusedOnlyIfLate
<1>9. CASE arrived /\ a = "FULL_SNAPSHOT"
  <2>1. viewer' = [viewer EXCEPT !.based = TRUE, !.tick = t, !.state = s, !.hash = s]
    BY <1>1, <1>9 DEF Received
  <2>2. session.subscribed
    BY <1>9 DEF Answer
  <2>3. sink'.tick <= t
    BY <1>2, <1>5 DEF Inv, HistoryInv, SinkInv, NoTick
  <2>4. /\ viewer'.based /\ viewer'.tick = t /\ viewer'.state = s /\ viewer'.hash = s
        /\ viewer'.lostTrack = viewer.lostTrack /\ viewer'.early = viewer.early
        /\ viewer'.refused = viewer.refused
    BY <2>1 DEF Inv, ViewerInv
  <2>5. ViewerInv'
    BY <1>2, <1>6, <1>7, <1>9, <2>1, <2>2, <2>3, <2>4 DEF Inv, ViewerInv
  <2>6. SessionInv'
    BY <1>6, <1>9, <2>4 DEF Inv, SessionInv
  <2> QED
    BY <1>3, <1>4, <1>5, <2>4, <2>5, <2>6 DEF Inv, ViewerFollows, RefusedOnlyIfLate
<1>10. CASE arrived /\ a = "FRAME_DIFF" /\ viewer.based
  <2>1. Continues(t)
    BY <1>10 DEF Answer
  <2>2. viewer.tick = sink.tick /\ viewer.tick + 1 = t /\ viewer.hash = sink.state
    BY <1>2, <1>10, <2>1 DEF Continues, Inv, HistoryInv, SinkInv, ViewerInv, ViewerFollows
  <2>3. sink.state \in States /\ Carried(viewer.state) = Carried(sink.state)
    BY <1>10, <2>1, <2>2, SourceAssumption
       DEF Continues, Inv, HistoryInv, SinkInv, ViewerFollows
  <2>4. viewer' = [viewer EXCEPT !.tick = t, !.state = Patch(@, Diff(sink.state, s)), !.hash = s]
    BY <1>1, <1>10, <2>2 DEF Received
  <2>5. /\ viewer'.state \in States /\ Carried(viewer'.state) = Carried(s)
        /\ viewer'.based /\ viewer'.tick = t /\ viewer'.hash = s
        /\ viewer'.lostTrack = viewer.lostTrack /\ viewer'.early = viewer.early
        /\ viewer'.refused = viewer.refused
    <3>1. viewer.state \in States
      BY <1>10 DEF Inv, ViewerInv
    <3>2. viewer'.state = Patch(viewer.state, Diff(sink.state, s))
      BY <2>4 DEF Inv, ViewerInv
    <3>3. viewer'.state \in States /\ Carried(viewer'.state) = Carried(s)
      BY <1>7, <2>3, <3>1, <3>2, DiffIsExact
    <3> QED
      BY <1>10, <2>4, <3>3 DEF Inv, ViewerInv
  <2>6. sink'.tick <= t
    BY <1>2, <1>5 DEF Inv, HistoryInv, SinkInv, NoTick
  <2>7. ViewerInv'
    BY <1>2, <1>6, <1>10, <2>4, <2>5, <2>6 DEF Inv, ViewerInv
  <2>8. SessionInv'
    BY <1>6, <1>10, <2>5 DEF Inv, SessionInv, ViewerInv
  <2> QED
    BY <1>3, <1>4, <1>5, <2>5, <2>7, <2>8 DEF Inv, ViewerFollows, RefusedOnlyIfLate
<1>11. CASE arrived /\ a = "MISSING_BASELINE"
  <2>1. Continues(t) /\ ~session.baseline /\ session.subscribed
    BY <1>11 DEF Answer
  <2>2. viewer' = [viewer EXCEPT !.refused = TRUE]
    BY <1>1, <1>11 DEF Received
  <2>3. ~viewer.early /\ ~viewer.based
    BY <2>1 DEF Continues, Inv, SessionInv, ViewerInv
  <2>4. /\ ~viewer'.based /\ ~viewer'.early /\ viewer'.refused
        /\ viewer'.lostTrack = viewer.lostTrack
    BY <2>2, <2>3 DEF Inv, ViewerInv
  <2>5. ViewerInv' /\ SessionInv'
    BY <1>6, <2>2, <2>4 DEF Inv, ViewerInv, SessionInv
  <2> QED
    BY <1>4, <1>5, <2>4, <2>5 DEF Inv, ViewerFollows, RefusedOnlyIfLate
<1>12. a \in {"NOT_SUBSCRIBED", "FULL_SNAPSHOT", "MISSING_BASELINE", "FRAME_DIFF"}
  BY DEF Answer
<1> QED
  BY <1>8, <1>9, <1>10, <1>11, <1>12

THEOREM InvStep == Inv /\ [FeedNext]_feedVars => Inv'
<1> SUFFICES ASSUME Inv, [FeedNext]_feedVars
             PROVE  Inv'
  OBVIOUS
<1> USE DEF Inv
<1>1. CASE ViewerHello
  <2>1. session' = [session EXCEPT !.greeted = TRUE] /\ UNCHANGED <<clock, history, sink, viewer>>
    BY <1>1 DEF ViewerHello
  <2>2. SessionInv' /\ session'.subscribed = session.subscribed /\ session'.baseline = session.baseline
    BY <2>1 DEF SessionInv
  <2> QED
    BY <2>1, <2>2 DEF HistoryInv, SinkInv, ViewerInv, ViewerFollows, RefusedOnlyIfLate
<1>2. CASE \E onJoin \in BOOLEAN : Subscribe(onJoin)
  BY <1>2, SubscribeInv
<1>3. CASE \E s \in SourceStates, raised, arrived \in BOOLEAN : Tick(s, raised, arrived)
  BY <1>3, TickInv
<1>4. CASE TickLost
  BY <1>4, RestInv DEF TickLost, HistoryInv, live
<1>5. CASE BeginExport \/ WriteSnapshot \/ WriteDiff \/ WriteManifest \/ WriteFails
  BY <1>5, RestInv
     DEF BeginExport, WriteSnapshot, WriteDiff, WriteManifest, WriteFails, HistoryInv, live
<1>6. CASE UNCHANGED feedVars
  BY <1>6, RestInv DEF feedVars, HistoryInv, live
<1> QED
  BY <1>1, <1>2, <1>3, <1>4, <1>5, <1>6 DEF FeedNext

LEMMA FeedInvariant == FeedSpec => []Inv
BY InitInv, InvStep, PTL DEF FeedSpec

(* Whatever ticks are lost, sends fail and viewers come and go, a viewer with *)
(* a baseline holds what was recorded for its tick (live_sink.py:221-272).    *)
THEOREM ViewerFollowsTheorem == FeedSpec => []ViewerFollows
<1>1. Inv => ViewerFollows
  BY DEF Inv
<1> QED
  BY FeedInvariant, <1>1, PTL

(* Only a viewer that came after the sink's first frame is refused its diffs  *)
(* (live_session.py:96-104).                                                  *)
THEOREM RefusedTheorem == FeedSpec => []RefusedOnlyIfLate
<1>1. Inv => RefusedOnlyIfLate
  BY DEF Inv
<1> QED
  BY FeedInvariant, <1>1, PTL

-----------------------------------------------------------------------------
(* The export.  A record says the same whichever export wrote it, because the *)
(* history of a tick never changes: a snapshot is the tick's state, and a diff *)
(* starts from the hash of the state before it, read back from the record that *)
(* this export has written for it.                                            *)

FullDiff(t) ==
  [prev |-> history[t], ops |-> Diff(history[t], history[t + 1]), hash |-> history[t + 1]]

\* The records of a window, as far as they are on disk.
ManifestInv(m) ==
  /\ m.start \in Nat /\ m.end \in Nat /\ 1 <= m.start /\ m.start <= m.end
  /\ m.start..m.end \subseteq DOMAIN history
  /\ m.keys \subseteq m.start..m.end /\ m.start \in m.keys
  /\ m.keys \subseteq DOMAIN disk.snaps
  /\ m.start..(m.end - 1) \subseteq DOMAIN disk.diffs
  /\ \A t \in m.keys : m.sums.snaps[t] = SnapshotRecord(t)
  /\ \A t \in m.start..(m.end - 1) : m.sums.diffs[t] = FullDiff(t)
RecordsInv ==
  /\ disk = [snaps |-> disk.snaps, diffs |-> disk.diffs, manifest |-> disk.manifest]
  /\ \A t \in DOMAIN disk.snaps :
        t \in DOMAIN history /\ disk.snaps[t] \in {None, SnapshotRecord(t)}
  /\ \A t \in DOMAIN disk.diffs :
        /\ t \in DOMAIN history /\ t + 1 \in DOMAIN history
        /\ disk.diffs[t] \in {None, FullDiff(t)}
  /\ disk.manifest # None => ManifestInv(disk.manifest)
WindowInv ==
  /\ export = [step |-> export.step, start |-> export.start, end |-> export.end,
               next |-> export.next]
  /\ export.step \in {"idle", "snapshots", "diffs"}
  /\ export.step # "idle" =>
        /\ export.start \in Nat /\ export.end \in Nat /\ export.next \in Nat
        /\ 1 <= export.start /\ export.start <= export.next /\ export.next <= export.end
        /\ export.start..export.end \subseteq DOMAIN history
Written(k) == k \in DOMAIN disk.snaps /\ disk.snaps[k] = SnapshotRecord(k)
ProgressInv ==
  /\ export.step # "idle" =>
        \A k \in Keyframes(export.start, export.end) :
            export.step = "diffs" \/ k < export.next => Written(k)
  /\ export.step = "diffs" =>
        \A u \in export.start..(export.next - 1) :
            u \in DOMAIN disk.diffs /\ disk.diffs[u] = FullDiff(u)
ExportInv == policy \in Policies /\ RecordsInv /\ WindowInv /\ ProgressInv

LEMMA KeyframesFit ==
  ASSUME policy \in Policies, NEW a \in Nat, NEW b \in Nat, a <= b
  PROVE  Keyframes(a, b) \subseteq a..b /\ a \in Keyframes(a, b)
<1>1. policy.interval \in Nat
  BY PolicyAssumption
<1>2. CASE policy.interval = 0
  BY <1>2 DEF Keyframes
<1>3. CASE policy.interval # 0
  <2>1. \A i \in Nat : i # 0 => 0 % i = 0
    OBVIOUS
  <2>2. (a - a) % policy.interval = 0
    BY <1>1, <1>3, <2>1
  <2> QED
    BY <1>3, <2>2 DEF Keyframes
<1> QED
  BY <1>2, <1>3

LEMMA ExportInit == FeedInit => ExportInv
BY DEF FeedInit, ExportInv, RecordsInv, WindowInv, ProgressInv, Idle

\* A tick, lost or not, changes no record of the ticks before.
LEMMA HistoryGrows ==
  ASSUME ExportInv, export.step = "idle", UNCHANGED <<policy, export, disk>>,
         DOMAIN history \subseteq DOMAIN history',
         \A t \in DOMAIN history : history'[t] = history[t]
  PROVE  ExportInv'
<1>1. \A t \in DOMAIN history : SnapshotRecord(t)' = SnapshotRecord(t)
  BY DEF SnapshotRecord
<1>2. \A t \in DOMAIN history : t + 1 \in DOMAIN history => FullDiff(t)' = FullDiff(t)
  BY DEF FullDiff
<1>3. ASSUME NEW m, ManifestInv(m) PROVE ManifestInv(m)'
  <2>1. \A t \in m.keys : t \in DOMAIN history
    BY <1>3 DEF ManifestInv
  <2>2. \A t \in m.start..(m.end - 1) : t \in m.start..m.end /\ t + 1 \in m.start..m.end
    BY <1>3 DEF ManifestInv
  <2>3. \A t \in m.start..(m.end - 1) : t \in DOMAIN history /\ t + 1 \in DOMAIN history
    BY <1>3, <2>2 DEF ManifestInv
  <2> QED
    BY <1>1, <1>2, <1>3, <2>1, <2>3 DEF ManifestInv
<1>4. RecordsInv'
  BY <1>1, <1>2, <1>3 DEF ExportInv, RecordsInv
<1> QED
  BY <1>4 DEF ExportInv, WindowInv, ProgressInv

LEMMA BeginStep ==
  ASSUME Inv, ExportInv, BeginExport
  PROVE  ExportInv'
<1>1. PICK a \in 1..clock, b \in 1..clock : DOMAIN history = a..b /\ a <= b
  BY DEF BeginExport, Contiguous
<1>2. a \in Nat /\ b \in Nat /\ 1 <= a
  BY <1>1 DEF Inv, HistoryInv
<1>3. (CHOOSE i \in DOMAIN history : \A j \in DOMAIN history : i <= j) = a
  BY <1>1, <1>2
<1>4. (CHOOSE j \in DOMAIN history : \A i \in DOMAIN history : i <= j) = b
  BY <1>1, <1>2
<1>5. export' = [step |-> "snapshots", start |-> a, end |-> b, next |-> a]
  BY <1>3, <1>4 DEF BeginExport
<1>6. UNCHANGED <<history, policy, disk>>
  BY DEF BeginExport
<1>7. WindowInv'
  BY <1>1, <1>2, <1>5, <1>6 DEF WindowInv
<1>8. RecordsInv'
  BY <1>6 DEF ExportInv, RecordsInv, ManifestInv, SnapshotRecord, FullDiff
<1>9. ProgressInv'
  <2>1. Keyframes(a, b)' \subseteq a..b
    BY <1>1, <1>2, <1>6, KeyframesFit DEF ExportInv, Keyframes
  <2>2. \A k \in Keyframes(a, b)' : ~(k < a)
    BY <1>2, <2>1
  <2> QED
    BY <1>5, <2>2 DEF ProgressInv
<1> QED
  BY <1>6, <1>7, <1>8, <1>9 DEF ExportInv

\* The records after one of a snapshot was written, whole or truncated.
LEMMA SnapshotOnDisk ==
  ASSUME RecordsInv, NEW t \in DOMAIN history, NEW record \in {None, SnapshotRecord(t)},
         disk' = [disk EXCEPT !.snaps = With(@, t, record)], history' = history
  PROVE  /\ RecordsInv' /\ disk'.diffs = disk.diffs
         /\ disk'.snaps = With(disk.snaps, t, record)
         /\ \A k : Written(k) /\ k # t => Written(k)'
<1>1. /\ disk'.diffs = disk.diffs /\ disk'.manifest = disk.manifest
      /\ disk'.snaps = With(disk.snaps, t, record)
      /\ disk' = [snaps |-> disk'.snaps, diffs |-> disk'.diffs, manifest |-> disk'.manifest]
  BY DEF RecordsInv
<1>2. /\ DOMAIN disk'.snaps = DOMAIN disk.snaps \cup {t} /\ disk'.snaps[t] = record
      /\ \A u \in DOMAIN disk.snaps : u # t => disk'.snaps[u] = disk.snaps[u]
  BY <1>1 DEF With
<1>3. \A u : SnapshotRecord(u)' = SnapshotRecord(u) /\ FullDiff(u)' = FullDiff(u)
  BY DEF SnapshotRecord, FullDiff
<1>4. \A k \in DOMAIN disk'.snaps :
         k \in DOMAIN history' /\ disk'.snaps[k] \in {None, SnapshotRecord(k)'}
  BY <1>2, <1>3 DEF RecordsInv
<1>5. ASSUME NEW m, ManifestInv(m) PROVE ManifestInv(m)'
  BY <1>1, <1>2, <1>3, <1>5 DEF ManifestInv
<1>6. RecordsInv'
  BY <1>1, <1>3, <1>4, <1>5 DEF RecordsInv
<1>7. \A k : Written(k) /\ k # t => Written(k)'
  BY <1>2, <1>3 DEF Written
<1> QED
  BY <1>1, <1>6, <1>7

\* ... and after one of a diff.
LEMMA DiffOnDisk ==
  ASSUME RecordsInv, NEW t \in DOMAIN history, t + 1 \in DOMAIN history,
         NEW record \in {None, FullDiff(t)},
         disk' = [disk EXCEPT !.diffs = With(@, t, record)], history' = history
  PROVE  /\ RecordsInv' /\ disk'.snaps = disk.snaps
         /\ DOMAIN disk'.diffs = DOMAIN disk.diffs \cup {t} /\ disk'.diffs[t] = record
         /\ \A u \in DOMAIN disk.diffs : u # t => disk'.diffs[u] = disk.diffs[u]
<1>1. /\ disk'.snaps = disk.snaps /\ disk'.manifest = disk.manifest
      /\ disk'.diffs = With(disk.diffs, t, record)
      /\ disk' = [snaps |-> disk'.snaps, diffs |-> disk'.diffs, manifest |-> disk'.manifest]
  BY DEF RecordsInv
<1>2. /\ DOMAIN disk'.diffs = DOMAIN disk.diffs \cup {t} /\ disk'.diffs[t] = record
      /\ \A u \in DOMAIN disk.diffs : u # t => disk'.diffs[u] = disk.diffs[u]
  BY <1>1 DEF With
<1>3. \A u : SnapshotRecord(u)' = SnapshotRecord(u) /\ FullDiff(u)' = FullDiff(u)
  BY DEF SnapshotRecord, FullDiff
<1>4. \A u \in DOMAIN disk'.diffs :
         /\ u \in DOMAIN history' /\ u + 1 \in DOMAIN history'
         /\ disk'.diffs[u] \in {None, FullDiff(u)'}
  BY <1>2, <1>3 DEF RecordsInv
<1>5. ASSUME NEW m, ManifestInv(m) PROVE ManifestInv(m)'
  BY <1>1, <1>2, <1>3, <1>5 DEF ManifestInv
<1>6. RecordsInv'
  BY <1>1, <1>3, <1>4, <1>5 DEF RecordsInv
<1> QED
  BY <1>1, <1>2, <1>6

LEMMA WindowFacts ==
  ASSUME ExportInv, export.step # "idle"
  PROVE  /\ export.start \in Nat /\ export.end \in Nat /\ export.next \in Nat
         /\ 1 <= export.start /\ export.start <= export.next /\ export.next <= export.end
         /\ \A t \in export.start..export.end : t \in DOMAIN history
         /\ export.next \in DOMAIN history
         /\ export.next < export.end => export.next + 1 \in DOMAIN history
         /\ Keyframes(export.start, export.end) \subseteq export.start..export.end
         /\ export.start \in Keyframes(export.start, export.end)
<1>1. /\ export.start \in Nat /\ export.end \in Nat /\ export.next \in Nat
      /\ 1 <= export.start /\ export.start <= export.next /\ export.next <= export.end
      /\ \A t \in export.start..export.end : t \in DOMAIN history
  BY DEF ExportInv, WindowInv
<1>2. export.next \in export.start..export.end
  BY <1>1
<1>3. export.next < export.end => export.next + 1 \in export.start..export.end
  BY <1>1
<1> QED
  BY <1>1, <1>2, <1>3, KeyframesFit DEF ExportInv

LEMMA WriteSnapshotStep ==
  ASSUME ExportInv, WriteSnapshot
  PROVE  ExportInv'
<1>0. PICK n : n = export.next
  OBVIOUS
<1>1. /\ export.step = "snapshots" /\ UNCHANGED <<history, policy>>
      /\ disk' = IF n \in Keyframes(export.start, export.end)
                 THEN [disk EXCEPT !.snaps = With(@, n, SnapshotRecord(n))] ELSE disk
      /\ export' = IF n = export.end
                   THEN [export EXCEPT !.step = "diffs", !.next = export.start]
                   ELSE [export EXCEPT !.next = @ + 1]
  BY <1>0 DEF WriteSnapshot, IsKeyframe
<1>2. /\ export.start \in Nat /\ export.end \in Nat /\ n \in Nat
      /\ 1 <= export.start /\ export.start <= n /\ n <= export.end
      /\ \A t \in export.start..export.end : t \in DOMAIN history
      /\ n \in DOMAIN history
      /\ Keyframes(export.start, export.end) \subseteq export.start..export.end
  BY <1>0, <1>1, WindowFacts
<1>3. /\ RecordsInv' /\ \A k : Written(k) /\ k # n => Written(k)'
      /\ n \in Keyframes(export.start, export.end) => Written(n)'
  <2>1. CASE n \in Keyframes(export.start, export.end)
    <3>1. disk' = [disk EXCEPT !.snaps = With(@, n, SnapshotRecord(n))]
      BY <1>1, <2>1
    <3>2. /\ RecordsInv' /\ disk'.snaps = With(disk.snaps, n, SnapshotRecord(n))
          /\ \A k : Written(k) /\ k # n => Written(k)'
      BY <1>1, <1>2, <3>1, SnapshotOnDisk DEF ExportInv
    <3>3. SnapshotRecord(n)' = SnapshotRecord(n)
      BY <1>1 DEF SnapshotRecord
    <3>4. Written(n)'
      BY <3>2, <3>3 DEF With, Written
    <3> QED
      BY <3>2, <3>4
  <2>2. CASE n \notin Keyframes(export.start, export.end)
    <3>1. disk' = disk
      BY <1>1, <2>2
    <3> QED
      BY <1>1, <2>2, <3>1
         DEF ExportInv, RecordsInv, ManifestInv, Written, SnapshotRecord, FullDiff
  <2> QED
    BY <2>1, <2>2
<1>4. /\ export'.start = export.start /\ export'.end = export.end
      /\ export' = [step |-> export'.step, start |-> export'.start, end |-> export'.end,
                    next |-> export'.next]
      /\ n = export.end => export'.step = "diffs" /\ export'.next = export.start
      /\ n # export.end => export'.step = "snapshots" /\ export'.next = n + 1
  BY <1>0, <1>1 DEF ExportInv, WindowInv
<1>5. Keyframes(export.start, export.end)' = Keyframes(export.start, export.end)
  BY <1>1, <1>4 DEF Keyframes
<1>6. WindowInv'
  <2>1. \A t \in export'.start..export'.end : t \in DOMAIN history'
    BY <1>1, <1>2, <1>4
  <2>2. export'.start <= export'.next /\ export'.next <= export'.end /\ export'.next \in Nat
    BY <1>2, <1>4
  <2> QED
    BY <1>2, <1>4, <2>1, <2>2 DEF WindowInv
<1>7. ASSUME NEW k \in Keyframes(export.start, export.end), export'.step = "diffs" \/ k < export'.next
      PROVE  Written(k)'
  <2>1. k \in Nat /\ k <= export.end
    BY <1>2, <1>7
  <2>2. k <= n
    BY <1>2, <1>4, <1>7, <2>1
  <2>3. CASE k = n
    BY <1>3, <1>7, <2>3
  <2>4. CASE k # n
    <3>1. k < n
      BY <1>2, <2>1, <2>2, <2>4
    <3>2. Written(k)
      BY <1>0, <1>1, <1>7, <3>1 DEF ExportInv, ProgressInv
    <3> QED
      BY <1>3, <2>4, <3>2
  <2> QED
    BY <2>3, <2>4
<1>8. ProgressInv'
  <2>1. export'.step = "diffs" => export'.start..(export'.next - 1) = {}
    BY <1>2, <1>4
  <2> QED
    BY <1>5, <1>7, <2>1 DEF ProgressInv
<1> QED
  BY <1>1, <1>3, <1>6, <1>8 DEF ExportInv

\* The record a diff starts from is the one this export wrote for it.
LEMMA DiffIsFull ==
  ASSUME ExportInv, export.step = "diffs", export.next < export.end
  PROVE  DiffRecord(export.next) = FullDiff(export.next)
<1> DEFINE n == export.next
<1>1. /\ export.start \in Nat /\ n \in Nat /\ export.start <= n
      /\ export.start \in Keyframes(export.start, export.end)
  BY WindowFacts
<1>2. CASE IsKeyframe(n)
  <2>1. disk.snaps[n] = SnapshotRecord(n)
    BY <1>2 DEF IsKeyframe, ExportInv, ProgressInv, Written
  <2>2. PrevHash(n) = history[n]
    BY <1>2, <2>1 DEF PrevHash, SnapshotRecord
  <2> QED
    BY <2>2 DEF DiffRecord, FullDiff
<1>3. CASE ~IsKeyframe(n)
  <2>1. n # export.start
    BY <1>1, <1>3 DEF IsKeyframe
  <2>2. n - 1 \in export.start..(n - 1) /\ (n - 1) + 1 = n
    BY <1>1, <2>1
  <2>3. disk.diffs[n - 1] = FullDiff(n - 1)
    BY <2>2 DEF ExportInv, ProgressInv
  <2>4. PrevHash(n) = history[n]
    BY <1>3, <2>2, <2>3 DEF PrevHash, FullDiff
  <2> QED
    BY <2>4 DEF DiffRecord, FullDiff
<1> QED
  BY <1>2, <1>3

LEMMA WriteDiffStep ==
  ASSUME ExportInv, WriteDiff
  PROVE  ExportInv'
<1> DEFINE n == export.next
<1>1. /\ export.step = "diffs" /\ n < export.end /\ UNCHANGED <<history, policy>>
      /\ disk' = [disk EXCEPT !.diffs = With(@, n, FullDiff(n))]
      /\ export' = [export EXCEPT !.next = @ + 1]
  BY DiffIsFull DEF WriteDiff
<1>2. /\ export.start \in Nat /\ export.end \in Nat /\ n \in Nat
      /\ 1 <= export.start /\ export.start <= n /\ n <= export.end
      /\ \A t \in export.start..export.end : t \in DOMAIN history
      /\ n \in DOMAIN history /\ n + 1 \in DOMAIN history
  BY <1>1, WindowFacts
<1>3. /\ RecordsInv' /\ disk'.snaps = disk.snaps
      /\ DOMAIN disk'.diffs = DOMAIN disk.diffs \cup {n} /\ disk'.diffs[n] = FullDiff(n)
      /\ \A u \in DOMAIN disk.diffs : u # n => disk'.diffs[u] = disk.diffs[u]
  BY <1>1, <1>2, DiffOnDisk DEF ExportInv
<1>4. /\ export'.start = export.start /\ export'.end = export.end
      /\ export'.step = "diffs" /\ export'.next = n + 1
      /\ export' = [step |-> export'.step, start |-> export'.start, end |-> export'.end,
                    next |-> export'.next]
  BY <1>1 DEF ExportInv, WindowInv
<1>5. WindowInv'
  <2>1. \A t \in export'.start..export'.end : t \in DOMAIN history'
    BY <1>1, <1>2, <1>4
  <2>2. export'.start <= export'.next /\ export'.next <= export'.end /\ export'.next \in Nat
    BY <1>1, <1>2, <1>4
  <2> QED
    BY <1>2, <1>4, <2>1, <2>2 DEF WindowInv
<1>6. \A u : SnapshotRecord(u)' = SnapshotRecord(u) /\ FullDiff(u)' = FullDiff(u)
  BY <1>1 DEF SnapshotRecord, FullDiff
<1>7. \A k \in Keyframes(export.start, export.end)' : Written(k)'
  BY <1>1, <1>3, <1>4, <1>6 DEF Keyframes, Written, ExportInv, ProgressInv
<1>8. ASSUME NEW u \in export'.start..(export'.next - 1)
      PROVE  u \in DOMAIN disk'.diffs /\ disk'.diffs[u] = FullDiff(u)'
  <2>1. u = n \/ u \in export.start..(n - 1)
    BY <1>2, <1>4
  <2>2. u \in export.start..(n - 1) => u # n /\ u \in DOMAIN disk.diffs /\ disk.diffs[u] = FullDiff(u)
    BY <1>1, <1>2 DEF ExportInv, ProgressInv
  <2> QED
    BY <1>3, <1>6, <2>1, <2>2
<1>9. ProgressInv'
  BY <1>4, <1>7, <1>8 DEF ProgressInv
<1> QED
  BY <1>1, <1>3, <1>5, <1>9 DEF ExportInv

LEMMA WriteManifestStep ==
  ASSUME ExportInv, WriteManifest
  PROVE  ExportInv'
<1>1. /\ export.step = "diffs" /\ export.next = export.end
      /\ disk' = [disk EXCEPT !.manifest = Manifest] /\ export' = Idle
      /\ UNCHANGED <<history, policy>>
  BY DEF WriteManifest
<1>2. /\ export.start \in Nat /\ export.end \in Nat
      /\ 1 <= export.start /\ export.start <= export.end
      /\ export.start..export.end \subseteq DOMAIN history
      /\ Keyframes(export.start, export.end) \subseteq export.start..export.end
      /\ export.start \in Keyframes(export.start, export.end)
  BY <1>1, WindowFacts
<1>3. /\ disk'.snaps = disk.snaps /\ disk'.diffs = disk.diffs /\ disk'.manifest = Manifest
      /\ disk' = [snaps |-> disk'.snaps, diffs |-> disk'.diffs, manifest |-> disk'.manifest]
  BY <1>1 DEF ExportInv, RecordsInv
<1>4. /\ \A k \in Keyframes(export.start, export.end) : Written(k)
      /\ \A u \in export.start..(export.end - 1) :
            u \in DOMAIN disk.diffs /\ disk.diffs[u] = FullDiff(u)
  BY <1>1 DEF ExportInv, ProgressInv
<1>5. ManifestInv(Manifest)
  BY <1>2, <1>4 DEF ManifestInv, Manifest, Written
<1>6. \A u : SnapshotRecord(u)' = SnapshotRecord(u) /\ FullDiff(u)' = FullDiff(u)
  BY <1>1 DEF SnapshotRecord, FullDiff
<1>7. ManifestInv(disk.manifest)'
  <2>1. ASSUME NEW m, ManifestInv(m) PROVE ManifestInv(m)'
    BY <1>1, <1>3, <1>6, <2>1 DEF ManifestInv
  <2>2. \A m : ManifestInv(m) => ManifestInv(m)'
    BY <2>1
  <2> QED
    BY <1>3, <1>5, <2>2
<1>8. RecordsInv'
  BY <1>1, <1>3, <1>6, <1>7 DEF ExportInv, RecordsInv
<1> QED
  BY <1>1, <1>8 DEF ExportInv, WindowInv, ProgressInv, Idle

LEMMA WriteFailsStep ==
  ASSUME ExportInv, WriteFails
  PROVE  ExportInv'
<1>0. PICK n : n = export.next
  OBVIOUS
<1>1. /\ export.step # "idle" /\ UNCHANGED <<history, policy>> /\ export' = Idle
      /\ disk' = IF export.step = "snapshots"
                 THEN [disk EXCEPT !.snaps = With(@, n, None)]
                 ELSE IF n < export.end
                 THEN [disk EXCEPT !.diffs = With(@, n, None)]
                 ELSE [disk EXCEPT !.manifest = None]
  BY <1>0 DEF WriteFails
<1>2. n \in DOMAIN history /\ (n < export.end => n + 1 \in DOMAIN history)
  BY <1>0, <1>1, WindowFacts
<1>3. RecordsInv
  BY DEF ExportInv
<1>4. RecordsInv' => ExportInv'
  BY <1>1 DEF ExportInv, WindowInv, ProgressInv, Idle
<1>5. CASE export.step = "snapshots"
  <2>1. disk' = [disk EXCEPT !.snaps = With(@, n, None)]
    BY <1>1, <1>5
  <2>2. RecordsInv'
    BY <1>1, <1>2, <1>3, <2>1, SnapshotOnDisk
  <2> QED
    BY <1>4, <2>2
<1>6. CASE export.step # "snapshots" /\ n < export.end
  <2>1. disk' = [disk EXCEPT !.diffs = With(@, n, None)]
    BY <1>1, <1>6
  <2>2. RecordsInv'
    BY <1>1, <1>2, <1>3, <1>6, <2>1, DiffOnDisk
  <2> QED
    BY <1>4, <2>2
<1>7. CASE export.step # "snapshots" /\ ~(n < export.end)
  <2>1. disk' = [disk EXCEPT !.manifest = None]
    BY <1>1, <1>7
  <2>2. /\ disk'.snaps = disk.snaps /\ disk'.diffs = disk.diffs /\ disk'.manifest = None
        /\ disk' = [snaps |-> disk'.snaps, diffs |-> disk'.diffs, manifest |-> disk'.manifest]
    BY <1>3, <2>1 DEF RecordsInv
  <2>3. \A u : SnapshotRecord(u)' = SnapshotRecord(u) /\ FullDiff(u)' = FullDiff(u)
    BY <1>1 DEF SnapshotRecord, FullDiff
  <2>4. RecordsInv'
    BY <1>1, <1>3, <2>2, <2>3 DEF RecordsInv
  <2> QED
    BY <1>4, <2>4
<1> QED
  BY <1>5, <1>6, <1>7

LEMMA ExportStep == Inv /\ ExportInv /\ [FeedNext]_feedVars => ExportInv'
<1> SUFFICES ASSUME Inv, ExportInv, [FeedNext]_feedVars
             PROVE  ExportInv'
  OBVIOUS
<1>1. ASSUME UNCHANGED <<history, policy, export, disk>>
      PROVE  ExportInv'
  <2>1. \A u : SnapshotRecord(u)' = SnapshotRecord(u) /\ FullDiff(u)' = FullDiff(u)
    BY <1>1 DEF SnapshotRecord, FullDiff
  <2>2. RecordsInv'
    BY <1>1 DEF ExportInv, RecordsInv, ManifestInv, SnapshotRecord, FullDiff
  <2>3. \A k : Written(k) => Written(k)'
    BY <1>1, <2>1 DEF Written
  <2>4. ProgressInv'
    BY <1>1, <2>1, <2>3 DEF ExportInv, ProgressInv, Keyframes
  <2> QED
    BY <1>1, <2>2, <2>4 DEF ExportInv, WindowInv
<1>2. CASE ViewerHello \/ TickLost \/ UNCHANGED feedVars
  BY <1>1, <1>2 DEF ViewerHello, TickLost, feedVars, live
<1>3. CASE \E onJoin \in BOOLEAN : Subscribe(onJoin)
  BY <1>1, <1>3 DEF Subscribe
<1>4. ASSUME NEW s \in SourceStates, NEW raised \in BOOLEAN, NEW arrived \in BOOLEAN,
             Tick(s, raised, arrived)
      PROVE  ExportInv'
  <2>1. /\ export.step = "idle" /\ UNCHANGED <<policy, export, disk>>
        /\ history' = [u \in DOMAIN history \cup {clock + 1} |->
                         IF u = clock + 1 THEN s ELSE history[u]]
    BY <1>4 DEF Tick
  <2>2. clock + 1 \notin DOMAIN history
    BY DEF Inv, HistoryInv
  <2>3. /\ DOMAIN history \subseteq DOMAIN history'
        /\ \A t \in DOMAIN history : history'[t] = history[t]
    BY <2>1, <2>2
  <2> QED
    BY <2>1, <2>3, HistoryGrows
<1> QED
  BY <1>2, <1>3, <1>4, BeginStep, WriteSnapshotStep, WriteDiffStep, WriteManifestStep,
     WriteFailsStep DEF FeedNext

LEMMA ExportHolds == FeedSpec => [](Inv /\ ExportInv)
<1>1. FeedInit => Inv /\ ExportInv
  BY InitInv, ExportInit
<1>2. (Inv /\ ExportInv) /\ [FeedNext]_feedVars => (Inv /\ ExportInv)'
  BY InvStep, ExportStep
<1> QED
  BY <1>1, <1>2, PTL DEF FeedSpec

-----------------------------------------------------------------------------
(* The verifier *)

(* Tick by tick through a window: induction, stated for sets.                 *)
LEMMA TickByTick ==
  ASSUME NEW a \in Nat, NEW b \in Nat, NEW T, a \in T,
         \A t \in T : t \in a..b /\ t + 1 \in a..b => t + 1 \in T
  PROVE  a..b \subseteq T
<1> DEFINE R == (a..b) \ T
<1> SUFFICES ASSUME R # {} PROVE FALSE
  OBVIOUS
<1>1. R \subseteq Nat
  OBVIOUS
<1>2. PICK x \in R : \A y \in R : ~(<<y, x>> \in OpToRel(<, Nat))
  BY <1>1, WFMin, NatLessThanWellFounded
<1>3. \A y \in R : ~(y < x)
  BY <1>1, <1>2 DEF OpToRel
<1>4. x # a /\ x - 1 \in a..b /\ (x - 1) + 1 \in a..b /\ x - 1 < x
  OBVIOUS
<1>5. x - 1 \in T
  BY <1>3, <1>4
<1>6. (x - 1) + 1 = x
  BY <1>4
<1> QED
  BY <1>4, <1>5, <1>6

\* What the verifier makes of a window, up to tick n.
Reads(m, g, n) ==
  g = [t \in m.start..n |->
         IF t \in m.keys THEN Loaded(disk.snaps[t]) ELSE Stepped(g[t - 1], disk.diffs[t - 1])]

LEMMA ReadsExists ==
  ASSUME NEW m, m.start \in Nat, m.end \in Nat, m.start <= m.end, m.start \in m.keys
  PROVE  \E g : Reads(m, g, m.end)
<1> DEFINE T == {n \in m.start..m.end : \E g : Reads(m, g, n)}
<1>1. m.start \in T
  <2> DEFINE g == [t \in m.start..m.start |-> Loaded(disk.snaps[t])]
  <2>1. g = [t \in m.start..m.start |->
              IF t \in m.keys THEN Loaded(disk.snaps[t])
              ELSE Stepped(g[t - 1], disk.diffs[t - 1])]
    <3>1. \A t \in m.start..m.start : t \in m.keys
      OBVIOUS
    <3> QED
      BY <3>1
  <2>2. Reads(m, g, m.start)
    BY <2>1 DEF Reads
  <2> QED
    BY <2>2
<1>2. ASSUME NEW n \in T, n + 1 \in m.start..m.end
      PROVE  n + 1 \in T
  <2>1. n \in Nat /\ m.start <= n
    OBVIOUS
  <2>2. PICK g : Reads(m, g, n)
    OBVIOUS
  <2> HIDE DEF T
  <2> DEFINE val(t) == IF t \in m.keys THEN Loaded(disk.snaps[t])
                       ELSE Stepped(g[t - 1], disk.diffs[t - 1])
             h == [t \in m.start..(n + 1) |-> val(t)]
  <2>3. \A t \in m.start..n : g[t] = val(t)
    BY <2>2 DEF Reads
  <2>4. \A t \in m.start..(n + 1) : h[t] = val(t)
    OBVIOUS
  <2>5. \A t \in m.start..n : t \in m.start..(n + 1)
    BY <2>1
  <2>6. \A t \in m.start..n : h[t] = g[t]
    <3> HIDE DEF h, val
    <3> QED
      BY <2>3, <2>4, <2>5
  <2>7. \A t \in m.start..(n + 1) : t \notin m.keys => h[t - 1] = g[t - 1]
    <3>1. \A t \in m.start..(n + 1) : t \notin m.keys => t - 1 \in m.start..n
      BY <2>1
    <3> HIDE DEF h
    <3> QED
      BY <2>6, <3>1
  <2>8. \A t \in m.start..(n + 1) :
           h[t] = IF t \in m.keys THEN Loaded(disk.snaps[t])
                  ELSE Stepped(h[t - 1], disk.diffs[t - 1])
    <3> HIDE DEF h
    <3> QED
      BY <2>4, <2>7
  <2>9. h = [t \in m.start..(n + 1) |-> h[t]]
    OBVIOUS
  <2>10. Reads(m, h, n + 1)
    <3> HIDE DEF h
    <3>1. [t \in m.start..(n + 1) |-> h[t]]
          = [t \in m.start..(n + 1) |->
               IF t \in m.keys THEN Loaded(disk.snaps[t])
               ELSE Stepped(h[t - 1], disk.diffs[t - 1])]
      BY <2>8
    <3> QED
      BY <2>9, <3>1 DEF Reads
  <2> HIDE DEF h
  <2> QED
    BY <1>2, <2>10 DEF T
<1>3. m.start..m.end \subseteq T
  <2> HIDE DEF T
  <2> QED
    BY <1>1, <1>2, TickByTick
<1>4. m.end \in m.start..m.end
  OBVIOUS
<1> QED
  BY <1>3, <1>4

LEMMA ReconstructedReads ==
  ASSUME RecordsInv, disk.manifest # None
  PROVE  Reads(disk.manifest, Reconstructed, disk.manifest.end)
<1>1. \E g : Reads(disk.manifest, g, disk.manifest.end)
  BY ReadsExists DEF RecordsInv, ManifestInv
<1> QED
  BY <1>1 DEF Reads, Reconstructed

\* Keyframe k is the last one up to tick t.
Nearest(m, t, k) == k \in m.keys /\ k <= t /\ \A j \in m.keys : j <= t => j <= k

LEMMA NearestIs ==
  ASSUME NEW m, m.start \in Nat, m.end \in Nat, m.start <= m.end,
         m.keys \subseteq m.start..m.end, m.start \in m.keys, NEW t \in m.start..m.end
  PROVE  Nearest(m, t, NearestKeyframe(m, t))
<1> DEFINE T == {n \in m.start..m.end : \E k : Nearest(m, n, k)}
<1>1. m.start \in T
  <2>1. Nearest(m, m.start, m.start)
    BY DEF Nearest
  <2>2. m.start \in m.start..m.end
    OBVIOUS
  <2> QED
    BY <2>1, <2>2
<1>2. ASSUME NEW n \in T, n + 1 \in m.start..m.end
      PROVE  n + 1 \in T
  <2>1. n \in Nat
    OBVIOUS
  <2>2. PICK k : Nearest(m, n, k)
    OBVIOUS
  <2> HIDE DEF T
  <2>3. \A j \in m.keys : j \in Nat
    OBVIOUS
  <2>4. CASE n + 1 \in m.keys
    <3>1. Nearest(m, n + 1, n + 1)
      BY <2>1, <2>3, <2>4 DEF Nearest
    <3> QED
      BY <1>2, <3>1 DEF T
  <2>5. CASE n + 1 \notin m.keys
    <3>1. Nearest(m, n + 1, k)
      BY <2>1, <2>2, <2>3, <2>5 DEF Nearest
    <3> QED
      BY <1>2, <3>1 DEF T
  <2> QED
    BY <2>4, <2>5
<1>3. m.start..m.end \subseteq T
  <2> HIDE DEF T
  <2> QED
    BY <1>1, <1>2, TickByTick
<1>4. \E k \in m.keys : k <= t /\ \A j \in m.keys : j <= t => j <= k
  BY <1>3 DEF Nearest
<1> QED
  BY <1>4 DEF Nearest, NearestKeyframe

\* What the verifier makes of tick t, and why it refuses it.
Verified(m, t) ==
  \/ Reconstructed[t] = history[t]
  \/ /\ Reconstructed[t] = None
     /\ \/ ~Intact(m, t)
        \/ \E u \in NearestKeyframe(m, t)..t :
              history[u].uncarried # history[NearestKeyframe(m, t)].uncarried

\* A keyframe is read from its own record.
LEMMA KeyframeVerified ==
  ASSUME Inv, RecordsInv, disk.manifest # None, NEW t \in disk.manifest.keys
  PROVE  Verified(disk.manifest, t)
<1> DEFINE m == disk.manifest
<1>1. ManifestInv(m)
  BY DEF RecordsInv
<1>2. /\ m.start \in Nat /\ m.end \in Nat /\ m.start <= m.end
      /\ m.keys \subseteq m.start..m.end /\ m.start \in m.keys
      /\ t \in m.start..m.end /\ t \in DOMAIN disk.snaps
  BY <1>1 DEF ManifestInv
<1>3. Reconstructed[t] = Loaded(disk.snaps[t])
  BY <1>2, ReconstructedReads DEF Reads
<1>4. Nearest(m, t, NearestKeyframe(m, t))
  BY <1>2, NearestIs
<1>5. NearestKeyframe(m, t) = t
  <2> DEFINE k == NearestKeyframe(m, t)
  <2>1. k \in Nat /\ t \in Nat /\ k <= t /\ t <= k
    BY <1>2, <1>4 DEF Nearest
  <2>2. k = t
    <3> HIDE DEF k
    <3> QED
      BY <2>1
  <2> QED
    BY <2>2
<1>6. disk.snaps[t] \in {None, SnapshotRecord(t)}
  BY <1>2 DEF RecordsInv
<1>7. CASE disk.snaps[t] = None
  BY <1>3, <1>5, <1>7 DEF Loaded, Verified, Intact
<1>8. CASE disk.snaps[t] # None
  BY <1>3, <1>6, <1>8 DEF Loaded, Verified, SnapshotRecord
<1> QED
  BY <1>7, <1>8

\* The tick after one that verified is read from that one and its diff.
LEMMA NextVerified ==
  ASSUME Inv, RecordsInv, disk.manifest # None, NEW s, Verified(disk.manifest, s),
         s \in disk.manifest.start..disk.manifest.end,
         s + 1 \in disk.manifest.start..disk.manifest.end, s + 1 \notin disk.manifest.keys
  PROVE  Verified(disk.manifest, s + 1)
<1> DEFINE m == disk.manifest
           k == NearestKeyframe(m, s)
<1>1. ManifestInv(m)
  BY DEF RecordsInv
<1>2. /\ m.start \in Nat /\ m.end \in Nat /\ m.start <= m.end /\ s \in Nat
      /\ m.keys \subseteq m.start..m.end /\ m.start \in m.keys
      /\ s \in DOMAIN history /\ s + 1 \in DOMAIN history
  BY <1>1 DEF ManifestInv
<1>3. s \in DOMAIN disk.diffs /\ disk.diffs[s] \in {None, FullDiff(s)}
  <2>1. s \in m.start..(m.end - 1)
    BY <1>2
  <2> QED
    BY <1>1, <2>1 DEF RecordsInv, ManifestInv
<1>4. Reconstructed[s + 1] = Stepped(Reconstructed[s], disk.diffs[s])
  <2>1. (s + 1) - 1 = s
    BY <1>2
  <2> QED
    BY <2>1, ReconstructedReads DEF Reads
<1>5. Nearest(m, s, k)
  BY <1>2, NearestIs
<1>6. k \in Nat /\ k <= s
  BY <1>2, <1>5 DEF Nearest
<1>7. NearestKeyframe(m, s + 1) = k
  <2> DEFINE l == NearestKeyframe(m, s + 1)
  <2>1. Nearest(m, s + 1, l)
    BY <1>2, NearestIs
  <2>2. l \in Nat /\ l <= s + 1 /\ l # s + 1 /\ l \in m.keys /\ k \in m.keys
    BY <1>2, <1>5, <2>1 DEF Nearest
  <2>3. l <= s
    <3> HIDE DEF l
    <3> QED
      BY <1>2, <2>2
  <2>4. l <= k
    BY <1>5, <2>2, <2>3 DEF Nearest
  <2>5. k <= s + 1
    BY <1>2, <1>6
  <2>6. k <= l
    BY <2>1, <2>2, <2>5 DEF Nearest
  <2>7. l = k
    <3> HIDE DEF k, l
    <3> QED
      BY <1>6, <2>2, <2>4, <2>6
  <2> QED
    BY <2>7
<1> HIDE DEF k
<1>8. /\ s \in k..s /\ s \in k..(s + 1) /\ s + 1 \in k..(s + 1) /\ s \in k..((s + 1) - 1)
      /\ \A u \in k..s : u \in k..(s + 1)
      /\ \A u \in k..(s - 1) : u \in k..((s + 1) - 1)
  BY <1>2, <1>6
<1>9. CASE Reconstructed[s] = None
  <2>1. Reconstructed[s + 1] = None
    BY <1>4, <1>9 DEF Stepped
  <2>2. history[s] # None
    BY <1>2, SourceAssumption, NoneAssumption DEF Inv, HistoryInv
  <2>3. CASE ~Intact(m, s)
    <3>1. ~Intact(m, s + 1)
      BY <1>7, <1>8, <2>3 DEF Intact, k
    <3> QED
      BY <2>1, <3>1 DEF Verified
  <2>4. CASE \E u \in k..s : history[u].uncarried # history[k].uncarried
    <3>1. \E u \in k..(s + 1) : history[u].uncarried # history[k].uncarried
      BY <1>8, <2>4
    <3> QED
      BY <1>7, <2>1, <3>1 DEF Verified
  <2> QED
    BY <1>9, <2>2, <2>3, <2>4 DEF Verified, k
<1>10. CASE Reconstructed[s] = history[s] /\ disk.diffs[s] = None
  <2>1. Reconstructed[s + 1] = None
    BY <1>4, <1>10 DEF Stepped
  <2>2. ~Intact(m, s + 1)
    BY <1>7, <1>8, <1>10 DEF Intact
  <2> QED
    BY <2>1, <2>2 DEF Verified
<1>11. CASE Reconstructed[s] = history[s] /\ disk.diffs[s] # None
  <2> DEFINE from == history[s]
             to == history[s + 1]
             next == Patch(from, Diff(from, to))
  <2>1. from \in States /\ to \in States /\ from # None
    BY <1>2, SourceAssumption, NoneAssumption DEF Inv, HistoryInv
  <2>2. disk.diffs[s].prev = from /\ disk.diffs[s].ops = Diff(from, to) /\ disk.diffs[s].hash = to
    BY <1>3, <1>11 DEF FullDiff
  <2>3. next \in States /\ Carried(next) = Carried(to) /\ next.uncarried = from.uncarried
    <3>1. next.uncarried = from.uncarried
      BY DEF Patch
    <3> QED
      BY <2>1, <3>1, DiffIsExact
  <2>4. CASE next = to
    BY <1>4, <1>11, <2>1, <2>2, <2>4 DEF Stepped, Verified
  <2>5. CASE next # to
    <3>1. Reconstructed[s + 1] = None
      BY <1>4, <1>11, <2>1, <2>2, <2>5 DEF Stepped
    <3>2. from.uncarried # to.uncarried
      BY <2>1, <2>3, <2>5 DEF States, Carried
    <3>3. \E u \in k..(s + 1) : history[u].uncarried # history[k].uncarried
      BY <1>8, <3>2
    <3> QED
      BY <1>7, <3>1, <3>3 DEF Verified
  <2> QED
    BY <2>4, <2>5
<1> QED
  BY <1>9, <1>10, <1>11 DEF Verified

LEMMA Verifies == Inv /\ ExportInv => PublishedVerifies
<1> SUFFICES ASSUME Inv, RecordsInv, disk.manifest # None
             PROVE  PublishedVerifies
  BY DEF ExportInv, PublishedVerifies
<1> DEFINE m == disk.manifest
<1>1. ManifestInv(m)
  BY DEF RecordsInv
<1>2. m.start \in Nat /\ m.end \in Nat /\ m.start <= m.end /\ m.start \in m.keys
  BY <1>1 DEF ManifestInv
<1>3. \A t \in m.start..m.end : Verified(m, t)
  <2> DEFINE T == {t \in m.start..m.end : Verified(m, t)}
  <2>1. m.start \in T
    BY <1>2, KeyframeVerified
  <2>2. ASSUME NEW s \in T, s + 1 \in m.start..m.end
        PROVE  s + 1 \in T
    <3>1. Verified(m, s + 1)
      BY <2>2, KeyframeVerified, NextVerified
    <3> QED
      BY <2>2, <3>1
  <2> HIDE DEF T
  <2>3. m.start..m.end \subseteq T
    BY <1>2, <2>1, <2>2, TickByTick
  <2> QED
    BY <2>3 DEF T
<1>4. \A t \in m.keys : disk.snaps[t] \in {None, m.sums.snaps[t]}
  BY <1>1 DEF RecordsInv, ManifestInv
<1>5. \A t \in m.start..(m.end - 1) : disk.diffs[t] \in {None, m.sums.diffs[t]}
  BY <1>1 DEF RecordsInv, ManifestInv
<1> QED
  BY <1>3, <1>4, <1>5 DEF PublishedVerifies, Verified

(* Whatever export was cut short or begun anew over a published window, each  *)
(* of its ticks is reconstructed as recorded or refused for a reason: a       *)
(* truncated record, or a change in a field no op carries                     *)
(* (export_verify.py:82-112).                                                 *)
THEOREM PublishedIsVerified == FeedSpec => []PublishedVerifies
<1>1. Inv /\ ExportInv => PublishedVerifies
  BY Verifies
<1> QED
  BY ExportHolds, <1>1, PTL
=============================================================================

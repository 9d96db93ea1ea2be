------------------------------- MODULE LiveHost -------------------------------
(***************************************************************************)
(* The runtime host's LIVE transport: SessionController.serve_live_session *)
(* (backend/server/session_controller.py), the per-connection sessions of  *)
(* EnqueteurLiveSessionHost and the incoming-message and frame-diff        *)
(* handlers (backend/api/live_ws.py), over the run registry and the tick   *)
(* cursor of each run's SimRunner.                                         *)
(*                                                                         *)
(* The host is one asyncio event loop.  A coroutine keeps control between  *)
(* two awaits, so each action is one such segment, from the await that     *)
(* resumes to the next one: pc[c] names the await connection c stands at.  *)
(* Anything may happen to the other connections, the registry and the      *)
(* clock while c waits.                                                    *)
(*                                                                         *)
(* A run's state is abstracted to its position: the tick of its runner and *)
(* the number of times a command changed it.  A connection id is a fresh   *)
(* uuid4, so an element of Conns is served once.                           *)
(***************************************************************************)
EXTENDS RunRegistry, FiniteSets

CONSTANTS
  NoRun,    \* a connection bound to no run yet
  MaxTime,  \* bound on the model's clock
  MaxTick,  \* bound on the ticks a runner is advanced
  MaxVer    \* bound on the state changes commands make to one run

ASSUME LiveHostAssumption ==
  /\ NoRun \notin Runs
  /\ MaxTime \in Nat /\ MaxTick \in Nat /\ MaxVer \in Nat

VARIABLES
  now,      \* wall clock
  registry, \* RunRegistry._runs with the host metadata
  launched, \* CaseRunRegistry._runs: every run started so far
  down,     \* the lifespan's shutdown ran: new live host, nothing accepted
  pos,      \* position of each run's SimRunner
  pc,       \* the await at which the connection's coroutine stands
  runOf,    \* run a connection is bound to
  sess,     \* EnqueteurLiveSession of the host that accepted the connection
  rec,      \* state of SessionController._sessions[c]
  payload,  \* local snapshot payload while FULL_SNAPSHOT is being sent
  sent,     \* history: position of the last state put on the wire
  acked,    \* history: version right after the last accepted command
  peer      \* the transport has not reported a disconnect yet

hostVars == <<now, launched, down>>
viewVars == <<payload, sent, acked>>
vars == <<now, registry, launched, down, pos, pc, runOf, sess, rec, payload,
          sent, acked, peer>>

Positions == [tick : Nat, ver : Nat]
Nothing == [tick |-> -1, ver |-> -1]  \* no state sent, no baseline cursor

Phases == {"NONE", "CONNECTED", "HANDSHAKING", "SUBSCRIBED", "CLOSED"}
Protocols == {"NONE", "AWAITING_VIEWER_HELLO", "AWAITING_SUBSCRIBE", "SUBSCRIBED", "CLOSED"}
SessionStates == {"NONE", "HANDSHAKING", "HELLO_VERIFIED", "SUBSCRIBED", "LIVE"}

\* onJoin: effective_snapshot_policy is ON_JOIN; cursor: last_tick and last_state.
Sessions == [phase : Phases, protocol : Protocols, onJoin : BOOLEAN,
             cursor : Positions \cup {Nothing}]

NoSession == [phase |-> "NONE", protocol |-> "NONE", onJoin |-> FALSE, cursor |-> Nothing]

Receiving == {"awaitHello", "awaitSubscribe", "live"}
Replying == {"helloSending", "subscribedSending", "snapshotSending", "replySending",
             "ackSending", "diffSending"}
\* failing: a fatal error is being sent, then the session is closed;
\* closing: error and close are being sent, the session is left to the teardown.
Ending == {"failing", "closing"}
Serving == Receiving \cup Replying \cup Ending
\* gone: accept() raised after the session was attached; done: torn down.
PCs == {"idle", "accepting"} \cup Serving \cup {"done", "gone"}

\* self._live_host.get_session(c) is not None.
Tracked(c) == ~down /\ sess[c].phase # "NONE"

Goto(c, label) == pc' = [pc EXCEPT ![c] = label]

---------------------------------------------------------------------------
(* The clock, the launch route and the lifespan's shutdown.                *)

Elapse ==
  /\ now < MaxTime
  /\ now' = now + 1
  /\ UNCHANGED <<registry, launched, down, pos, pc, runOf, sess, rec, viewVars, peer>>

\* launch_case_from_transport: start_case keeps the run for ever in its own
\* registry, then the host registers it.  Run ids are fresh.
Launch(r) ==
  /\ r \notin launched
  /\ launched' = launched \cup {r}
  /\ registry' = Register(registry, r, now)
  /\ UNCHANGED <<now, down, pos, pc, runOf, sess, rec, viewVars, peer>>

\* server_lifespan: begin_shutdown, SessionController.clear, RunRegistry.clear.
\* Coroutines that were inside a handler keep the session host they were given.
Shutdown ==
  /\ ~down
  /\ down' = TRUE
  /\ registry' = EmptyRegistry
  /\ rec' = [c \in Conns |-> "NONE"]
  /\ UNCHANGED <<now, launched, pos, pc, runOf, sess, viewVars, peer>>

---------------------------------------------------------------------------
(* Teardown: the finally block of serve_live_session.                      *)

\* Mutated form: the run is touched and never detached.
ReleasedButAttached(reg, r, t) == Touch(reg, r, t)

Released(reg, r, t) == Detach(Touch(reg, r, t), r, t)

\* _teardown_live_session with the session table s; after a shutdown the
\* controller asks a new host, which does not know the session.
Finish(c, s) ==
  /\ Goto(c, "done")
  /\ sess' = IF down THEN s ELSE [s EXCEPT ![c] = NoSession]
  /\ registry' = Released(registry, runOf[c], now)
  /\ rec' = [rec EXCEPT ![c] = "NONE"]
  /\ UNCHANGED <<hostVars, pos, runOf, viewVars, peer>>

\* The transport drops: receive_text will raise WebSocketDisconnect.
PeerDrop(c) ==
  /\ pc[c] \notin {"idle", "done", "gone"}
  /\ peer[c]
  /\ peer' = [peer EXCEPT ![c] = FALSE]
  /\ UNCHANGED <<hostVars, registry, pos, pc, runOf, sess, rec, viewVars>>

\* receive_text raises WebSocketDisconnect.
Disconnected(c) ==
  /\ pc[c] \in Receiving /\ ~peer[c]
  /\ Finish(c, sess)

\* The task is cancelled, or an await raises out of serve_live_session's body.
Abort(c) ==
  /\ pc[c] \in Serving
  /\ Finish(c, sess)

\* An await outside the handlers' own try blocks raises something that is not a
\* disconnect: internal-error close, then teardown.
InternalError(c) ==
  /\ pc[c] \in Receiving \cup {"replySending", "failing"}
  /\ Goto(c, "closing")
  /\ UNCHANGED <<hostVars, registry, pos, runOf, sess, rec, viewVars, peer>>

\* A handler's send raises: the handler itself reports an internal error.
SendFails(c) ==
  /\ pc[c] \in Replying
  /\ Goto(c, "failing")
  /\ UNCHANGED <<hostVars, registry, pos, runOf, sess, rec, viewVars, peer>>

\* Mutated form: the session is closed but the socket is not.
ErrorSentOnly(c) ==
  /\ pc[c] = "failing"
  /\ sess' = [sess EXCEPT ![c] = [@ EXCEPT !.phase = "CLOSED", !.protocol = "CLOSED"]]
  /\ UNCHANGED <<hostVars, registry, pos, pc, runOf, rec, viewVars, peer>>

\* The fatal error is out: close_connection; websocket.close is awaited next.
ErrorSent(c) ==
  /\ pc[c] = "failing"
  /\ Goto(c, "closing")
  /\ sess' = [sess EXCEPT ![c] = [@ EXCEPT !.phase = "CLOSED", !.protocol = "CLOSED"]]
  /\ UNCHANGED <<hostVars, registry, pos, runOf, rec, viewVars, peer>>

\* websocket.close is done: cleanup_closed_session, return, teardown.
CloseSent(c) ==
  /\ pc[c] = "closing"
  /\ Finish(c, sess)

---------------------------------------------------------------------------
(* Accepting a connection.                                                 *)

\* Shutting down, or no run_id in the target: refused before any lookup.
RefuseConnect(c) ==
  /\ pc[c] = "idle"
  /\ Goto(c, "done")
  /\ UNCHANGED <<hostVars, registry, pos, runOf, sess, rec, viewVars, peer>>

\* attach_connection raises RunLookupError; the lookup evicted stale runs.
RejectConnect(c, r) ==
  /\ pc[c] = "idle" /\ ~down
  /\ ~Evict(registry, now)[r].known
  /\ registry' = Evict(registry, now)
  /\ Goto(c, "done")
  /\ UNCHANGED <<hostVars, pos, runOf, sess, rec, viewVars, peer>>

\* attach_connection, up to the await of websocket.accept().
Connect(c, r) ==
  /\ pc[c] = "idle" /\ ~down
  /\ Evict(registry, now)[r].known
  /\ registry' = Evict(registry, now)
  /\ Goto(c, "accepting")
  /\ runOf' = [runOf EXCEPT ![c] = r]
  /\ sess' = [sess EXCEPT ![c] = [@ EXCEPT !.phase = "CONNECTED",
                                          !.protocol = "AWAITING_VIEWER_HELLO"]]
  /\ UNCHANGED <<hostVars, pos, rec, viewVars, peer>>

\* accept() returned: mark_handshaking, open_session, _attach_run_session.
Accepted(c) ==
  /\ pc[c] = "accepting"
  /\ Goto(c, "awaitHello")
  /\ sess' = [sess EXCEPT ![c] = [@ EXCEPT !.phase = "HANDSHAKING"]]
  /\ rec' = [rec EXCEPT ![c] = "HANDSHAKING"]
  /\ registry' = Attach(registry, runOf[c], c, now)
  /\ UNCHANGED <<hostVars, pos, runOf, viewVars, peer>>

\* accept() raised: serve_live_session has not entered its try block, so the
\* session attach_connection stored stays with the host.
AcceptFails(c) ==
  /\ pc[c] = "accepting"
  /\ Goto(c, "gone")
  /\ UNCHANGED <<hostVars, registry, pos, runOf, sess, rec, viewVars, peer>>

---------------------------------------------------------------------------
(* The handshake.                                                          *)

\* The message is not the one the stage expects: _close_with_error.
OutOfSequence(c) ==
  /\ pc[c] \in {"awaitHello", "awaitSubscribe"} /\ peer[c]
  /\ Goto(c, "closing")
  /\ UNCHANGED <<hostVars, registry, pos, runOf, sess, rec, viewVars, peer>>

\* A message the handler refuses with a fatal ProtocolViolationError: malformed
\* envelope, bad payload, hello or subscribe repeated.
Violation(c) ==
  /\ pc[c] \in Receiving /\ peer[c] /\ Tracked(c)
  /\ Goto(c, "failing")
  /\ UNCHANGED <<hostVars, registry, pos, runOf, sess, rec, viewVars, peer>>

\* Any message once the host that knew the session was replaced: RUN_NOT_FOUND,
\* and there is no session to close.
Forgotten(c) ==
  /\ pc[c] \in Receiving /\ peer[c] /\ ~Tracked(c)
  /\ Goto(c, "closing")
  /\ UNCHANGED <<hostVars, registry, pos, runOf, sess, rec, viewVars, peer>>

\* record_viewer_hello; KERNEL_HELLO is being sent.
ViewerHello(c) ==
  /\ pc[c] = "awaitHello" /\ peer[c] /\ Tracked(c)
  /\ sess[c].protocol = "AWAITING_VIEWER_HELLO"
  /\ Goto(c, "helloSending")
  /\ sess' = [sess EXCEPT ![c] = [@ EXCEPT !.protocol = "AWAITING_SUBSCRIBE"]]
  /\ UNCHANGED <<hostVars, registry, pos, runOf, rec, viewVars, peer>>

\* KERNEL_HELLO is out: mark_hello_verified, wait for SUBSCRIBE.
HelloSent(c) ==
  /\ pc[c] = "helloSending"
  /\ IF Tracked(c)
     THEN /\ Goto(c, "awaitSubscribe")
          /\ rec' = [rec EXCEPT ![c] = "HELLO_VERIFIED"]
          /\ UNCHANGED <<hostVars, registry, pos, runOf, sess, viewVars, peer>>
     ELSE Finish(c, sess)

\* record_subscribe; SUBSCRIBED is being sent.
Subscribe(c, onJoin) ==
  /\ pc[c] = "awaitSubscribe" /\ peer[c] /\ Tracked(c)
  /\ sess[c].protocol = "AWAITING_SUBSCRIBE"
  /\ Goto(c, "subscribedSending")
  /\ sess' = [sess EXCEPT ![c] = [@ EXCEPT !.phase = "SUBSCRIBED", !.protocol = "SUBSCRIBED",
                                          !.onJoin = onJoin]]
  /\ UNCHANGED <<hostVars, registry, pos, runOf, rec, viewVars, peer>>

\* SUBSCRIBED is out and a snapshot was asked for: build_full_snapshot_payload
\* reads the runner, and FULL_SNAPSHOT is being sent.
SendSnapshot(c) ==
  LET r == runOf[c]
      swept == Evict(registry, now)
  IN /\ pc[c] = "subscribedSending" /\ sess[c].onJoin
     /\ registry' = swept
     /\ IF swept[r].known
        THEN /\ Goto(c, "snapshotSending")
             /\ payload' = [payload EXCEPT ![c] = pos[r]]
             /\ sent' = [sent EXCEPT ![c] = pos[r]]
        ELSE /\ Goto(c, "failing")
             /\ UNCHANGED <<payload, sent>>
     /\ UNCHANGED <<hostVars, pos, runOf, sess, rec, acked, peer>>

\* Mutated form: the controller goes live without asking for the baseline.
LiveWithoutBaseline(c) ==
  /\ pc[c] = "subscribedSending" /\ ~sess[c].onJoin
  /\ IF Tracked(c)
     THEN /\ Goto(c, "live")
          /\ rec' = [rec EXCEPT ![c] = "LIVE"]
          /\ UNCHANGED <<hostVars, registry, pos, runOf, sess, viewVars, peer>>
     ELSE Finish(c, sess)

\* SUBSCRIBED is out and no snapshot was asked for: the controller demands a
\* baseline and closes with BASELINE_REQUIRED.
BaselineRequired(c) ==
  /\ pc[c] = "subscribedSending" /\ ~sess[c].onJoin
  /\ IF Tracked(c)
     THEN /\ Goto(c, "closing")
          /\ rec' = [rec EXCEPT ![c] = "SUBSCRIBED"]
          /\ UNCHANGED <<hostVars, registry, pos, runOf, sess, viewVars, peer>>
     ELSE Finish(c, sess)

\* Mutated form: the cursor is read from the runner when the send is over.
BaselineAtRunner(s, c) == [s EXCEPT ![c] = [@ EXCEPT !.cursor = pos[runOf[c]]]]

\* mark_baseline_sent with the tick and state of the snapshot that was sent.
WithBaseline(s, c) == [s EXCEPT ![c] = [@ EXCEPT !.cursor = payload[c]]]

\* FULL_SNAPSHOT is out: mark_baseline_sent, then the controller goes live.
SnapshotSent(c) ==
  /\ pc[c] = "snapshotSending"
  /\ IF Tracked(c)
     THEN /\ Goto(c, "live")
          /\ sess' = WithBaseline(sess, c)
          /\ rec' = [rec EXCEPT ![c] = "LIVE"]
          /\ registry' = Touch(registry, runOf[c], now)
          /\ UNCHANGED <<hostVars, pos, runOf, viewVars, peer>>
     ELSE Finish(c, WithBaseline(sess, c))

---------------------------------------------------------------------------
(* The live stage.                                                         *)

\* Answered without touching the run: PING, an unsupported message type, an
\* INPUT_COMMAND whose payload does not parse.
Chatter(c) ==
  /\ pc[c] = "live" /\ peer[c] /\ Tracked(c)
  /\ Goto(c, "replySending")
  /\ UNCHANGED <<hostVars, registry, pos, runOf, sess, rec, viewVars, peer>>

\* _validate_tick_target_for_immediate_live_apply.
OnTime(target, tick) == target \in {tick, tick + 1}

\* INPUT_COMMAND for a run the registry no longer holds: fatal RUN_NOT_FOUND.
CommandWithoutRun(c) ==
  /\ pc[c] = "live" /\ peer[c] /\ Tracked(c)
  /\ ~Evict(registry, now)[runOf[c]].known
  /\ registry' = Evict(registry, now)
  /\ Goto(c, "failing")
  /\ UNCHANGED <<hostVars, pos, runOf, sess, rec, viewVars, peer>>

\* The tick target is behind the runner or too far ahead: COMMAND_REJECTED.
CommandOffTime(c, target) ==
  /\ pc[c] = "live" /\ peer[c] /\ Tracked(c)
  /\ Evict(registry, now)[runOf[c]].known
  /\ ~OnTime(target, pos[runOf[c]].tick)
  /\ registry' = Evict(registry, now)
  /\ Goto(c, "replySending")
  /\ UNCHANGED <<hostVars, pos, runOf, sess, rec, viewVars, peer>>

\* Diffs owed on run r: each will advance its runner once.
Owed(r) == {d \in Conns : runOf[d] = r /\ pc[d] = "ackSending"}

\* The command reaches its handler, which accepts or rejects it and may change
\* the run's state either way; the answer is being sent.  The bound on ticks
\* and versions stops commands, never a diff that is owed.
Command(c, target, accepted, changes) ==
  LET r == runOf[c]
      ver == pos[r].ver + IF changes THEN 1 ELSE 0
  IN /\ pc[c] = "live" /\ peer[c] /\ Tracked(c)
     /\ Evict(registry, now)[r].known
     /\ OnTime(target, pos[r].tick)
     /\ ver <= MaxVer
     /\ accepted => pos[r].tick + Cardinality(Owed(r)) < MaxTick
     /\ registry' = Evict(registry, now)
     /\ pos' = [pos EXCEPT ![r] = [@ EXCEPT !.ver = ver]]
     /\ acked' = [acked EXCEPT ![c] = IF accepted THEN ver ELSE @]
     /\ Goto(c, IF accepted THEN "ackSending" ELSE "replySending")
     /\ UNCHANGED <<hostVars, runOf, sess, rec, payload, sent, peer>>

\* A reply that owes no diff is out: back to receive_text.
ReplySent(c) ==
  /\ pc[c] = "replySending"
  /\ IF Tracked(c)
     THEN /\ Goto(c, "live")
          /\ registry' = Touch(registry, runOf[c], now)
          /\ UNCHANGED <<hostVars, pos, runOf, sess, rec, viewVars, peer>>
     ELSE Finish(c, sess)

\* Mutated form: the runner is advanced by two ticks.
AdvancedTwice(p) == [p EXCEPT !.tick = @ + 2]

\* runner.run(num_ticks=1).
Advanced(p) == [p EXCEPT !.tick = @ + 1]

\* Mutated form: any later tick is taken for the next one.
FollowsLoosely(cursor, tick) == tick > cursor.tick

\* The check on to_tick in advance_runner_and_build_frame_diff_payload.
Follows(cursor, tick) == tick = cursor.tick + 1

\* Mutated form: the state of the diff is the one the session already held.
DiffOfOldState(cursor, p) == [tick |-> p.tick, ver |-> cursor.ver]

\* Position of the state a diff brings the viewer to.
DiffTarget(cursor, p) == p

\* COMMAND_ACCEPTED is out: the controller streams one frame.  The runner
\* advances before its tick is compared with the session's cursor.
AckSent(c) ==
  LET r == runOf[c]
      swept == Evict(registry, now)
      next == Advanced(pos[r])
      target == DiffTarget(sess[c].cursor, next)
  IN /\ pc[c] = "ackSending"
     /\ IF ~Tracked(c)
        THEN Finish(c, sess)
        ELSE /\ registry' = swept
             /\ pos' = IF swept[r].known THEN [pos EXCEPT ![r] = next] ELSE pos
             /\ IF swept[r].known /\ Follows(sess[c].cursor, next.tick)
                THEN /\ Goto(c, "diffSending")
                     /\ sess' = [sess EXCEPT ![c] = [@ EXCEPT !.cursor = target]]
                     /\ sent' = [sent EXCEPT ![c] = target]
                ELSE /\ Goto(c, "failing")
                     /\ UNCHANGED <<sess, sent>>
             /\ UNCHANGED <<hostVars, runOf, rec, payload, acked, peer>>

\* FRAME_DIFF is out: the controller touches the run and receives again.
DiffSent(c) ==
  /\ pc[c] = "diffSending"
  /\ IF Tracked(c)
     THEN /\ Goto(c, "live")
          /\ registry' = Touch(registry, runOf[c], now)
          /\ UNCHANGED <<hostVars, pos, runOf, sess, rec, viewVars, peer>>
     ELSE Finish(c, sess)

---------------------------------------------------------------------------
Init ==
  /\ now = 0
  /\ registry = EmptyRegistry
  /\ launched = {}
  /\ down = FALSE
  /\ pos = [r \in Runs |-> [tick |-> 0, ver |-> 0]]
  /\ pc = [c \in Conns |-> "idle"]
  /\ runOf = [c \in Conns |-> NoRun]
  /\ sess = [c \in Conns |-> NoSession]
  /\ rec = [c \in Conns |-> "NONE"]
  /\ payload = [c \in Conns |-> Nothing]
  /\ sent = [c \in Conns |-> Nothing]
  /\ acked = [c \in Conns |-> 0]
  /\ peer = [c \in Conns |-> TRUE]

\* Resumptions of an await on the transport's send side.
SendDone(c) ==
  \/ Accepted(c) \/ HelloSent(c) \/ SendSnapshot(c) \/ BaselineRequired(c)
  \/ SnapshotSent(c) \/ ReplySent(c) \/ AckSent(c) \/ DiffSent(c)
  \/ ErrorSent(c) \/ CloseSent(c)

\* A message arrives from the viewer.
Receive(c) ==
  \/ OutOfSequence(c) \/ Violation(c) \/ Forgotten(c) \/ ViewerHello(c)
  \/ \E onJoin \in BOOLEAN : Subscribe(c, onJoin)
  \/ Chatter(c) \/ CommandWithoutRun(c)
  \/ \E target \in 0..(MaxTick + 2) :
       \/ CommandOffTime(c, target)
       \/ \E accepted, changes \in BOOLEAN : Command(c, target, accepted, changes)

\* The transport or the task fails.
Fault(c) ==
  PeerDrop(c) \/ Abort(c) \/ InternalError(c) \/ SendFails(c) \/ AcceptFails(c)

Serve(c) ==
  \/ RefuseConnect(c) \/ (\E r \in Runs : RejectConnect(c, r) \/ Connect(c, r))
  \/ SendDone(c) \/ Receive(c) \/ Disconnected(c) \/ Fault(c)

Next == Elapse \/ Shutdown \/ (\E r \in Runs : Launch(r)) \/ (\E c \in Conns : Serve(c))

Spec == Init /\ [][Next]_vars

\* The event loop resumes a coroutine whose send completed or whose transport
\* reported the disconnect; viewers owe the host no message.
Fairness == \A c \in Conns : WF_vars(SendDone(c)) /\ WF_vars(Disconnected(c))

FairSpec == Spec /\ Fairness

---------------------------------------------------------------------------
(* Properties.                                                             *)

\* Every variable has its type.
TypeOK ==
  /\ now \in Nat
  /\ registry \in [Runs -> Entries]
  /\ launched \subseteq Runs
  /\ down \in BOOLEAN
  /\ pos \in [Runs -> Positions]
  /\ pc \in [Conns -> PCs]
  /\ runOf \in [Conns -> Runs \cup {NoRun}]
  /\ sess \in [Conns -> Sessions]
  /\ rec \in [Conns -> SessionStates]
  /\ payload \in [Conns -> Positions \cup {Nothing}]
  /\ sent \in [Conns -> Positions \cup {Nothing}]
  /\ acked \in [Conns -> Nat]
  /\ peer \in [Conns -> BOOLEAN]

\* Connections past their baseline that are still being served.
Streaming == {"live", "replySending", "ackSending", "diffSending"}

\* The state a session diffs against is exactly the one its viewer was last
\* sent, although the runner may move while a snapshot or a diff is on its way.
DiffBaseIsViewersState ==
  \A c \in Conns : pc[c] \in Streaming => sess[c].cursor = sent[c]

\* What a step may do to a viewer that has its baseline.
NextTickOnly ==
  \A c \in Conns : sent[c] # Nothing /\ sent'[c] # sent[c] =>
    /\ sent'[c].tick = sent[c].tick + 1
    /\ sent'[c].ver >= sent[c].ver

\* After its baseline a viewer is only ever sent the next tick, and never an
\* older version of the run.
DiffsContiguous == [][NextTickOnly]_vars

\* A connection that was torn down leaves no session, no record and no run
\* attached to it, whatever cut it and whoever else was on its run.
NoResidue ==
  \A c \in Conns : pc[c] = "done" =>
    /\ rec[c] = "NONE"
    /\ down \/ sess[c].phase = "NONE"
    /\ \A r \in Runs : registry[r].active # c

\* The controller's record and the session of the host say the same: a record
\* is LIVE only over a subscribed session with a baseline, until it is closed.
LiveRecordHasBaseline ==
  \A c \in Conns : rec[c] = "LIVE" /\ pc[c] \notin Ending =>
    /\ sess[c].protocol = "SUBSCRIBED" /\ sess[c].phase = "SUBSCRIBED"
    /\ sess[c].cursor # Nothing

\* No other connection was ever bound to c's run.
Sole(c) == \A d \in Conns \ {c} : runOf[d] # runOf[c]

SoleViewerKeepsRun ==
  \A c \in Conns : pc[c] \in Streaming /\ Sole(c) /\ ~down =>
    registry[runOf[c]].known /\ registry[runOf[c]].active = c

SoleViewerInStep ==
  \A c \in Conns : sess[c].cursor # Nothing /\ Sole(c) =>
    sess[c].cursor.tick = pos[runOf[c]].tick

\* A viewer alone on its run is served whatever failed before: the run is never
\* evicted while it streams, however long it stays silent, and its cursor is at
\* the runner's tick, so that its next diff passes the tick check.
SoleViewerIsServed == SoleViewerKeepsRun /\ SoleViewerInStep

\* When the host listens to a viewer again, the state it sent that viewer
\* includes the effect of every command it accepted from it.
AckedCommandsReachViewer ==
  \A c \in Conns : pc[c] = "live" => sent[c].ver >= acked[c]

\* A connection whose transport dropped is torn down in the end.
DroppedIsReleased ==
  \A c \in Conns : pc[c] \in Serving /\ ~peer[c] ~> pc[c] = "done"

\* An accepted command is followed by its diff or by the end of the connection.
AcceptedCommandSettles ==
  \A c \in Conns : pc[c] = "ackSending" ~> pc[c] \in {"live", "done"}

\* Claimed by the registry's tests (a run with a live session is not evicted,
\* however old): violated when two connections overlap on a run, because the
\* teardown of the first detaches the run under the second.
LiveRunNotEvicted ==
  \A c \in Conns : pc[c] = "live" /\ ~down => registry[runOf[c]].known

\* Claimed by the host's specification (cleanup on disconnect releases what the
\* controller owns): violated when the transport drops during accept().
EndedSessionReleased ==
  \A c \in Conns : pc[c] \in {"done", "gone"} => ~Tracked(c)

---------------------------------------------------------------------------
(* The stream a viewer sees, as an implementation of LiveStream.           *)

StageAt(p) ==
  CASE p \in {"idle", "accepting", "awaitHello"} -> "silent"
    [] p \in {"helloSending", "awaitSubscribe"} -> "greeted"
    [] p = "subscribedSending" -> "subscribed"
    [] p \in Streaming \cup {"snapshotSending"} -> "streaming"
    [] OTHER -> "over"

Stream == INSTANCE LiveStream
  WITH truth <- pos, watch <- runOf, view <- sent, stage <- [c \in Conns |-> StageAt(pc[c])]

\* Every behaviour of the host is, for its viewers, one of LiveStream.
ImplementsStream == Stream!StreamSpec
=============================================================================

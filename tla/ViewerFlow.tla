------------------------------ MODULE ViewerFlow ------------------------------
(***************************************************************************)
(* The viewer's application flow (frontend/enqueteur-webview): mountAppFlow *)
(* of app/appFlow.ts with the screens, the launch requests, the live client *)
(* of app/live/enqueteurLiveClient.ts, the mounted shell and its WorldStore,*)
(* against a kernel that keeps the promise of LiveStream to each socket.    *)
(*                                                                         *)
(* JavaScript runs one event handler at a time, and stateStore.transition   *)
(* renders at once, so an action is a whole handler with every render and   *)
(* stopLiveConnection it causes.  What may interleave: clicks, answers of   *)
(* launch requests, socket events, timers and finished shell mounts.        *)
(*                                                                         *)
(* A run is named by the launch request it answers, a connection by its     *)
(* socket.  The code compares a captured revision with the current one and  *)
(* nothing else, so a launch, a connection or a mount in flight is either   *)
(* the current one or stale for good: `attempt` is the launch whose revision *)
(* is current, link.client the connection whose revision is current, and    *)
(* boots says how many mounts of each kind are in flight.                   *)
(***************************************************************************)
EXTENDS LiveStream, Sequences

LOCAL INSTANCE FiniteSetsExt

CONSTANTS
  NoConn,      \* liveClient is null
  Cmds,        \* client_cmd_ids, fresh for each command
  BoundClient, \* createLiveClient returns a client whose methods need no `this`
  MaxStale,    \* bound on the outdated mounts up to which the locale changes
  MaxTick      \* bound on the ticks a run is advanced without a command

ASSUME ViewerFlowAssumption ==
  /\ NoRun \notin Runs /\ NoConn \notin Conns
  /\ BoundClient \in BOOLEAN /\ MaxStale \in Nat /\ MaxTick \in Nat

VARIABLES
  app,       \* AppStateStore.state
  attempt,   \* launch whose attemptRevision is launchRevision
  asked,     \* launch requests in flight
  begun,     \* launches asked so far
  session,   \* LaunchSessionStore.latestSession
  failure,   \* LaunchSessionStore.latestFailure is not null
  link,      \* the live-connection variables of mountAppFlow's closure
  sock,      \* readyState of each connection's WebSocket
  up, down,  \* messages and events under way to the kernel, to the viewer
  viewer,    \* ViewerHandle: none, up, or stopped by destroy
  shells,    \* history: shells booted and not stopped
  boots,     \* mounts in flight
  store,     \* WorldStore of the mounted shell
  outcome,   \* what the caller of sendInputCommand was told
  destroyed,
  wanted,    \* history: run of the launch the user is waiting for or playing
  owes,      \* kernel: an accepted command's frame is due
  verdict    \* history: what the kernel decided about a command

flowVars == <<attempt, asked, begun, session, failure>>
viewVars == <<viewer, shells, boots, store>>
kernelVars == <<truth, watch, stage, view, owes, verdict>>
vars == <<app, flowVars, link, sock, up, down, viewVars, outcome, destroyed, wanted,
          kernelVars>>

\* A state of the world: the run it belongs to and its position.  The kernel's
\* step hash tells two positions apart.
NoState == [run |-> NoRun, tick |-> -1, ver |-> -1]
StateOf(r, p) == [run |-> r, tick |-> p.tick, ver |-> p.ver]

\* checked: didValidateKernelHello and didValidateSubscribed.
NoLink == [client |-> NoConn, run |-> NoRun, checked |-> "nothing", bridge |-> NoConn,
           baseline |-> NoState, pending |-> <<>>, ingested |-> FALSE, acks |-> {}]

Connecting(phase) == [kind |-> "CONNECTING", phase |-> phase]

\* The ERROR screen; of the reason, only whether it blames the kernel's order of
\* messages or the launch data.
Blaming == {"BAD_SEQUENCE", "UNEXPECTED_STATE", "KERNEL_HELLO_RUN_MISMATCH"}
Error(code, reason) == [kind |-> "ERROR", code |-> code, blames |-> reason \in Blaming]

EmptyStore == [anchor |-> NoRun, state |-> NoState, desynced |-> FALSE]

Fresh(c) == sock[c] = "none"

---------------------------------------------------------------------------
(* The shell's WorldStore, as boot's ingest functions drive it.            *)

IngestHello(s, r) == [s EXCEPT !.anchor = r, !.desynced = FALSE]

\* Mutated form: of the baseline only its position is kept.
SnapshotWithoutRun(s, state) ==
  [s EXCEPT !.state = [tick |-> state.tick, ver |-> state.ver], !.desynced = FALSE]

IngestSnapshot(s, state) == [s EXCEPT !.state = state, !.desynced = FALSE]

\* prev_step_hash against stepHash, from_tick against a tick other than zero.
Chained(s, diff) ==
  /\ s.state = NoState \/ s.state = diff.from
  /\ s.state.tick \in {-1, 0} \/ s.state.tick = diff.from.tick

\* WorldStore.applyDiff: a store out of step stays so until the next baseline.
IngestDiff(s, diff) ==
  IF s.desynced THEN s
  ELSE IF Chained(s, diff) THEN [s EXCEPT !.state = diff.to]
  ELSE [s EXCEPT !.desynced = TRUE]

\* applyDiff on one diff after the other, up to the first that is out of step.
IngestDiffs(s, diffs) ==
  LET before(i) == IF i = 1 THEN s.state ELSE diffs[i - 1].to
      misfits == {i \in DOMAIN diffs : ~Chained([s EXCEPT !.state = before(i)], diffs[i])}
      end == IF misfits = {} THEN Len(diffs) + 1 ELSE Min(misfits)
  IN IF s.desynced THEN s
     ELSE [s EXCEPT !.state = before(end), !.desynced = misfits # {}]

\* syncLiveStateToViewer on the store: hello, baseline unless it was ingested,
\* then the diffs that were kept.
SyncedStore(l, s) ==
  LET greeted == IF l.checked = "nothing" THEN s ELSE IngestHello(s, l.run)
      based == IF l.ingested THEN greeted ELSE IngestSnapshot(greeted, l.baseline)
  IN IF l.baseline = NoState THEN greeted ELSE IngestDiffs(based, l.pending)

\* Mutated form: the diffs that were kept are handed over and kept.
SyncedKeepingPending(l) ==
  IF l.baseline = NoState THEN l ELSE [l EXCEPT !.ingested = TRUE]

\* syncLiveStateToViewer on the closure's variables.
SyncedLink(l) ==
  IF l.baseline = NoState THEN l ELSE [l EXCEPT !.ingested = TRUE, !.pending = <<>>]

\* setLiveCommandBridge, liveBaselineSnapshot and so on, then the sync to a
\* mounted shell.
SetLink(l) ==
  IF viewer = "up"
  THEN link' = SyncedLink(l) /\ store' = SyncedStore(l, store)
  ELSE link' = l /\ UNCHANGED store

---------------------------------------------------------------------------
(* Helpers of mountAppFlow.                                                *)

\* Mutated form: the old client is dropped without disconnect.
SocketsLeftOpen(next) == [c \in Conns |-> IF c = next THEN "connecting" ELSE sock[c]]

\* The sockets after clientToDisconnect.disconnect() and the connect() of next.
SocketsAfter(next) ==
  [c \in Conns |-> IF c = link.client THEN "closed"
                   ELSE IF c = next THEN "connecting" ELSE sock[c]]

\* Mutated form: the pending commands are forgotten.
Unsettled == outcome

\* clearPendingCommandAcks.
Settled == [c \in Cmds |-> IF c \in link.acks /\ outcome[c] = "none" THEN "lost" ELSE outcome[c]]

\* stopLiveConnection, and beginLiveConnection's new client when l has one: the
\* handlers of the old client are unsubscribed, pending commands are settled.
Relink(l) ==
  /\ link' = l
  /\ sock' = SocketsAfter(l.client)
  /\ down' = [c \in Conns |-> IF c = link.client THEN <<>> ELSE down[c]]
  /\ outcome' = Settled

Outdated == [fresh |-> FALSE, stale |-> boots.stale + IF boots.fresh THEN 1 ELSE 0]

\* transition to a screen other than CONNECTING and LIVE_GAME: render cancels
\* the pending launch, stops the connection and outdates the mounts.
Show(screen) ==
  /\ app' = screen
  /\ attempt' = NoRun
  /\ Relink(NoLink)
  /\ boots' = Outdated

\* transition to CONNECTING.
ShowConnecting(phase) ==
  /\ app' = Connecting(phase)
  /\ boots' = Outdated

\* transitionConnectingPhase.
EnterPhase(phase) ==
  IF app.kind = "CONNECTING" /\ app.phase # phase
  THEN ShowConnecting(phase)
  ELSE UNCHANGED <<app, boots>>

\* mountLiveGameShell up to its await: a mounted shell is reused, else one is
\* booted.
MountLiveGameShell ==
  boots' = IF viewer = "up" THEN Outdated ELSE [Outdated EXCEPT !.fresh = TRUE]

---------------------------------------------------------------------------
(* The screens' buttons.                                                   *)

Offers(screen) ==
  CASE app.kind = "MAIN_MENU" -> screen = "CASE_SELECT"
    [] app.kind = "CASE_SELECT" -> screen = "MAIN_MENU"
    [] app.kind \in {"CONNECTING", "LIVE_GAME"} -> TRUE
    [] app.kind = "ERROR" -> screen = IF app.code = "STARTUP_INCOMPATIBILITY"
                                      THEN "MAIN_MENU" ELSE "CASE_SELECT"
    [] OTHER -> FALSE

\* goToMainMenu and goToCaseSelect.
GoTo(screen) ==
  /\ ~destroyed /\ Offers(screen)
  /\ Show([kind |-> screen])
  /\ session' = NoRun
  /\ wanted' = NoRun
  /\ UNCHANGED <<asked, begun, failure, up, viewer, shells, store, destroyed, kernelVars>>

\* beginCaseLaunch, from the case card or from a launch failure's retry.
BeginCaseLaunch(r) ==
  /\ ~destroyed
  /\ \/ app.kind = "CASE_SELECT"
     \/ app.kind = "ERROR" /\ app.code = "LAUNCH_FAILURE" /\ failure
  /\ r \notin begun /\ \E c \in Conns : Fresh(c)
  /\ ShowConnecting("CASE_LAUNCH")
  /\ Relink(NoLink)
  /\ attempt' = r
  /\ asked' = asked \cup {r}
  /\ begun' = begun \cup {r}
  /\ session' = NoRun
  /\ wanted' = r
  /\ UNCHANGED <<failure, up, viewer, shells, store, destroyed, kernelVars>>

\* retryLiveConnectionFromSession; connect() creates the WebSocket.
RetryLiveConnection(c) ==
  /\ ~destroyed
  /\ app.kind = "ERROR" /\ app.code = "CONNECTION_FAILURE" /\ session # NoRun
  /\ Fresh(c)
  /\ ShowConnecting("SESSION_STARTUP")
  /\ Relink([NoLink EXCEPT !.client = c, !.run = session])
  /\ attempt' = NoRun
  /\ UNCHANGED <<asked, begun, session, failure, up, viewer, shells, store, destroyed,
                 wanted, kernelVars>>

\* The same, but creating the client or the WebSocket throws.
RetryCannotConnect(code) ==
  /\ ~destroyed
  /\ app.kind = "ERROR" /\ app.code = "CONNECTION_FAILURE" /\ session # NoRun
  /\ Show(Error(code, "CONNECT_THROW"))
  /\ UNCHANGED <<asked, begun, session, failure, up, viewer, shells, store, destroyed,
                 wanted, kernelVars>>

---------------------------------------------------------------------------
(* The answer of a launch request.                                         *)

\* destroyed || attemptRevision !== launchRevision.
IsCurrentLaunch(r) == ~destroyed /\ attempt = r

\* startCase returned metadata: markSuccess, then beginLiveConnection.
LaunchSucceeds(r, c) ==
  /\ r \in asked /\ IsCurrentLaunch(r) /\ Fresh(c)
  /\ asked' = asked \ {r}
  /\ session' = r
  /\ failure' = FALSE
  /\ IF app.kind = "CONNECTING"
     THEN /\ ShowConnecting("SESSION_STARTUP")
          /\ Relink([NoLink EXCEPT !.client = c, !.run = r])
     ELSE UNCHANGED <<app, boots, link, sock, down, outcome>>
  /\ UNCHANGED <<attempt, begun, up, viewer, shells, store, destroyed, wanted, kernelVars>>

\* The same, but creating the client or the WebSocket throws.
LaunchCannotConnect(r, code) ==
  /\ r \in asked /\ IsCurrentLaunch(r) /\ app.kind = "CONNECTING"
  /\ asked' = asked \ {r}
  /\ session' = r
  /\ failure' = FALSE
  /\ Show(Error(code, "CONNECT_THROW"))
  /\ UNCHANGED <<begun, up, viewer, shells, store, destroyed, wanted, kernelVars>>

\* startCase threw: markFailure, ERROR.
LaunchFails(r, code) ==
  /\ r \in asked /\ IsCurrentLaunch(r)
  /\ asked' = asked \ {r}
  /\ session' = NoRun
  /\ failure' = TRUE
  /\ Show(Error(code, "CASE_LAUNCH_FAILED"))
  /\ UNCHANGED <<begun, up, viewer, shells, store, destroyed, wanted, kernelVars>>

\* An answer, an error or the abort of a launch that is not the current one.
LaunchOutdated(r) ==
  /\ r \in asked /\ ~IsCurrentLaunch(r)
  /\ asked' = asked \ {r}
  /\ UNCHANGED <<app, attempt, begun, session, failure, link, sock, up, down, viewVars,
                 outcome, destroyed, wanted, kernelVars>>

---------------------------------------------------------------------------
(* Socket events.  Their handlers are subscribed while client is liveClient. *)

\* Mutated form: autoSendViewerHello is off.
SilentOpening(c) == up[c]

\* What the viewer has sent once onopen's handlers are done: VIEWER_HELLO.
OpeningWords(c) == Append(up[c], [type |-> "VIEWER_HELLO"])

\* onopen; the kernel binds the connection to the run of its URL.
OnOpen(c) ==
  /\ link.client = c /\ sock[c] = "connecting"
  /\ Watch(c, link.run)
  /\ sock' = [sock EXCEPT ![c] = "open"]
  /\ up' = [up EXCEPT ![c] = OpeningWords(c)]
  /\ EnterPhase("HANDSHAKING")
  /\ UNCHANGED <<flowVars, link, down, viewer, shells, store, outcome, destroyed, wanted,
                 owes, verdict>>

\* The network fails: messages under way to the viewer are lost.
Drop(c) ==
  /\ sock[c] \in {"connecting", "open", "closing"}
  /\ sock' = [sock EXCEPT ![c] = "closed"]
  /\ down' = [down EXCEPT ![c] = <<[type |-> "TRANSPORT_ERROR"]>>]
  /\ UNCHANGED <<app, flowVars, link, up, viewVars, outcome, destroyed, wanted, kernelVars>>

\* The kernel's close reached the browser, whose close event is still queued.
Closing(c) ==
  /\ sock[c] = "open" /\ stage[c] = "over"
  /\ sock' = [sock EXCEPT ![c] = "closing"]
  /\ UNCHANGED <<app, flowVars, link, up, down, viewVars, outcome, destroyed, wanted,
                 kernelVars>>

Arrives(c, type) ==
  /\ link.client = c
  /\ down[c] # <<>> /\ Head(down[c]).type = type

Taken(c) == down' = [down EXCEPT ![c] = Tail(@)]

\* classifyLiveConnectionFailure for the reasons that blame the protocol.
ProtocolCode ==
  IF link.baseline = NoState THEN "STARTUP_INCOMPATIBILITY" ELSE "CONNECTION_FAILURE"

\* Mutated form: the launch data of a failed connection is cleared.
FailForgettingSession(code, reason) ==
  /\ Show(Error(code, reason))
  /\ session' = NoRun
  /\ UNCHANGED <<asked, begun, failure, up, viewer, shells, store, destroyed, wanted, kernelVars>>

\* failLiveConnection, after a sync that gave a mounted shell the variables l.
FailSynced(l, code, reason) ==
  /\ Show(Error(code, reason))
  /\ store' = IF viewer = "up" THEN SyncedStore(l, store) ELSE store
  /\ UNCHANGED <<asked, begun, session, failure, up, viewer, shells, destroyed, wanted, kernelVars>>

\* failLiveConnection.
FailLiveConnection(code, reason) ==
  /\ Show(Error(code, reason))
  /\ UNCHANGED <<asked, begun, session, failure, up, viewer, shells, store, destroyed,
                 wanted, kernelVars>>

BadSequence == FailLiveConnection(ProtocolCode, "BAD_SEQUENCE")

\* didValidateKernelHello, liveKernelHello and didValidateSubscribed.
Validated(step) == [link EXCEPT !.checked = step]

OnKernelHello(c) ==
  /\ Arrives(c, "KERNEL_HELLO")
  /\ IF session = NoRun THEN FailLiveConnection("CONNECTION_FAILURE", "UNEXPECTED_STATE")
     ELSE IF app.kind # "CONNECTING" THEN BadSequence
     ELSE IF Head(down[c]).run # session
     THEN FailLiveConnection(ProtocolCode, "KERNEL_HELLO_RUN_MISMATCH")
     ELSE IF sock[c] # "open"
     THEN FailSynced(Validated("hello"), "CONNECTION_FAILURE", "SUBSCRIBE_SEND_FAILED")
     ELSE /\ SetLink(Validated("hello"))
          /\ Taken(c)
          /\ up' = [up EXCEPT ![c] = Append(@, [type |-> "SUBSCRIBE"])]
          /\ UNCHANGED <<app, flowVars, sock, viewer, shells, boots, outcome, destroyed,
                         wanted, kernelVars>>

OnSubscribed(c) ==
  /\ Arrives(c, "SUBSCRIBED")
  /\ IF link.checked = "nothing" THEN BadSequence
     ELSE /\ link' = Validated("subscribed")
          /\ EnterPhase("WAITING_FOR_BASELINE")
          /\ Taken(c)
          /\ UNCHANGED <<flowVars, sock, up, viewer, shells, store, outcome, destroyed,
                         wanted, kernelVars>>

\* Mutated form: a baseline does not make the mounted shell ingest again.
BasedOnce(state, c) ==
  [link EXCEPT !.baseline = state, !.pending = <<>>, !.ingested = (viewer = "up"),
               !.bridge = c]

\* The closure's variables when FULL_SNAPSHOT was accepted.
Based(state, c) ==
  [link EXCEPT !.baseline = state, !.pending = <<>>, !.ingested = FALSE, !.bridge = c]

\* The shell, if mounted, is given the baseline before LIVE_GAME is shown.
OnFullSnapshot(c) ==
  /\ Arrives(c, "FULL_SNAPSHOT")
  /\ IF link.checked # "subscribed" THEN BadSequence
     ELSE IF session = NoRun THEN FailLiveConnection("CONNECTION_FAILURE", "UNEXPECTED_STATE")
     ELSE IF app.kind # "CONNECTING"
     THEN FailSynced(Based(Head(down[c]).state, c), "CONNECTION_FAILURE", "BAD_SEQUENCE")
     ELSE /\ SetLink(Based(Head(down[c]).state, c))
          /\ Taken(c)
          /\ app' = [kind |-> "LIVE_GAME"]
          /\ MountLiveGameShell
          /\ UNCHANGED <<flowVars, sock, up, viewer, shells, outcome, destroyed, wanted,
                         kernelVars>>

\* A diff goes to the shell that has the baseline, else it is kept.
OnFrameDiff(c) ==
  /\ Arrives(c, "FRAME_DIFF")
  /\ IF link.checked # "subscribed" \/ link.baseline = NoState THEN BadSequence
     ELSE /\ IF link.ingested /\ viewer = "up"
             THEN store' = IngestDiff(store, Head(down[c])) /\ UNCHANGED link
             ELSE link' = [link EXCEPT !.pending = Append(@, Head(down[c]))]
                  /\ UNCHANGED store
          /\ Taken(c)
          /\ UNCHANGED <<app, flowVars, sock, up, viewer, shells, boots, outcome, destroyed,
                         wanted, kernelVars>>

\* Mutated form: an answer settles the oldest pending command, whatever its id.
SomePending(id) == IF link.acks = {} THEN id ELSE CHOOSE c \in link.acks : TRUE

\* The pending entry of an answer: its client_cmd_id.
PendingOf(id) == id

\* resolvePendingCommandAck: an answer that nobody waits for is ignored.
OnCommandAnswer(c, type, result) ==
  /\ Arrives(c, type)
  /\ LET id == PendingOf(Head(down[c]).cmd) IN
     IF link.baseline = NoState THEN BadSequence
     ELSE /\ link' = [link EXCEPT !.acks = @ \ {id}]
          /\ outcome' = [outcome EXCEPT ![id] = IF id \in link.acks THEN result ELSE @]
          /\ Taken(c)
          /\ UNCHANGED <<app, flowVars, sock, up, viewVars, destroyed, wanted, kernelVars>>

\* A fatal ERROR of the kernel; some of its codes blame the protocol.
OnError(c) ==
  /\ Arrives(c, "ERROR")
  /\ \E code \in {"CONNECTION_FAILURE", ProtocolCode} : FailLiveConnection(code, "KERNEL_ERROR")

\* A frame that onRawMessage cannot parse, or that a validation refuses.
OnProtocolError(c) ==
  /\ Arrives(c, "GARBLED")
  /\ FailLiveConnection(ProtocolCode, "PROTOCOL_VIOLATION")

OnClose(c) ==
  /\ Arrives(c, "CLOSE")
  /\ app.kind \in {"CONNECTING", "LIVE_GAME"}
  /\ FailLiveConnection("CONNECTION_FAILURE", "SOCKET_CLOSED")

OnTransportError(c) ==
  /\ Arrives(c, "TRANSPORT_ERROR")
  /\ FailLiveConnection("CONNECTION_FAILURE", "TRANSPORT_ERROR")

---------------------------------------------------------------------------
(* Commands of the player.                                                 *)

CanSendInputCommand ==
  /\ ~destroyed /\ app.kind = "LIVE_GAME"
  /\ link.bridge # NoConn /\ link.bridge = link.client /\ link.baseline # NoState

\* sendInputCommand of the bridge, asked by the shell for the store's next tick.
\* The bridge calls the client's method without the client: one that needs
\* `this` throws once the pending entry is made.
Submit(id) ==
  LET c == link.bridge IN
  /\ viewer = "up" /\ CanSendInputCommand
  /\ outcome[id] = "none" /\ id \notin link.acks
  /\ IF ~BoundClient
     THEN /\ outcome' = [outcome EXCEPT ![id] = "threw"]
          /\ link' = [link EXCEPT !.acks = @ \cup {id}]
          /\ UNCHANGED up
     ELSE IF sock[c] = "open"
     THEN /\ link' = [link EXCEPT !.acks = @ \cup {id}]
          /\ up' = [up EXCEPT ![c] = Append(@, [type |-> "INPUT_COMMAND", cmd |-> id,
                                                target |-> store.state.tick + 1])]
          /\ UNCHANGED outcome
     ELSE /\ outcome' = [outcome EXCEPT ![id] = "unsent"]
          /\ UNCHANGED <<link, up>>
  /\ UNCHANGED <<app, flowVars, sock, down, viewVars, destroyed, wanted, kernelVars>>

\* LIVE_COMMAND_ACK_TIMEOUT_MS are over.
AckTimeout(id) ==
  /\ id \in link.acks
  /\ link' = [link EXCEPT !.acks = @ \ {id}]
  /\ outcome' = [outcome EXCEPT ![id] = IF @ = "none" THEN "timeout" ELSE @]
  /\ UNCHANGED <<app, flowVars, sock, up, down, viewVars, destroyed, wanted, kernelVars>>

---------------------------------------------------------------------------
(* The shell.                                                              *)

\* destroyed || activeRevision !== mountRevision after createLiveViewer.
Installs(fresh) == ~destroyed /\ fresh

\* createLiveViewer resolved for a mount of the current or an older revision.
BootResolves(fresh) ==
  /\ IF fresh THEN boots.fresh ELSE boots.stale > 0
  /\ boots' = IF fresh THEN [boots EXCEPT !.fresh = FALSE] ELSE [boots EXCEPT !.stale = @ - 1]
  /\ IF Installs(fresh)
     THEN /\ viewer' = "up"
          /\ shells' = shells + 1
          /\ link' = SyncedLink(link)
          /\ store' = SyncedStore(link, EmptyStore)
     ELSE UNCHANGED <<viewer, shells, link, store>>
  /\ UNCHANGED <<app, flowVars, sock, up, down, outcome, destroyed, wanted, kernelVars>>

\* createLiveViewer rejected.
BootFails(fresh) ==
  /\ IF fresh THEN boots.fresh ELSE boots.stale > 0
  /\ IF Installs(fresh)
     THEN /\ app' = Error("STARTUP_INCOMPATIBILITY", "MOUNT_FAILED")
          /\ attempt' = NoRun
          /\ Relink(NoLink)
          /\ boots' = [boots EXCEPT !.fresh = FALSE]
     ELSE /\ boots' = IF fresh THEN [boots EXCEPT !.fresh = FALSE]
                      ELSE [boots EXCEPT !.stale = @ - 1]
          /\ UNCHANGED <<app, attempt, link, sock, down, outcome>>
  /\ UNCHANGED <<asked, begun, session, failure, up, viewer, shells, store, destroyed,
                 wanted, kernelVars>>

\* The locale changes in LIVE_GAME: render mounts again.  On the other screens a
\* second render changes nothing.
LocaleChanges ==
  /\ ~destroyed /\ app.kind = "LIVE_GAME"
  /\ viewer = "up" \/ boots.stale < MaxStale
  /\ MountLiveGameShell
  /\ SetLink(link)
  /\ UNCHANGED <<app, flowVars, sock, up, down, viewer, shells, outcome, destroyed, wanted,
                 kernelVars>>

\* beginBootFlow: the animation frame, then the loading timer.
BootFlow ==
  /\ ~destroyed
  /\ \/ app.kind = "BOOT" /\ Show([kind |-> "LOADING"])
     \/ app.kind = "LOADING" /\ Show([kind |-> "MAIN_MENU"])
  /\ UNCHANGED <<asked, begun, session, failure, up, viewer, shells, store, destroyed,
                 wanted, kernelVars>>

\* destroy() of the handle.
Destroy ==
  /\ ~destroyed
  /\ destroyed' = TRUE
  /\ attempt' = NoRun
  /\ Relink(NoLink)
  /\ session' = NoRun
  /\ failure' = FALSE
  /\ boots' = Outdated
  /\ viewer' = "stopped"
  /\ shells' = IF viewer = "up" THEN shells - 1 ELSE shells
  /\ wanted' = NoRun
  /\ UNCHANGED <<app, asked, begun, up, store, kernelVars>>

---------------------------------------------------------------------------
(* The kernel: LiveStream, with the messages that carry it.                *)

flowSide == <<app, flowVars, link, sock, viewVars, outcome, destroyed, wanted>>

\* Messages to a socket the browser has closed are lost.
Says(c, words) ==
  down' = IF sock[c] = "open" THEN [down EXCEPT ![c] = @ \o words] ELSE down

Hears(c, type) ==
  /\ up[c] # <<>> /\ Head(up[c]).type = type
  /\ up' = [up EXCEPT ![c] = Tail(@)]

\* The handshake.  One whose socket is closed reaches nobody and moves no run: its
\* steps are left out.
KernelGreets(c) ==
  /\ sock[c] = "open"
  /\ Hears(c, "VIEWER_HELLO")
  /\ Greet(c)
  /\ Says(c, <<[type |-> "KERNEL_HELLO", run |-> watch[c]]>>)
  /\ UNCHANGED <<flowSide, owes, verdict>>

KernelSubscribes(c) ==
  /\ sock[c] = "open"
  /\ Hears(c, "SUBSCRIBE")
  /\ Subscribed(c)
  /\ Says(c, <<[type |-> "SUBSCRIBED"]>>)
  /\ UNCHANGED <<flowSide, owes, verdict>>

KernelSendsBaseline(c) ==
  /\ sock[c] = "open"
  /\ Baseline(c)
  /\ Says(c, <<[type |-> "FULL_SNAPSHOT", state |-> StateOf(watch[c], view'[c])]>>)
  /\ UNCHANGED <<flowSide, up, owes, verdict>>

OnTime(target, tick) == target \in {tick, tick + 1}

\* An accepted command changes the run and owes its viewer a frame.
KernelAccepts(c) ==
  /\ stage[c] = "streaming" /\ ~owes[c]
  /\ Hears(c, "INPUT_COMMAND")
  /\ LET word == Head(up[c]) IN
     /\ OnTime(word.target, truth[watch[c]].tick)
     /\ Change(watch[c])
     /\ Says(c, <<[type |-> "COMMAND_ACCEPTED", cmd |-> word.cmd]>>)
     /\ verdict' = [verdict EXCEPT ![word.cmd] = "accepted"]
  /\ owes' = [owes EXCEPT ![c] = TRUE]
  /\ UNCHANGED flowSide

KernelRejects(c) ==
  /\ stage[c] = "streaming" /\ ~owes[c]
  /\ Hears(c, "INPUT_COMMAND")
  /\ LET word == Head(up[c]) IN
     /\ Says(c, <<[type |-> "COMMAND_REJECTED", cmd |-> word.cmd]>>)
     /\ verdict' = [verdict EXCEPT ![word.cmd] = "rejected"]
  /\ UNCHANGED <<flowSide, streamVars, owes>>

\* A frame: the host streams one for each accepted command; the viewer, and
\* LiveStream, take one at any time.
KernelStreams(c) ==
  /\ \/ owes[c]
     \/ stage[c] = "streaming" /\ truth[watch[c]].tick < MaxTick
  /\ owes' = [owes EXCEPT ![c] = FALSE]
  /\ \/ /\ Diff(c)
        /\ Says(c, <<[type |-> "FRAME_DIFF", from |-> StateOf(watch[c], view[c]),
                      to |-> StateOf(watch[c], view'[c])]>>)
     \/ /\ Overrun(c)
        /\ Says(c, <<[type |-> "ERROR"]>>)
  /\ UNCHANGED <<flowSide, up, verdict>>

\* The kernel ends the stream, with or without an ERROR, or after a frame that
\* the viewer refuses; the close after those finds its handlers unsubscribed.
KernelEnds(c) ==
  /\ sock[c] = "open" \/ stage[c] = "streaming"
  /\ End(c)
  /\ \E last \in {"ERROR", "GARBLED", "CLOSE"} :
       Says(c, <<[type |-> last]>>)
  /\ owes' = [owes EXCEPT ![c] = FALSE]
  /\ UNCHANGED <<flowSide, up, verdict>>

---------------------------------------------------------------------------
Init ==
  /\ StreamInit
  /\ app = [kind |-> "BOOT"]
  /\ attempt = NoRun /\ session = NoRun /\ wanted = NoRun
  /\ asked = {} /\ begun = {} /\ failure = FALSE
  /\ link = NoLink
  /\ sock = [c \in Conns |-> "none"]
  /\ up = [c \in Conns |-> <<>>] /\ down = [c \in Conns |-> <<>>]
  /\ viewer = "none" /\ shells = 0
  /\ boots = [fresh |-> FALSE, stale |-> 0]
  /\ store = EmptyStore
  /\ outcome = [id \in Cmds |-> "none"] /\ verdict = [id \in Cmds |-> "none"]
  /\ destroyed = FALSE
  /\ owes = [c \in Conns |-> FALSE]

\* createLiveClient throws, connect() throws.
ThrownCodes == {"STARTUP_INCOMPATIBILITY", "CONNECTION_FAILURE"}

User ==
  \/ \E screen \in {"MAIN_MENU", "CASE_SELECT"} : GoTo(screen)
  \/ \E r \in Runs : BeginCaseLaunch(r)
  \/ \E c \in Conns : RetryLiveConnection(c)
  \/ \E code \in ThrownCodes : RetryCannotConnect(code)
  \/ \E id \in Cmds : Submit(id)
  \/ LocaleChanges \/ Destroy

LaunchAnswered ==
  \E r \in Runs :
    \/ \E c \in Conns : LaunchSucceeds(r, c)
    \/ \E code \in ThrownCodes : LaunchCannotConnect(r, code)
    \/ \E code \in {"LAUNCH_FAILURE", "STARTUP_INCOMPATIBILITY"} : LaunchFails(r, code)
    \/ LaunchOutdated(r)

SocketEvent(c) ==
  \/ OnOpen(c) \/ OnKernelHello(c) \/ OnSubscribed(c) \/ OnFullSnapshot(c) \/ OnFrameDiff(c)
  \/ OnCommandAnswer(c, "COMMAND_ACCEPTED", "accepted")
  \/ OnCommandAnswer(c, "COMMAND_REJECTED", "rejected")
  \/ OnError(c) \/ OnProtocolError(c) \/ OnClose(c) \/ OnTransportError(c)

KernelStep(c) ==
  \/ KernelGreets(c) \/ KernelSubscribes(c) \/ KernelSendsBaseline(c)
  \/ KernelAccepts(c) \/ KernelRejects(c) \/ KernelStreams(c)

BootEnds(fresh) == BootResolves(fresh) \/ BootFails(fresh)

Next ==
  \/ User \/ BootFlow \/ LaunchAnswered
  \/ \E fresh \in BOOLEAN : BootEnds(fresh)
  \/ \E id \in Cmds : AckTimeout(id)
  \/ \E c \in Conns : SocketEvent(c) \/ Drop(c) \/ Closing(c) \/ KernelStep(c) \/ KernelEnds(c)

Spec == Init /\ [][Next]_vars

\* Requests, imports and timers end, the browser dispatches queued events, and
\* the kernel answers what it has heard; nobody owes a click.  A user who changes
\* the locale for ever does not outrun every mount of the current revision.
Fairness ==
  /\ WF_vars(BootFlow) /\ WF_vars(LaunchAnswered)
  /\ \A fresh \in BOOLEAN : WF_vars(BootEnds(fresh))
  /\ \A id \in Cmds : WF_vars(AckTimeout(id))
  /\ \A c \in Conns : WF_vars(SocketEvent(c)) /\ WF_vars(KernelStep(c))

FairSpec == Spec /\ Fairness

---------------------------------------------------------------------------
(* Properties.                                                             *)

Phases == {"CASE_LAUNCH", "SESSION_STARTUP", "HANDSHAKING", "WAITING_FOR_BASELINE"}
Codes == {"LAUNCH_FAILURE", "CONNECTION_FAILURE", "STARTUP_INCOMPATIBILITY"}
AppStates ==
  [kind : {"BOOT", "LOADING", "MAIN_MENU", "CASE_SELECT", "LIVE_GAME"}]
    \cup [kind : {"CONNECTING"}, phase : Phases]
    \cup [kind : {"ERROR"}, code : Codes, blames : BOOLEAN]

States == [run : Runs, tick : Nat, ver : Nat] \cup {NoState}
Diffs == [type : {"FRAME_DIFF"}, from : States, to : States]
Links == [client : Conns \cup {NoConn}, run : Runs \cup {NoRun},
          checked : {"nothing", "hello", "subscribed"}, bridge : Conns \cup {NoConn},
          baseline : States, pending : Seq(Diffs), ingested : BOOLEAN, acks : SUBSET Cmds]

\* Every variable of the viewer has its type.
TypeOK ==
  /\ app \in AppStates
  /\ {attempt, session, wanted} \subseteq Runs \cup {NoRun}
  /\ asked \subseteq begun /\ begun \subseteq Runs
  /\ {failure, destroyed} \subseteq BOOLEAN
  /\ link \in Links
  /\ sock \in [Conns -> {"none", "connecting", "open", "closing", "closed"}]
  /\ viewer \in {"none", "up", "stopped"}
  /\ shells \in Nat /\ boots \in [fresh : BOOLEAN, stale : Nat]
  /\ store \in [anchor : Runs \cup {NoRun}, state : States, desynced : BOOLEAN]
  /\ outcome \in [Cmds -> {"none", "accepted", "rejected", "timeout", "lost", "unsent", "threw"}]
  /\ verdict \in [Cmds -> {"none", "accepted", "rejected"}]
  /\ owes \in [Conns -> BOOLEAN]

\* Whatever launches, sockets and mounts are still in flight, the game on the
\* screen is the run the user asked for last, and the mounted shell shows a state
\* of that run, never one left over from the run played before.
ShowsWantedRun ==
  /\ session \in {NoRun, wanted}
  /\ link.client # NoConn => session = wanted /\ link.run = wanted
  /\ app.kind = "LIVE_GAME" /\ ~destroyed /\ viewer = "up" =>
       store.anchor = wanted /\ store.state.run = wanted

\* The diffs among words lead, one after the other, from state a to state b.
DiffsIn(words) == {i \in DOMAIN words : words[i].type = "FRAME_DIFF"}
Leads(words, a, b) ==
  LET diffs == DiffsIn(words) IN
  /\ diffs = {} => a = b
  /\ \A i \in diffs :
       /\ (\A j \in diffs : i <= j) => words[i].from = a
       /\ (\A j \in diffs : j <= i) => words[i].to = b
       /\ \A j \in diffs :
            i < j /\ (\A k \in diffs : k <= i \/ j <= k) => words[j].from = words[i].to

\* The state the viewer holds, and the one its kept diffs will bring it to.
Held == IF link.ingested THEN store.state ELSE link.baseline
Ahead == IF link.pending = <<>> THEN Held ELSE link.pending[Len(link.pending)].to

\* From the baseline on, the state the viewer holds, the diffs kept for it and
\* those on their way to it form one chain up to the state the kernel believes it
\* has, and the mounted shell never loses that chain, however late its mount was.
FollowsKernel ==
  LET c == link.client IN
  link.baseline # NoState =>
    /\ Leads(link.pending, Held, Ahead)
    /\ sock[c] \in {"open", "closing"} => Leads(down[c], Ahead, StateOf(watch[c], view[c]))
    /\ viewer = "up" => link.ingested /\ ~store.desynced

\* Screen and connection belong together.  A socket that is not closed is the
\* one the app is on: none survives a way back to the menus, an error, a retry or
\* the end of the app.  A game or a waiting screen has something behind it that
\* will end it: a launch request in flight or a connection that is current.  And
\* at most one shell runs, the mounted one, and none after destroy.
ScreenAndSocketAgree ==
  /\ \A c \in Conns : sock[c] \in {"connecting", "open", "closing"} =>
       /\ c = link.client /\ ~destroyed
       /\ app.kind \in {"CONNECTING", "LIVE_GAME"}
  /\ ~destroyed => /\ app.kind = "LIVE_GAME" => link.client # NoConn /\ link.baseline # NoState
                   /\ app.kind = "CONNECTING" =>
                        \/ app.phase = "CASE_LAUNCH" /\ attempt \in asked
                        \/ app.phase # "CASE_LAUNCH" /\ link.client # NoConn
  /\ shells = IF viewer = "up" THEN 1 ELSE 0
  /\ destroyed => shells = 0

\* A caller told that its command was accepted or rejected was told what the
\* kernel decided about that very command.
AnswersAreTheKernels ==
  \A id \in Cmds : outcome[id] \in {"accepted", "rejected"} => outcome[id] = verdict[id]

\* The error screen tells the truth: a kernel that keeps LiveStream is never blamed
\* for a bad sequence, nor the launch data for a run that is not the kernel's; and
\* an error the user is offered to retry has what the retry needs.
ErrorsAreHonest ==
  app.kind = "ERROR" =>
    /\ ~app.blames
    /\ ~destroyed => /\ app.code = "CONNECTION_FAILURE" => session # NoRun
                     /\ app.code = "LAUNCH_FAILURE" => failure

\* A launch settles.  The connecting screen ends, in the game, an error or by the
\* user; and a game that goes on gets its shell, even if the locale changes while
\* it boots.
LaunchSettles ==
  /\ app.kind = "CONNECTING" ~> app.kind # "CONNECTING" \/ destroyed
  /\ app.kind = "LIVE_GAME" ~> viewer = "up" \/ app.kind # "LIVE_GAME" \/ destroyed

\* A command that waits for its answer stops waiting, and its caller is told
\* something, even if the kernel, the socket or the app ends first.
CommandSettles ==
  \A id \in Cmds : id \in link.acks ~> id \notin link.acks /\ outcome[id] # "none"

\* Claimed by the local playtest workflow (an interactive live session with
\* command answers): a command that waits for the kernel's answer was sent.
\* Violated with the client the app creates, whose method needs `this`.
WaitingMeansSent == \A id \in link.acks : outcome[id] # "threw"
=============================================================================

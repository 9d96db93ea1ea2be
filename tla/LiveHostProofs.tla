---------------------------- MODULE LiveHostProofs ----------------------------
(***************************************************************************)
(* Proofs about LiveHost, for every set of runs and connections, every     *)
(* TTL and every bound.                                                    *)
(***************************************************************************)
EXTENDS LiveHost, TLAPS

(* Sweeping keeps the registry's type. *)
LEMMA EvictType ==
  ASSUME NEW reg \in [Runs -> Entries], NEW t \in Nat
  PROVE  Evict(reg, t) \in [Runs -> Entries]
<1>1. Unknown \in Entries
  BY DEF Unknown, Entries, Never, Times
<1> QED BY <1>1 DEF Evict

(* The registry operators keep the registry's type. *)
LEMMA RegistryTypes ==
  ASSUME NEW reg \in [Runs -> Entries], NEW r \in Runs, NEW t \in Nat
  PROVE  /\ Register(reg, r, t) \in [Runs -> Entries]
         /\ Touch(reg, r, t) \in [Runs -> Entries]
         /\ \A c \in Conns : Attach(reg, r, c, t) \in [Runs -> Entries]
         /\ Detach(reg, r, t) \in [Runs -> Entries]
         /\ Released(reg, r, t) \in [Runs -> Entries]
<1>1. ASSUME NEW e \in Entries
      PROVE  /\ Touched(e, t) \in Entries /\ Detached(e, t) \in Entries
             /\ \A c \in Conns : AttachedTo(e, c, t) \in Entries
  BY DEF Entries, Touched, AttachedTo, Detached, Never, Times
<1>2. FreshEntry(t) \in Entries
  BY DEF FreshEntry, Entries, Never, Times
<1>3. ASSUME NEW g \in [Runs -> Entries]
      PROVE  Touch(g, r, t) \in [Runs -> Entries] /\ Detach(g, r, t) \in [Runs -> Entries]
  BY <1>1, EvictType DEF Touch, Detach
<1>4. Register(reg, r, t) \in [Runs -> Entries]
  BY <1>2, EvictType DEF Register
<1>5. ASSUME NEW c \in Conns
      PROVE  Attach(reg, r, c, t) \in [Runs -> Entries]
  BY <1>1, EvictType DEF Attach
<1> QED BY <1>3, <1>4, <1>5 DEF Released


---------------------------------------------------------------------------
(* Type correctness.                                                       *)

\* A connection that was attached is bound to a run.
Bound ==
  \A c \in Conns : pc[c] \in {"accepting"} \cup Serving => runOf[c] \in Runs

TypeInv == TypeOK /\ Bound

(* The teardown keeps the types. *)
LEMMA FinishType ==
  ASSUME TypeInv, NEW c \in Conns, NEW s \in [Conns -> Sessions],
         pc[c] \in Serving, Finish(c, s)
  PROVE  TypeInv'
<1> USE DEF TypeInv, TypeOK, Bound
<1>1. runOf[c] \in Runs
  BY DEF Serving
<1>2. registry' \in [Runs -> Entries]
  BY <1>1, RegistryTypes DEF Finish
<1>3. sess' \in [Conns -> Sessions]
  BY DEF Finish, Sessions, NoSession, Phases, Protocols
<1>4. pc' = [pc EXCEPT ![c] = "done"] /\ rec' = [rec EXCEPT ![c] = "NONE"]
      /\ UNCHANGED <<now, launched, down, pos, runOf, payload, sent, acked, peer>>
  BY DEF Finish, Goto, hostVars, viewVars
<1>5. pc' \in [Conns -> PCs] /\ rec' \in [Conns -> SessionStates]
  BY <1>4 DEF PCs, SessionStates
<1>6. Bound'
  BY <1>4 DEF Serving, Receiving, Replying, Ending
<1> QED BY <1>2, <1>3, <1>4, <1>5, <1>6

(* Every step of the host keeps the types. *)
LEMMA TypeStep == TypeInv /\ [Next]_vars => TypeInv'
<1> SUFFICES ASSUME TypeInv, [Next]_vars PROVE TypeInv'
  OBVIOUS
<1> USE DEF TypeInv, TypeOK, Bound
<1>1. CASE UNCHANGED vars
  BY <1>1 DEF vars
<1>2. CASE Elapse
  BY <1>2 DEF Elapse, viewVars
<1>3. CASE Shutdown
  <2>1. EmptyRegistry \in [Runs -> Entries]
    BY DEF EmptyRegistry, Unknown, Entries, Never, Times
  <2> QED BY <1>3, <2>1 DEF Shutdown, viewVars, SessionStates
<1>4. ASSUME NEW r \in Runs, Launch(r) PROVE TypeInv'
  BY <1>4, RegistryTypes DEF Launch, viewVars
<1>5. ASSUME NEW c \in Conns, Serve(c) PROVE TypeInv'
  <2>0. Evict(registry, now) \in [Runs -> Entries]
    BY EvictType
  <2>1. ASSUME Disconnected(c) \/ Abort(c) \/ CloseSent(c) PROVE TypeInv'
    BY <2>1, FinishType DEF Disconnected, Abort, CloseSent, Serving, Ending
  <2>2. CASE PeerDrop(c)
    BY <2>2 DEF PeerDrop, hostVars, viewVars
  <2>3. CASE InternalError(c) \/ SendFails(c)
    BY <2>3 DEF InternalError, SendFails, Goto, hostVars, viewVars, PCs, Serving, Receiving,
                Replying, Ending
  <2>4. CASE ErrorSent(c)
    BY <2>4 DEF ErrorSent, Goto, hostVars, viewVars, PCs, Serving, Ending, Sessions, Phases, Protocols
  <2>5. CASE RefuseConnect(c) \/ \E r \in Runs : RejectConnect(c, r)
    BY <2>5, <2>0 DEF RefuseConnect, RejectConnect, Goto, hostVars, viewVars, PCs, Serving, Receiving,
                      Replying, Ending
  <2>6. ASSUME NEW r \in Runs, Connect(c, r) PROVE TypeInv'
    BY <2>6, <2>0 DEF Connect, Goto, hostVars, viewVars, PCs, Sessions, Phases, Protocols
  <2>7. CASE Accepted(c)
    <3>1. runOf[c] \in Runs /\ registry' = Attach(registry, runOf[c], c, now)
      BY <2>7 DEF Accepted
    <3>2. registry' \in [Runs -> Entries]
      BY <3>1, RegistryTypes
    <3> QED
      BY <2>7, <3>2 DEF Accepted, Goto, hostVars, viewVars, PCs, Serving, Receiving, Sessions,
                        Phases, SessionStates
  <2>8. CASE AcceptFails(c)
    BY <2>8 DEF AcceptFails, Goto, hostVars, viewVars, PCs, Serving, Receiving, Replying, Ending
  <2>9. CASE OutOfSequence(c) \/ Violation(c) \/ Forgotten(c) \/ Chatter(c)
    BY <2>9 DEF OutOfSequence, Violation, Forgotten, Chatter, Goto, hostVars, viewVars, PCs, Serving,
                Receiving, Replying, Ending
  <2>10. CASE ViewerHello(c)
    BY <2>10 DEF ViewerHello, Goto, hostVars, viewVars, PCs, Serving, Receiving, Replying, Sessions,
                 Protocols
  <2>11. ASSUME NEW onJoin \in BOOLEAN, Subscribe(c, onJoin) PROVE TypeInv'
    BY <2>11 DEF Subscribe, Goto, hostVars, viewVars, PCs, Serving, Receiving, Replying, Sessions,
                 Phases, Protocols
  <2>12. CASE HelloSent(c)
    <3>1. CASE Tracked(c)
      BY <2>12, <3>1 DEF HelloSent, Goto, hostVars, viewVars, PCs, Serving, Receiving, Replying,
                         SessionStates
    <3> QED BY <2>12, <3>1, FinishType DEF HelloSent, Serving, Replying
  <2>13. CASE SendSnapshot(c)
    BY <2>13, <2>0 DEF SendSnapshot, Goto, hostVars, PCs, Serving, Replying, Ending
  <2>14. CASE BaselineRequired(c)
    <3>1. CASE Tracked(c)
      BY <2>14, <3>1 DEF BaselineRequired, Goto, hostVars, viewVars, PCs, Serving, Replying, Ending,
                         SessionStates
    <3> QED BY <2>14, <3>1, FinishType DEF BaselineRequired, Serving, Replying
  <2>15. CASE SnapshotSent(c)
    <3>1. WithBaseline(sess, c) \in [Conns -> Sessions]
      BY DEF WithBaseline, Sessions
    <3>2. CASE Tracked(c)
      <4>1. runOf[c] \in Runs
        BY <2>15 DEF SnapshotSent, Serving, Replying
      <4>2. registry' \in [Runs -> Entries]
        <5>1. registry' = Touch(registry, runOf[c], now)
          BY <2>15, <3>2 DEF SnapshotSent
        <5> QED BY <4>1, <5>1, RegistryTypes
      <4> QED BY <2>15, <3>1, <3>2, <4>1, <4>2
        DEF SnapshotSent, Goto, hostVars, viewVars, PCs, Serving, Receiving, SessionStates
    <3> QED BY <2>15, <3>1, <3>2, FinishType DEF SnapshotSent, Serving, Replying
  <2>16. CASE CommandWithoutRun(c) \/ \E target \in 0..(MaxTick + 2) : CommandOffTime(c, target)
    BY <2>16, <2>0 DEF CommandWithoutRun, CommandOffTime, Goto, hostVars, viewVars, PCs, Serving,
                       Receiving, Replying, Ending
  <2>17. ASSUME NEW target \in 0..(MaxTick + 2), NEW accepted \in BOOLEAN, NEW changes \in BOOLEAN,
                Command(c, target, accepted, changes)
         PROVE  TypeInv'
    <3> DEFINE ver == pos[runOf[c]].ver + IF changes THEN 1 ELSE 0
    <3>1. runOf[c] \in Runs
      BY <2>17 DEF Command, Serving, Receiving
    <3>2. ver \in Nat
      BY <3>1 DEF Positions
    <3>3. pos' \in [Runs -> Positions]
      BY <2>17, <3>1, <3>2 DEF Command, Positions
    <3>4. acked' \in [Conns -> Nat]
      BY <2>17, <3>2 DEF Command
    <3>5. pc' \in [Conns -> PCs] /\ Bound'
      BY <2>17, <3>1 DEF Command, Goto, PCs, Serving, Replying
    <3> QED BY <2>17, <2>0, <3>3, <3>4, <3>5 DEF Command, hostVars
  <2>18. CASE ReplySent(c) \/ DiffSent(c)
    <3>1. CASE Tracked(c)
      <4>1. runOf[c] \in Runs
        BY <2>18 DEF ReplySent, DiffSent, Serving, Replying
      <4>2. registry' \in [Runs -> Entries]
        BY <2>18, <3>1, <4>1, RegistryTypes DEF ReplySent, DiffSent
      <4> QED BY <2>18, <3>1, <4>1, <4>2
        DEF ReplySent, DiffSent, Goto, hostVars, viewVars, PCs, Serving, Receiving
    <3> QED BY <2>18, <3>1, FinishType DEF ReplySent, DiffSent, Serving, Replying
  <2>19. CASE AckSent(c)
    <3>1. CASE Tracked(c)
      <4>1. runOf[c] \in Runs
        BY <2>19 DEF AckSent, Serving, Replying
      <4>2. Advanced(pos[runOf[c]]) \in Positions
        BY <4>1 DEF Advanced, Positions
      <4>3. pos' \in [Runs -> Positions]
        BY <2>19, <3>1, <4>2 DEF AckSent
      <4>4. sent' \in [Conns -> Positions \cup {Nothing}]
        BY <2>19, <3>1, <4>2 DEF AckSent, DiffTarget
      <4> DEFINE next == Advanced(pos[runOf[c]])
                 updated == [sess EXCEPT ![c] = [@ EXCEPT !.cursor = next]]
      <4>6. sess' \in {sess, updated}
        BY <2>19, <3>1 DEF AckSent, DiffTarget
      <4>7. [sess[c] EXCEPT !.cursor = next] \in Sessions
        <5>1. next \in Positions BY <4>2
        <5> HIDE DEF next
        <5> QED BY <5>1 DEF Sessions
      <4>8. sess' \in [Conns -> Sessions]
        BY <4>6, <4>7
      <4>5. pc' \in [Conns -> PCs] /\ Bound'
        BY <2>19, <3>1, <4>1 DEF AckSent, Goto, PCs, Serving, Replying, Ending, hostVars
      <4> QED BY <2>19, <3>1, <2>0, <4>3, <4>4, <4>5, <4>8 DEF AckSent, hostVars
    <3> QED BY <2>19, <3>1, FinishType DEF AckSent, Serving, Replying
  <2> QED
    BY <1>5, <2>1, <2>2, <2>3, <2>4, <2>5, <2>6, <2>7, <2>8, <2>9, <2>10, <2>11, <2>12, <2>13, <2>14,
       <2>15, <2>16, <2>17, <2>18, <2>19
    DEF Serve, SendDone, Receive, Fault
<1> QED BY <1>1, <1>2, <1>3, <1>4, <1>5 DEF Next

(* The initial state is well typed. *)
LEMMA TypeInit == Init => TypeInv
<1> SUFFICES ASSUME Init PROVE TypeInv
  OBVIOUS
<1>1. registry \in [Runs -> Entries]
  BY DEF Init, EmptyRegistry, Unknown, Entries, Never, Times
<1>2. sess \in [Conns -> Sessions] /\ rec \in [Conns -> SessionStates]
  BY DEF Init, NoSession, Sessions, Phases, Protocols, SessionStates
<1>3. pos \in [Runs -> Positions]
  BY DEF Init, Positions
<1>4. pc \in [Conns -> PCs] /\ Bound
  BY DEF Init, Bound, PCs, Serving, Receiving, Replying, Ending
<1> QED BY <1>1, <1>2, <1>3, <1>4 DEF Init, TypeInv, TypeOK

(* Every variable keeps its type in every behaviour of the host. *)
THEOREM TypeCorrect == Spec => []TypeOK
<1>1. TypeInv => TypeOK
  BY DEF TypeInv
<1> QED BY <1>1, TypeInit, TypeStep, PTL DEF Spec


---------------------------------------------------------------------------
(* The inductive invariant behind the safety properties.                   *)

BeforeBaseline == {"idle", "accepting", "awaitHello", "helloSending", "awaitSubscribe",
                   "subscribedSending"}

\* Before its baseline nothing is sent, held or acknowledged.
NothingYet ==
  \A c \in Conns : pc[c] \in BeforeBaseline =>
    sent[c] = Nothing /\ sess[c].cursor = Nothing /\ acked[c] = 0

\* The snapshot being sent, then the cursor, is the state last sent.
Held ==
  \A c \in Conns :
    /\ pc[c] = "snapshotSending" =>
         payload[c] = sent[c] /\ sess[c].cursor = Nothing /\ acked[c] = 0
    /\ pc[c] \in Streaming => sess[c].cursor = sent[c]
    /\ pc[c] \in Streaming \cup {"snapshotSending"} =>
         /\ sent[c] \in Positions
         /\ sess[c].protocol = "SUBSCRIBED" /\ sess[c].phase = "SUBSCRIBED"
    /\ pc[c] = "subscribedSending" =>
         sess[c].protocol = "SUBSCRIBED" /\ sess[c].phase = "SUBSCRIBED"

\* No viewer is ahead of its run.
NotAhead ==
  \A c \in Conns : sent[c] # Nothing =>
    /\ sent[c] \in Positions /\ runOf[c] \in Runs
    /\ sent[c].tick <= pos[runOf[c]].tick /\ sent[c].ver <= pos[runOf[c]].ver

\* An acknowledged change is in the run, and sent unless its diff is still owed.
AckedSent ==
  \A c \in Conns :
    /\ pc[c] \in {"live", "replySending", "diffSending"} => acked[c] <= sent[c].ver
    /\ pc[c] = "ackSending" => acked[c] <= pos[runOf[c]].ver

\* A run that is not registered has no session attached.
Coherent(reg) == \A r \in Runs : reg[r].active # NoConn => reg[r].known

\* Records, sessions and attachments belong to connections being served.
Owned ==
  \A c \in Conns :
    /\ rec[c] # "NONE" => pc[c] \in Serving
    /\ rec[c] = "LIVE" => pc[c] \in Streaming \cup Ending
    /\ sess[c].phase # "NONE" => pc[c] \in {"accepting", "gone"} \cup Serving \/ down
    /\ \A r \in Runs : registry[r].active = c => pc[c] \in Serving /\ runOf[c] = r

StreamInv == NothingYet /\ Held /\ NotAhead /\ AckedSent

OwnedInv == Coherent(registry) /\ Owned

---------------------------------------------------------------------------
(* What the registry operators do to attachments.                          *)

(* Sweeping drops only entries to which no session is attached. *)
LEMMA EvictEffect ==
  ASSUME NEW reg \in [Runs -> Entries], NEW t \in Nat
  PROVE  /\ \A r \in Runs : reg[r].active # NoConn => Evict(reg, t)[r] = reg[r]
         /\ \A r \in Runs : Evict(reg, t)[r].active = reg[r].active
         /\ \A r \in Runs : Evict(reg, t)[r].known => reg[r].known
         /\ Coherent(reg) => Coherent(Evict(reg, t))
<1>1. \A r \in Runs : Evict(reg, t)[r] = IF Stale(reg[r], t) THEN Unknown ELSE reg[r]
  BY DEF Evict
<1>2. \A r \in Runs : Stale(reg[r], t) => reg[r].active = NoConn
  BY DEF Stale
<1> QED BY <1>1, <1>2 DEF Unknown, Coherent

(* Touching a run attaches and detaches nothing. *)
LEMMA TouchEffect ==
  ASSUME NEW reg \in [Runs -> Entries], NEW t \in Nat, NEW k \in Runs
  PROVE  /\ \A r \in Runs : Touch(reg, k, t)[r].active = reg[r].active
         /\ \A r \in Runs : Touch(reg, k, t)[r].known => reg[r].known
         /\ \A r \in Runs : reg[r].active # NoConn => Touch(reg, k, t)[r].known = reg[r].known
         /\ Coherent(reg) => Coherent(Touch(reg, k, t))
<1> DEFINE s == Evict(reg, t)
<1>1. s \in [Runs -> Entries]
  BY EvictType
<1>2. \A e \in Entries : Touched(e, t).active = e.active /\ Touched(e, t).known = e.known
  BY DEF Touched, Entries
<1>3. \A r \in Runs : /\ Touch(reg, k, t)[r].active = s[r].active
                      /\ Touch(reg, k, t)[r].known = s[r].known
  BY <1>1, <1>2 DEF Touch
<1> QED BY <1>3, EvictEffect DEF Coherent

(* Detaching a run clears its session and no other one. *)
LEMMA DetachEffect ==
  ASSUME NEW reg \in [Runs -> Entries], Coherent(reg), NEW t \in Nat, NEW k \in Runs
  PROVE  /\ Detach(reg, k, t)[k].active = NoConn
         /\ \A r \in Runs \ {k} : Detach(reg, k, t)[r].active = reg[r].active
         /\ \A r \in Runs : Detach(reg, k, t)[r].known => reg[r].known
         /\ \A r \in Runs : reg[r].active # NoConn => Detach(reg, k, t)[r].known = reg[r].known
         /\ Coherent(Detach(reg, k, t))
<1> DEFINE s == Evict(reg, t)
<1>1. s \in [Runs -> Entries] /\ Coherent(s)
  BY EvictType, EvictEffect
<1>2. \A e \in Entries : Detached(e, t).active = NoConn /\ Detached(e, t).known = e.known
  BY DEF Detached, Entries
<1>3. /\ Detach(reg, k, t)[k].active = NoConn
      /\ \A r \in Runs : Detach(reg, k, t)[r].known = s[r].known
      /\ \A r \in Runs \ {k} : Detach(reg, k, t)[r] = s[r]
  BY <1>1, <1>2 DEF Detach, Coherent
<1> QED BY <1>1, <1>3, EvictEffect DEF Coherent

(* The teardown's use of the registry clears its run's session and no other. *)
LEMMA ReleasedEffect ==
  ASSUME NEW reg \in [Runs -> Entries], Coherent(reg), NEW t \in Nat, NEW k \in Runs
  PROVE  /\ Released(reg, k, t)[k].active = NoConn
         /\ \A r \in Runs \ {k} : Released(reg, k, t)[r].active = reg[r].active
         /\ \A r \in Runs : Released(reg, k, t)[r].known => reg[r].known
         /\ \A r \in Runs : reg[r].active # NoConn => Released(reg, k, t)[r].known = reg[r].known
         /\ Coherent(Released(reg, k, t))
<1> DEFINE s == Touch(reg, k, t)
<1>1. s \in [Runs -> Entries] /\ Coherent(s)
  BY RegistryTypes, TouchEffect
<1>2. Released(reg, k, t) = Detach(s, k, t)
  BY DEF Released
<1> HIDE DEF s
<1>3. /\ Detach(s, k, t)[k].active = NoConn
      /\ \A r \in Runs \ {k} : Detach(s, k, t)[r].active = s[r].active
      /\ \A r \in Runs : Detach(s, k, t)[r].known => s[r].known
      /\ \A r \in Runs : s[r].active # NoConn => Detach(s, k, t)[r].known = s[r].known
      /\ Coherent(Detach(s, k, t))
  BY <1>1, DetachEffect
<1> QED BY <1>2, <1>3, TouchEffect DEF s

(* Attaching c to a run that is still registered makes c its session. *)
LEMMA AttachEffect ==
  ASSUME NEW reg \in [Runs -> Entries], Coherent(reg), NEW t \in Nat, NEW k \in Runs,
         NEW c \in Conns
  PROVE  /\ Attach(reg, k, c, t)[k].known => Attach(reg, k, c, t)[k].active = c
         /\ Attach(reg, k, c, t)[k].active \in {c, NoConn}
         /\ \A r \in Runs \ {k} : Attach(reg, k, c, t)[r].active = reg[r].active
         /\ \A r \in Runs : Attach(reg, k, c, t)[r].known => reg[r].known
         /\ \A r \in Runs : reg[r].active # NoConn => Attach(reg, k, c, t)[r].known = reg[r].known
         /\ Coherent(Attach(reg, k, c, t))
<1> DEFINE s == Evict(reg, t)
<1>1. s \in [Runs -> Entries] /\ Coherent(s)
  BY EvictType, EvictEffect
<1>2. \A e \in Entries : AttachedTo(e, c, t).active = c /\ AttachedTo(e, c, t).known = e.known
  BY DEF AttachedTo, Entries
<1>3. /\ IF s[k].known THEN Attach(reg, k, c, t)[k].active = c
                       ELSE Attach(reg, k, c, t)[k].active = NoConn
      /\ \A r \in Runs : Attach(reg, k, c, t)[r].known = s[r].known
      /\ \A r \in Runs \ {k} : Attach(reg, k, c, t)[r] = s[r]
  BY <1>1, <1>2 DEF Attach, Coherent
<1> QED BY <1>1, <1>3, EvictEffect DEF Coherent

(* Registering a fresh run attaches and detaches nothing. *)
LEMMA RegisterEffect ==
  ASSUME NEW reg \in [Runs -> Entries], Coherent(reg), NEW t \in Nat, NEW k \in Runs
  PROVE  /\ \A r \in Runs : Register(reg, k, t)[r].active = reg[r].active
         /\ \A r \in Runs \ {k} : Register(reg, k, t)[r].known => reg[r].known
         /\ \A r \in Runs : reg[r].active # NoConn => Register(reg, k, t)[r].known = reg[r].known
         /\ Coherent(Register(reg, k, t))
<1> DEFINE s == Evict(reg, t)
<1>1. s \in [Runs -> Entries] /\ Coherent(s)
  BY EvictType, EvictEffect
<1>2. FreshEntry(t).active = NoConn /\ FreshEntry(t).known
  BY DEF FreshEntry
<1>3. \A r \in Runs \ {k} : Register(reg, k, t)[r] = s[r]
  BY <1>1 DEF Register
<1>4. Register(reg, k, t)[k] = IF s[k].known THEN s[k] ELSE FreshEntry(t)
  BY <1>1 DEF Register
<1> QED BY <1>1, <1>2, <1>3, <1>4, EvictEffect DEF Coherent

---------------------------------------------------------------------------
(* What the host holds for a connection while and after it serves it.      *)

(* The teardown releases what the connection owned and nothing else. *)
LEMMA FinishOwned ==
  ASSUME TypeInv, OwnedInv, NEW c \in Conns, NEW s \in [Conns -> Sessions],
         \A d \in Conns : s[d].phase = sess[d].phase,
         pc[c] \in Serving, Finish(c, s)
  PROVE  OwnedInv'
<1> USE DEF TypeInv, TypeOK, Bound
<1>1. runOf[c] \in Runs
  BY DEF Serving
<1>2. registry' = Released(registry, runOf[c], now)
  BY DEF Finish
<1>3. /\ registry'[runOf[c]].active = NoConn
      /\ \A r \in Runs \ {runOf[c]} : registry'[r].active = registry[r].active
      /\ Coherent(registry')
  BY <1>1, <1>2, ReleasedEffect DEF OwnedInv
<1>4. \A d \in Conns : sess'[d].phase # "NONE" => sess[d].phase # "NONE" /\ (d # c \/ down)
  BY DEF Finish, NoSession
<1>5. /\ pc' = [pc EXCEPT ![c] = "done"] /\ rec' = [rec EXCEPT ![c] = "NONE"]
      /\ down' = down /\ runOf' = runOf
  BY DEF Finish, Goto, hostVars
<1>6. NoConn \notin Conns
  BY RegistryAssumption
<1>7. ASSUME NEW d \in Conns, d # c
      PROVE  pc'[d] = pc[d] /\ rec'[d] = rec[d]
  BY <1>5, <1>7
<1>8. pc'[c] = "done" /\ rec'[c] = "NONE"
  BY <1>5
<1>9. \A r \in Runs : registry'[r].active # c
  BY <1>3, <1>6 DEF OwnedInv, Owned
<1>10. Owned'
  BY <1>1, <1>3, <1>4, <1>5, <1>6, <1>7, <1>8, <1>9 DEF OwnedInv, Owned
<1> QED BY <1>3, <1>10 DEF OwnedInv

(* A step that keeps attachments, sessions' existence and bindings, and moves
   one connection that is being served to another await. *)
LEMMA MoveOwned ==
  ASSUME TypeInv, OwnedInv, NEW c \in Conns, NEW label \in Serving, pc[c] \in Serving,
         Goto(c, label), down' = down, runOf' = runOf, Coherent(registry'),
         \A r \in Runs : registry'[r].active = registry[r].active,
         \A d \in Conns : (d # c) => sess'[d] = sess[d] /\ rec'[d] = rec[d],
         rec'[c] = "LIVE" => label \in Streaming \cup Ending
  PROVE  OwnedInv'
<1>1. pc'[c] = label /\ \A d \in Conns : d # c => pc'[d] = pc[d]
  BY DEF Goto, TypeInv, TypeOK
<1>2. Owned'
  BY <1>1 DEF OwnedInv, Owned
<1> QED BY <1>2 DEF OwnedInv

(* Every step keeps ownership. *)
LEMMA OwnedStep == TypeInv /\ OwnedInv /\ [Next]_vars => OwnedInv'
<1> SUFFICES ASSUME TypeInv, OwnedInv, [Next]_vars PROVE OwnedInv'
  OBVIOUS
<1>a. /\ registry \in [Runs -> Entries] /\ now \in Nat /\ sess \in [Conns -> Sessions]
      /\ pc \in [Conns -> PCs] /\ rec \in [Conns -> SessionStates]
      /\ runOf \in [Conns -> Runs \cup {NoRun}] /\ Coherent(registry)
      /\ \A c \in Conns : pc[c] \in {"accepting"} \cup Serving => runOf[c] \in Runs
  BY DEF TypeInv, TypeOK, Bound, OwnedInv
<1>b. NoConn \notin Conns
  BY RegistryAssumption
<1>s. /\ Coherent(Evict(registry, now))
      /\ \A r \in Runs : Evict(registry, now)[r].active = registry[r].active
  BY <1>a, EvictEffect
<1>1. CASE UNCHANGED vars
  BY <1>1 DEF vars, OwnedInv, Owned, Coherent
<1>2. CASE Elapse
  BY <1>2 DEF Elapse, OwnedInv, Owned, Coherent
<1>3. CASE Shutdown
  BY <1>3, <1>b DEF Shutdown, OwnedInv, Owned, Coherent, EmptyRegistry, Unknown
<1>4. ASSUME NEW r \in Runs, Launch(r) PROVE OwnedInv'
  <2>1. Coherent(registry') /\ \A k \in Runs : registry'[k].active = registry[k].active
    BY <1>4, <1>a, RegisterEffect DEF Launch
  <2> QED BY <1>4, <2>1 DEF Launch, OwnedInv, Owned
<1>5. ASSUME NEW c \in Conns, Serve(c) PROVE OwnedInv'
  <2>1. ASSUME Disconnected(c) \/ Abort(c) \/ CloseSent(c) PROVE OwnedInv'
    BY <2>1, <1>a, FinishOwned DEF Disconnected, Abort, CloseSent, Serving, Ending
  <2>2. CASE PeerDrop(c)
    BY <2>2 DEF PeerDrop, hostVars, OwnedInv, Owned, Coherent
  <2>3. CASE InternalError(c) \/ SendFails(c) \/ OutOfSequence(c) \/ Violation(c) \/ Forgotten(c)
    <3>1. pc[c] \in Serving /\ (Goto(c, "failing") \/ Goto(c, "closing"))
          /\ UNCHANGED <<down, registry, runOf, sess, rec>>
      BY <2>3 DEF InternalError, SendFails, OutOfSequence, Violation, Forgotten, hostVars, Serving,
                  Receiving, Replying, Ending
    <3> QED BY <3>1, <1>a, MoveOwned DEF Serving, Ending
  <2>4. CASE ErrorSent(c)
    <3>1. \A d \in Conns : d # c => sess'[d] = sess[d]
      BY <2>4, <1>a DEF ErrorSent
    <3>2. pc[c] \in Serving /\ UNCHANGED <<down, registry, runOf, rec>> /\ Goto(c, "closing")
      BY <2>4 DEF ErrorSent, hostVars, Serving, Ending
    <3> QED BY <3>1, <3>2, <1>a, MoveOwned DEF Serving, Ending
  <2>5. CASE RefuseConnect(c) \/ \E r \in Runs : RejectConnect(c, r)
    <3>1. /\ pc[c] = "idle" /\ Goto(c, "done") /\ UNCHANGED <<down, runOf, sess, rec>>
          /\ Coherent(registry') /\ \A r \in Runs : registry'[r].active = registry[r].active
      BY <2>5, <1>a, <1>s DEF RefuseConnect, RejectConnect, hostVars
    <3>2. rec[c] = "NONE" /\ (sess[c].phase = "NONE" \/ down)
          /\ \A r \in Runs : registry[r].active # c
      BY <3>1 DEF OwnedInv, Owned, Serving, Receiving, Replying, Ending
    <3> QED BY <3>1, <3>2, <1>a DEF Goto, OwnedInv, Owned
  <2>6. ASSUME NEW r \in Runs, Connect(c, r) PROVE OwnedInv'
    <3>1. /\ pc[c] = "idle" /\ Goto(c, "accepting") /\ UNCHANGED <<down, rec>>
          /\ runOf' = [runOf EXCEPT ![c] = r]
          /\ \A d \in Conns : d # c => sess'[d] = sess[d]
          /\ Coherent(registry') /\ \A k \in Runs : registry'[k].active = registry[k].active
      BY <2>6, <1>a, <1>s DEF Connect, hostVars
    <3>2. rec[c] = "NONE" /\ \A k \in Runs : registry[k].active # c
      BY <3>1 DEF OwnedInv, Owned, Serving, Receiving, Replying, Ending
    <3> QED BY <3>1, <3>2, <1>a DEF Goto, OwnedInv, Owned
  <2>7. CASE Accepted(c)
    <3> DEFINE k == runOf[c]
    <3>1. k \in Runs
      BY <2>7, <1>a DEF Accepted
    <3>2. registry' = Attach(registry, k, c, now)
      BY <2>7 DEF Accepted
    <3>3. /\ registry'[k].active \in {c, NoConn}
          /\ \A r \in Runs \ {k} : registry'[r].active = registry[r].active
          /\ Coherent(registry')
      BY <3>1, <3>2, <1>a, AttachEffect
    <3>4. /\ pc[c] = "accepting" /\ Goto(c, "awaitHello") /\ UNCHANGED <<down, runOf>>
          /\ rec' = [rec EXCEPT ![c] = "HANDSHAKING"]
          /\ \A d \in Conns : d # c => sess'[d] = sess[d]
      BY <2>7, <1>a DEF Accepted, hostVars
    <3>5. pc'[c] = "awaitHello" /\ rec'[c] = "HANDSHAKING"
          /\ \A d \in Conns : d # c => pc'[d] = pc[d] /\ rec'[d] = rec[d]
      BY <3>4, <1>a DEF Goto
    <3>6. \A r \in Runs : registry[r].active # c
      BY <3>4 DEF OwnedInv, Owned, Serving, Receiving, Replying, Ending
    <3>7. \A d \in Conns, r \in Runs : registry'[r].active = d => pc'[d] \in Serving /\ runOf'[d] = r
      BY <3>1, <3>3, <3>4, <3>5, <3>6, <1>b DEF OwnedInv, Owned, Serving, Receiving
    <3> QED BY <3>3, <3>4, <3>5, <3>7 DEF OwnedInv, Owned, Serving, Receiving
  <2>8. CASE AcceptFails(c)
    <3>1. pc[c] = "accepting" /\ Goto(c, "gone") /\ UNCHANGED <<down, registry, runOf, sess, rec>>
      BY <2>8 DEF AcceptFails, hostVars
    <3>2. rec[c] = "NONE" /\ \A r \in Runs : registry[r].active # c
      BY <3>1 DEF OwnedInv, Owned, Serving, Receiving, Replying, Ending
    <3> QED BY <3>1, <3>2, <1>a DEF Goto, OwnedInv, Owned, Coherent
  <2>9. CASE \/ Chatter(c) \/ CommandWithoutRun(c)
             \/ \E target \in 0..(MaxTick + 2) :
                  \/ CommandOffTime(c, target)
                  \/ \E accepted, changes \in BOOLEAN : Command(c, target, accepted, changes)
    <3>1. /\ pc[c] = "live" /\ UNCHANGED <<down, runOf, sess, rec>>
          /\ Goto(c, "replySending") \/ Goto(c, "ackSending") \/ Goto(c, "failing")
          /\ Coherent(registry') /\ \A r \in Runs : registry'[r].active = registry[r].active
      BY <2>9, <1>a, <1>s DEF Chatter, CommandWithoutRun, CommandOffTime, Command, hostVars
    <3> QED BY <3>1, MoveOwned DEF Serving, Receiving, Replying, Ending, Streaming
  <2>10. CASE ViewerHello(c) \/ \E onJoin \in BOOLEAN : Subscribe(c, onJoin)
    <3>1. /\ pc[c] \in {"awaitHello", "awaitSubscribe"} /\ UNCHANGED <<down, registry, runOf, rec>>
          /\ Goto(c, "helloSending") \/ Goto(c, "subscribedSending")
          /\ \A d \in Conns : d # c => sess'[d] = sess[d]
      BY <2>10, <1>a DEF ViewerHello, Subscribe, hostVars
    <3>2. rec[c] # "LIVE"
      BY <3>1 DEF OwnedInv, Owned, Streaming, Ending
    <3> QED BY <3>1, <3>2, <1>a, MoveOwned DEF Serving, Receiving, Replying
  <2>11. CASE SendSnapshot(c)
    <3>1. /\ pc[c] = "subscribedSending" /\ UNCHANGED <<down, runOf, sess, rec>>
          /\ Goto(c, "snapshotSending") \/ Goto(c, "failing")
          /\ Coherent(registry') /\ \A r \in Runs : registry'[r].active = registry[r].active
      BY <2>11, <1>s DEF SendSnapshot, hostVars
    <3>2. rec[c] # "LIVE"
      BY <3>1 DEF OwnedInv, Owned, Streaming, Ending
    <3> QED BY <3>1, <3>2, MoveOwned DEF Serving, Replying, Ending
  <2>12. CASE HelloSent(c) \/ BaselineRequired(c)
    <3>1. pc[c] \in Serving
      BY <2>12 DEF HelloSent, BaselineRequired, Serving, Replying
    <3>2. CASE Tracked(c)
      <4>1. /\ UNCHANGED <<down, registry, runOf, sess>>
            /\ \/ Goto(c, "awaitSubscribe") /\ rec' = [rec EXCEPT ![c] = "HELLO_VERIFIED"]
               \/ Goto(c, "closing") /\ rec' = [rec EXCEPT ![c] = "SUBSCRIBED"]
        BY <2>12, <3>2 DEF HelloSent, BaselineRequired, hostVars
      <4>2. rec'[c] # "LIVE" /\ \A d \in Conns : d # c => rec'[d] = rec[d]
        BY <4>1, <1>a
      <4> QED BY <3>1, <4>1, <4>2, <1>a, MoveOwned DEF Serving, Receiving, Ending
    <3> QED BY <2>12, <3>1, <3>2, <1>a, FinishOwned DEF HelloSent, BaselineRequired
  <2>13. CASE SnapshotSent(c)
    <3>1. pc[c] \in Serving
      BY <2>13 DEF SnapshotSent, Serving, Replying
    <3>2. \A d \in Conns : WithBaseline(sess, c)[d].phase = sess[d].phase
      BY <1>a DEF WithBaseline, Sessions
    <3>3. WithBaseline(sess, c) \in [Conns -> Sessions]
      BY <1>a DEF WithBaseline, Sessions, TypeInv, TypeOK
    <3>4. CASE Tracked(c)
      <4>1. registry' = Touch(registry, runOf[c], now)
        BY <2>13, <3>4 DEF SnapshotSent
      <4>2. Coherent(registry') /\ \A r \in Runs : registry'[r].active = registry[r].active
        BY <4>1, <3>1, <1>a, TouchEffect
      <4>3. sess' = WithBaseline(sess, c) /\ rec' = [rec EXCEPT ![c] = "LIVE"] /\ Goto(c, "live")
            /\ UNCHANGED <<down, runOf>>
        BY <2>13, <3>4 DEF SnapshotSent, hostVars
      <4>4. \A d \in Conns : d # c => sess'[d] = sess[d] /\ rec'[d] = rec[d]
        BY <4>3, <1>a DEF WithBaseline
      <4> QED BY <3>1, <4>2, <4>3, <4>4, MoveOwned DEF Serving, Receiving, Streaming
    <3>5. CASE ~Tracked(c)
      <4>1. Finish(c, WithBaseline(sess, c))
        BY <2>13, <3>5 DEF SnapshotSent
      <4> QED BY <3>1, <3>2, <3>3, <4>1, FinishOwned
    <3> QED BY <3>4, <3>5
  <2>14. CASE ReplySent(c) \/ DiffSent(c)
    <3>1. pc[c] \in Serving
      BY <2>14 DEF ReplySent, DiffSent, Serving, Replying
    <3>2. CASE Tracked(c)
      <4>1. /\ registry' = Touch(registry, runOf[c], now)
            /\ Goto(c, "live") /\ UNCHANGED <<down, runOf, sess, rec>>
        BY <2>14, <3>2 DEF ReplySent, DiffSent, hostVars
      <4>2. Coherent(registry') /\ \A r \in Runs : registry'[r].active = registry[r].active
        BY <4>1, <3>1, <1>a, TouchEffect
      <4> QED BY <3>1, <4>1, <4>2, MoveOwned DEF Serving, Receiving, Streaming
    <3> QED BY <2>14, <3>1, <3>2, <1>a, FinishOwned DEF ReplySent, DiffSent
  <2>15. CASE AckSent(c)
    <3>1. pc[c] \in Serving
      BY <2>15 DEF AckSent, Serving, Replying
    <3>2. CASE Tracked(c)
      <4>1. /\ Goto(c, "diffSending") \/ Goto(c, "failing")
            /\ UNCHANGED <<down, runOf, rec>>
            /\ \A d \in Conns : d # c => sess'[d] = sess[d]
            /\ registry' = Evict(registry, now)
        BY <2>15, <3>2, <1>a DEF AckSent, hostVars
      <4> QED BY <3>1, <4>1, <1>s, MoveOwned DEF Serving, Replying, Ending, Streaming
    <3> QED BY <2>15, <3>1, <3>2, <1>a, FinishOwned DEF AckSent
  <2> QED
    BY <1>5, <2>1, <2>2, <2>3, <2>4, <2>5, <2>6, <2>7, <2>8, <2>9, <2>10, <2>11, <2>12, <2>13, <2>14,
       <2>15
    DEF Serve, SendDone, Receive, Fault
<1> QED BY <1>1, <1>2, <1>3, <1>4, <1>5 DEF Next

---------------------------------------------------------------------------
(* What a viewer was sent.                                                 *)

\* Where the connection stands, what it was sent and what its session holds.
KeepsViewers(c) ==
  /\ \A d \in Conns : d # c => pc'[d] = pc[d] /\ sess'[d] = sess[d]
  /\ payload' = payload /\ sent' = sent /\ acked' = acked /\ runOf' = runOf /\ pos' = pos

(* Ending a connection disturbs no viewer's stream. *)
LEMMA EndStream ==
  ASSUME TypeInv, StreamInv, NEW c \in Conns, KeepsViewers(c),
         pc'[c] \in {"done", "gone"} \cup Ending
  PROVE  StreamInv'
<1> USE DEF KeepsViewers
<1>1. NothingYet'
  BY DEF StreamInv, NothingYet, BeforeBaseline, Ending
<1>2. Held'
  BY DEF StreamInv, Held, Streaming, Ending
<1>3. NotAhead'
  BY DEF StreamInv, NotAhead
<1>4. AckedSent'
  BY DEF StreamInv, AckedSent, Ending
<1> QED BY <1>1, <1>2, <1>3, <1>4 DEF StreamInv

(* The teardown disturbs no viewer's stream. *)
LEMMA FinishStream ==
  ASSUME TypeInv, StreamInv, NEW c \in Conns, NEW s \in [Conns -> Sessions],
         \A d \in Conns : d # c => s[d] = sess[d], Finish(c, s)
  PROVE  StreamInv'
<1>1. KeepsViewers(c) /\ pc'[c] = "done"
  BY DEF Finish, Goto, KeepsViewers, viewVars, TypeInv, TypeOK
<1> QED BY <1>1, EndStream

(* Waiting elsewhere with the same stream: allowed between the awaits before the
   baseline, and between those after it that owe no diff. *)
LEMMA MoveStream ==
  ASSUME TypeInv, StreamInv, NEW c \in Conns, NEW label, Goto(c, label),
         payload' = payload, sent' = sent, acked' = acked, runOf' = runOf, pos' = pos,
         \A d \in Conns : sess'[d].cursor = sess[d].cursor,
         \A d \in Conns : d # c => sess'[d] = sess[d],
         \/ /\ pc[c] \in BeforeBaseline /\ label \in BeforeBaseline
            /\ label = "subscribedSending" =>
                 sess'[c].protocol = "SUBSCRIBED" /\ sess'[c].phase = "SUBSCRIBED"
         \/ /\ pc[c] \in {"live", "replySending", "diffSending"}
            /\ label \in {"live", "replySending"} /\ sess'[c] = sess[c]
  PROVE  StreamInv'
<1>1. pc'[c] = label /\ \A d \in Conns : d # c => pc'[d] = pc[d]
  BY DEF Goto, TypeInv, TypeOK
<1>2. NothingYet'
  BY <1>1 DEF StreamInv, NothingYet, BeforeBaseline
<1>3. Held'
  BY <1>1 DEF StreamInv, Held, Streaming, BeforeBaseline
<1>4. NotAhead'
  BY DEF StreamInv, NotAhead
<1>5. AckedSent'
  BY <1>1 DEF StreamInv, AckedSent, BeforeBaseline
<1> QED BY <1>2, <1>3, <1>4, <1>5 DEF StreamInv

(* Every step keeps the viewers' streams. *)
LEMMA StreamStep == TypeInv /\ StreamInv /\ [Next]_vars => StreamInv'
<1> SUFFICES ASSUME TypeInv, StreamInv, [Next]_vars PROVE StreamInv'
  OBVIOUS
<1>a. /\ sess \in [Conns -> Sessions] /\ pc \in [Conns -> PCs] /\ pos \in [Runs -> Positions]
      /\ runOf \in [Conns -> Runs \cup {NoRun}] /\ acked \in [Conns -> Nat]
      /\ sent \in [Conns -> Positions \cup {Nothing}]
      /\ payload \in [Conns -> Positions \cup {Nothing}]
      /\ \A c \in Conns : pc[c] \in {"accepting"} \cup Serving => runOf[c] \in Runs
  BY DEF TypeInv, TypeOK, Bound
<1>1. CASE UNCHANGED vars
  BY <1>1 DEF vars, StreamInv, NothingYet, Held, NotAhead, AckedSent
<1>2. CASE Elapse \/ Shutdown \/ (\E r \in Runs : Launch(r))
  <2>1. UNCHANGED <<pc, sess, payload, sent, acked, runOf, pos>>
    BY <1>2 DEF Elapse, Shutdown, Launch, viewVars
  <2> QED BY <2>1 DEF StreamInv, NothingYet, Held, NotAhead, AckedSent
<1>3. ASSUME NEW c \in Conns, Serve(c) PROVE StreamInv'
  <2>1. ASSUME Disconnected(c) \/ Abort(c) \/ CloseSent(c) PROVE StreamInv'
    BY <2>1, <1>a, FinishStream DEF Disconnected, Abort, CloseSent
  <2>2. CASE PeerDrop(c)
    <3>1. UNCHANGED <<pc, sess, payload, sent, acked, runOf, pos>>
      BY <2>2 DEF PeerDrop, hostVars, viewVars
    <3> QED BY <3>1 DEF StreamInv, NothingYet, Held, NotAhead, AckedSent
  <2>3. CASE \/ InternalError(c) \/ SendFails(c) \/ OutOfSequence(c) \/ Violation(c) \/ Forgotten(c)
             \/ ErrorSent(c) \/ RefuseConnect(c) \/ (\E r \in Runs : RejectConnect(c, r))
             \/ AcceptFails(c) \/ CommandWithoutRun(c)
    <3>1. KeepsViewers(c) /\ pc'[c] \in {"done", "gone"} \cup Ending
      BY <2>3, <1>a
      DEF KeepsViewers, InternalError, SendFails, OutOfSequence, Violation, Forgotten, ErrorSent,
          RefuseConnect, RejectConnect, AcceptFails, CommandWithoutRun, Goto, viewVars, Ending
    <3> QED BY <3>1, EndStream
  <2>4. ASSUME NEW r \in Runs, Connect(c, r) PROVE StreamInv'
    <3>1. /\ pc[c] = "idle" /\ pc' = [pc EXCEPT ![c] = "accepting"]
          /\ UNCHANGED <<payload, sent, acked, pos>> /\ runOf' = [runOf EXCEPT ![c] = r]
          /\ \A d \in Conns : sess'[d].cursor = sess[d].cursor
          /\ \A d \in Conns : d # c => sess'[d] = sess[d]
      BY <2>4, <1>a DEF Connect, Goto, viewVars, Sessions
    <3>2. sent[c] = Nothing /\ sess[c].cursor = Nothing /\ acked[c] = 0
      BY <3>1 DEF StreamInv, NothingYet, BeforeBaseline
    <3>3. pc'[c] = "accepting" /\ \A d \in Conns : d # c => pc'[d] = pc[d] /\ runOf'[d] = runOf[d]
      BY <3>1, <1>a
    <3>4. NothingYet' /\ Held'
      BY <3>1, <3>2, <3>3 DEF StreamInv, NothingYet, Held, Streaming
    <3>5. NotAhead' /\ AckedSent'
      BY <3>1, <3>2, <3>3 DEF StreamInv, NotAhead, AckedSent
    <3> QED BY <3>4, <3>5 DEF StreamInv
  <2>5. CASE Accepted(c)
    <3>1. \A d \in Conns : sess'[d].cursor = sess[d].cursor /\ (d # c => sess'[d] = sess[d])
      BY <2>5, <1>a DEF Accepted, Sessions
    <3> QED BY <2>5, <3>1, MoveStream DEF Accepted, viewVars, BeforeBaseline
  <2>6. CASE ViewerHello(c)
    <3>1. \A d \in Conns : sess'[d].cursor = sess[d].cursor /\ (d # c => sess'[d] = sess[d])
      BY <2>6, <1>a DEF ViewerHello, Sessions
    <3> QED BY <2>6, <3>1, MoveStream DEF ViewerHello, viewVars, BeforeBaseline
  <2>7. ASSUME NEW onJoin \in BOOLEAN, Subscribe(c, onJoin) PROVE StreamInv'
    <3>1. /\ \A d \in Conns : sess'[d].cursor = sess[d].cursor /\ (d # c => sess'[d] = sess[d])
          /\ sess'[c].protocol = "SUBSCRIBED" /\ sess'[c].phase = "SUBSCRIBED"
      BY <2>7, <1>a DEF Subscribe, Sessions
    <3> QED BY <2>7, <3>1, MoveStream DEF Subscribe, viewVars, BeforeBaseline
  <2>8. CASE HelloSent(c)
    <3>1. CASE Tracked(c)
      BY <2>8, <3>1, MoveStream DEF HelloSent, viewVars, BeforeBaseline
    <3> QED BY <2>8, <3>1, <1>a, FinishStream DEF HelloSent
  <2>9. CASE BaselineRequired(c)
    <3>1. CASE Tracked(c)
      <4>1. KeepsViewers(c) /\ pc'[c] = "closing"
        BY <2>9, <3>1, <1>a DEF BaselineRequired, KeepsViewers, Goto, viewVars
      <4> QED BY <4>1, EndStream DEF Ending
    <3> QED BY <2>9, <3>1, <1>a, FinishStream DEF BaselineRequired
  <2>10. CASE SendSnapshot(c)
    <3> DEFINE r == runOf[c]
    <3>1. CASE Evict(registry, now)[r].known
      <4>1. r \in Runs /\ pos[r] \in Positions /\ pc[c] = "subscribedSending"
        BY <2>10, <1>a DEF SendSnapshot, Serving, Replying
      <4>2. /\ pc' = [pc EXCEPT ![c] = "snapshotSending"]
            /\ payload' = [payload EXCEPT ![c] = pos[r]] /\ sent' = [sent EXCEPT ![c] = pos[r]]
            /\ UNCHANGED <<pos, runOf, sess, acked>>
        BY <2>10, <3>1 DEF SendSnapshot, Goto
      <4>3. /\ pc'[c] = "snapshotSending" /\ payload'[c] = pos[r] /\ sent'[c] = pos[r]
            /\ \A d \in Conns : d # c => /\ pc'[d] = pc[d] /\ payload'[d] = payload[d]
                                         /\ sent'[d] = sent[d]
        BY <4>2, <1>a
      <4>4. NothingYet' /\ AckedSent'
        BY <4>2, <4>3 DEF StreamInv, NothingYet, AckedSent, BeforeBaseline
      <4>5. Held'
        BY <4>1, <4>2, <4>3 DEF StreamInv, Held, NothingYet, Streaming, BeforeBaseline
      <4>6. pos[r].tick <= pos[r].tick /\ pos[r].ver <= pos[r].ver
        BY <4>1 DEF Positions
      <4>7. NotAhead'
        BY <4>1, <4>2, <4>3, <4>6 DEF StreamInv, NotAhead
      <4> QED BY <4>4, <4>5, <4>7 DEF StreamInv
    <3>2. CASE ~Evict(registry, now)[r].known
      <4>1. KeepsViewers(c) /\ pc'[c] = "failing"
        BY <2>10, <3>2, <1>a DEF SendSnapshot, KeepsViewers, Goto
      <4> QED BY <4>1, EndStream DEF Ending
    <3> QED BY <3>1, <3>2
  <2>11. CASE SnapshotSent(c)
    <3> DEFINE based == WithBaseline(sess, c)
    <3>1. /\ based \in [Conns -> Sessions] /\ based[c].cursor = payload[c]
          /\ based[c].protocol = sess[c].protocol /\ based[c].phase = sess[c].phase
          /\ \A d \in Conns : d # c => based[d] = sess[d]
      BY <1>a DEF WithBaseline, Sessions
    <3>2. CASE Tracked(c)
      <4>1. /\ pc[c] = "snapshotSending" /\ pc' = [pc EXCEPT ![c] = "live"] /\ sess' = based
            /\ UNCHANGED <<pos, runOf, payload, sent, acked>>
        BY <2>11, <3>2 DEF SnapshotSent, Goto, viewVars
      <4>2. pc'[c] = "live" /\ \A d \in Conns : d # c => pc'[d] = pc[d] /\ sess'[d] = sess[d]
        BY <4>1, <3>1, <1>a
      <4>3. sess'[c].cursor = sent[c] /\ sess'[c].protocol = "SUBSCRIBED"
            /\ sess'[c].phase = "SUBSCRIBED" /\ sent[c] \in Positions /\ acked[c] = 0
        BY <4>1, <3>1 DEF StreamInv, Held, Streaming
      <4> HIDE DEF based
      <4>4. NothingYet' /\ NotAhead'
        BY <4>1, <4>2 DEF StreamInv, NothingYet, NotAhead, BeforeBaseline
      <4>5. Held'
        BY <4>1, <4>2, <4>3 DEF StreamInv, Held, Streaming
      <4>6. 0 <= sent[c].ver
        BY <4>3 DEF Positions
      <4>7. AckedSent'
        BY <4>1, <4>2, <4>3, <4>6 DEF StreamInv, AckedSent
      <4> QED BY <4>4, <4>5, <4>7 DEF StreamInv
    <3>3. CASE ~Tracked(c)
      <4>1. Finish(c, based)
        BY <2>11, <3>3 DEF SnapshotSent
      <4> QED BY <3>1, <4>1, FinishStream
    <3> QED BY <3>2, <3>3
  <2>12. CASE Chatter(c) \/ \E target \in 0..(MaxTick + 2) : CommandOffTime(c, target)
    BY <2>12, MoveStream DEF Chatter, CommandOffTime, viewVars
  <2>13. ASSUME NEW target \in 0..(MaxTick + 2), NEW accepted \in BOOLEAN, NEW changes \in BOOLEAN,
                Command(c, target, accepted, changes)
         PROVE  StreamInv'
    <3> DEFINE r == runOf[c]
               ver == pos[r].ver + IF changes THEN 1 ELSE 0
               label == IF accepted THEN "ackSending" ELSE "replySending"
    <3>1. r \in Runs /\ pos[r] \in Positions /\ pc[c] = "live"
      BY <2>13, <1>a DEF Command, Serving, Receiving
    <3>2. ver \in Nat /\ pos[r].ver <= ver
      BY <3>1 DEF Positions
    <3>3. /\ pc' = [pc EXCEPT ![c] = label]
          /\ pos' = [pos EXCEPT ![r] = [pos[r] EXCEPT !.ver = ver]]
          /\ acked' = [acked EXCEPT ![c] = IF accepted THEN ver ELSE acked[c]]
          /\ UNCHANGED <<runOf, sess, payload, sent>>
      BY <2>13, <1>a DEF Command, Goto
    <3> HIDE DEF ver, label
    <3>4. /\ \A k \in Runs : pos'[k].tick = pos[k].tick /\ pos[k].ver <= pos'[k].ver
          /\ pos'[r].ver = ver
      BY <3>1, <3>2, <3>3, <1>a DEF Positions
    <3>5. /\ pc'[c] = label /\ label \in {"ackSending", "replySending"}
          /\ acked'[c] = IF accepted THEN ver ELSE acked[c]
          /\ \A d \in Conns : d # c => pc'[d] = pc[d] /\ acked'[d] = acked[d]
      BY <3>3, <1>a DEF label
    <3>6. NothingYet'
      BY <3>3, <3>5 DEF StreamInv, NothingYet, BeforeBaseline
    <3>7. Held'
      BY <3>1, <3>3, <3>5 DEF StreamInv, Held, Streaming
    <3>8. NotAhead'
      <4> SUFFICES ASSUME NEW d \in Conns, sent[d] # Nothing
                   PROVE  /\ sent[d] \in Positions /\ runOf[d] \in Runs
                          /\ sent[d].tick <= pos'[runOf[d]].tick
                          /\ sent[d].ver <= pos'[runOf[d]].ver
        BY <3>3 DEF NotAhead
      <4>1. /\ sent[d] \in Positions /\ runOf[d] \in Runs
            /\ sent[d].tick <= pos[runOf[d]].tick /\ sent[d].ver <= pos[runOf[d]].ver
        BY DEF StreamInv, NotAhead
      <4>2. pos[runOf[d]] \in Positions /\ pos'[runOf[d]].ver \in Nat
        BY <4>1, <3>1, <3>2, <3>3, <1>a DEF Positions
      <4> QED BY <4>1, <4>2, <3>4 DEF Positions
    <3>9. AckedSent'
      <4>1. \A d \in Conns : d # c /\ pc[d] = "ackSending" => acked[d] <= pos'[runOf[d]].ver
        <5> SUFFICES ASSUME NEW d \in Conns, d # c, pc[d] = "ackSending"
                     PROVE  acked[d] <= pos'[runOf[d]].ver
          OBVIOUS
        <5>1. runOf[d] \in Runs /\ acked[d] \in Nat /\ acked[d] <= pos[runOf[d]].ver
          BY <1>a DEF StreamInv, AckedSent, Serving, Replying
        <5>2. pos[runOf[d]].ver \in Nat /\ pos'[runOf[d]].ver \in Nat
          BY <5>1, <3>1, <3>2, <3>3, <1>a DEF Positions
        <5> QED BY <5>1, <5>2, <3>4
      <4>2. accepted => acked'[c] <= pos'[runOf[c]].ver
        BY <3>2, <3>4, <3>5
      <4>3. ~accepted => acked'[c] <= sent[c].ver /\ label = "replySending"
        BY <3>1, <3>5 DEF StreamInv, AckedSent, label
      <4>4. accepted => label = "ackSending"
        BY DEF label
      <4> QED BY <3>1, <3>3, <3>5, <4>1, <4>2, <4>3, <4>4 DEF StreamInv, AckedSent
    <3> QED BY <3>6, <3>7, <3>8, <3>9 DEF StreamInv
  <2>14. CASE ReplySent(c) \/ DiffSent(c)
    <3>1. CASE Tracked(c)
      BY <2>14, <3>1, MoveStream DEF ReplySent, DiffSent, viewVars
    <3> QED BY <2>14, <3>1, <1>a, FinishStream DEF ReplySent, DiffSent
  <2>15. CASE AckSent(c)
    <3> DEFINE r == runOf[c]
               next == Advanced(pos[r])
    <3>1. r \in Runs /\ pos[r] \in Positions /\ pc[c] = "ackSending"
      BY <2>15, <1>a DEF AckSent, Serving, Replying
    <3>2. next \in Positions /\ next.tick = pos[r].tick + 1 /\ next.ver = pos[r].ver
      BY <3>1 DEF Advanced, Positions
    <3>3. ASSUME Tracked(c)
          PROVE  /\ runOf' = runOf /\ payload' = payload /\ acked' = acked
                 /\ pos' \in {pos, [pos EXCEPT ![r] = next]}
                 /\ \/ /\ pc' = [pc EXCEPT ![c] = "diffSending"]
                       /\ sess' = [sess EXCEPT ![c] = [sess[c] EXCEPT !.cursor = next]]
                       /\ sent' = [sent EXCEPT ![c] = next]
                       /\ pos' = [pos EXCEPT ![r] = next]
                    \/ pc' = [pc EXCEPT ![c] = "failing"] /\ UNCHANGED <<sess, sent>>
      BY <2>15, <3>3, <1>a DEF AckSent, Goto, DiffTarget
    <3> HIDE DEF next
    <3>4. ASSUME Tracked(c)
          PROVE  \A k \in Runs : /\ pos'[k] \in Positions
                                 /\ pos[k].tick <= pos'[k].tick /\ pos[k].ver <= pos'[k].ver
      BY <3>1, <3>2, <3>3, <3>4, <1>a DEF Positions
    <3>5. ASSUME Tracked(c), NEW d \in Conns, sent[d] # Nothing
          PROVE  /\ sent[d] \in Positions /\ runOf[d] \in Runs
                 /\ sent[d].tick <= pos'[runOf[d]].tick /\ sent[d].ver <= pos'[runOf[d]].ver
      <4>1. /\ sent[d] \in Positions /\ runOf[d] \in Runs
            /\ sent[d].tick <= pos[runOf[d]].tick /\ sent[d].ver <= pos[runOf[d]].ver
        BY <3>5 DEF StreamInv, NotAhead
      <4> QED BY <4>1, <3>4, <3>5, <1>a DEF Positions
    <3>6. ASSUME Tracked(c), NEW d \in Conns, pc[d] = "ackSending"
          PROVE  acked[d] <= pos'[runOf[d]].ver
      <4>1. runOf[d] \in Runs /\ acked[d] \in Nat /\ acked[d] <= pos[runOf[d]].ver
        BY <3>6, <1>a DEF StreamInv, AckedSent, Serving, Replying
      <4> QED BY <4>1, <3>4, <3>6, <1>a DEF Positions
    <3>7. CASE Tracked(c) /\ pc' = [pc EXCEPT ![c] = "failing"] /\ UNCHANGED <<sess, sent>>
      <4>1. pc'[c] = "failing" /\ \A d \in Conns : d # c => pc'[d] = pc[d]
        BY <3>7, <1>a
      <4>2. NothingYet' /\ Held'
        BY <3>3, <3>7, <4>1 DEF StreamInv, NothingYet, Held, BeforeBaseline, Streaming
      <4>3. NotAhead'
        BY <3>3, <3>5, <3>7 DEF NotAhead
      <4>4. AckedSent'
        BY <3>3, <3>6, <3>7, <4>1 DEF StreamInv, AckedSent
      <4> QED BY <4>2, <4>3, <4>4 DEF StreamInv
    <3>8. CASE /\ Tracked(c) /\ pc' = [pc EXCEPT ![c] = "diffSending"]
               /\ sess' = [sess EXCEPT ![c] = [sess[c] EXCEPT !.cursor = next]]
               /\ sent' = [sent EXCEPT ![c] = next] /\ pos' = [pos EXCEPT ![r] = next]
      <4>1. /\ pc'[c] = "diffSending" /\ sent'[c] = next /\ pos'[r] = next
            /\ sess'[c].cursor = next
            /\ sess'[c].protocol = sess[c].protocol /\ sess'[c].phase = sess[c].phase
            /\ \A d \in Conns : d # c => pc'[d] = pc[d] /\ sess'[d] = sess[d] /\ sent'[d] = sent[d]
        BY <3>1, <3>8, <1>a DEF Sessions
      <4>2. NothingYet'
        BY <3>3, <3>8, <4>1 DEF StreamInv, NothingYet, BeforeBaseline
      <4>3. Held'
        BY <3>1, <3>2, <3>3, <3>8, <4>1 DEF StreamInv, Held, Streaming
      <4>4. next.tick <= next.tick /\ next.ver <= next.ver
        BY <3>2 DEF Positions
      <4>5. NotAhead'
        BY <3>1, <3>2, <3>3, <3>5, <3>8, <4>1, <4>4 DEF NotAhead
      <4>6. acked[c] <= next.ver
        BY <3>1, <3>2 DEF StreamInv, AckedSent
      <4>7. AckedSent'
        BY <3>3, <3>6, <3>8, <4>1, <4>6 DEF StreamInv, AckedSent
      <4> QED BY <4>2, <4>3, <4>5, <4>7 DEF StreamInv
    <3>9. CASE ~Tracked(c)
      BY <2>15, <3>9, <1>a, FinishStream DEF AckSent
    <3> QED BY <3>3, <3>7, <3>8, <3>9
  <2> QED
    BY <1>3, <2>1, <2>2, <2>3, <2>4, <2>5, <2>6, <2>7, <2>8, <2>9, <2>10, <2>11, <2>12, <2>13, <2>14,
       <2>15
    DEF Serve, SendDone, Receive, Fault
<1> QED BY <1>1, <1>2, <1>3 DEF Next

(* Initially nobody was sent anything. *)
LEMMA StreamInit == Init => StreamInv
<1> SUFFICES ASSUME Init PROVE StreamInv
  OBVIOUS
<1>1. \A c \in Conns : /\ pc[c] = "idle" /\ sent[c] = Nothing /\ acked[c] = 0
                       /\ sess[c].cursor = Nothing
  BY DEF Init, NoSession
<1> QED BY <1>1 DEF StreamInv, NothingYet, Held, NotAhead, AckedSent, Streaming

(* Nobody owns anything initially. *)
LEMMA OwnedInit == Init => OwnedInv
  BY RegistryAssumption
  DEF Init, OwnedInv, Owned, Coherent, EmptyRegistry, Unknown, NoSession

(* A connection that was torn down leaves no session, no record and no run
   attached to it. *)
THEOREM ResidueFree == Spec => []NoResidue
<1>1. TypeInv /\ OwnedInv => NoResidue
  BY DEF OwnedInv, Owned, NoResidue, TypeInv, TypeOK, Serving, Receiving, Replying, Ending
<1> QED BY <1>1, TypeInit, OwnedInit, TypeStep, OwnedStep, PTL DEF Spec

(* The state a live session diffs against is the one its viewer was last sent. *)
THEOREM DiffBaseCorrect == Spec => []DiffBaseIsViewersState
<1>1. StreamInv => DiffBaseIsViewersState
  BY DEF StreamInv, Held, DiffBaseIsViewersState
<1> QED BY <1>1, TypeInit, StreamInit, TypeStep, StreamStep, PTL DEF Spec

(* A viewer the host listens to was sent the effect of all it accepted from it. *)
THEOREM AckedAreSent == Spec => []AckedCommandsReachViewer
<1>1. TypeInv /\ StreamInv => AckedCommandsReachViewer
  <2> SUFFICES ASSUME TypeInv, StreamInv, NEW c \in Conns, pc[c] = "live"
               PROVE  sent[c].ver >= acked[c]
    BY DEF AckedCommandsReachViewer
  <2>1. sent[c].ver \in Nat /\ acked[c] \in Nat
    BY DEF StreamInv, Held, Streaming, Positions, TypeInv, TypeOK
  <2>2. acked[c] <= sent[c].ver
    BY DEF StreamInv, AckedSent
  <2> QED BY <2>1, <2>2
<1> QED BY <1>1, TypeInit, StreamInit, TypeStep, StreamStep, PTL DEF Spec

(* A record is LIVE only over a subscribed session that has its baseline. *)
THEOREM LiveRecordsAreSound == Spec => []LiveRecordHasBaseline
<1>1. StreamInv /\ OwnedInv => LiveRecordHasBaseline
  <2>1. Nothing \notin Positions
    BY DEF Nothing, Positions
  <2> QED BY <2>1 DEF StreamInv, Held, OwnedInv, Owned, LiveRecordHasBaseline
<1> QED BY <1>1, TypeInit, StreamInit, OwnedInit, TypeStep, StreamStep, OwnedStep, PTL DEF Spec

(* A viewer with its baseline is only ever sent the next tick. *)
LEMMA SentStep == TypeInv /\ StreamInv /\ [Next]_vars => [NextTickOnly]_vars
<1> SUFFICES ASSUME TypeInv, StreamInv, Next, NEW c \in Conns, sent[c] # Nothing,
                    sent'[c] # sent[c]
             PROVE  sent'[c].tick = sent[c].tick + 1 /\ sent'[c].ver >= sent[c].ver
  BY DEF NextTickOnly
<1>1. PICK d \in Conns : SendSnapshot(d) \/ AckSent(d)
  <2>1. sent' # sent
    OBVIOUS
  <2>2. PICK d \in Conns : Serve(d)
    BY <2>1 DEF Next, Elapse, Shutdown, Launch, viewVars
  <2>3. ASSUME NEW t PROVE ~Finish(d, t)
    BY <2>1 DEF Finish, viewVars
  <2>4. ~(Receive(d) \/ Disconnected(d) \/ Fault(d))
    BY <2>1, <2>3
    DEF Receive, OutOfSequence, Violation, Forgotten, ViewerHello, Subscribe, Chatter,
        CommandWithoutRun, CommandOffTime, Command, Disconnected, Fault, PeerDrop, Abort,
        InternalError, SendFails, AcceptFails, viewVars
  <2>5. ~(RefuseConnect(d) \/ \E r \in Runs : RejectConnect(d, r) \/ Connect(d, r))
    BY <2>1 DEF RefuseConnect, RejectConnect, Connect, viewVars
  <2>6. ~(\/ Accepted(d) \/ HelloSent(d) \/ BaselineRequired(d) \/ SnapshotSent(d) \/ ReplySent(d)
          \/ DiffSent(d) \/ ErrorSent(d) \/ CloseSent(d))
    BY <2>1, <2>3
    DEF Accepted, HelloSent, BaselineRequired, SnapshotSent, ReplySent, DiffSent, ErrorSent,
        CloseSent, viewVars
  <2> QED BY <2>2, <2>4, <2>5, <2>6 DEF Serve, SendDone
<1>2. sent \in [Conns -> Positions \cup {Nothing}] /\ pos \in [Runs -> Positions]
  BY DEF TypeInv, TypeOK
<1>3. ASSUME SendSnapshot(d) PROVE FALSE
  <2>1. sent' = sent \/ sent' = [sent EXCEPT ![d] = pos[runOf[d]]]
    BY <1>3 DEF SendSnapshot
  <2>2. sent[d] = Nothing
    BY <1>3 DEF SendSnapshot, StreamInv, NothingYet, BeforeBaseline
  <2> QED BY <1>2, <2>1, <2>2
<1>4. ASSUME AckSent(d) PROVE sent'[c].tick = sent[c].tick + 1 /\ sent'[c].ver >= sent[c].ver
  <2> DEFINE next == Advanced(pos[runOf[d]])
  <2>1. /\ sent' = [sent EXCEPT ![d] = next] /\ Follows(sess[d].cursor, next.tick)
        /\ pc[d] = "ackSending"
    BY <1>4 DEF AckSent, DiffTarget, Finish, viewVars
  <2>2. d = c /\ sent'[c] = next
    BY <1>2, <2>1
  <2>3. sess[c].cursor = sent[c] /\ sent[c] \in Positions /\ runOf[c] \in Runs
        /\ sent[c].ver <= pos[runOf[c]].ver
    BY <2>1, <2>2 DEF StreamInv, Held, NotAhead, Streaming
  <2>4. next.ver = pos[runOf[c]].ver /\ next.ver \in Nat /\ sent[c].ver \in Nat
    BY <1>2, <2>2, <2>3 DEF Advanced, Positions
  <2>5. sent'[c].tick = sent[c].tick + 1
    BY <2>1, <2>2, <2>3 DEF Follows
  <2> QED BY <2>2, <2>3, <2>4, <2>5
<1> QED BY <1>1, <1>3, <1>4

(* The diffs a viewer is sent are contiguous from its baseline on. *)
THEOREM ContiguousDiffs == Spec => DiffsContiguous
BY TypeInit, StreamInit, TypeStep, StreamStep, SentStep, PTL DEF Spec, DiffsContiguous

---------------------------------------------------------------------------
(* The viewer that is alone on its run: the registry keeps its run and its *)
(* cursor follows the runner.                                              *)

\* Connections are bound to runs that were launched, once and for all.
BindInv ==
  /\ \A c \in Conns :
       /\ pc[c] = "idle" => runOf[c] = NoRun
       /\ runOf[c] # NoRun => runOf[c] \in launched
       /\ sess[c].cursor # Nothing => runOf[c] # NoRun
  /\ \A r \in Runs : registry[r].known => r \in launched

\* A sole viewer past accept() owns its run's entry as long as there is one, and
\* there is one once its snapshot was built; its cursor follows the runner.
Served(c) ==
  /\ pc[c] \in Serving /\ ~down /\ registry[runOf[c]].known => registry[runOf[c]].active = c
  /\ pc[c] \in Streaming \cup {"snapshotSending"} /\ ~down => registry[runOf[c]].known
  /\ pc[c] = "snapshotSending" => payload[c].tick = pos[runOf[c]].tick
  /\ sess[c].cursor # Nothing => sess[c].cursor.tick = pos[runOf[c]].tick

SoleInv == \A c \in Conns : Sole(c) => Served(c)

(* A step that binds nothing, launches nothing, adds no run and gives no cursor
   to a connection that is bound to no run. *)
LEMMA KeepBind ==
  ASSUME BindInv, runOf' = runOf, launched' = launched,
         \A r \in Runs : registry'[r].known => registry[r].known,
         \A c \in Conns : pc'[c] = "idle" => pc[c] = "idle",
         \A c \in Conns : sess'[c].cursor # Nothing => sess[c].cursor # Nothing \/ runOf[c] # NoRun
  PROVE  BindInv'
BY DEF BindInv

(* Every step keeps the bindings. *)
LEMMA BindStep == TypeInv /\ OwnedInv /\ BindInv /\ [Next]_vars => BindInv'
<1> SUFFICES ASSUME TypeInv, OwnedInv, BindInv, [Next]_vars PROVE BindInv'
  OBVIOUS
<1>a. /\ registry \in [Runs -> Entries] /\ now \in Nat /\ sess \in [Conns -> Sessions]
      /\ pc \in [Conns -> PCs] /\ runOf \in [Conns -> Runs \cup {NoRun}] /\ Coherent(registry)
      /\ \A c \in Conns : pc[c] \in {"accepting"} \cup Serving => runOf[c] \in Runs
  BY DEF TypeInv, TypeOK, Bound, OwnedInv
<1>b. NoRun \notin Runs
  BY LiveHostAssumption
<1>s. \A r \in Runs : Evict(registry, now)[r].known => registry[r].known
  BY <1>a, EvictEffect
<1>1. CASE UNCHANGED vars
  BY <1>1 DEF vars, BindInv
<1>2. CASE Elapse
  BY <1>2 DEF Elapse, BindInv
<1>3. CASE Shutdown
  BY <1>3 DEF Shutdown, BindInv, EmptyRegistry, Unknown
<1>4. ASSUME NEW k \in Runs, Launch(k) PROVE BindInv'
  <2>1. \A r \in Runs \ {k} : registry'[r].known => registry[r].known
    BY <1>4, <1>a, RegisterEffect DEF Launch
  <2> QED BY <1>4, <2>1 DEF Launch, BindInv
<1>5. ASSUME NEW c \in Conns, Serve(c) PROVE BindInv'
  <2>1. ASSUME NEW s \in [Conns -> Sessions], pc[c] \in Serving, Finish(c, s),
               \A d \in Conns : s[d].cursor # Nothing => sess[d].cursor # Nothing \/ runOf[d] # NoRun
        PROVE  BindInv'
    <3>1. runOf[c] \in Runs
      BY <2>1, <1>a
    <3>2. \A r \in Runs : registry'[r].known => registry[r].known
      BY <2>1, <3>1, <1>a, ReleasedEffect DEF Finish
    <3>3. \A d \in Conns : sess'[d].cursor # Nothing => sess[d].cursor # Nothing \/ runOf[d] # NoRun
      BY <2>1 DEF Finish, NoSession
    <3>4. runOf' = runOf /\ launched' = launched /\ \A d \in Conns : pc'[d] = "idle" => pc[d] = "idle"
      BY <2>1, <1>a DEF Finish, Goto, hostVars
    <3> QED BY <3>2, <3>3, <3>4, KeepBind
  <2>2. CASE Disconnected(c) \/ Abort(c) \/ CloseSent(c)
    BY <2>1, <2>2, <1>a DEF Disconnected, Abort, CloseSent, Serving, Ending
  <2>3. CASE PeerDrop(c)
    BY <2>3, KeepBind DEF PeerDrop, hostVars
  <2>4. CASE \/ InternalError(c) \/ SendFails(c) \/ OutOfSequence(c) \/ Violation(c) \/ Forgotten(c)
             \/ RefuseConnect(c) \/ (\E r \in Runs : RejectConnect(c, r))
             \/ AcceptFails(c) \/ CommandWithoutRun(c) \/ Chatter(c) \/ SendSnapshot(c)
             \/ \E target \in 0..(MaxTick + 2) :
                  \/ CommandOffTime(c, target)
                  \/ \E accepted, changes \in BOOLEAN : Command(c, target, accepted, changes)
    <3>1. /\ runOf' = runOf /\ launched' = launched /\ sess' = sess
          /\ registry' \in {registry, Evict(registry, now)}
      BY <2>4
      DEF InternalError, SendFails, OutOfSequence, Violation, Forgotten, RefuseConnect, RejectConnect,
          AcceptFails, CommandWithoutRun, Chatter, SendSnapshot, CommandOffTime, Command, hostVars
    <3>2. \A d \in Conns : pc'[d] = "idle" => pc[d] = "idle"
      BY <2>4, <1>a
      DEF InternalError, SendFails, OutOfSequence, Violation, Forgotten, RefuseConnect, RejectConnect,
          AcceptFails, CommandWithoutRun, Chatter, SendSnapshot, CommandOffTime, Command, Goto
    <3> QED BY <3>1, <3>2, <1>s, KeepBind
  <2>5. CASE ErrorSent(c) \/ ViewerHello(c) \/ \E onJoin \in BOOLEAN : Subscribe(c, onJoin)
    <3>1. \A d \in Conns : sess'[d].cursor = sess[d].cursor
      <4>1. ASSUME NEW t \in Sessions, NEW p, NEW q, NEW b
            PROVE  /\ [t EXCEPT !.phase = p, !.protocol = q].cursor = t.cursor
                   /\ [t EXCEPT !.protocol = q].cursor = t.cursor
                   /\ [t EXCEPT !.phase = p, !.protocol = q, !.onJoin = b].cursor = t.cursor
        BY DEF Sessions
      <4>2. CASE ErrorSent(c)
        BY <4>1, <4>2, <1>a DEF ErrorSent
      <4>3. CASE ViewerHello(c)
        BY <4>1, <4>3, <1>a DEF ViewerHello
      <4>4. ASSUME NEW onJoin \in BOOLEAN, Subscribe(c, onJoin)
            PROVE  \A d \in Conns : sess'[d].cursor = sess[d].cursor
        BY <4>1, <4>4, <1>a DEF Subscribe
      <4> QED BY <2>5, <4>2, <4>3, <4>4
    <3>2. runOf' = runOf /\ launched' = launched /\ registry' = registry
          /\ \A d \in Conns : pc'[d] = "idle" => pc[d] = "idle"
      BY <2>5, <1>a DEF ErrorSent, ViewerHello, Subscribe, Goto, hostVars
    <3> QED BY <3>1, <3>2, KeepBind
  <2>6. ASSUME NEW k \in Runs, Connect(c, k) PROVE BindInv'
    <3>1. /\ runOf' = [runOf EXCEPT ![c] = k] /\ launched' = launched
          /\ registry' = Evict(registry, now) /\ Evict(registry, now)[k].known
          /\ pc' = [pc EXCEPT ![c] = "accepting"]
          /\ \A d \in Conns : sess'[d].cursor = sess[d].cursor
      BY <2>6, <1>a DEF Connect, Goto, hostVars, Sessions
    <3>2. k \in launched
      BY <3>1, <1>s DEF BindInv
    <3> QED BY <3>1, <3>2, <1>a, <1>b, <1>s DEF BindInv
  <2>7. CASE Accepted(c)
    <3>1. runOf[c] \in Runs /\ registry' = Attach(registry, runOf[c], c, now)
      BY <2>7, <1>a DEF Accepted
    <3>2. \A r \in Runs : registry'[r].known => registry[r].known
      BY <3>1, <1>a, AttachEffect
    <3>3. \A d \in Conns : sess'[d].cursor = sess[d].cursor
      BY <2>7, <1>a DEF Accepted, Sessions
    <3>4. runOf' = runOf /\ launched' = launched /\ \A d \in Conns : pc'[d] = "idle" => pc[d] = "idle"
      BY <2>7, <1>a DEF Accepted, Goto, hostVars
    <3> QED BY <3>2, <3>3, <3>4, KeepBind
  <2>8. CASE HelloSent(c) \/ BaselineRequired(c)
    <3>1. CASE Tracked(c)
      <4>1. runOf' = runOf /\ launched' = launched /\ registry' = registry /\ sess' = sess
            /\ \A d \in Conns : pc'[d] = "idle" => pc[d] = "idle"
        BY <2>8, <3>1, <1>a DEF HelloSent, BaselineRequired, Goto, hostVars
      <4> QED BY <4>1, KeepBind
    <3> QED BY <2>1, <2>8, <3>1, <1>a DEF HelloSent, BaselineRequired, Serving, Replying
  <2>9. CASE SnapshotSent(c)
    <3> DEFINE s == WithBaseline(sess, c)
    <3>1. s \in [Conns -> Sessions] /\ \A d \in Conns : d # c => s[d] = sess[d]
      BY <1>a DEF WithBaseline, Sessions, TypeInv, TypeOK
    <3>2. pc[c] \in Serving /\ runOf[c] \in Runs
      BY <2>9, <1>a DEF SnapshotSent, Serving, Replying
    <3>3. CASE Tracked(c)
      <4>1. /\ runOf' = runOf /\ launched' = launched /\ sess' = s
            /\ registry' = Touch(registry, runOf[c], now) /\ pc' = [pc EXCEPT ![c] = "live"]
        BY <2>9, <3>3 DEF SnapshotSent, Goto, hostVars
      <4>2. \A r \in Runs : registry'[r].known => registry[r].known
        BY <4>1, <3>2, <1>a, TouchEffect
      <4> HIDE DEF s
      <4> QED BY <4>1, <4>2, <3>1, <3>2, <1>a, <1>b, KeepBind
    <3>4. CASE ~Tracked(c)
      <4>1. Finish(c, s)
        BY <2>9, <3>4 DEF SnapshotSent
      <4> HIDE DEF s
      <4> QED BY <4>1, <3>1, <3>2, <2>1, <1>b
    <3> QED BY <3>3, <3>4
  <2>10. CASE ReplySent(c) \/ DiffSent(c)
    <3>1. pc[c] \in Serving /\ runOf[c] \in Runs
      BY <2>10, <1>a DEF ReplySent, DiffSent, Serving, Replying
    <3>2. CASE Tracked(c)
      <4>1. /\ runOf' = runOf /\ launched' = launched /\ sess' = sess
            /\ registry' = Touch(registry, runOf[c], now) /\ pc' = [pc EXCEPT ![c] = "live"]
        BY <2>10, <3>2 DEF ReplySent, DiffSent, Goto, hostVars
      <4>2. \A r \in Runs : registry'[r].known => registry[r].known
        BY <4>1, <3>1, <1>a, TouchEffect
      <4> QED BY <4>1, <4>2, <1>a, KeepBind
    <3> QED BY <2>1, <2>10, <3>1, <3>2, <1>a DEF ReplySent, DiffSent
  <2>11. CASE AckSent(c)
    <3>1. pc[c] \in Serving /\ runOf[c] \in Runs
      BY <2>11, <1>a DEF AckSent, Serving, Replying
    <3>2. CASE Tracked(c)
      <4>1. /\ runOf' = runOf /\ launched' = launched /\ registry' = Evict(registry, now)
            /\ \A d \in Conns : d # c => sess'[d] = sess[d]
            /\ \A d \in Conns : pc'[d] = "idle" => pc[d] = "idle"
        BY <2>11, <3>2, <1>a DEF AckSent, Goto, hostVars
      <4>2. \A d \in Conns : sess'[d].cursor # Nothing => sess[d].cursor # Nothing \/ runOf[d] # NoRun
        BY <4>1, <3>1, <1>b
      <4> QED BY <4>1, <4>2, <1>s, KeepBind
    <3> QED BY <2>1, <2>11, <3>1, <3>2, <1>a DEF AckSent
  <2> QED
    BY <1>5, <2>2, <2>3, <2>4, <2>5, <2>6, <2>7, <2>8, <2>9, <2>10, <2>11
    DEF Serve, SendDone, Receive, Fault
<1> QED BY <1>1, <1>2, <1>3, <1>4, <1>5 DEF Next

---------------------------------------------------------------------------
(* What a step of one connection leaves alone.                             *)

\* The state of the other connections.
OthersKept(d) ==
  \A e \in Conns : e # d => /\ pc'[e] = pc[e] /\ payload'[e] = payload[e]
                            /\ sess'[e] = sess[e] /\ runOf'[e] = runOf[e]

\* Registrations never come back, and a run with a session is not dropped; the
\* runs other than k keep their positions and attachments.
RunsKept(k) ==
  /\ \A r \in Runs : r # k => pos'[r] = pos[r] /\ registry'[r].active = registry[r].active
  /\ \A r \in Runs : registry'[r].known => registry[r].known
  /\ \A r \in Runs : registry[r].active # NoConn => registry'[r].known = registry[r].known

(* The teardown of d leaves the others and the other runs alone. *)
LEMMA FinishFootprint ==
  ASSUME TypeInv, OwnedInv, NEW d \in Conns, NEW s \in [Conns -> Sessions], Finish(d, s),
         pc[d] \in Serving, \A e \in Conns : e # d => s[e] = sess[e]
  PROVE  OthersKept(d) /\ RunsKept(runOf[d]) /\ UNCHANGED <<down, runOf, pos>>
<1>1. runOf[d] \in Runs /\ registry \in [Runs -> Entries] /\ now \in Nat /\ Coherent(registry)
      /\ pc \in [Conns -> PCs]
  BY DEF TypeInv, TypeOK, Bound, OwnedInv
<1>2. registry' = Released(registry, runOf[d], now) /\ UNCHANGED <<down, runOf, pos, payload>>
  BY DEF Finish, hostVars, viewVars
<1>3. RunsKept(runOf[d])
  BY <1>1, <1>2, ReleasedEffect DEF RunsKept
<1>4. OthersKept(d)
  BY <1>1, <1>2 DEF Finish, Goto, OthersKept
<1> QED BY <1>2, <1>3, <1>4

(* A step of d leaves the other connections and the runs it is not bound to
   alone, and binds d at most from no run to one. *)
LEMMA Footprint ==
  ASSUME TypeInv, OwnedInv, BindInv, NEW d \in Conns, Serve(d)
  PROVE  /\ OthersKept(d) /\ RunsKept(runOf'[d]) /\ down' = down
         /\ runOf' = runOf \/ runOf[d] = NoRun
<1>a. /\ registry \in [Runs -> Entries] /\ now \in Nat /\ sess \in [Conns -> Sessions]
      /\ pc \in [Conns -> PCs] /\ runOf \in [Conns -> Runs \cup {NoRun}] /\ Coherent(registry)
      /\ payload \in [Conns -> Positions \cup {Nothing}] /\ pos \in [Runs -> Positions]
      /\ \A e \in Conns : pc[e] \in {"accepting"} \cup Serving => runOf[e] \in Runs
  BY DEF TypeInv, TypeOK, Bound, OwnedInv
<1>s. /\ \A r \in Runs : /\ Evict(registry, now)[r].active = registry[r].active
                         /\ Evict(registry, now)[r].known => registry[r].known
                         /\ registry[r].active # NoConn =>
                              Evict(registry, now)[r].known = registry[r].known
  BY <1>a, EvictEffect
<1>1. CASE Disconnected(d) \/ Abort(d) \/ CloseSent(d)
  <2>1. Finish(d, sess) /\ pc[d] \in Serving
    BY <1>1 DEF Disconnected, Abort, CloseSent, Serving, Ending
  <2> QED BY <2>1, <1>a, FinishFootprint
<1>2. CASE \/ PeerDrop(d) \/ InternalError(d) \/ SendFails(d) \/ OutOfSequence(d) \/ Violation(d)
           \/ Forgotten(d) \/ RefuseConnect(d) \/ AcceptFails(d) \/ Chatter(d) \/ ErrorSent(d)
           \/ ViewerHello(d) \/ \E onJoin \in BOOLEAN : Subscribe(d, onJoin)
  <2>1. UNCHANGED <<down, registry, pos, runOf, payload>>
    BY <1>2
    DEF PeerDrop, InternalError, SendFails, OutOfSequence, Violation, Forgotten, RefuseConnect,
        AcceptFails, Chatter, ErrorSent, ViewerHello, Subscribe, hostVars, viewVars
  <2>2. \A e \in Conns : e # d => pc'[e] = pc[e] /\ sess'[e] = sess[e]
    BY <1>2, <1>a
    DEF PeerDrop, InternalError, SendFails, OutOfSequence, Violation, Forgotten, RefuseConnect,
        AcceptFails, Chatter, ErrorSent, ViewerHello, Subscribe, Goto
  <2> QED BY <2>1, <2>2 DEF OthersKept, RunsKept
<1>3. CASE (\E k \in Runs : RejectConnect(d, k)) \/ CommandWithoutRun(d) \/ SendSnapshot(d)
           \/ \E target \in 0..(MaxTick + 2) : CommandOffTime(d, target)
  <2>1. /\ UNCHANGED <<down, pos, runOf, sess>> /\ registry' = Evict(registry, now)
        /\ \A e \in Conns : e # d => pc'[e] = pc[e] /\ payload'[e] = payload[e]
    BY <1>3, <1>a
    DEF RejectConnect, CommandWithoutRun, SendSnapshot, CommandOffTime, Goto, hostVars, viewVars
  <2> QED BY <2>1, <1>s DEF OthersKept, RunsKept
<1>4. ASSUME NEW k \in Runs, Connect(d, k)
      PROVE  OthersKept(d) /\ RunsKept(runOf'[d]) /\ down' = down /\ runOf[d] = NoRun
  <2>1. /\ UNCHANGED <<down, pos, payload>> /\ registry' = Evict(registry, now)
        /\ \A e \in Conns : e # d => pc'[e] = pc[e] /\ sess'[e] = sess[e] /\ runOf'[e] = runOf[e]
        /\ pc[d] = "idle"
    BY <1>4, <1>a DEF Connect, Goto, hostVars, viewVars
  <2> QED BY <2>1, <1>s DEF OthersKept, RunsKept, BindInv
<1>5. CASE Accepted(d)
  <2>1. runOf[d] \in Runs /\ registry' = Attach(registry, runOf[d], d, now)
    BY <1>5, <1>a DEF Accepted
  <2>2. /\ \A r \in Runs \ {runOf[d]} : registry'[r].active = registry[r].active
        /\ \A r \in Runs : registry'[r].known => registry[r].known
        /\ \A r \in Runs : registry[r].active # NoConn => registry'[r].known = registry[r].known
    BY <2>1, <1>a, AttachEffect
  <2>3. /\ UNCHANGED <<down, pos, payload, runOf>>
        /\ \A e \in Conns : e # d => pc'[e] = pc[e] /\ sess'[e] = sess[e]
    BY <1>5, <1>a DEF Accepted, Goto, hostVars, viewVars
  <2> QED BY <2>2, <2>3 DEF OthersKept, RunsKept
<1>6. CASE HelloSent(d) \/ BaselineRequired(d)
  <2>1. CASE Tracked(d)
    <3>1. UNCHANGED <<down, registry, pos, runOf, payload, sess>>
          /\ \A e \in Conns : e # d => pc'[e] = pc[e]
      BY <1>6, <2>1, <1>a DEF HelloSent, BaselineRequired, Goto, hostVars, viewVars
    <3> QED BY <3>1 DEF OthersKept, RunsKept
  <2>2. CASE ~Tracked(d)
    <3>1. Finish(d, sess) /\ pc[d] \in Serving
      BY <1>6, <2>2 DEF HelloSent, BaselineRequired, Serving, Replying
    <3> QED BY <3>1, <1>a, FinishFootprint
  <2> QED BY <2>1, <2>2
<1>7. CASE SnapshotSent(d)
  <2> DEFINE s == WithBaseline(sess, d)
  <2>1. s \in [Conns -> Sessions] /\ \A e \in Conns : e # d => s[e] = sess[e]
    BY <1>a DEF WithBaseline, Sessions, TypeInv, TypeOK
  <2>2. pc[d] \in Serving /\ runOf[d] \in Runs
    BY <1>7, <1>a DEF SnapshotSent, Serving, Replying
  <2>3. CASE Tracked(d)
    <3>1. /\ UNCHANGED <<down, pos, runOf, payload>> /\ sess' = s
          /\ registry' = Touch(registry, runOf[d], now) /\ pc' = [pc EXCEPT ![d] = "live"]
      BY <1>7, <2>3 DEF SnapshotSent, Goto, hostVars, viewVars
    <3>2. RunsKept(runOf[d])
      BY <3>1, <2>2, <1>a, TouchEffect DEF RunsKept
    <3> HIDE DEF s
    <3> QED BY <2>1, <3>1, <3>2, <1>a DEF OthersKept
  <2>4. CASE ~Tracked(d)
    <3>1. Finish(d, s)
      BY <1>7, <2>4 DEF SnapshotSent
    <3> HIDE DEF s
    <3> QED BY <3>1, <2>1, <2>2, FinishFootprint
  <2> QED BY <2>3, <2>4
<1>8. CASE ReplySent(d) \/ DiffSent(d)
  <2>1. pc[d] \in Serving /\ runOf[d] \in Runs
    BY <1>8, <1>a DEF ReplySent, DiffSent, Serving, Replying
  <2>2. CASE Tracked(d)
    <3>1. /\ UNCHANGED <<down, pos, runOf, payload, sess>>
          /\ registry' = Touch(registry, runOf[d], now) /\ pc' = [pc EXCEPT ![d] = "live"]
      BY <1>8, <2>2 DEF ReplySent, DiffSent, Goto, hostVars, viewVars
    <3>2. RunsKept(runOf[d])
      BY <3>1, <2>1, <1>a, TouchEffect DEF RunsKept
    <3> QED BY <3>1, <3>2, <1>a DEF OthersKept
  <2>3. CASE ~Tracked(d)
    <3>1. Finish(d, sess)
      BY <1>8, <2>3 DEF ReplySent, DiffSent
    <3> QED BY <3>1, <2>1, <1>a, FinishFootprint
  <2> QED BY <2>2, <2>3
<1>9. ASSUME NEW target \in 0..(MaxTick + 2), NEW accepted \in BOOLEAN, NEW changes \in BOOLEAN,
             Command(d, target, accepted, changes)
      PROVE  OthersKept(d) /\ RunsKept(runOf'[d]) /\ down' = down /\ runOf' = runOf
  <2>1. /\ UNCHANGED <<down, runOf, sess, payload>> /\ registry' = Evict(registry, now)
        /\ \A e \in Conns : e # d => pc'[e] = pc[e]
        /\ \A r \in Runs : r # runOf[d] => pos'[r] = pos[r]
    BY <1>9, <1>a DEF Command, Goto, hostVars
  <2> QED BY <2>1, <1>s DEF OthersKept, RunsKept
<1>10. CASE AckSent(d)
  <2>1. CASE Tracked(d)
    <3>1. /\ UNCHANGED <<down, runOf, payload>> /\ registry' = Evict(registry, now)
          /\ \A e \in Conns : e # d => pc'[e] = pc[e] /\ sess'[e] = sess[e]
          /\ \A r \in Runs : r # runOf[d] => pos'[r] = pos[r]
      BY <1>10, <2>1, <1>a DEF AckSent, Goto, hostVars
    <3> QED BY <3>1, <1>s DEF OthersKept, RunsKept
  <2>2. CASE ~Tracked(d)
    <3>1. Finish(d, sess) /\ pc[d] \in Serving
      BY <1>10, <2>2 DEF AckSent, Serving, Replying
    <3> QED BY <3>1, <1>a, FinishFootprint
  <2> QED BY <2>1, <2>2
<1> QED BY <1>1, <1>2, <1>3, <1>4, <1>5, <1>6, <1>7, <1>8, <1>9, <1>10
  DEF Serve, SendDone, Receive, Fault

---------------------------------------------------------------------------
(* The sole viewer.                                                        *)

(* A step that leaves c alone and does not touch the run c is bound to, unless
   to drop it while no session is attached, keeps c served. *)
LEMMA OthersServe ==
  ASSUME NEW c \in Conns, Served(c),
         runOf[c] \in Runs,
         pc'[c] = pc[c], payload'[c] = payload[c], sess'[c] = sess[c], runOf'[c] = runOf[c],
         pos'[runOf[c]] = pos[runOf[c]], down => down',
         registry'[runOf[c]].known => registry[runOf[c]].known,
         registry'[runOf[c]].active = registry[runOf[c]].active,
         registry[runOf[c]].active = c => registry'[runOf[c]].known = registry[runOf[c]].known
  PROVE  Served(c)'
<1>1. CASE down'
  BY <1>1 DEF Served
<1>2. CASE ~down'
  BY <1>2 DEF Served, Streaming, Serving, Receiving, Replying
<1> QED BY <1>1, <1>2

(* A connection bound to no run has nothing to be served. *)
LEMMA UnboundServed ==
  ASSUME TypeInv, BindInv, NEW c \in Conns, runOf[c] = NoRun
  PROVE  Served(c)
<1>1. pc[c] \notin Serving /\ sess[c].cursor = Nothing
  BY LiveHostAssumption DEF TypeInv, Bound, BindInv
<1> QED BY <1>1 DEF Served, Serving, Streaming, Receiving, Replying

(* Every step keeps a sole viewer served. *)
LEMMA SoleStep ==
  TypeInv /\ OwnedInv /\ StreamInv /\ BindInv /\ SoleInv /\ [Next]_vars => SoleInv'
<1> SUFFICES ASSUME TypeInv, OwnedInv, StreamInv, BindInv, SoleInv, [Next]_vars,
                    NEW c \in Conns, Sole(c)'
             PROVE  Served(c)'
  BY DEF SoleInv
<1>n. TypeInv' /\ BindInv'
  BY TypeStep, BindStep
<1>a. /\ registry \in [Runs -> Entries] /\ now \in Nat /\ sess \in [Conns -> Sessions]
      /\ pc \in [Conns -> PCs] /\ runOf \in [Conns -> Runs \cup {NoRun}] /\ Coherent(registry)
      /\ payload \in [Conns -> Positions \cup {Nothing}] /\ pos \in [Runs -> Positions]
      /\ \A d \in Conns : pc[d] \in {"accepting"} \cup Serving => runOf[d] \in Runs
  BY DEF TypeInv, TypeOK, Bound, OwnedInv
<1>b. NoRun \notin Runs /\ NoConn \notin Conns
  BY LiveHostAssumption, RegistryAssumption
<1> DEFINE r == runOf[c]
<1>c. r \in Runs \/ r = NoRun
  BY <1>a
<1>d. CASE runOf'[c] = NoRun
  <2>1. pc'[c] \notin Serving /\ sess'[c].cursor = Nothing
    BY <1>d, <1>n, <1>b DEF TypeInv, Bound, BindInv
  <2> QED BY <2>1 DEF Served, Serving, Streaming, Receiving, Replying
<1>e. ASSUME runOf' = runOf, runOf'[c] # NoRun PROVE r \in Runs /\ Sole(c) /\ Served(c)
  <2>1. Sole(c)
    BY <1>e DEF Sole
  <2> QED BY <1>e, <1>a, <2>1 DEF SoleInv
<1>0. ASSUME UNCHANGED <<registry, down, pos, pc, runOf, sess, payload>> PROVE Served(c)'
  BY <1>0, <1>d, <1>e DEF Served
<1>1. CASE UNCHANGED vars
  BY <1>1, <1>0 DEF vars
<1>2. CASE Elapse
  BY <1>2, <1>0 DEF Elapse, viewVars
<1>3. CASE Shutdown
  BY <1>3, <1>d, <1>e, <1>a DEF Shutdown, viewVars, Served
<1>4. ASSUME NEW k \in Runs, Launch(k) PROVE Served(c)'
  <2>1. UNCHANGED <<down, pos, pc, runOf, sess, payload>> /\ k \notin launched
        /\ registry' = Register(registry, k, now)
    BY <1>4 DEF Launch, viewVars
  <2>2. CASE runOf'[c] # NoRun
    <3>1. r \in Runs /\ Served(c) /\ r # k
      BY <1>e, <2>1, <2>2 DEF BindInv
    <3>2. /\ registry'[r].active = registry[r].active
          /\ registry'[r].known => registry[r].known
          /\ registry[r].active # NoConn => registry'[r].known = registry[r].known
      BY <2>1, <3>1, <1>a, RegisterEffect
    <3> QED BY <2>1, <3>1, <3>2, <1>b, OthersServe
  <2> QED BY <1>d, <2>2
<1>5. ASSUME NEW d \in Conns, d # c, Serve(d) PROVE Served(c)'
  <2> SUFFICES ASSUME runOf'[c] # NoRun PROVE Served(c)'
    BY <1>d
  <2>1. /\ OthersKept(d) /\ RunsKept(runOf'[d]) /\ down' = down
        /\ runOf' = runOf \/ runOf[d] = NoRun
    BY <1>5, Footprint
  <2>2. runOf'[c] = r /\ runOf'[d] # r /\ r \in Runs
    BY <2>1, <1>5, <1>c DEF OthersKept, Sole
  <2>3. Sole(c)
    BY <2>1, <2>2, <1>b DEF Sole, OthersKept
  <2>4. Served(c)
    BY <2>3 DEF SoleInv
  <2>5. /\ pos'[r] = pos[r] /\ registry'[r].active = registry[r].active
        /\ registry'[r].known => registry[r].known
        /\ registry[r].active # NoConn => registry'[r].known = registry[r].known
    BY <2>1, <2>2 DEF RunsKept
  <2>6. pc'[c] = pc[c] /\ payload'[c] = payload[c] /\ sess'[c] = sess[c]
    BY <2>1, <1>5 DEF OthersKept
  <2> QED BY <2>1, <2>2, <2>4, <2>5, <2>6, <1>b, OthersServe
<1>6. ASSUME Serve(c) PROVE Served(c)'
  <2> SUFFICES ASSUME runOf'[c] # NoRun PROVE Served(c)'
    BY <1>d
  <2> DEFINE swept == Evict(registry, now)
  <2>s. \A k \in Runs : /\ swept[k].active = registry[k].active
                        /\ swept[k].known => registry[k].known
                        /\ registry[k].active # NoConn => swept[k].known = registry[k].known
    BY <1>a, EvictEffect
  <2> HIDE DEF swept
  <2>1. ASSUME NEW t \in [Conns -> Sessions], Finish(c, t), pc[c] \in Serving,
               t[c].cursor # Nothing => t[c].cursor.tick = pos[r].tick
        PROVE  Served(c)'
    <3>1. pc'[c] = "done" /\ pos' = pos /\ runOf' = runOf
      BY <2>1, <1>a DEF Finish, Goto
    <3>2. sess'[c] = t[c] \/ sess'[c].cursor = Nothing
      BY <2>1 DEF Finish, NoSession
    <3> QED BY <2>1, <3>1, <3>2 DEF Served, Serving, Streaming, Receiving, Replying, Ending
  <2>2. CASE Disconnected(c) \/ Abort(c) \/ CloseSent(c)
    <3>1. Finish(c, sess) /\ pc[c] \in Serving
      BY <2>2 DEF Disconnected, Abort, CloseSent, Serving, Ending
    <3> QED BY <3>1, <2>1, <1>a, <1>e DEF Served, Finish
  <2>3. CASE PeerDrop(c)
    BY <2>3, <1>e, OthersServe DEF PeerDrop, hostVars, viewVars
  <2>4. CASE \/ InternalError(c) \/ SendFails(c) \/ OutOfSequence(c) \/ Violation(c)
             \/ Forgotten(c) \/ Chatter(c) \/ ErrorSent(c) \/ ViewerHello(c)
             \/ \E onJoin \in BOOLEAN : Subscribe(c, onJoin)
    <3>1. /\ UNCHANGED <<down, registry, pos, runOf>> /\ pc[c] \in Serving
          /\ pc'[c] \in Serving \ {"snapshotSending"}
          /\ pc'[c] \in Streaming => pc[c] \in Streaming
      BY <2>4, <1>a
      DEF InternalError, SendFails, OutOfSequence, Violation, Forgotten, Chatter, ErrorSent,
          ViewerHello, Subscribe, Goto, hostVars, Serving, Receiving, Replying, Ending, Streaming
    <3>2. sess'[c].cursor = sess[c].cursor
      <4>1. sess[c] \in Sessions
        BY <1>a
      <4>2. CASE ErrorSent(c)
        <5>1. sess'[c] = [sess[c] EXCEPT !.phase = "CLOSED", !.protocol = "CLOSED"]
          BY <4>2, <1>a DEF ErrorSent
        <5> QED BY <4>1, <5>1 DEF Sessions
      <4>5. CASE ViewerHello(c)
        <5>1. sess'[c] = [sess[c] EXCEPT !.protocol = "AWAITING_SUBSCRIBE"]
          BY <4>5, <1>a DEF ViewerHello
        <5> QED BY <4>1, <5>1 DEF Sessions
      <4>3. ASSUME NEW onJoin \in BOOLEAN, Subscribe(c, onJoin)
            PROVE  sess'[c].cursor = sess[c].cursor
        <5>1. sess'[c] = [sess[c] EXCEPT !.phase = "SUBSCRIBED", !.protocol = "SUBSCRIBED",
                                         !.onJoin = onJoin]
          BY <4>3, <1>a DEF Subscribe
        <5> QED BY <4>1, <5>1 DEF Sessions
      <4>4. CASE InternalError(c) \/ SendFails(c) \/ OutOfSequence(c) \/ Violation(c)
                 \/ Forgotten(c) \/ Chatter(c)
        BY <4>4 DEF InternalError, SendFails, OutOfSequence, Violation, Forgotten, Chatter
      <4> QED BY <2>4, <4>2, <4>3, <4>4, <4>5
    <3> QED BY <3>1, <3>2, <1>e DEF Served
  <2>5. CASE \/ RefuseConnect(c) \/ (\E k \in Runs : RejectConnect(c, k)) \/ AcceptFails(c)
    <3>1. /\ pc'[c] \in {"done", "gone"} /\ UNCHANGED <<sess, pos, runOf>>
      BY <2>5, <1>a DEF RefuseConnect, RejectConnect, AcceptFails, Goto
    <3> QED BY <3>1, <1>e DEF Served, Serving, Streaming, Receiving, Replying, Ending
  <2>6. ASSUME NEW k \in Runs, Connect(c, k) PROVE Served(c)'
    <3>1. pc'[c] = "accepting" /\ sess'[c].cursor = sess[c].cursor /\ sess[c].cursor = Nothing
      BY <2>6, <1>a DEF Connect, Goto, Sessions, StreamInv, NothingYet, BeforeBaseline
    <3> QED BY <3>1 DEF Served, Serving, Streaming, Receiving, Replying, Ending
  <2>7. CASE Accepted(c)
    <3>1. /\ pc'[c] = "awaitHello" /\ UNCHANGED <<pos, runOf>>
          /\ registry' = Attach(registry, r, c, now)
          /\ sess'[c].cursor = sess[c].cursor /\ sess[c].cursor = Nothing
      BY <2>7, <1>a DEF Accepted, Goto, Sessions, StreamInv, NothingYet, BeforeBaseline
    <3>2. registry'[r].known => registry'[r].active = c
      BY <3>1, <1>a, <1>e, AttachEffect
    <3> QED BY <3>1, <3>2 DEF Served, Streaming
  <2>8. CASE HelloSent(c) \/ BaselineRequired(c)
    <3>1. pc[c] \in Serving
      BY <2>8 DEF HelloSent, BaselineRequired, Serving, Replying
    <3>2. CASE Tracked(c)
      <4>1. /\ pc'[c] \in {"awaitSubscribe", "closing"} /\ UNCHANGED <<down, registry, pos, runOf, sess>>
        BY <2>8, <3>2, <1>a DEF HelloSent, BaselineRequired, Goto, hostVars
      <4> QED BY <3>1, <4>1, <1>e DEF Served, Streaming
    <3>3. CASE ~Tracked(c)
      <4>1. Finish(c, sess)
        BY <2>8, <3>3 DEF HelloSent, BaselineRequired
      <4> QED BY <4>1, <3>1, <2>1, <1>a, <1>e DEF Served, Finish
    <3> QED BY <3>2, <3>3
  <2>9. CASE SendSnapshot(c)
    <3>1. /\ pc[c] = "subscribedSending" /\ UNCHANGED <<down, pos, runOf, sess>> /\ registry' = swept
          /\ \/ pc'[c] = "snapshotSending" /\ payload'[c] = pos[r] /\ swept[r].known
             \/ pc'[c] = "failing"
      BY <2>9, <1>a DEF SendSnapshot, Goto, swept, hostVars
    <3>2. r \in Runs /\ Served(c) /\ pc[c] \in Serving
      BY <3>1, <1>e DEF Serving, Replying
    <3>3. swept[r].known /\ ~down => swept[r].active = c
      BY <3>2, <2>s DEF Served
    <3> QED BY <3>1, <3>2, <3>3 DEF Served, Streaming
  <2>10. CASE SnapshotSent(c)
    <3> DEFINE t == WithBaseline(sess, c)
    <3>1. t \in [Conns -> Sessions] /\ t[c].cursor = payload[c]
      BY <1>a DEF WithBaseline, Sessions, TypeInv, TypeOK
    <3>2. pc[c] = "snapshotSending" /\ runOf' = runOf
      BY <2>10 DEF SnapshotSent, Finish
    <3>3. r \in Runs /\ payload[c].tick = pos[r].tick /\ Served(c) /\ pc[c] \in Serving
      BY <3>2, <1>e DEF Served, Serving, Replying
    <3>4. CASE Tracked(c)
      <4>1. /\ UNCHANGED <<down, pos>> /\ registry' = Touch(registry, r, now) /\ pc'[c] = "live"
            /\ sess' = t
        BY <2>10, <3>4, <1>a DEF SnapshotSent, Goto, hostVars
      <4>2. /\ registry'[r].active = registry[r].active
            /\ registry[r].active # NoConn => registry'[r].known = registry[r].known
        BY <4>1, <3>3, <1>a, TouchEffect
      <4> HIDE DEF t
      <4> QED BY <3>1, <3>2, <3>3, <4>1, <4>2, <1>b DEF Served, Streaming
    <3>5. CASE ~Tracked(c)
      <4>1. Finish(c, t)
        BY <2>10, <3>5 DEF SnapshotSent
      <4> HIDE DEF t
      <4> QED BY <3>1, <3>3, <4>1, <2>1
    <3> QED BY <3>4, <3>5
  <2>11. CASE CommandWithoutRun(c) \/ \E target \in 0..(MaxTick + 2) : CommandOffTime(c, target)
    <3>1. /\ pc[c] = "live" /\ UNCHANGED <<down, pos, runOf, sess>> /\ registry' = swept
          /\ pc'[c] \in {"failing", "replySending"}
      BY <2>11, <1>a DEF CommandWithoutRun, CommandOffTime, Goto, hostVars, swept
    <3> QED BY <3>1, <1>e, <2>s, <1>b DEF Served, Streaming, Serving, Receiving
  <2>12. ASSUME NEW target \in 0..(MaxTick + 2), NEW accepted \in BOOLEAN, NEW changes \in BOOLEAN,
                Command(c, target, accepted, changes)
         PROVE  Served(c)'
    <3>1. /\ pc[c] = "live" /\ UNCHANGED <<down, runOf, sess>> /\ registry' = swept
          /\ pc'[c] \in {"ackSending", "replySending"}
      BY <2>12, <1>a DEF Command, Goto, hostVars, swept
    <3>2. r \in Runs /\ Served(c)
      BY <3>1, <1>e
    <3>3. pos'[r].tick = pos[r].tick
      BY <2>12, <3>2, <1>a DEF Command, Positions
    <3> QED BY <3>1, <3>2, <3>3, <2>s, <1>b DEF Served, Streaming, Serving, Receiving
  <2>13. CASE ReplySent(c) \/ DiffSent(c)
    <3>1. pc[c] \in {"replySending", "diffSending"}
      BY <2>13 DEF ReplySent, DiffSent
    <3>2. CASE Tracked(c)
      <4>1. /\ UNCHANGED <<down, pos, sess, runOf>> /\ registry' = Touch(registry, r, now)
            /\ pc'[c] = "live"
        BY <2>13, <3>2, <1>a DEF ReplySent, DiffSent, Goto, hostVars
      <4>2. r \in Runs /\ Served(c)
        BY <4>1, <1>e
      <4>3. /\ registry'[r].active = registry[r].active
            /\ registry[r].active # NoConn => registry'[r].known = registry[r].known
        BY <4>1, <4>2, <1>a, TouchEffect
      <4> QED BY <3>1, <4>1, <4>2, <4>3, <1>b DEF Served, Streaming, Serving, Replying
    <3>3. CASE ~Tracked(c)
      <4>1. Finish(c, sess) /\ pc[c] \in Serving
        BY <2>13, <3>1, <3>3 DEF ReplySent, DiffSent, Serving, Replying
      <4> QED BY <4>1, <2>1, <1>a, <1>e DEF Served, Finish
    <3> QED BY <3>2, <3>3
  <2>14. CASE AckSent(c)
    <3> DEFINE next == Advanced(pos[r])
    <3>1. pc[c] = "ackSending" /\ pc[c] \in Serving /\ runOf' = runOf
      BY <2>14 DEF AckSent, Serving, Replying, Finish
    <3>2. r \in Runs /\ Served(c)
      BY <3>1, <1>e
    <3>3. CASE Tracked(c)
      <4>1. sess[c].cursor = sent[c] /\ sent[c] \in Positions
        BY <3>1 DEF StreamInv, Held, Streaming
      <4>2. sess[c].cursor.tick = pos[r].tick /\ registry[r].known /\ registry[r].active = c
        BY <3>1, <3>2, <3>3, <4>1 DEF Served, Streaming, Tracked, Nothing, Positions
      <4>3. swept[r].known /\ swept[r].active = c
        BY <3>2, <4>2, <2>s, <1>b
      <4>4. next \in Positions /\ next.tick = pos[r].tick + 1 /\ Follows(sess[c].cursor, next.tick)
        BY <3>2, <4>2, <1>a DEF Advanced, Positions, Follows
      <4>5. /\ down' = down /\ registry' = swept /\ pos' = [pos EXCEPT ![r] = next]
            /\ pc'[c] = "diffSending" /\ sess' = [sess EXCEPT ![c] = [sess[c] EXCEPT !.cursor = next]]
        BY <2>14, <3>3, <4>3, <4>4, <1>a DEF AckSent, DiffTarget, Goto, hostVars, swept
      <4> HIDE DEF next
      <4>6. sess'[c].cursor = next /\ pos'[r] = next
        BY <3>2, <4>4, <4>5, <1>a DEF Sessions
      <4> QED BY <3>1, <4>3, <4>5, <4>6 DEF Served, Streaming
    <3>4. CASE ~Tracked(c)
      <4>1. Finish(c, sess)
        BY <2>14, <3>4 DEF AckSent
      <4> QED BY <4>1, <3>1, <3>2, <2>1, <1>a DEF Served
    <3> QED BY <3>3, <3>4
  <2> QED
    BY <1>6, <2>2, <2>3, <2>4, <2>5, <2>6, <2>7, <2>8, <2>9, <2>10, <2>11, <2>12, <2>13, <2>14
    DEF Serve, SendDone, Receive, Fault
<1> QED BY <1>1, <1>2, <1>3, <1>4, <1>5, <1>6 DEF Next

(* Nobody is served initially. *)
LEMMA SoleInit == Init => BindInv /\ SoleInv
<1> SUFFICES ASSUME Init PROVE BindInv /\ SoleInv
  OBVIOUS
<1>1. BindInv
  BY DEF Init, BindInv, NoSession, EmptyRegistry, Unknown
<1>2. \A c \in Conns : runOf[c] = NoRun
  BY DEF Init
<1> QED BY <1>1, <1>2, TypeInit, UnboundServed DEF SoleInv

(* The run of a sole viewer is never evicted while it streams. *)
LEMMA SoleKeepsRun == Spec => []SoleViewerKeepsRun
<1>1. SoleInv => SoleViewerKeepsRun
  BY DEF SoleInv, Served, SoleViewerKeepsRun, Streaming, Serving, Receiving, Replying
<1> QED BY <1>1, TypeInit, OwnedInit, StreamInit, SoleInit, TypeStep, OwnedStep, StreamStep, BindStep,
           SoleStep, PTL DEF Spec

(* The cursor of a sole viewer is at its runner's tick. *)
LEMMA SoleInStep == Spec => []SoleViewerInStep
<1>1. SoleInv => SoleViewerInStep
  BY DEF SoleInv, Served, SoleViewerInStep
<1> QED BY <1>1, TypeInit, OwnedInit, StreamInit, SoleInit, TypeStep, OwnedStep, StreamStep, BindStep,
           SoleStep, PTL DEF Spec

(* A viewer alone on its run keeps the run, and its cursor. *)
THEOREM SoleIsServed == Spec => []SoleViewerIsServed
<1>1. SoleViewerKeepsRun /\ SoleViewerInStep => SoleViewerIsServed
  BY DEF SoleViewerIsServed
<1> QED BY <1>1, SoleKeepsRun, SoleInStep, PTL

---------------------------------------------------------------------------
(* The host implements LiveStream.                                         *)

StreamStages == [c \in Conns |-> StageAt(pc[c])]
StreamView == <<pos, runOf, StreamStages, sent>>

\* Where a connection that moves puts its stream.
LEMMA StageMoves ==
  ASSUME TypeInv, NEW c \in Conns, NEW label, Goto(c, label)
  PROVE  StreamStages' = [StreamStages EXCEPT ![c] = StageAt(label)]
BY DEF Goto, StreamStages, TypeInv, TypeOK

\* The stages, one await at a time.
LEMMA Stages ==
  /\ \A p \in {"idle", "accepting", "awaitHello"} : StageAt(p) = "silent"
  /\ \A p \in {"helloSending", "awaitSubscribe"} : StageAt(p) = "greeted"
  /\ StageAt("subscribedSending") = "subscribed"
  /\ \A p \in Streaming \cup {"snapshotSending"} : StageAt(p) = "streaming"
  /\ \A p \in Ending \cup {"done", "gone"} : StageAt(p) = "over"
BY DEF StageAt, Streaming, Ending

LEMMA StagesStay ==
  ASSUME TypeInv, NEW c \in Conns, NEW label, Goto(c, label), StageAt(label) = StageAt(pc[c])
  PROVE  StreamStages' = StreamStages
BY StageMoves DEF StreamStages

\* A connection that waits elsewhere in the same stage, with what it was sent,
\* leaves its stream as it is.
LEMMA SameStage ==
  ASSUME TypeInv, NEW c \in Conns, NEW label, Goto(c, label), StageAt(label) = StageAt(pc[c]),
         UNCHANGED <<pos, runOf, sent>>
  PROVE  UNCHANGED StreamView
BY StagesStay DEF StreamView

\* A connection that goes where nothing is streamed ends its stream, unless it
\* had ended before.
LEMMA EndsStream ==
  ASSUME TypeInv, NEW c \in Conns, NEW label \in Ending \cup {"done", "gone"}, Goto(c, label),
         UNCHANGED <<pos, runOf, sent>>
  PROVE  [Stream!StreamNext]_StreamView
<1>1. StageAt(label) = "over"
  BY Stages
<1>2. CASE StageAt(pc[c]) = "over"
  BY <1>1, <1>2, SameStage
<1>3. CASE StageAt(pc[c]) # "over"
  <2>1. Stream!End(c)
    BY <1>1, <1>3, StageMoves DEF Stream!End, StreamStages
  <2> QED BY <2>1 DEF Stream!StreamNext
<1> QED BY <1>2, <1>3

LEMMA FinishEndsStream ==
  ASSUME TypeInv, NEW c \in Conns, NEW s, Finish(c, s)
  PROVE  [Stream!StreamNext]_StreamView
BY EndsStream DEF Finish, viewVars

\* A connection that moves on from one stage to the next.
LEMMA AdvancesStream ==
  ASSUME TypeInv, NEW c \in Conns, NEW label, Goto(c, label)
  PROVE  Stream!Advance(c, StageAt(pc[c]), StageAt(label))
BY StageMoves DEF Stream!Advance, StreamStages

\* Every step of the host is a step of the stream, or none.
LEMMA StreamMaps ==
  TypeInv /\ StreamInv /\ BindInv /\ [Next]_vars => [Stream!StreamNext]_StreamView
<1> SUFFICES ASSUME TypeInv, StreamInv, BindInv, [Next]_vars
             PROVE  [Stream!StreamNext]_StreamView
  OBVIOUS
<1>a. /\ pos \in [Runs -> Positions] /\ sent \in [Conns -> Positions \cup {Nothing}]
      /\ pc \in [Conns -> PCs] /\ runOf \in [Conns -> Runs \cup {NoRun}]
  BY DEF TypeInv, TypeOK
<1>1. CASE UNCHANGED vars
  BY <1>1 DEF vars, StreamView, StreamStages
<1>2. CASE Elapse \/ Shutdown \/ \E r \in Runs : Launch(r)
  BY <1>2 DEF Elapse, Shutdown, Launch, viewVars, StreamView, StreamStages
<1>3. ASSUME NEW c \in Conns, Serve(c) PROVE [Stream!StreamNext]_StreamView
  <2>1. CASE Disconnected(c) \/ Abort(c) \/ CloseSent(c)
    BY <2>1, FinishEndsStream DEF Disconnected, Abort, CloseSent
  <2>2. CASE PeerDrop(c)
    BY <2>2 DEF PeerDrop, viewVars, StreamView, StreamStages
  <2>3. CASE \/ InternalError(c) \/ SendFails(c) \/ ErrorSent(c) \/ RefuseConnect(c)
             \/ AcceptFails(c) \/ OutOfSequence(c) \/ Violation(c) \/ Forgotten(c)
             \/ CommandWithoutRun(c) \/ \E r \in Runs : RejectConnect(c, r)
    <3>1. PICK label \in Ending \cup {"done", "gone"} : Goto(c, label)
      BY <2>3 DEF InternalError, SendFails, ErrorSent, RefuseConnect, AcceptFails, OutOfSequence,
                  Violation, Forgotten, CommandWithoutRun, RejectConnect, Ending
    <3>2. UNCHANGED <<pos, runOf, sent>>
      BY <2>3 DEF InternalError, SendFails, ErrorSent, RefuseConnect, AcceptFails, OutOfSequence,
                  Violation, Forgotten, CommandWithoutRun, RejectConnect, viewVars
    <3> QED BY <3>1, <3>2, EndsStream
  <2>4. ASSUME NEW r \in Runs, Connect(c, r) PROVE [Stream!StreamNext]_StreamView
    <3>1. pc[c] = "idle" /\ runOf[c] = NoRun
      BY <2>4 DEF Connect, BindInv
    <3>2. StreamStages' = StreamStages
      BY <2>4, <3>1, StagesStay, Stages DEF Connect
    <3>3. Stream!Watch(c, r)
      BY <2>4, <3>1, <3>2, Stages DEF Connect, viewVars, Stream!Watch, StreamStages
    <3> QED BY <3>3 DEF Stream!StreamNext
  <2>5. CASE Accepted(c)
    BY <2>5, SameStage, Stages DEF Accepted, viewVars
  <2>6. CASE ViewerHello(c)
    <3>1. runOf[c] # NoRun
      BY <2>6, LiveHostAssumption DEF ViewerHello, TypeInv, Bound, Serving, Receiving
    <3>2. Stream!Advance(c, "silent", "greeted")
      BY <2>6, AdvancesStream, Stages DEF ViewerHello
    <3>3. Stream!Greet(c)
      BY <2>6, <3>1, <3>2 DEF ViewerHello, viewVars, Stream!Greet
    <3> QED BY <3>3 DEF Stream!StreamNext
  <2>7. CASE HelloSent(c)
    <3>1. CASE Tracked(c)
      BY <2>7, <3>1, SameStage, Stages DEF HelloSent, viewVars
    <3> QED BY <2>7, <3>1, FinishEndsStream DEF HelloSent
  <2>8. ASSUME NEW onJoin \in BOOLEAN, Subscribe(c, onJoin)
        PROVE  [Stream!StreamNext]_StreamView
    <3>1. Stream!Advance(c, "greeted", "subscribed")
      BY <2>8, AdvancesStream, Stages DEF Subscribe
    <3>2. Stream!Subscribed(c)
      BY <2>8, <3>1 DEF Subscribe, viewVars, Stream!Subscribed
    <3> QED BY <3>2 DEF Stream!StreamNext
  <2>9. CASE SendSnapshot(c)
    <3>1. CASE Evict(registry, now)[runOf[c]].known
      <4>1. Goto(c, "snapshotSending") /\ sent' = [sent EXCEPT ![c] = pos[runOf[c]]]
        BY <2>9, <3>1 DEF SendSnapshot
      <4>2. Stream!Advance(c, "subscribed", "streaming")
        BY <2>9, <4>1, AdvancesStream, Stages DEF SendSnapshot
      <4>3. Stream!Baseline(c)
        BY <2>9, <4>1, <4>2 DEF SendSnapshot, Stream!Baseline
      <4> QED BY <4>3 DEF Stream!StreamNext
    <3>2. CASE ~Evict(registry, now)[runOf[c]].known
      <4>1. Goto(c, "failing") /\ UNCHANGED <<pos, runOf, sent>>
        BY <2>9, <3>2 DEF SendSnapshot
      <4> QED BY <4>1, EndsStream DEF Ending
    <3> QED BY <3>1, <3>2
  <2>10. CASE BaselineRequired(c)
    <3>1. CASE Tracked(c)
      BY <2>10, <3>1, EndsStream DEF BaselineRequired, viewVars, Ending
    <3> QED BY <2>10, <3>1, FinishEndsStream DEF BaselineRequired
  <2>11. CASE SnapshotSent(c) \/ ReplySent(c) \/ DiffSent(c)
    <3>1. CASE Tracked(c)
      <4>1. /\ Goto(c, "live") /\ UNCHANGED <<pos, runOf, sent>>
            /\ pc[c] \in Streaming \cup {"snapshotSending"}
        BY <2>11, <3>1 DEF SnapshotSent, ReplySent, DiffSent, viewVars, Streaming
      <4>2. StageAt("live") = StageAt(pc[c])
        BY <4>1, Stages DEF Streaming
      <4> QED BY <4>1, <4>2, SameStage
    <3> QED BY <2>11, <3>1, FinishEndsStream DEF SnapshotSent, ReplySent, DiffSent
  <2>12. ASSUME Chatter(c) \/ \E target \in 0..(MaxTick + 2) : CommandOffTime(c, target)
         PROVE  [Stream!StreamNext]_StreamView
    <3>1. Goto(c, "replySending") /\ pc[c] = "live" /\ UNCHANGED <<pos, runOf, sent>>
      BY <2>12 DEF Chatter, CommandOffTime, viewVars
    <3>2. StageAt("replySending") = StageAt(pc[c])
      BY <3>1, Stages DEF Streaming
    <3> QED BY <3>1, <3>2, SameStage
  <2>13. ASSUME NEW target \in 0..(MaxTick + 2), NEW accepted \in BOOLEAN,
                NEW changes \in BOOLEAN, Command(c, target, accepted, changes)
         PROVE  [Stream!StreamNext]_StreamView
    <3> DEFINE r == runOf[c]
               label == IF accepted THEN "ackSending" ELSE "replySending"
    <3>1. r \in Runs
      BY <2>13 DEF Command, TypeInv, Bound, Serving, Receiving
    <3>2. Goto(c, label) /\ pc[c] = "live" /\ UNCHANGED <<runOf, sent>>
      BY <2>13 DEF Command
    <3>3. pos' = [pos EXCEPT ![r].ver = @ + IF changes THEN 1 ELSE 0]
      BY <2>13, <3>1 DEF Command
    <3>4. StreamStages' = StreamStages
      BY <3>2, StagesStay, Stages DEF Streaming
    <3>5. CASE changes
      <4>1. Stream!Change(r)
        BY <3>2, <3>3, <3>4, <3>5 DEF Stream!Change, StreamStages
      <4> QED BY <3>1, <4>1 DEF Stream!StreamNext
    <3>6. CASE ~changes
      <4>1. pos' = pos
        BY <3>1, <3>3, <3>6, <1>a DEF Positions
      <4> QED BY <3>2, <3>4, <4>1 DEF StreamView
    <3> QED BY <3>5, <3>6
  <2>14. CASE AckSent(c)
    <3> DEFINE r == runOf[c]
               next == Advanced(pos[r])
    <3>1. /\ pc[c] = "ackSending" /\ r \in Runs /\ sess[c].cursor = sent[c]
          /\ sent[c] \in Positions /\ sent[c].tick <= pos[r].tick
      BY <2>14, LiveHostAssumption
      DEF AckSent, TypeInv, Bound, Serving, Replying, StreamInv, Held, NotAhead, Streaming,
          Nothing, Positions
    <3>2. /\ next = [pos[r] EXCEPT !.tick = @ + 1] /\ next.tick = pos[r].tick + 1
          /\ pos[r].tick \in Nat /\ sent[c].tick \in Nat
      BY <3>1, <1>a DEF Advanced, Positions
    <3>3. CASE ~Tracked(c)
      BY <2>14, <3>3, FinishEndsStream DEF AckSent
    <3>4. CASE Tracked(c) /\ ~Evict(registry, now)[r].known
      <4>1. Goto(c, "failing") /\ UNCHANGED <<pos, runOf, sent>>
        BY <2>14, <3>4 DEF AckSent
      <4> QED BY <4>1, EndsStream DEF Ending
    <3>5. CASE Tracked(c) /\ Evict(registry, now)[r].known /\ Follows(sess[c].cursor, next.tick)
      <4>1. /\ Goto(c, "diffSending") /\ pos' = [pos EXCEPT ![r] = next] /\ runOf' = runOf
            /\ sent' = [sent EXCEPT ![c] = next]
        BY <2>14, <3>5 DEF AckSent, DiffTarget
      <4>2. StreamStages' = StreamStages
        BY <3>1, <4>1, StagesStay, Stages DEF Streaming
      <4>3. sent[c].tick = pos[r].tick
        BY <3>1, <3>2, <3>5 DEF Follows
      <4>4. StreamStages[c] = "streaming"
        BY <3>1, Stages DEF StreamStages, Streaming
      <4>5. sent' = [sent EXCEPT ![c] = pos'[r]]
        BY <3>1, <4>1, <1>a
      <4>6. Stream!Diff(c)
        BY <3>2, <4>1, <4>2, <4>3, <4>4, <4>5 DEF Stream!Diff, StreamStages
      <4> QED BY <4>6 DEF Stream!StreamNext
    <3>6. CASE Tracked(c) /\ Evict(registry, now)[r].known /\ ~Follows(sess[c].cursor, next.tick)
      <4>1. /\ Goto(c, "failing") /\ pos' = [pos EXCEPT ![r] = next]
            /\ UNCHANGED <<runOf, sent>>
        BY <2>14, <3>6 DEF AckSent
      <4>2. sent[c].tick < pos[r].tick
        BY <3>1, <3>2, <3>6 DEF Follows
      <4>3. Stream!Advance(c, "streaming", "over")
        BY <3>1, <4>1, AdvancesStream, Stages DEF Streaming, Ending
      <4>4. Stream!Overrun(c)
        BY <3>2, <4>1, <4>2, <4>3 DEF Stream!Overrun
      <4> QED BY <4>4 DEF Stream!StreamNext
    <3> QED BY <3>3, <3>4, <3>5, <3>6
  <2> QED
    BY <1>3, <2>1, <2>2, <2>3, <2>4, <2>5, <2>6, <2>7, <2>8, <2>9, <2>10, <2>11, <2>12, <2>13, <2>14
    DEF Serve, SendDone, Receive, Fault
<1> QED BY <1>1, <1>2, <1>3 DEF Next

(* Whatever sessions, registry and runners do, what each viewer sees is a     *)
(* behaviour of LiveStream.                                                   *)
THEOREM HostImplementsStream == Spec => ImplementsStream
<1>1. Init => Stream!StreamInit
  BY Stages DEF Init, Stream!StreamInit, Stream!Blank, Nothing
<1>2. TypeInv /\ StreamInv /\ BindInv /\ [Next]_vars
        => [Stream!StreamNext]_(Stream!streamVars)
  BY StreamMaps DEF StreamView, StreamStages, Stream!streamVars
<1> QED
  BY <1>1, <1>2, TypeInit, StreamInit, OwnedInit, SoleInit, TypeStep, StreamStep, OwnedStep,
     BindStep, PTL
  DEF Spec, ImplementsStream, Stream!StreamSpec

=============================================================================

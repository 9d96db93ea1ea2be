--------------------------- MODULE ViewerFlowProofs ---------------------------
(***************************************************************************)
(* Proofs about ViewerFlow, for any sets of runs, connections and          *)
(* commands, any bounds, and a client that is bound or not.                *)
(***************************************************************************)
EXTENDS ViewerFlow, TLAPS

---------------------------------------------------------------------------
(* The inductive invariant.                                                *)

\* The words of each direction.
Endings == {"ERROR", "GARBLED", "CLOSE", "TRANSPORT_ERROR"}
Answers == {"COMMAND_ACCEPTED", "COMMAND_REJECTED"}
DownWords ==
  [type : {"KERNEL_HELLO"}, run : Runs] \cup [type : {"SUBSCRIBED"} \cup Endings]
    \cup [type : {"FULL_SNAPSHOT"}, state : States] \cup Diffs \cup [type : Answers, cmd : Cmds]
UpWords ==
  [type : {"VIEWER_HELLO", "SUBSCRIBE"}]
    \cup [type : {"INPUT_COMMAND"}, cmd : Cmds, target : Int]

Positions == [tick : Nat, ver : Nat]

\* The kernel's side and the queues have their types.
WiresTyped ==
  /\ truth \in [Runs -> Positions]
  /\ watch \in [Conns -> Runs \cup {NoRun}]
  /\ stage \in [Conns -> {"silent", "greeted", "subscribed", "streaming", "over"}]
  /\ view \in [Conns -> Positions \cup {Blank}]
  /\ up \in [Conns -> Seq(UpWords)] /\ down \in [Conns -> Seq(DownWords)]

\* Launch, session and connection are those of the run that is wanted.
WantedInv ==
  /\ {session, attempt} \subseteq {NoRun, wanted}
  /\ link.client = NoConn => link = NoLink
  /\ link.client # NoConn => session = wanted /\ link.run = wanted /\ wanted # NoRun
  /\ link.baseline = NoState => ~link.ingested /\ link.pending = <<>>
  /\ link.baseline # NoState => link.checked = "subscribed" /\ link.baseline.run = link.run
  /\ destroyed => wanted = NoRun

\* Screen, launch, connection and mount in flight agree.
InPlay == ~destroyed /\ app.kind \in {"CONNECTING", "LIVE_GAME"}
ScreenInv ==
  /\ ~InPlay => attempt = NoRun /\ link.client = NoConn
  /\ app.kind = "LIVE_GAME" /\ ~destroyed =>
       link.client # NoConn /\ link.baseline # NoState /\ attempt \notin asked
  /\ app.kind = "CONNECTING" /\ ~destroyed =>
       /\ link.baseline = NoState
       /\ IF app.phase = "CASE_LAUNCH" THEN attempt \in asked /\ link.client = NoConn
          ELSE attempt \notin asked /\ link.client # NoConn
  /\ boots.fresh => app.kind = "LIVE_GAME" /\ viewer = "none"
  /\ viewer = "stopped" <=> destroyed
  /\ shells = IF viewer = "up" THEN 1 ELSE 0

\* Only the current connection has a socket that is not closed, or words under
\* way to the viewer; one that was never opened is unknown to the kernel.
SocketInv ==
  \A c \in Conns :
    /\ c # link.client => sock[c] \in {"none", "closed"} /\ down[c] = <<>>
    /\ c = link.client => sock[c] # "none"
    /\ sock[c] \in {"none", "connecting"} =>
         /\ watch[c] = NoRun /\ stage[c] = "silent" /\ ~owes[c]
         /\ up[c] = <<>> /\ down[c] = <<>>
    /\ sock[c] \in {"open", "closing"} => watch[c] = link.run
    /\ sock[c] = "closing" => stage[c] = "over"
    /\ stage[c] # "silent" => watch[c] # NoRun
    /\ stage[c] = "streaming" => view[c] \in Positions

\* How many words of the opening the viewer has taken.
Read == IF link.checked = "nothing" THEN 0 ELSE IF link.checked = "hello" THEN 1
          ELSE IF link.baseline = NoState THEN 2 ELSE 3

\* Word w can be the n-th of a stream of run r.
IsNth(w, n, r) ==
  \/ n = 1 /\ w.type = "KERNEL_HELLO" /\ w.run = r
  \/ n = 2 /\ w.type = "SUBSCRIBED"
  \/ n = 3 /\ w.type = "FULL_SNAPSHOT" /\ w.state.run = r
  \/ n > 3 /\ w.type = "FRAME_DIFF" /\ w.to.run = r
  \/ n > 3 /\ w.type \in Answers

\* The words under way to the viewer are the next ones of the stream, and an
\* ending is the last.
WordsInv ==
  LET c == link.client IN c # NoConn =>
    /\ \A i \in DOMAIN down[c] :
         \/ IsNth(down[c][i], Read + i, watch[c])
         \/ i = Len(down[c]) /\ down[c][i].type \in Endings
    /\ sock[c] # "closed" /\ stage[c] # "over" =>
         /\ \A i \in DOMAIN down[c] : down[c][i].type \notin Endings
         /\ Read + Len(down[c]) >= 3 <=> stage[c] = "streaming"
         /\ stage[c] = "silent" => Read + Len(down[c]) = 0
         /\ stage[c] = "greeted" => Read + Len(down[c]) = 1
         /\ stage[c] = "subscribed" => Read + Len(down[c]) = 2
    /\ sock[c] = "closed" => \A i \in DOMAIN down[c] : down[c][i].type \in Endings

\* Before the baseline is taken, the diffs behind it lead from it.
BaseInv ==
  LET c == link.client IN
  c # NoConn /\ sock[c] \in {"open", "closing"} =>
    \A i \in DOMAIN down[c] :
      down[c][i].type = "FULL_SNAPSHOT" =>
        Leads(down[c], down[c][i].state, StateOf(watch[c], view[c]))

\* The kept diffs are diffs of the run.
KeptInv ==
  /\ \A i \in DOMAIN link.pending : link.pending[i].to.run = link.run
  /\ link.pending # <<>> => ~link.ingested

\* The mounted shell has what the connection has.
ShellInv ==
  viewer = "up" =>
    /\ link.checked # "nothing" => store.anchor = link.run
    /\ link.baseline # NoState =>
         link.ingested /\ ~store.desynced /\ store.state # NoState /\ store.state.run = link.run
IngestedInv == link.ingested => viewer = "up"

\* A command is sent once, and answered once.
AnswersInv ==
  /\ \A id \in Cmds : verdict[id] # "none" => outcome[id] # "none" \/ id \in link.acks
  /\ \A c \in Conns : \A i \in DOMAIN up[c] : up[c][i].type = "INPUT_COMMAND" =>
       LET id == up[c][i].cmd IN
       /\ verdict[id] = "none"
       /\ outcome[id] # "none" \/ id \in link.acks
       /\ \A d \in Conns : \A j \in DOMAIN up[d] :
            up[d][j].type = "INPUT_COMMAND" /\ up[d][j].cmd = id => d = c /\ j = i
  /\ \A c \in Conns : \A i \in DOMAIN down[c] :
       /\ down[c][i].type = "COMMAND_ACCEPTED" => verdict[down[c][i].cmd] = "accepted"
       /\ down[c][i].type = "COMMAND_REJECTED" => verdict[down[c][i].cmd] = "rejected"
IInv ==
  /\ TypeOK /\ WiresTyped
  /\ WantedInv /\ ScreenInv /\ SocketInv /\ WordsInv /\ BaseInv /\ KeptInv
  /\ ShellInv /\ IngestedInv /\ AnswersInv
  /\ FollowsKernel /\ AnswersAreTheKernels /\ ErrorsAreHonest

---------------------------------------------------------------------------
(* Words and sequences of words.                                           *)

\* What the words of each type carry.
LEMMA WordFields ==
  ASSUME NEW w \in DownWords
  PROVE  /\ w.type = "KERNEL_HELLO" => w.run \in Runs
         /\ w.type = "FULL_SNAPSHOT" => w.state \in States
         /\ w.type = "FRAME_DIFF" => w \in Diffs /\ w.from \in States /\ w.to \in States
         /\ w.type \in Answers => w.cmd \in Cmds
<1>1. CASE w \in [type : {"KERNEL_HELLO"}, run : Runs]
  BY <1>1 DEF Answers
<1>2. CASE w \in [type : {"SUBSCRIBED"} \cup Endings]
  BY <1>2 DEF Answers, Endings
<1>3. CASE w \in [type : {"FULL_SNAPSHOT"}, state : States]
  BY <1>3 DEF Answers
<1>4. CASE w \in Diffs
  BY <1>4 DEF Answers, Diffs
<1>5. CASE w \in [type : Answers, cmd : Cmds]
  BY <1>5 DEF Answers
<1> QED BY <1>1, <1>2, <1>3, <1>4, <1>5 DEF DownWords

LEMMA UpFields ==
  ASSUME NEW w \in UpWords, w.type = "INPUT_COMMAND"
  PROVE  w.cmd \in Cmds
<1>1. CASE w \in [type : {"VIEWER_HELLO", "SUBSCRIBE"}]
  BY <1>1
<1>2. CASE w \in [type : {"INPUT_COMMAND"}, cmd : Cmds, target : Int]
  BY <1>2
<1> QED BY <1>1, <1>2 DEF UpWords

\* A state of a run is not the absent state.
LEMMA StateFacts ==
  /\ NoState \in States /\ NoState.run = NoRun /\ NoState.tick = -1
  /\ NoRun \notin Runs
  /\ \A r \in Runs, p \in Positions :
       StateOf(r, p) \in States /\ StateOf(r, p) # NoState /\ StateOf(r, p).run = r
  /\ \A s \in States : s # NoState => s.run \in Runs /\ s.tick \in Nat
BY ViewerFlowAssumption DEF NoState, States, StateOf, Positions

LEMMA AppendWord ==
  ASSUME NEW S, NEW words \in Seq(S), NEW w \in S
  PROVE  /\ Append(words, w) \in Seq(S) /\ words \o <<w>> = Append(words, w)
         /\ Len(words) \in Nat /\ Len(Append(words, w)) = Len(words) + 1
         /\ DOMAIN words = 1..Len(words) /\ DOMAIN Append(words, w) = 1..(Len(words) + 1)
         /\ \A i \in DOMAIN words : Append(words, w)[i] = words[i] /\ words[i] \in S
         /\ Append(words, w)[Len(words) + 1] = w
OBVIOUS

LEMMA TailWords ==
  ASSUME NEW S, NEW words \in Seq(S), words # <<>>
  PROVE  /\ Tail(words) \in Seq(S) /\ Len(words) \in Nat /\ Len(words) > 0
         /\ Len(Tail(words)) = Len(words) - 1
         /\ DOMAIN words = 1..Len(words) /\ DOMAIN Tail(words) = 1..(Len(words) - 1)
         /\ \A i \in DOMAIN Tail(words) : i + 1 \in DOMAIN words /\ Tail(words)[i] = words[i + 1]
         /\ Head(words) = words[1] /\ Head(words) \in S /\ 1 \in DOMAIN words
OBVIOUS

---------------------------------------------------------------------------
(* Chains of diffs.                                                        *)

LEMMA LeadsWithoutDiffs ==
  ASSUME NEW words, NEW a, NEW b, DiffsIn(words) = {}
  PROVE  Leads(words, a, b) <=> a = b
BY DEF Leads

LEMMA LeadsAppendOther ==
  ASSUME NEW S, NEW words \in Seq(S), NEW w \in S, w.type # "FRAME_DIFF", NEW a, NEW b
  PROVE  Leads(Append(words, w), a, b) <=> Leads(words, a, b)
<1> DEFINE more == Append(words, w)
<1>1. DiffsIn(more) = DiffsIn(words) /\ \A i \in DiffsIn(words) : more[i] = words[i]
  BY AppendWord DEF DiffsIn
<1> QED BY <1>1 DEF Leads

LEMMA LeadsAppendDiff ==
  ASSUME NEW S, NEW words \in Seq(S), NEW w \in S, w.type = "FRAME_DIFF", NEW a,
         Leads(words, a, w.from)
  PROVE  Leads(Append(words, w), a, w.to)
<1> DEFINE more == Append(words, w)
           n == Len(words) + 1
<1>1. /\ DiffsIn(more) = DiffsIn(words) \cup {n} /\ n \in Nat
      /\ \A i \in DiffsIn(words) : more[i] = words[i] /\ i \in Nat /\ i < n
      /\ more[n] = w
  BY AppendWord DEF DiffsIn
<1>2. \A i \in DiffsIn(words) : (\A k \in DiffsIn(words) : k <= i) => words[i].to = w.from
  BY DEF Leads
<1>3. ASSUME NEW i \in DiffsIn(more)
      PROVE  /\ (\A j \in DiffsIn(more) : i <= j) => more[i].from = a
             /\ (\A j \in DiffsIn(more) : j <= i) => more[i].to = w.to
             /\ \A j \in DiffsIn(more) :
                  i < j /\ (\A k \in DiffsIn(more) : k <= i \/ j <= k)
                    => more[j].from = more[i].to
  <2>1. CASE i = n
    <3>1. ASSUME \A j \in DiffsIn(more) : i <= j PROVE DiffsIn(words) = {}
      <4>1. \A j \in DiffsIn(words) : j \in DiffsIn(more) /\ j \in Nat /\ j < n
        BY <1>1
      <4>2. \A j \in DiffsIn(words) : n <= j
        BY <2>1, <3>1, <4>1
      <4>3. n \in Nat
        BY <1>1
      <4> HIDE DEF n, more
      <4> QED BY <4>1, <4>2, <4>3
    <3>2. DiffsIn(words) = {} => a = w.from
      BY DEF Leads
    <3> QED BY <1>1, <2>1, <3>1, <3>2
  <2>2. CASE i \in DiffsIn(words)
    <3>1. (\A j \in DiffsIn(more) : i <= j) => more[i].from = a
      BY <1>1, <2>2 DEF Leads
    <3>2. ~(\A j \in DiffsIn(more) : j <= i)
      BY <1>1, <2>2
    <3>3. ASSUME NEW j \in DiffsIn(more), i < j, \A k \in DiffsIn(more) : k <= i \/ j <= k
          PROVE  more[j].from = more[i].to
      <4>1. CASE j = n
        <5>1. \A k \in DiffsIn(words) : k <= i
          BY <1>1, <3>3, <4>1
        <5> QED BY <1>1, <1>2, <2>2, <4>1, <5>1
      <4>2. CASE j \in DiffsIn(words)
        BY <1>1, <2>2, <3>3, <4>2 DEF Leads
      <4> QED BY <1>1, <4>1, <4>2
    <3> QED BY <3>1, <3>2, <3>3
  <2> QED BY <1>1, <2>1, <2>2
<1>4. DiffsIn(more) # {}
  BY <1>1
<1> QED BY <1>3, <1>4 DEF Leads

\* Taking the first word: a diff moves the start of the chain, another word does not.
LEMMA LeadsTail ==
  ASSUME NEW S, NEW words \in Seq(S), words # <<>>, NEW a, NEW b, Leads(words, a, b)
  PROVE  /\ Head(words).type # "FRAME_DIFF" => Leads(Tail(words), a, b)
         /\ Head(words).type = "FRAME_DIFF" =>
              Head(words).from = a /\ Leads(Tail(words), Head(words).to, b)
<1> DEFINE rest == Tail(words)
<1>1. \A i : i \in DiffsIn(rest) <=> i \in Nat /\ i > 0 /\ i + 1 \in DiffsIn(words)
  BY TailWords DEF DiffsIn
<1>2. /\ \A i \in DiffsIn(rest) : rest[i] = words[i + 1] /\ i \in Nat /\ i > 0
      /\ \A i \in DiffsIn(words) : i \in Nat /\ i > 0
      /\ Head(words) = words[1] /\ (Head(words).type = "FRAME_DIFF" <=> 1 \in DiffsIn(words))
  BY TailWords DEF DiffsIn
<1>3. \A i \in DiffsIn(words) : i # 1 => i - 1 \in DiffsIn(rest) /\ i = (i - 1) + 1
  BY <1>1, <1>2
<1>4. ASSUME NEW i \in DiffsIn(rest)
      PROVE  (\A j \in DiffsIn(rest) : j <= i) => rest[i].to = b
  <2>1. SUFFICES ASSUME \A j \in DiffsIn(rest) : j <= i PROVE rest[i].to = b
    OBVIOUS
  <2>2. i + 1 \in DiffsIn(words) /\ \A j \in DiffsIn(words) : j <= i + 1
    BY <1>1, <1>2, <1>3, <2>1
  <2> QED BY <1>2, <2>2 DEF Leads
<1>5. ASSUME NEW i \in DiffsIn(rest), NEW j \in DiffsIn(rest), i < j,
             \A k \in DiffsIn(rest) : k <= i \/ j <= k
      PROVE  rest[j].from = rest[i].to
  <2>1. \A k \in DiffsIn(words) : k <= i + 1 \/ j + 1 <= k
    BY <1>2, <1>3, <1>5
  <2>2. i + 1 \in DiffsIn(words) /\ j + 1 \in DiffsIn(words) /\ i + 1 < j + 1
    BY <1>1, <1>2, <1>5
  <2>3. words[j + 1].from = words[i + 1].to
    BY <2>1, <2>2 DEF Leads
  <2> QED BY <1>2, <2>3
<1>6. ASSUME Head(words).type # "FRAME_DIFF" PROVE Leads(rest, a, b)
  <2>1. DiffsIn(rest) = {} => a = b
    BY <1>2, <1>3, <1>6 DEF Leads
  <2>2. ASSUME NEW i \in DiffsIn(rest), \A j \in DiffsIn(rest) : i <= j
        PROVE  rest[i].from = a
    <3>1. i + 1 \in DiffsIn(words) /\ \A j \in DiffsIn(words) : i + 1 <= j
      BY <1>1, <1>2, <1>3, <1>6, <2>2
    <3> QED BY <1>2, <3>1 DEF Leads
  <2> QED BY <1>4, <1>5, <2>1, <2>2 DEF Leads
<1>7. ASSUME Head(words).type = "FRAME_DIFF"
      PROVE  Head(words).from = a /\ Leads(rest, Head(words).to, b)
  <2>1. 1 \in DiffsIn(words) /\ \A j \in DiffsIn(words) : 1 <= j
    BY <1>2, <1>7
  <2>2. Head(words).from = a
    BY <1>2, <2>1 DEF Leads
  <2>3. DiffsIn(rest) = {} => Head(words).to = b
    <3>1. DiffsIn(rest) = {} => \A j \in DiffsIn(words) : j <= 1
      BY <1>3, <2>1
    <3> QED BY <1>2, <2>1, <3>1 DEF Leads
  <2>4. ASSUME NEW i \in DiffsIn(rest), \A j \in DiffsIn(rest) : i <= j
        PROVE  rest[i].from = Head(words).to
    <3>1. /\ i + 1 \in DiffsIn(words) /\ 1 < i + 1
          /\ \A k \in DiffsIn(words) : k <= 1 \/ i + 1 <= k
      BY <1>1, <1>2, <1>3, <2>4
    <3>2. words[i + 1].from = words[1].to
      BY <2>1, <3>1 DEF Leads
    <3> QED BY <1>2, <3>2
  <2> QED BY <1>4, <1>5, <2>2, <2>3, <2>4 DEF Leads
<1> QED BY <1>6, <1>7

---------------------------------------------------------------------------
(* Steps that leave the connection, or leave it for a new one.             *)

\* What the invariant says of the connection, the wires and the shell's store.
WireInv ==
  /\ WiresTyped /\ SocketInv /\ WordsInv /\ BaseInv /\ KeptInv /\ ShellInv /\ IngestedInv
  /\ AnswersInv /\ FollowsKernel /\ AnswersAreTheKernels

LinkTyped ==
  /\ link \in Links
  /\ sock \in [Conns -> {"none", "connecting", "open", "closing", "closed"}]
  /\ outcome \in [Cmds -> {"none", "accepted", "rejected", "timeout", "lost", "unsent", "threw"}]

NewLink(l) ==
  \/ l = NoLink
  \/ \E c \in Conns, r \in Runs : Fresh(c) /\ l = [NoLink EXCEPT !.client = c, !.run = r]

LEMMA NewLinkFacts ==
  ASSUME NEW l, NewLink(l)
  PROVE  /\ l \in Links /\ l.checked = "nothing" /\ l.baseline = NoState /\ l.pending = <<>>
         /\ ~l.ingested /\ l.acks = {}
         /\ l.client = NoConn => l = NoLink
         /\ l.client # NoConn => l.client \in Conns /\ Fresh(l.client) /\ l.run \in Runs
<1>1. NoLink \in Links /\ NoLink.client = NoConn /\ NoConn \notin Conns
  BY StateFacts, ViewerFlowAssumption DEF NoLink, Links
<1>2. CASE l = NoLink
  BY <1>1, <1>2 DEF NoLink
<1>3. CASE \E c \in Conns, r \in Runs : Fresh(c) /\ l = [NoLink EXCEPT !.client = c, !.run = r]
  <2>1. PICK c \in Conns, r \in Runs : Fresh(c) /\ l = [NoLink EXCEPT !.client = c, !.run = r]
    BY <1>3
  <2>2. l = [client |-> c, run |-> r, checked |-> "nothing", bridge |-> NoConn,
             baseline |-> NoState, pending |-> <<>>, ingested |-> FALSE, acks |-> {}]
    BY <2>1 DEF NoLink
  <2>3. <<>> \in Seq(Diffs) /\ {} \in SUBSET Cmds /\ NoState \in States
    BY StateFacts
  <2>4. l \in Links
    BY <2>2, <2>3 DEF Links
  <2>5. l.client = c /\ l.run = r /\ c # NoConn
    BY <2>2, ViewerFlowAssumption
  <2>6. /\ l.checked = "nothing" /\ l.baseline = NoState /\ l.pending = <<>>
        /\ ~l.ingested /\ l.acks = {}
    BY <2>2
  <2>7. Fresh(l.client)
    BY <2>1, <2>5 DEF Fresh
  <2> QED BY <2>4, <2>5, <2>6, <2>7
<1> QED BY <1>2, <1>3 DEF NewLink

\* The words under way to the kernel stay, and those to the viewer belong to the
\* connection that was left.
LEMMA RelinkStep ==
  ASSUME IInv, NEW l, NewLink(l), Relink(l), UNCHANGED <<up, kernelVars>>
  PROVE  WireInv' /\ LinkTyped'
<1> USE DEF kernelVars
<1>1. /\ link' = l /\ sock' = SocketsAfter(l.client) /\ outcome' = Settled
      /\ down' = [c \in Conns |-> IF c = link.client THEN <<>> ELSE down[c]]
      /\ truth' = truth /\ watch' = watch /\ stage' = stage /\ view' = view /\ owes' = owes
      /\ verdict' = verdict /\ up' = up
  BY DEF Relink
<1>2. LinkTyped'
  BY <1>1, NewLinkFacts DEF IInv, TypeOK, LinkTyped, SocketsAfter, Settled
<1>3. \A c \in Conns : down'[c] = <<>>
  BY <1>1 DEF IInv, SocketInv
<1>4. WiresTyped'
  BY <1>1 DEF IInv, WiresTyped
<1>5. SocketInv'
  <2>1. SUFFICES ASSUME NEW c \in Conns
        PROVE  /\ c # l.client => sock'[c] \in {"none", "closed"}
               /\ c = l.client => sock'[c] = "connecting" /\ sock[c] = "none"
               /\ sock'[c] = "none" => sock[c] = "none"
    BY <1>1, <1>3, NewLinkFacts DEF IInv, SocketInv
  <2>2. c = l.client => sock[c] = "none" /\ c # link.client
    BY NewLinkFacts, ViewerFlowAssumption DEF Fresh, IInv, SocketInv
  <2> QED BY <1>1, <2>2 DEF SocketsAfter, IInv, SocketInv
<1>6. WordsInv' /\ BaseInv'
  <2>1. \A c \in Conns : DOMAIN down'[c] = {} /\ Len(down'[c]) = 0
    BY <1>3
  <2>2. Read' = 0
    BY <1>1, NewLinkFacts DEF Read
  <2>3. l.client # NoConn => l.client \in Conns /\ stage[l.client] = "silent"
                             /\ sock'[l.client] = "connecting"
    BY <1>1, NewLinkFacts, ViewerFlowAssumption DEF Fresh, IInv, SocketInv, SocketsAfter
  <2> QED BY <1>1, <2>1, <2>2, <2>3 DEF WordsInv, BaseInv
<1>7. KeptInv' /\ ShellInv' /\ IngestedInv' /\ FollowsKernel'
  BY <1>1, NewLinkFacts DEF KeptInv, ShellInv, IngestedInv, FollowsKernel
<1>8. AnswersInv'
  <2>1. \A c \in Conns : \A i \in DOMAIN up[c] : up[c][i].type = "INPUT_COMMAND" =>
          up[c][i].cmd \in Cmds
    BY UpFields DEF IInv, WiresTyped
  <2>2. \A id \in Cmds : outcome[id] # "none" \/ id \in link.acks => outcome'[id] # "none"
    BY <1>1 DEF Settled
  <2> QED BY <1>1, <1>3, <2>1, <2>2 DEF IInv, AnswersInv
<1>9. AnswersAreTheKernels'
  BY <1>1 DEF IInv, AnswersAreTheKernels, Settled
<1> QED BY <1>2, <1>4, <1>5, <1>6, <1>7, <1>8, <1>9 DEF WireInv

Stores == [anchor : Runs \cup {NoRun}, state : States, desynced : BOOLEAN]
Idle == [fresh : {FALSE}, stale : Nat]

LEMMA ScreenKinds ==
  /\ \A kind \in {"BOOT", "LOADING", "MAIN_MENU", "CASE_SELECT", "LIVE_GAME"} :
       [kind |-> kind] \in AppStates /\ [kind |-> kind].kind = kind
  /\ \A phase \in Phases : Connecting(phase) \in AppStates
                           /\ Connecting(phase).kind = "CONNECTING"
                           /\ Connecting(phase).phase = phase
<1>1. \A kind \in {"BOOT", "LOADING", "MAIN_MENU", "CASE_SELECT", "LIVE_GAME"} :
        [kind |-> kind] \in AppStates /\ [kind |-> kind].kind = kind
  BY DEF AppStates
<1>2. \A phase \in Phases : Connecting(phase) \in AppStates
                            /\ Connecting(phase).kind = "CONNECTING"
                            /\ Connecting(phase).phase = phase
  BY DEF AppStates, Connecting
<1> QED BY <1>1, <1>2

LEMMA ErrorScreen ==
  ASSUME NEW code \in Codes, NEW reason, reason \notin Blaming
  PROVE  /\ Error(code, reason) \in AppStates /\ Error(code, reason).kind = "ERROR"
         /\ Error(code, reason).code = code /\ ~Error(code, reason).blames
<1>1. (reason \in Blaming) = FALSE
  OBVIOUS
<1> QED BY <1>1 DEF AppStates, Error

LEMMA OutdatedIdle ==
  ASSUME IInv PROVE Outdated \in Idle
<1>1. boots.stale \in Nat
  BY DEF IInv, TypeOK
<1>2. (boots.stale + IF boots.fresh THEN 1 ELSE 0) \in Nat
  BY <1>1
<1> QED BY <1>2 DEF Outdated, Idle

\* A screen without a connection: the menus and the errors.
LEMMA ShowStep ==
  ASSUME IInv, NEW screen \in AppStates,
         screen.kind \notin {"CONNECTING", "LIVE_GAME"},
         app' = screen, attempt' = NoRun, Relink(NoLink), boots' \in Idle,
         UNCHANGED <<begun, up, viewer, shells, destroyed, kernelVars>>,
         asked' \subseteq asked, session' \in {NoRun, wanted'},
         wanted' \in Runs \cup {NoRun}, destroyed => wanted' = NoRun,
         failure' \in BOOLEAN, store' \in Stores,
         screen.kind = "ERROR" =>
           /\ ~screen.blames
           /\ ~destroyed => /\ screen.code = "CONNECTION_FAILURE" => session' # NoRun
                            /\ screen.code = "LAUNCH_FAILURE" => failure'
  PROVE  IInv'
<1>1. WireInv' /\ LinkTyped' /\ link' = NoLink
  BY RelinkStep DEF Relink, NewLink
<1>2. /\ begun' = begun /\ viewer' = viewer /\ shells' = shells /\ destroyed' = destroyed
      /\ verdict' = verdict /\ owes' = owes
  BY DEF kernelVars
<1>3. ~boots'.fresh /\ boots' \in [fresh : BOOLEAN, stale : Nat]
  BY DEF Idle
<1>4. TypeOK'
  BY <1>1, <1>2, <1>3 DEF IInv, TypeOK, LinkTyped, Stores
<1>5. /\ NoLink.client = NoConn /\ NoLink.baseline = NoState /\ ~NoLink.ingested
      /\ NoLink.pending = <<>>
  BY DEF NoLink
<1>6. WantedInv'
  BY <1>1, <1>2, <1>5 DEF WantedInv
<1>7. ScreenInv'
  BY <1>1, <1>2, <1>3, <1>5 DEF IInv, ScreenInv, InPlay
<1>8. ErrorsAreHonest'
  BY <1>2 DEF ErrorsAreHonest
<1> QED BY <1>1, <1>4, <1>6, <1>7, <1>8 DEF IInv, WireInv

\* failLiveConnection and every other way to an error screen that keeps the
\* launch data.
LEMMA FailStep ==
  ASSUME IInv, NEW code \in {"STARTUP_INCOMPATIBILITY", "CONNECTION_FAILURE"},
         NEW reason, reason \notin Blaming, session # NoRun \/ destroyed,
         app' = Error(code, reason), attempt' = NoRun, Relink(NoLink), boots' \in Idle,
         store' \in Stores,
         UNCHANGED <<asked, begun, session, failure, up, viewer, shells, destroyed, wanted,
                     kernelVars>>
  PROVE  IInv'
<1> DEFINE screen == Error(code, reason)
<1>1. /\ screen \in AppStates /\ screen.kind = "ERROR" /\ screen.code = code
      /\ ~screen.blames
  BY ErrorScreen DEF Codes
<1>2. /\ wanted' = wanted /\ session' = session /\ session' \in {NoRun, wanted'}
      /\ wanted' \in Runs \cup {NoRun} /\ (destroyed => wanted' = NoRun)
      /\ asked' \subseteq asked /\ failure' \in BOOLEAN
      /\ UNCHANGED <<begun, up, viewer, shells, destroyed, kernelVars>>
  BY DEF IInv, TypeOK, WantedInv
<1> HIDE DEF screen
<1>3. app' = screen
  BY DEF screen
<1> QED BY <1>1, <1>2, <1>3, ShowStep

\* On the connection's events its run is the wanted one.
LEMMA Current ==
  ASSUME IInv, NEW c \in Conns, link.client = c
  PROVE  /\ link.client # NoConn /\ session = wanted /\ link.run = wanted /\ wanted \in Runs
         /\ session # NoRun /\ ~destroyed /\ app.kind \in {"CONNECTING", "LIVE_GAME"}
         /\ app.kind = "CONNECTING" <=> link.baseline = NoState
         /\ app.kind = "CONNECTING" => app.phase # "CASE_LAUNCH"
BY ViewerFlowAssumption DEF IInv, TypeOK, WantedInv, ScreenInv, InPlay

LEMMA GoToStep ==
  ASSUME IInv, NEW screen \in {"MAIN_MENU", "CASE_SELECT"}, GoTo(screen)
  PROVE  IInv'
<1> DEFINE shown == [kind |-> screen]
<1>1. shown \in AppStates /\ shown.kind = screen
  BY ScreenKinds
<1>2. /\ app' = shown /\ attempt' = NoRun /\ Relink(NoLink) /\ boots' = Outdated
      /\ session' = NoRun /\ wanted' = NoRun
      /\ UNCHANGED <<asked, begun, failure, up, viewer, shells, store, destroyed, kernelVars>>
  BY DEF GoTo, Show
<1>3. /\ session' \in {NoRun, wanted'} /\ wanted' \in Runs \cup {NoRun}
      /\ (destroyed => wanted' = NoRun) /\ asked' \subseteq asked /\ failure' \in BOOLEAN
      /\ store' \in Stores /\ boots' \in Idle
      /\ UNCHANGED <<begun, up, viewer, shells, destroyed, kernelVars>>
  BY <1>2, OutdatedIdle DEF IInv, TypeOK, Stores
<1> HIDE DEF shown
<1> QED BY <1>1, <1>2, <1>3, ShowStep

LEMMA BootFlowStep ==
  ASSUME IInv, BootFlow
  PROVE  IInv'
<1>1. PICK kind \in {"LOADING", "MAIN_MENU"} : Show([kind |-> kind])
  BY DEF BootFlow
<1> DEFINE shown == [kind |-> kind]
<1>2. shown \in AppStates /\ shown.kind = kind
  BY ScreenKinds
<1>3. /\ app' = shown /\ attempt' = NoRun /\ Relink(NoLink) /\ boots' = Outdated
      /\ UNCHANGED <<asked, begun, session, failure, up, viewer, shells, store, destroyed,
                     wanted, kernelVars>>
  BY <1>1 DEF BootFlow, Show
<1>4. /\ session' \in {NoRun, wanted'} /\ wanted' \in Runs \cup {NoRun}
      /\ (destroyed => wanted' = NoRun) /\ asked' \subseteq asked /\ failure' \in BOOLEAN
      /\ store' \in Stores /\ boots' \in Idle
      /\ UNCHANGED <<begun, up, viewer, shells, destroyed, kernelVars>>
  BY <1>3, OutdatedIdle DEF IInv, TypeOK, WantedInv, Stores
<1> HIDE DEF shown
<1> QED BY <1>2, <1>3, <1>4, ShowStep

LEMMA RetryCannotConnectStep ==
  ASSUME IInv, NEW code \in ThrownCodes, RetryCannotConnect(code)
  PROVE  IInv'
<1>1. store' \in Stores /\ Outdated \in Idle
  BY OutdatedIdle DEF IInv, TypeOK, Stores, RetryCannotConnect
<1>2. "CONNECT_THROW" \notin Blaming /\ code \in {"STARTUP_INCOMPATIBILITY", "CONNECTION_FAILURE"}
  BY DEF Blaming, ThrownCodes
<1> QED BY <1>1, <1>2, FailStep DEF RetryCannotConnect, Show

LEMMA LaunchFailureStep ==
  ASSUME IInv, NEW r \in Runs,
         \/ \E code \in ThrownCodes : LaunchCannotConnect(r, code)
         \/ \E code \in {"LAUNCH_FAILURE", "STARTUP_INCOMPATIBILITY"} : LaunchFails(r, code)
  PROVE  IInv'
<1>1. attempt = r /\ ~destroyed /\ r \in asked /\ r # NoRun
  BY ViewerFlowAssumption DEF LaunchCannotConnect, LaunchFails, IsCurrentLaunch
<1>2. r = wanted
  BY <1>1 DEF IInv, WantedInv
<1>3. PICK code \in Codes, reason \in {"CONNECT_THROW", "CASE_LAUNCH_FAILED"} :
        /\ Show(Error(code, reason)) /\ asked' = asked \ {r} /\ session' \in {NoRun, r}
        /\ code = "CONNECTION_FAILURE" => session' = r
        /\ code = "LAUNCH_FAILURE" => failure'
        /\ failure' \in BOOLEAN
        /\ UNCHANGED <<begun, up, viewer, shells, store, destroyed, wanted, kernelVars>>
  <2>1. CASE \E code \in ThrownCodes : LaunchCannotConnect(r, code)
    BY <2>1 DEF LaunchCannotConnect, Codes, ThrownCodes
  <2>2. CASE \E code \in {"LAUNCH_FAILURE", "STARTUP_INCOMPATIBILITY"} : LaunchFails(r, code)
    BY <2>2 DEF LaunchFails, Codes
  <2> QED BY <2>1, <2>2
<1> DEFINE screen == Error(code, reason)
<1>4. /\ screen \in AppStates /\ screen.kind = "ERROR" /\ screen.code = code
      /\ ~screen.blames
  <2>1. reason \notin Blaming
    BY DEF Blaming
  <2> QED BY <2>1, ErrorScreen
<1>5. app' = screen /\ attempt' = NoRun /\ Relink(NoLink) /\ boots' = Outdated
  BY <1>3 DEF Show
<1>6. /\ session' \in {NoRun, wanted'} /\ wanted' \in Runs \cup {NoRun}
      /\ (destroyed => wanted' = NoRun) /\ asked' \subseteq asked /\ failure' \in BOOLEAN
      /\ store' \in Stores /\ boots' \in Idle
      /\ UNCHANGED <<begun, up, viewer, shells, destroyed, kernelVars>>
  BY <1>1, <1>2, <1>3, <1>5, OutdatedIdle DEF IInv, TypeOK, Stores
<1>7. /\ code = "CONNECTION_FAILURE" => session' # NoRun
      /\ code = "LAUNCH_FAILURE" => failure'
  BY <1>1, <1>3
<1> HIDE DEF screen
<1> QED BY <1>4, <1>5, <1>6, <1>7, ShowStep

\* failLiveConnection on an event of the connection.
LEMMA FailLiveConnectionStep ==
  ASSUME IInv, NEW c \in Conns, link.client = c,
         NEW code \in {"STARTUP_INCOMPATIBILITY", "CONNECTION_FAILURE"},
         NEW reason, reason \notin Blaming, FailLiveConnection(code, reason)
  PROVE  IInv'
<1>1. session # NoRun
  BY Current
<1>2. store' \in Stores /\ Outdated \in Idle
  BY OutdatedIdle DEF IInv, TypeOK, Stores, FailLiveConnection
<1> QED BY <1>1, <1>2, FailStep DEF FailLiveConnection, Show

LEMMA EndingStep ==
  ASSUME IInv, NEW c \in Conns,
         OnError(c) \/ OnProtocolError(c) \/ OnClose(c) \/ OnTransportError(c)
  PROVE  IInv'
<1>1. link.client = c
  BY DEF OnError, OnProtocolError, OnClose, OnTransportError, Arrives
<1>2. ProtocolCode \in {"STARTUP_INCOMPATIBILITY", "CONNECTION_FAILURE"}
  BY DEF ProtocolCode
<1>3. PICK code \in {"STARTUP_INCOMPATIBILITY", "CONNECTION_FAILURE"},
           reason \in {"KERNEL_ERROR", "PROTOCOL_VIOLATION", "SOCKET_CLOSED", "TRANSPORT_ERROR"} :
        FailLiveConnection(code, reason)
  BY <1>2 DEF OnError, OnProtocolError, OnClose, OnTransportError
<1>4. reason \notin Blaming
  BY DEF Blaming
<1> QED BY <1>1, <1>3, <1>4, FailLiveConnectionStep

LEMMA WireFrame ==
  ASSUME WireInv, UNCHANGED <<link, sock, up, down, outcome, viewer, store, kernelVars>>
  PROVE  WireInv'
<1>1. /\ link' = link /\ sock' = sock /\ up' = up /\ down' = down /\ outcome' = outcome
      /\ viewer' = viewer /\ store' = store /\ truth' = truth /\ watch' = watch
      /\ stage' = stage /\ view' = view /\ owes' = owes /\ verdict' = verdict
  BY DEF kernelVars
<1>2. WiresTyped' /\ SocketInv' /\ KeptInv' /\ ShellInv' /\ IngestedInv'
  BY <1>1 DEF WireInv, WiresTyped, SocketInv, KeptInv, ShellInv, IngestedInv
<1>3. WordsInv' /\ BaseInv'
  <2>1. Read' = Read
    BY <1>1 DEF Read
  <2> QED BY <1>1, <2>1 DEF WireInv, WordsInv, BaseInv, IsNth, StateOf
<1>4. AnswersInv' /\ AnswersAreTheKernels'
  BY <1>1 DEF WireInv, AnswersInv, AnswersAreTheKernels
<1>5. FollowsKernel'
  <2>1. Held' = Held /\ Ahead' = Ahead
    BY <1>1 DEF Held, Ahead
  <2> QED BY <1>1, <2>1 DEF WireInv, FollowsKernel, StateOf
<1> QED BY <1>2, <1>3, <1>4, <1>5 DEF WireInv

LEMMA LaunchOutdatedStep ==
  ASSUME IInv, NEW r \in Runs, LaunchOutdated(r)
  PROVE  IInv'
<1>1. /\ asked' = asked \ {r} /\ (destroyed \/ attempt # r)
      /\ UNCHANGED <<app, attempt, begun, session, failure, link, sock, up, down, viewVars,
                     outcome, destroyed, wanted, kernelVars>>
  BY DEF LaunchOutdated, IsCurrentLaunch
<1>2. WireInv'
  BY <1>1, WireFrame DEF viewVars, IInv, WireInv
<1>3. TypeOK' /\ WantedInv' /\ ErrorsAreHonest'
  BY <1>1 DEF IInv, TypeOK, WantedInv, ErrorsAreHonest, viewVars, kernelVars
<1>4. ScreenInv'
  BY <1>1 DEF IInv, ScreenInv, InPlay, viewVars
<1> QED BY <1>2, <1>3, <1>4 DEF IInv, WireInv

\* beginLiveConnection on the connecting screen.
LEMMA ConnectStep ==
  ASSUME IInv, NEW c \in Conns, NEW r \in Runs, Fresh(c), ~destroyed,
         ShowConnecting("SESSION_STARTUP"), Relink([NoLink EXCEPT !.client = c, !.run = r]),
         wanted = r, session' = r, attempt' \in {NoRun, r}, attempt' \notin asked',
         asked' \subseteq asked, failure' \in BOOLEAN,
         UNCHANGED <<begun, up, viewer, shells, store, destroyed, wanted, kernelVars>>
  PROVE  IInv'
<1> DEFINE l == [NoLink EXCEPT !.client = c, !.run = r]
<1>1. /\ NewLink(l) /\ l.client = c /\ l.run = r /\ l.baseline = NoState /\ ~l.ingested
      /\ l.pending = <<>> /\ c # NoConn /\ r # NoRun
  BY ViewerFlowAssumption DEF NewLink, NoLink
<1>2. link' = l
  BY DEF Relink
<1>3. WireInv' /\ LinkTyped'
  <2> HIDE DEF l
  <2>1. Relink(l)
    BY DEF l
  <2> QED BY <1>1, <2>1, RelinkStep
<1>4. /\ app' = Connecting("SESSION_STARTUP") /\ app' \in AppStates
      /\ app'.kind = "CONNECTING" /\ app'.phase = "SESSION_STARTUP"
      /\ boots' \in Idle
  BY ScreenKinds, OutdatedIdle DEF ShowConnecting, Phases
<1>5. ~boots'.fresh /\ boots' \in [fresh : BOOLEAN, stale : Nat]
  BY <1>4 DEF Idle
<1> HIDE DEF l
<1>6. TypeOK'
  BY <1>3, <1>4, <1>5 DEF IInv, TypeOK, LinkTyped, kernelVars
<1>7. WantedInv'
  BY <1>1, <1>2 DEF WantedInv
<1>8. ScreenInv'
  BY <1>1, <1>2, <1>4, <1>5 DEF IInv, ScreenInv, InPlay
<1>9. ErrorsAreHonest'
  BY <1>4 DEF ErrorsAreHonest
<1> QED BY <1>3, <1>6, <1>7, <1>8, <1>9 DEF IInv, WireInv

LEMMA RetryLiveConnectionStep ==
  ASSUME IInv, NEW c \in Conns, RetryLiveConnection(c)
  PROVE  IInv'
<1>1. session \in Runs /\ session = wanted /\ NoRun \notin asked
  BY ViewerFlowAssumption DEF RetryLiveConnection, IInv, TypeOK, WantedInv
<1> QED BY <1>1, ConnectStep DEF RetryLiveConnection, IInv, TypeOK

LEMMA LaunchSucceedsStep ==
  ASSUME IInv, NEW r \in Runs, NEW c \in Conns, LaunchSucceeds(r, c)
  PROVE  IInv'
<1>1. attempt = r /\ r \in asked /\ r # NoRun /\ ~destroyed /\ wanted = r
  BY ViewerFlowAssumption DEF LaunchSucceeds, IsCurrentLaunch, IInv, WantedInv
<1>2. app.kind = "CONNECTING"
  BY <1>1 DEF IInv, ScreenInv, InPlay
<1> QED BY <1>1, <1>2, ConnectStep DEF LaunchSucceeds

LEMMA BeginCaseLaunchStep ==
  ASSUME IInv, NEW r \in Runs, BeginCaseLaunch(r)
  PROVE  IInv'
<1>1. /\ ~destroyed /\ ShowConnecting("CASE_LAUNCH") /\ Relink(NoLink)
      /\ attempt' = r /\ asked' = asked \cup {r} /\ begun' = begun \cup {r}
      /\ session' = NoRun /\ wanted' = r
      /\ UNCHANGED <<failure, up, viewer, shells, store, destroyed, kernelVars>>
  BY DEF BeginCaseLaunch
<1>2. /\ NewLink(NoLink) /\ link' = NoLink /\ NoLink.client = NoConn
      /\ NoLink.baseline = NoState /\ ~NoLink.ingested /\ NoLink.pending = <<>>
  BY <1>1 DEF NewLink, NoLink, Relink
<1>3. WireInv' /\ LinkTyped'
  BY <1>1, <1>2, RelinkStep
<1>4. /\ app' \in AppStates /\ app'.kind = "CONNECTING" /\ app'.phase = "CASE_LAUNCH"
      /\ boots' \in Idle
  BY <1>1, ScreenKinds, OutdatedIdle DEF ShowConnecting, Phases
<1>5. ~boots'.fresh /\ boots' \in [fresh : BOOLEAN, stale : Nat]
  BY <1>4 DEF Idle
<1>6. TypeOK'
  BY <1>1, <1>3, <1>4, <1>5 DEF IInv, TypeOK, LinkTyped, kernelVars
<1>7. WantedInv'
  BY <1>1, <1>2 DEF WantedInv
<1>8. ScreenInv'
  BY <1>1, <1>2, <1>4, <1>5 DEF IInv, ScreenInv, InPlay
<1>9. ErrorsAreHonest'
  BY <1>4 DEF ErrorsAreHonest
<1> QED BY <1>3, <1>6, <1>7, <1>8, <1>9 DEF IInv, WireInv

LEMMA DestroyStep ==
  ASSUME IInv, Destroy
  PROVE  IInv'
<1>1. /\ ~destroyed /\ destroyed' = TRUE /\ Relink(NoLink)
      /\ attempt' = NoRun /\ session' = NoRun /\ wanted' = NoRun /\ failure' = FALSE
      /\ boots' = Outdated /\ viewer' = "stopped"
      /\ shells' = IF viewer = "up" THEN shells - 1 ELSE shells
      /\ UNCHANGED <<app, asked, begun, up, store, kernelVars>>
  BY DEF Destroy
<1>2. /\ NewLink(NoLink) /\ link' = NoLink /\ NoLink.client = NoConn
      /\ NoLink.baseline = NoState /\ ~NoLink.ingested /\ NoLink.pending = <<>>
  BY <1>1 DEF NewLink, NoLink, Relink
<1>3. WireInv' /\ LinkTyped'
  BY <1>1, <1>2, RelinkStep
<1>4. shells' = 0
  BY <1>1 DEF IInv, ScreenInv
<1>5. ~boots'.fresh /\ boots' \in [fresh : BOOLEAN, stale : Nat]
  BY <1>1, OutdatedIdle DEF Idle
<1>6. TypeOK'
  <2>1. /\ app' \in AppStates /\ {attempt', session', wanted'} \subseteq Runs \cup {NoRun}
        /\ asked' \subseteq begun' /\ begun' \subseteq Runs
        /\ viewer' \in {"none", "up", "stopped"} /\ shells' \in Nat
        /\ store' \in [anchor : Runs \cup {NoRun}, state : States, desynced : BOOLEAN]
    BY <1>1, <1>4 DEF IInv, TypeOK
  <2>2. /\ verdict' \in [Cmds -> {"none", "accepted", "rejected"}]
        /\ owes' \in [Conns -> BOOLEAN]
    BY <1>1 DEF IInv, TypeOK, kernelVars
  <2>3. {failure', destroyed'} \subseteq BOOLEAN
    <3>1. failure' = FALSE /\ destroyed' = TRUE
      BY <1>1
    <3> QED BY <3>1
  <2> QED BY <1>3, <1>5, <2>1, <2>2, <2>3 DEF TypeOK, LinkTyped
<1>7. WantedInv'
  BY <1>1, <1>2 DEF WantedInv
<1>8. ScreenInv'
  BY <1>1, <1>2, <1>4, <1>5 DEF IInv, ScreenInv, InPlay
<1>9. ErrorsAreHonest'
  BY <1>1 DEF IInv, ErrorsAreHonest
<1> QED BY <1>3, <1>6, <1>7, <1>8, <1>9 DEF IInv, WireInv

LEMMA BootFailsStep ==
  ASSUME IInv, NEW fresh \in BOOLEAN, BootFails(fresh)
  PROVE  IInv'
<1>1. CASE Installs(fresh)
  <2>1. /\ app' = Error("STARTUP_INCOMPATIBILITY", "MOUNT_FAILED") /\ attempt' = NoRun
        /\ Relink(NoLink) /\ boots' = [boots EXCEPT !.fresh = FALSE]
        /\ UNCHANGED <<asked, begun, session, failure, up, viewer, shells, store, destroyed,
                       wanted, kernelVars>>
    BY <1>1 DEF BootFails
  <2>2. boots.fresh /\ ~destroyed
    BY <1>1 DEF BootFails, Installs
  <2>3. session # NoRun
    BY <2>2 DEF IInv, ScreenInv, WantedInv
  <2>4. boots' \in Idle /\ store' \in Stores /\ "MOUNT_FAILED" \notin Blaming
    BY <2>1 DEF IInv, TypeOK, Stores, Idle, Blaming
  <2> QED BY <2>1, <2>3, <2>4, FailStep
<1>2. CASE ~Installs(fresh)
  <2>1. /\ UNCHANGED <<app, attempt, link, sock, down, outcome>>
        /\ UNCHANGED <<asked, begun, session, failure, up, viewer, shells, store, destroyed,
                       wanted, kernelVars>>
    BY <1>2 DEF BootFails
  <2>5. boots' \in [fresh : BOOLEAN, stale : Nat] /\ (boots'.fresh => boots.fresh)
    <3>1. boots \in [fresh : BOOLEAN, stale : Nat]
      BY DEF IInv, TypeOK
    <3>2. CASE fresh
      BY <1>2, <3>1, <3>2 DEF BootFails
    <3>3. CASE ~fresh
      <4>1. boots' = [boots EXCEPT !.stale = @ - 1] /\ boots.stale > 0
        BY <1>2, <3>3 DEF BootFails
      <4>2. boots.stale - 1 \in Nat
        BY <3>1, <4>1
      <4> QED BY <3>1, <4>1, <4>2
    <3> QED BY <3>2, <3>3
  <2>2. WireInv'
    BY <2>1, WireFrame DEF IInv, WireInv
  <2>3. TypeOK' /\ WantedInv' /\ ErrorsAreHonest'
    BY <2>1, <2>5 DEF IInv, TypeOK, WantedInv, ErrorsAreHonest, kernelVars
  <2>4. ScreenInv'
    BY <2>1, <2>5 DEF IInv, ScreenInv, InPlay
  <2> QED BY <2>2, <2>3, <2>4 DEF IInv, WireInv
<1> QED BY <1>1, <1>2

---------------------------------------------------------------------------
(* What a mounted shell is given.                                          *)

LEMMA LinkFields ==
  ASSUME IInv
  PROVE  /\ link.client \in Conns \cup {NoConn} /\ link.run \in Runs \cup {NoRun}
         /\ link.checked \in {"nothing", "hello", "subscribed"}
         /\ link.bridge \in Conns \cup {NoConn} /\ link.baseline \in States
         /\ link.pending \in Seq(Diffs) /\ link.ingested \in BOOLEAN /\ link.acks \subseteq Cmds
         /\ store.anchor \in Runs \cup {NoRun} /\ store.state \in States
         /\ store.desynced \in BOOLEAN
         /\ store = [anchor |-> store.anchor, state |-> store.state,
                     desynced |-> store.desynced]
BY DEF IInv, TypeOK, Links

LEMMA BaselineIngested ==
  ASSUME NEW s, NEW a, NEW b, NEW d, s = [anchor |-> a, state |-> b, desynced |-> d],
         NEW r, NEW x
  PROVE  IngestSnapshot(IngestHello(s, r), x) = [anchor |-> r, state |-> x, desynced |-> FALSE]
<1>1. /\ \A t, q : IngestHello(t, q) = [[t EXCEPT !.anchor = q] EXCEPT !.desynced = FALSE]
      /\ \A t, q : IngestSnapshot(t, q) = [[t EXCEPT !.state = q] EXCEPT !.desynced = FALSE]
  BY DEF IngestHello, IngestSnapshot
<1>2. IngestHello(s, r) = [anchor |-> r, state |-> b, desynced |-> FALSE]
  BY <1>1
<1>3. IngestSnapshot([anchor |-> r, state |-> b, desynced |-> FALSE], x) =
        [anchor |-> r, state |-> x, desynced |-> FALSE]
  BY <1>1
<1> QED BY <1>2, <1>3

\* Diffs that lead on from the store's state are all ingested.
LEMMA ChainIngested ==
  ASSUME NEW s \in Stores, ~s.desynced, NEW diffs \in Seq(Diffs), NEW b,
         Leads(diffs, s.state, b)
  PROVE  IngestDiffs(s, diffs) = [s EXCEPT !.state = b, !.desynced = FALSE]
<1> DEFINE before(i) == IF i = 1 THEN s.state ELSE diffs[i - 1].to
           misfits == {i \in DOMAIN diffs : ~Chained([s EXCEPT !.state = before(i)], diffs[i])}
<1>1. /\ DiffsIn(diffs) = DOMAIN diffs /\ DOMAIN diffs = 1..Len(diffs) /\ Len(diffs) \in Nat
      /\ \A i \in DOMAIN diffs : diffs[i] \in Diffs
  <2>1. DOMAIN diffs = 1..Len(diffs) /\ Len(diffs) \in Nat
    OBVIOUS
  <2>2. \A i \in DOMAIN diffs : diffs[i] \in Diffs
    OBVIOUS
  <2>3. \A d \in Diffs : d.type = "FRAME_DIFF"
    BY DEF Diffs
  <2>4. DiffsIn(diffs) = DOMAIN diffs
    BY <2>2, <2>3 DEF DiffsIn
  <2> QED BY <2>1, <2>2, <2>4
<1>2. ASSUME NEW i \in DOMAIN diffs
      PROVE  before(i) = diffs[i].from
  <2>1. CASE i = 1
    BY <1>1, <2>1 DEF Leads
  <2>2. CASE i # 1
    <3>1. /\ i - 1 \in DiffsIn(diffs) /\ i \in DiffsIn(diffs) /\ i - 1 < i
          /\ \A k \in DiffsIn(diffs) : k <= i - 1 \/ i <= k
      BY <1>1, <2>2
    <3>2. diffs[i].from = diffs[i - 1].to
      BY <3>1 DEF Leads
    <3> QED BY <2>2, <3>2
  <2> QED BY <2>1, <2>2
<1>3. \A i \in DOMAIN diffs : Chained([s EXCEPT !.state = before(i)], diffs[i])
  <2>1. \A x : [s EXCEPT !.state = x].state = x
    BY DEF Stores
  <2> HIDE DEF before
  <2> QED BY <1>2, <2>1 DEF Chained
<1>4. misfits = {}
  BY <1>3
<1>5. before(Len(diffs) + 1) = b
  <2>1. CASE Len(diffs) = 0
    BY <1>1, <2>1 DEF Leads
  <2>2. CASE Len(diffs) # 0
    <3>1. Len(diffs) \in DiffsIn(diffs) /\ \A k \in DiffsIn(diffs) : k <= Len(diffs)
      BY <1>1, <2>2
    <3>2. diffs[Len(diffs)].to = b
      BY <3>1 DEF Leads
    <3> QED BY <1>1, <2>2, <3>2
  <2> QED BY <2>1, <2>2
<1>6. IngestDiffs(s, diffs) =
        [s EXCEPT !.state = before(Len(diffs) + 1), !.desynced = misfits # {}]
  BY <1>4 DEF IngestDiffs
<1> HIDE DEF before, misfits
<1>7. (misfits # {}) = FALSE
  BY <1>4
<1> QED BY <1>5, <1>6, <1>7

LEMMA LeadsNowhere ==
  ASSUME NEW a PROVE Leads(<<>>, a, a)
<1>1. DiffsIn(<<>>) = {}
  BY DEF DiffsIn
<1> QED BY <1>1 DEF Leads

\* The shell that is mounted at last is brought to where the kept diffs lead.
LEMMA BootedStore ==
  ASSUME IInv, link.baseline # NoState, viewer # "up"
  PROVE  /\ SyncedStore(link, EmptyStore) =
              [anchor |-> link.run, state |-> Ahead, desynced |-> FALSE]
         /\ Ahead \in States /\ Ahead.run = link.run /\ Ahead # NoState /\ link.run \in Runs
<1>1. /\ ~link.ingested /\ link.checked = "subscribed" /\ link.baseline.run = link.run
      /\ link.run \in Runs
  BY StateFacts DEF IInv, IngestedInv, WantedInv, TypeOK, Links
<1>2. Held = link.baseline
  BY <1>1 DEF Held
<1> DEFINE based == [anchor |-> link.run, state |-> link.baseline, desynced |-> FALSE]
<1>3. based \in Stores /\ ~based.desynced /\ based.state = link.baseline
  BY <1>1, LinkFields DEF Stores
<1>4. Leads(link.pending, based.state, Ahead)
  BY <1>2, <1>3 DEF IInv, FollowsKernel
<1>5. IngestDiffs(based, link.pending) = [based EXCEPT !.state = Ahead, !.desynced = FALSE]
  <2> HIDE DEF based
  <2> QED BY <1>3, <1>4, LinkFields, ChainIngested
<1>6. SyncedStore(link, EmptyStore) = IngestDiffs(based, link.pending)
  <2>1. IngestSnapshot(IngestHello(EmptyStore, link.run), link.baseline) = based
    BY BaselineIngested DEF EmptyStore
  <2> QED BY <1>1, <2>1 DEF SyncedStore
<1>7. Ahead \in States /\ Ahead.run = link.run
  <2>1. CASE link.pending = <<>>
    BY <1>1, <1>2, <2>1, LinkFields DEF Ahead
  <2>2. CASE link.pending # <<>>
    <3>1. Len(link.pending) \in DOMAIN link.pending /\ link.pending[Len(link.pending)] \in Diffs
      BY <2>2, LinkFields
    <3>2. Ahead = link.pending[Len(link.pending)].to
      BY <2>2 DEF Ahead
    <3>3. link.pending[Len(link.pending)].to \in States
      BY <3>1 DEF Diffs
    <3>4. link.pending[Len(link.pending)].to.run = link.run
      BY <3>1 DEF IInv, KeptInv
    <3> QED BY <3>2, <3>3, <3>4
  <2> QED BY <2>1, <2>2
<1> QED BY <1>1, <1>5, <1>6, <1>7, StateFacts

\* A shell that has the baseline is given nothing new.
LEMMA ResyncedStore ==
  ASSUME IInv, viewer = "up"
  PROVE  /\ link.baseline # NoState =>
              SyncedStore(link, store) = store /\ SyncedLink(link) = link
         /\ link.baseline = NoState => SyncedLink(link) = link
<1>1. ASSUME link.baseline # NoState
      PROVE  SyncedStore(link, store) = store /\ SyncedLink(link) = link
  <2>1. /\ link.ingested /\ link.checked = "subscribed" /\ store.anchor = link.run
        /\ ~store.desynced
    BY <1>1 DEF IInv, WantedInv, ShellInv
  <2>2. link.pending = <<>>
    BY <2>1 DEF IInv, KeptInv
  <2>3. SyncedLink(link) = link
    <3>1. link \in Links
      BY DEF IInv, TypeOK
    <3>2. link.ingested = TRUE
      BY <2>1, <3>1 DEF Links
    <3>3. [link EXCEPT !.ingested = TRUE, !.pending = <<>>] = link
      BY <2>2, <3>1, <3>2 DEF Links
    <3> QED BY <1>1, <3>3 DEF SyncedLink
  <2>4. store.desynced = FALSE
    BY <2>1, LinkFields
  <2>5. IngestHello(store, link.run) = store
    BY <2>1, <2>4, LinkFields DEF IngestHello
  <2>6. store \in Stores
    BY DEF IInv, TypeOK, Stores
  <2>7. IngestDiffs(store, <<>>) = [store EXCEPT !.state = store.state, !.desynced = FALSE]
    <3>1. <<>> \in Seq(Diffs)
      OBVIOUS
    <3> QED BY <2>1, <2>6, <3>1, ChainIngested, LeadsNowhere
  <2>8. IngestDiffs(store, <<>>) = store
    BY <2>4, <2>7, LinkFields
  <2> QED BY <1>1, <2>1, <2>2, <2>3, <2>5, <2>8 DEF SyncedStore
<1> QED BY <1>1 DEF SyncedLink

---------------------------------------------------------------------------
(* Steps of the shell and of the player, who move no word to the viewer.   *)

SameLine ==
  link'.client = link.client /\ link'.run = link.run /\ link'.checked = link.checked
    /\ link'.baseline = link.baseline

LEMMA StreamStays ==
  ASSUME IInv, SameLine, UNCHANGED <<sock, down, truth, watch, stage, view, owes>>,
         up' \in [Conns -> Seq(UpWords)],
         \A c \in Conns : sock[c] \in {"none", "connecting"} => up'[c] = <<>>
  PROVE  WiresTyped' /\ SocketInv' /\ WordsInv' /\ BaseInv'
<1>1. WiresTyped'
  BY DEF IInv, WiresTyped
<1>2. SocketInv'
  BY DEF SameLine, IInv, SocketInv
<1>3. Read' = Read
  BY DEF SameLine, Read
<1>4. WordsInv'
  BY <1>3 DEF SameLine, IInv, WordsInv, IsNth
<1>5. BaseInv'
  BY DEF SameLine, IInv, BaseInv, StateOf
<1> QED BY <1>1, <1>2, <1>4, <1>5

\* The store is in step with the connection and stays where it was headed.
LEMMA ChainStays ==
  ASSUME IInv, SameLine, UNCHANGED <<sock, down, watch, view, viewer>>,
         link'.pending = link.pending, link'.ingested = link.ingested, store' = store
  PROVE  KeptInv' /\ ShellInv' /\ IngestedInv' /\ FollowsKernel'
<1>1. Held' = Held /\ Ahead' = Ahead
  BY DEF SameLine, Held, Ahead
<1> QED BY <1>1 DEF SameLine, IInv, KeptInv, ShellInv, IngestedInv, FollowsKernel, StateOf

\* A shell that takes over the state and the kept diffs.
LEMMA ChainTaken ==
  ASSUME IInv, SameLine, UNCHANGED <<sock, down, watch, view>>,
         link.baseline # NoState, link.run \in Runs,
         link' = SyncedLink(link), viewer' = "up",
         store' = [anchor |-> link.run, state |-> Ahead, desynced |-> FALSE],
         Ahead.run = link.run, Ahead # NoState
  PROVE  KeptInv' /\ ShellInv' /\ IngestedInv' /\ FollowsKernel'
<1>1. /\ link'.ingested /\ link'.pending = <<>>
      /\ store'.anchor = link.run /\ store'.state = Ahead /\ ~store'.desynced
  BY DEF SyncedLink, IInv, TypeOK, Links
<1>2. Held' = Ahead /\ Ahead' = Ahead
  BY <1>1 DEF Held, Ahead
<1>3. KeptInv' /\ ShellInv' /\ IngestedInv'
  BY <1>1 DEF SameLine, KeptInv, ShellInv, IngestedInv
<1>4. FollowsKernel'
  BY <1>1, <1>2, LeadsNowhere DEF SameLine, IInv, FollowsKernel, StateOf
<1> QED BY <1>3, <1>4

LEMMA AnswersStay ==
  ASSUME IInv, UNCHANGED <<up, down, verdict, outcome>>, link'.acks = link.acks
  PROVE  AnswersInv' /\ AnswersAreTheKernels'
BY DEF IInv, AnswersInv, AnswersAreTheKernels

LEMMA BootResolvesStep ==
  ASSUME IInv, NEW fresh \in BOOLEAN, BootResolves(fresh)
  PROVE  IInv'
<1>1. UNCHANGED <<app, flowVars, sock, up, down, outcome, destroyed, wanted, kernelVars>>
  BY DEF BootResolves
<1>2. boots' \in [fresh : BOOLEAN, stale : Nat] /\ (boots'.fresh => boots.fresh /\ ~fresh)
  <2>1. boots \in [fresh : BOOLEAN, stale : Nat]
    BY DEF IInv, TypeOK
  <2>2. CASE fresh
    BY <2>1, <2>2 DEF BootResolves
  <2>3. CASE ~fresh
    <3>1. boots' = [boots EXCEPT !.stale = @ - 1] /\ boots.stale > 0
      BY <2>3 DEF BootResolves
    <3>2. boots.stale - 1 \in Nat
      BY <2>1, <3>1
    <3> QED BY <2>1, <2>3, <3>1, <3>2
  <2> QED BY <2>2, <2>3
<1>3. CASE Installs(fresh)
  <2>1. /\ boots.fresh /\ fresh /\ ~destroyed /\ viewer' = "up" /\ shells' = shells + 1
        /\ link' = SyncedLink(link) /\ store' = SyncedStore(link, EmptyStore)
    BY <1>3 DEF BootResolves, Installs
  <2>2. /\ app.kind = "LIVE_GAME" /\ viewer = "none" /\ link.baseline # NoState /\ shells = 0
        /\ link.client # NoConn
    BY <2>1 DEF IInv, ScreenInv
  <2>3. /\ store' = [anchor |-> link.run, state |-> Ahead, desynced |-> FALSE]
        /\ Ahead \in States /\ Ahead.run = link.run /\ Ahead # NoState /\ link.run \in Runs
    BY <2>1, <2>2, BootedStore
  <2>4. link' = [link EXCEPT !.ingested = TRUE, !.pending = <<>>]
    BY <2>1, <2>2 DEF SyncedLink
  <2>5. SameLine /\ link'.acks = link.acks /\ link' \in Links
    <3>1. link \in Links
      BY DEF IInv, TypeOK
    <3>2. SameLine /\ link'.acks = link.acks
      BY <2>4, <3>1 DEF SameLine, Links
    <3>3. <<>> \in Seq(Diffs)
      OBVIOUS
    <3> QED BY <2>4, <3>1, <3>2, <3>3 DEF Links
  <2>6. WiresTyped' /\ SocketInv' /\ WordsInv' /\ BaseInv'
    BY <1>1, <2>5, StreamStays DEF IInv, WiresTyped, SocketInv, kernelVars
  <2>7. KeptInv' /\ ShellInv' /\ IngestedInv' /\ FollowsKernel'
    BY <1>1, <2>1, <2>2, <2>3, <2>5, ChainTaken DEF kernelVars
  <2>8. AnswersInv' /\ AnswersAreTheKernels'
    BY <1>1, <2>5, AnswersStay DEF kernelVars
  <2>9. TypeOK'
    <3>1. store' \in [anchor : Runs \cup {NoRun}, state : States, desynced : BOOLEAN]
      BY <2>3
    <3> QED BY <1>1, <1>2, <2>1, <2>2, <2>5, <3>1 DEF IInv, TypeOK, flowVars, kernelVars
  <2>10. WantedInv'
    BY <1>1, <2>2, <2>5 DEF IInv, WantedInv, SameLine, flowVars
  <2>11. ScreenInv'
    BY <1>1, <1>2, <2>1, <2>2, <2>5 DEF IInv, ScreenInv, InPlay, SameLine, flowVars
  <2>12. ErrorsAreHonest'
    BY <1>1 DEF IInv, ErrorsAreHonest, flowVars
  <2> QED BY <2>6, <2>7, <2>8, <2>9, <2>10, <2>11, <2>12 DEF IInv
<1>4. CASE ~Installs(fresh)
  <2>1. UNCHANGED <<viewer, shells, link, store>>
    BY <1>4 DEF BootResolves
  <2>2. WireInv'
    BY <1>1, <2>1, WireFrame DEF IInv, WireInv
  <2>3. TypeOK' /\ WantedInv' /\ ErrorsAreHonest'
    BY <1>1, <1>2, <2>1 DEF IInv, TypeOK, WantedInv, ErrorsAreHonest, flowVars, kernelVars
  <2>4. ScreenInv'
    BY <1>1, <1>2, <2>1 DEF IInv, ScreenInv, InPlay, flowVars
  <2> QED BY <2>2, <2>3, <2>4 DEF IInv, WireInv
<1> QED BY <1>3, <1>4

\* A mount begun on the game screen.
LEMMA MountedBoots ==
  ASSUME IInv, MountLiveGameShell
  PROVE  boots' \in [fresh : BOOLEAN, stale : Nat] /\ (boots'.fresh => viewer # "up")
<1>1. Outdated \in [fresh : BOOLEAN, stale : Nat] /\ ~Outdated.fresh
  BY OutdatedIdle DEF Idle
<1> QED BY <1>1 DEF MountLiveGameShell

LEMMA LocaleChangesStep ==
  ASSUME IInv, LocaleChanges
  PROVE  IInv'
<1>1. /\ ~destroyed /\ app.kind = "LIVE_GAME" /\ MountLiveGameShell /\ SetLink(link)
      /\ UNCHANGED <<app, flowVars, sock, up, down, viewer, shells, outcome, destroyed, wanted,
                     kernelVars>>
  BY DEF LocaleChanges
<1>2. link' = link /\ store' = store
  <2>1. link.baseline # NoState
    BY <1>1 DEF IInv, ScreenInv
  <2> QED BY <1>1, <2>1, ResyncedStore DEF SetLink
<1>3. WireInv'
  BY <1>1, <1>2, WireFrame DEF IInv, WireInv
<1>4. TypeOK' /\ WantedInv' /\ ErrorsAreHonest'
  BY <1>1, <1>2, MountedBoots
  DEF IInv, TypeOK, WantedInv, ErrorsAreHonest, flowVars, kernelVars
<1>5. ScreenInv'
  <2>1. viewer # "up" => viewer = "none"
    BY <1>1 DEF IInv, TypeOK, ScreenInv
  <2> QED BY <1>1, <1>2, <2>1, MountedBoots DEF IInv, ScreenInv, InPlay, flowVars
<1> QED BY <1>3, <1>4, <1>5 DEF IInv, WireInv

LEMMA ClosingStep ==
  ASSUME IInv, NEW c \in Conns, Closing(c)
  PROVE  IInv'
<1>1. /\ sock[c] = "open" /\ stage[c] = "over" /\ sock' = [sock EXCEPT ![c] = "closing"]
      /\ UNCHANGED <<app, flowVars, link, up, down, viewVars, outcome, destroyed, wanted,
                     kernelVars>>
  BY DEF Closing
<1>2. c = link.client
  BY <1>1 DEF IInv, SocketInv
<1>3. sock'[c] = "closing" /\ \A d \in Conns : d # c => sock'[d] = sock[d]
  BY <1>1 DEF IInv, TypeOK
<1>4. TypeOK' /\ WiresTyped'
  BY <1>1 DEF IInv, TypeOK, WiresTyped, flowVars, viewVars, kernelVars
<1>5. SocketInv'
  BY <1>1, <1>2, <1>3 DEF IInv, SocketInv, kernelVars
<1>6. Read' = Read
  BY <1>1 DEF Read
<1>7. WordsInv'
  BY <1>1, <1>2, <1>3, <1>6 DEF IInv, WordsInv, IsNth, kernelVars
<1>8. BaseInv'
  BY <1>1, <1>2, <1>3 DEF IInv, BaseInv, StateOf, kernelVars
<1>9. Held' = Held /\ Ahead' = Ahead
  BY <1>1 DEF Held, Ahead, viewVars
<1>10. KeptInv' /\ ShellInv' /\ IngestedInv' /\ FollowsKernel'
  BY <1>1, <1>2, <1>3, <1>9
  DEF IInv, KeptInv, ShellInv, IngestedInv, FollowsKernel, StateOf, viewVars, kernelVars
<1>11. AnswersInv' /\ AnswersAreTheKernels'
  BY <1>1, AnswersStay DEF kernelVars
<1>12. WantedInv' /\ ScreenInv' /\ ErrorsAreHonest'
  BY <1>1 DEF IInv, WantedInv, ScreenInv, InPlay, ErrorsAreHonest, flowVars, viewVars
<1> QED BY <1>4, <1>5, <1>7, <1>8, <1>10, <1>11, <1>12 DEF IInv

LEMMA DropStep ==
  ASSUME IInv, NEW c \in Conns, Drop(c)
  PROVE  IInv'
<1> DEFINE word == [type |-> "TRANSPORT_ERROR"]
<1>1. /\ sock[c] \in {"connecting", "open", "closing"}
      /\ sock' = [sock EXCEPT ![c] = "closed"] /\ down' = [down EXCEPT ![c] = <<word>>]
      /\ UNCHANGED <<app, flowVars, link, up, viewVars, outcome, destroyed, wanted, kernelVars>>
  BY DEF Drop
<1>2. c = link.client
  BY <1>1 DEF IInv, SocketInv
<1>3. /\ sock'[c] = "closed" /\ \A d \in Conns : d # c => sock'[d] = sock[d]
      /\ down'[c] = <<word>> /\ \A d \in Conns : d # c => down'[d] = down[d]
  BY <1>1 DEF IInv, TypeOK, WiresTyped
<1>4. word \in DownWords /\ word.type = "TRANSPORT_ERROR"
  BY DEF DownWords, Endings
<1> HIDE DEF word
<1>5. /\ DOMAIN <<word>> = {1} /\ Len(<<word>>) = 1 /\ <<word>>[1] = word
      /\ <<word>> \in Seq(DownWords)
  BY <1>4
<1>6. TypeOK' /\ WiresTyped'
  BY <1>1, <1>5 DEF IInv, TypeOK, WiresTyped, flowVars, viewVars, kernelVars
<1>7. SocketInv'
  BY <1>1, <1>2, <1>3 DEF IInv, SocketInv, kernelVars
<1>8. WordsInv' /\ BaseInv'
  <2>1. /\ link'.client = c /\ DOMAIN down'[c] = {1} /\ Len(down'[c]) = 1
        /\ down'[c][1].type \in Endings /\ sock'[c] = "closed"
    BY <1>1, <1>2, <1>3, <1>4, <1>5 DEF Endings
  <2> QED BY <2>1 DEF WordsInv, BaseInv
<1>9. Held' = Held /\ Ahead' = Ahead
  BY <1>1 DEF Held, Ahead, viewVars
<1>10. KeptInv' /\ ShellInv' /\ IngestedInv' /\ FollowsKernel'
  BY <1>1, <1>2, <1>3, <1>9
  DEF IInv, KeptInv, ShellInv, IngestedInv, FollowsKernel, StateOf, viewVars, kernelVars
<1>11. AnswersInv' /\ AnswersAreTheKernels'
  BY <1>1, <1>3, <1>4, <1>5 DEF IInv, AnswersInv, AnswersAreTheKernels, kernelVars
<1>12. WantedInv' /\ ScreenInv' /\ ErrorsAreHonest'
  BY <1>1 DEF IInv, WantedInv, ScreenInv, InPlay, ErrorsAreHonest, flowVars, viewVars
<1> QED BY <1>6, <1>7, <1>8, <1>10, <1>11, <1>12 DEF IInv

LEMMA AckTimeoutStep ==
  ASSUME IInv, NEW id \in Cmds, AckTimeout(id)
  PROVE  IInv'
<1>1. /\ id \in link.acks /\ link' = [link EXCEPT !.acks = @ \ {id}]
      /\ outcome' = [outcome EXCEPT ![id] = IF @ = "none" THEN "timeout" ELSE @]
      /\ UNCHANGED <<app, flowVars, sock, up, down, viewVars, destroyed, wanted, kernelVars>>
  BY DEF AckTimeout
<1>2. /\ SameLine /\ link'.acks = link.acks \ {id} /\ link' \in Links
      /\ link'.pending = link.pending /\ link'.ingested = link.ingested
      /\ link.client # NoConn
  <2>1. link \in Links
    BY DEF IInv, TypeOK
  <2>2. link' = [link EXCEPT !.acks = link.acks \ {id}]
    BY <1>1
  <2>3. link.client = NoConn => link.acks = {}
    BY DEF IInv, WantedInv, NoLink
  <2> QED BY <1>1, <2>1, <2>2, <2>3 DEF SameLine, Links
<1>3. \A x \in Cmds : outcome'[x] = IF x = id /\ outcome[x] = "none" THEN "timeout" ELSE outcome[x]
  BY <1>1 DEF IInv, TypeOK
<1>4. TypeOK'
  BY <1>1, <1>2 DEF IInv, TypeOK, flowVars, viewVars, kernelVars
<1>5. WiresTyped' /\ SocketInv' /\ WordsInv' /\ BaseInv'
  BY <1>1, <1>2, StreamStays DEF IInv, WiresTyped, SocketInv, kernelVars
<1>6. KeptInv' /\ ShellInv' /\ IngestedInv' /\ FollowsKernel'
  BY <1>1, <1>2, ChainStays DEF viewVars, kernelVars
<1>7. AnswersInv'
  <2>1. \A c \in Conns : \A i \in DOMAIN up[c] : up[c][i].type = "INPUT_COMMAND" =>
          up[c][i].cmd \in Cmds
    BY UpFields DEF IInv, WiresTyped
  <2> QED BY <1>1, <1>2, <1>3, <2>1 DEF IInv, AnswersInv, kernelVars
<1>8. AnswersAreTheKernels'
  BY <1>1, <1>3 DEF IInv, AnswersAreTheKernels, kernelVars
<1>9. WantedInv' /\ ScreenInv' /\ ErrorsAreHonest'
  BY <1>1, <1>2
  DEF IInv, WantedInv, ScreenInv, InPlay, ErrorsAreHonest, SameLine, flowVars, viewVars
<1> QED BY <1>4, <1>5, <1>6, <1>7, <1>8, <1>9 DEF IInv

LEMMA SubmitStep ==
  ASSUME IInv, NEW id \in Cmds, Submit(id)
  PROVE  IInv'
<1> DEFINE c == link.client
           word == [type |-> "INPUT_COMMAND", cmd |-> id, target |-> store.state.tick + 1]
<1>1. /\ viewer = "up" /\ ~destroyed /\ link.bridge = c /\ c \in Conns /\ link.baseline # NoState
      /\ outcome[id] = "none" /\ id \notin link.acks
      /\ UNCHANGED <<app, flowVars, sock, down, viewVars, destroyed, wanted, kernelVars>>
  BY DEF Submit, CanSendInputCommand, IInv, TypeOK, Links
<1>2. /\ SameLine /\ link' \in Links /\ link'.acks \in {link.acks, link.acks \cup {id}}
      /\ link'.pending = link.pending /\ link'.ingested = link.ingested
  <2>1. link' \in {link, [link EXCEPT !.acks = link.acks \cup {id}]}
    BY <1>1 DEF Submit
  <2> QED BY <2>1 DEF SameLine, IInv, TypeOK, Links
<1>3. \/ up' = up
      \/ sock[c] = "open" /\ up' = [up EXCEPT ![c] = Append(@, word)]
         /\ outcome' = outcome /\ id \in link'.acks
  BY <1>1, <1>2 DEF Submit, IInv, TypeOK, Links
<1>4. /\ outcome' \in {outcome, [outcome EXCEPT ![id] = "threw"], [outcome EXCEPT ![id] = "unsent"]}
      /\ \A x \in Cmds : x # id => outcome'[x] = outcome[x]
      /\ outcome'[id] \in {"none", "threw", "unsent"}
  BY <1>1 DEF Submit, IInv, TypeOK
<1>5. TypeOK'
  BY <1>1, <1>2, <1>4 DEF IInv, TypeOK, flowVars, viewVars, kernelVars
<1>6. word \in UpWords /\ word.type = "INPUT_COMMAND" /\ word.cmd = id
  <2>1. store.state.tick + 1 \in Int
    BY <1>1, StateFacts, LinkFields DEF IInv, ShellInv
  <2> QED BY <2>1 DEF UpWords
<1> HIDE DEF c, word
<1>7. up' \in [Conns -> Seq(UpWords)]
  <2>1. up \in [Conns -> Seq(UpWords)]
    BY DEF IInv, WiresTyped
  <2>2. Append(up[c], word) \in Seq(UpWords)
    BY <1>1, <1>6, <2>1
  <2> QED BY <1>1, <1>3, <2>1, <2>2
<1>8. WiresTyped' /\ SocketInv' /\ WordsInv' /\ BaseInv'
  <2>1. \A d \in Conns : sock[d] \in {"none", "connecting"} => up'[d] = <<>>
    BY <1>1, <1>3 DEF IInv, SocketInv, WiresTyped
  <2> QED BY <1>1, <1>2, <1>7, <2>1, StreamStays DEF kernelVars
<1>9. KeptInv' /\ ShellInv' /\ IngestedInv' /\ FollowsKernel'
  BY <1>1, <1>2, ChainStays DEF viewVars, kernelVars
<1>10. AnswersInv'
  <2>1. \A d \in Conns : \A i \in DOMAIN up[d] : up[d][i].type = "INPUT_COMMAND" =>
          up[d][i].cmd \in Cmds /\ up[d][i].cmd # id
    BY <1>1, UpFields DEF IInv, WiresTyped, AnswersInv
  <2>2. verdict[id] = "none"
    BY <1>1 DEF IInv, AnswersInv
  <2>3. \A x \in Cmds : outcome[x] # "none" \/ x \in link.acks =>
                        outcome'[x] # "none" \/ x \in link'.acks
    BY <1>1, <1>2, <1>4
  <2>4. \A x \in Cmds : verdict'[x] # "none" => outcome'[x] # "none" \/ x \in link'.acks
    BY <1>1, <2>3 DEF IInv, AnswersInv, kernelVars
  <2>5. \A d \in Conns : \A i \in DOMAIN down'[d] :
          /\ down'[d][i].type = "COMMAND_ACCEPTED" => verdict'[down'[d][i].cmd] = "accepted"
          /\ down'[d][i].type = "COMMAND_REJECTED" => verdict'[down'[d][i].cmd] = "rejected"
    BY <1>1 DEF IInv, AnswersInv, kernelVars
  <2>6. CASE up' = up
    BY <1>1, <2>1, <2>3, <2>4, <2>5, <2>6 DEF IInv, AnswersInv, kernelVars
  <2>7. CASE /\ sock[c] = "open" /\ up' = [up EXCEPT ![c] = Append(@, word)]
             /\ outcome' = outcome /\ id \in link'.acks
    <3> DEFINE n == Len(up[c]) + 1
    <3>1. /\ up'[c] = Append(up[c], word) /\ \A d \in Conns : d # c => up'[d] = up[d]
          /\ up[c] \in Seq(UpWords)
      BY <1>1, <2>7 DEF IInv, WiresTyped
    <3>2. /\ n \notin DOMAIN up[c] /\ up'[c][n] = word /\ DOMAIN up'[c] = DOMAIN up[c] \cup {n}
          /\ \A i \in DOMAIN up[c] : up'[c][i] = up[c][i]
      BY <1>6, <3>1, AppendWord
    <3> HIDE DEF n
    <3>3. ASSUME NEW d \in Conns, NEW i \in DOMAIN up'[d]
          PROVE  \/ i \in DOMAIN up[d] /\ up'[d][i] = up[d][i]
                 \/ d = c /\ i = n /\ up'[d][i] = word
      BY <3>1, <3>2
    <3>4. ASSUME NEW d \in Conns, NEW i \in DOMAIN up'[d], up'[d][i].type = "INPUT_COMMAND"
          PROVE  /\ verdict'[up'[d][i].cmd] = "none"
                 /\ outcome'[up'[d][i].cmd] # "none" \/ up'[d][i].cmd \in link'.acks
      <4>1. CASE i \in DOMAIN up[d] /\ up'[d][i] = up[d][i]
        BY <1>1, <2>1, <2>3, <3>4, <4>1 DEF IInv, AnswersInv, kernelVars
      <4>2. CASE d = c /\ i = n /\ up'[d][i] = word
        BY <1>1, <1>6, <2>2, <2>7, <4>2 DEF kernelVars
      <4> QED BY <3>3, <4>1, <4>2
    <3>5. ASSUME NEW d \in Conns, NEW i \in DOMAIN up'[d], up'[d][i].type = "INPUT_COMMAND",
                 NEW e \in Conns, NEW j \in DOMAIN up'[e], up'[e][j].type = "INPUT_COMMAND",
                 up'[e][j].cmd = up'[d][i].cmd
          PROVE  e = d /\ j = i
      <4>1. CASE i \in DOMAIN up[d] /\ j \in DOMAIN up[e]
        <5>1. up'[d][i] = up[d][i] /\ up'[e][j] = up[e][j]
          BY <3>1, <3>2, <4>1
        <5> QED BY <3>5, <4>1, <5>1 DEF IInv, AnswersInv
      <4>2. CASE i \notin DOMAIN up[d]
        <5>1. d = c /\ i = n /\ up'[d][i].cmd = id
          BY <1>6, <3>3, <4>2
        <5>2. e = c /\ j = n
          BY <2>1, <3>3, <3>5, <5>1
        <5> QED BY <5>1, <5>2
      <4>3. CASE j \notin DOMAIN up[e]
        <5>1. e = c /\ j = n /\ up'[e][j].cmd = id
          BY <1>6, <3>3, <4>3
        <5>2. d = c /\ i = n
          BY <2>1, <3>3, <3>5, <5>1
        <5> QED BY <5>1, <5>2
      <4> QED BY <4>1, <4>2, <4>3
    <3> QED BY <2>4, <2>5, <3>4, <3>5 DEF AnswersInv
  <2> QED BY <1>3, <2>6, <2>7
<1>11. AnswersAreTheKernels'
  BY <1>1, <1>4 DEF IInv, AnswersAreTheKernels, kernelVars
<1>12. WantedInv' /\ ScreenInv' /\ ErrorsAreHonest'
  BY <1>1, <1>2, ViewerFlowAssumption
  DEF IInv, WantedInv, ScreenInv, InPlay, ErrorsAreHonest, SameLine, flowVars, viewVars, c
<1> QED BY <1>5, <1>8, <1>9, <1>10, <1>11, <1>12 DEF IInv

---------------------------------------------------------------------------
(* Events of the connection.                                               *)

LEMMA ReadFacts ==
  ASSUME IInv
  PROVE  /\ Read \in 0..3
         /\ Read = 0 <=> link.checked = "nothing"
         /\ Read = 1 <=> link.checked = "hello"
         /\ Read = 2 <=> link.checked = "subscribed" /\ link.baseline = NoState
         /\ Read = 3 <=> link.baseline # NoState
BY LinkFields DEF Read, IInv, WantedInv

\* The first word under way is the next one of the stream.
LEMMA NextWord ==
  ASSUME IInv, NEW c \in Conns, link.client = c, down[c] # <<>>,
         Head(down[c]).type \notin Endings
  PROVE  /\ IsNth(Head(down[c]), Read + 1, watch[c])
         /\ sock[c] \in {"open", "closing"} /\ watch[c] = link.run
         /\ Head(down[c]) \in DownWords
<1>1. down[c] \in Seq(DownWords) /\ Head(down[c]) = down[c][1] /\ 1 \in DOMAIN down[c]
  BY TailWords DEF IInv, WiresTyped
<1>2. c # NoConn
  BY ViewerFlowAssumption
<1>3. IsNth(Head(down[c]), Read + 1, watch[c])
  BY <1>1, <1>2 DEF IInv, WordsInv
<1>4. sock[c] # "closed"
  BY <1>1, <1>2 DEF IInv, WordsInv
<1>5. sock[c] \in {"open", "closing"}
  BY <1>4 DEF IInv, SocketInv, TypeOK
<1> QED BY <1>1, <1>3, <1>5, TailWords DEF IInv, SocketInv

\* So its type tells how far the stream is.
LEMMA NextWordIs ==
  ASSUME IInv, NEW c \in Conns, link.client = c, down[c] # <<>>,
         Head(down[c]).type \notin Endings
  PROVE  LET w == Head(down[c]) IN
         /\ w.type = "KERNEL_HELLO" => Read = 0 /\ w.run = link.run
         /\ w.type = "SUBSCRIBED" => Read = 1
         /\ w.type = "FULL_SNAPSHOT" => Read = 2 /\ w.state \in States /\ w.state.run = link.run
         /\ w.type = "FRAME_DIFF" => Read = 3 /\ w \in Diffs /\ w.to.run = link.run
         /\ w.type \in Answers => Read = 3 /\ w.cmd \in Cmds
BY NextWord, ReadFacts, WordFields DEF IsNth, Answers

TakesWord(c) ==
  /\ link.client = c /\ down[c] # <<>> /\ Head(down[c]).type \notin Endings /\ Taken(c)
  /\ link'.client = link.client /\ link'.run = link.run
  /\ Read' = IF Read < 3 THEN Read + 1 ELSE 3
  /\ UNCHANGED <<sock, truth, watch, stage, view, owes>>

LEMMA TakenWords ==
  ASSUME IInv, NEW c \in Conns, TakesWord(c)
  PROVE  /\ down'[c] = Tail(down[c]) /\ \A d \in Conns : d # c => down'[d] = down[d]
         /\ down' \in [Conns -> Seq(DownWords)]
         /\ Len(down'[c]) = Len(down[c]) - 1 /\ Len(down[c]) \in Nat /\ Len(down[c]) > 0
         /\ DOMAIN down'[c] = 1..(Len(down[c]) - 1) /\ DOMAIN down[c] = 1..Len(down[c])
         /\ \A i \in DOMAIN down'[c] : i + 1 \in DOMAIN down[c] /\ down'[c][i] = down[c][i + 1]
<1>1. down \in [Conns -> Seq(DownWords)] /\ down[c] # <<>>
  BY DEF IInv, WiresTyped, TakesWord
<1>2. down' = [down EXCEPT ![c] = Tail(down[c])]
  BY DEF TakesWord, Taken
<1>3. down'[c] = Tail(down[c]) /\ \A d \in Conns : d # c => down'[d] = down[d]
  BY <1>1, <1>2
<1>4. Tail(down[c]) \in Seq(DownWords)
  BY <1>1, TailWords
<1> QED BY <1>1, <1>2, <1>3, <1>4, TailWords

LEMMA TakenWires ==
  ASSUME IInv, NEW c \in Conns, TakesWord(c), up' \in [Conns -> Seq(UpWords)],
         \A d \in Conns : d # c => up'[d] = up[d]
  PROVE  WiresTyped' /\ SocketInv' /\ WordsInv' /\ BaseInv'
<1>1. WiresTyped'
  BY TakenWords DEF IInv, WiresTyped, TakesWord
<1>2. sock[c] \in {"open", "closing"} /\ c # NoConn
  BY NextWord, ViewerFlowAssumption DEF TakesWord
<1>3. SocketInv'
  <2>1. SUFFICES ASSUME NEW d \in Conns
        PROVE  /\ d # link.client => sock[d] \in {"none", "closed"} /\ down'[d] = <<>>
               /\ sock[d] \in {"none", "connecting"} => up'[d] = <<>> /\ down'[d] = <<>>
    BY DEF IInv, SocketInv, TakesWord
  <2>2. CASE d = c
    BY <1>2, <2>2 DEF TakesWord
  <2>3. CASE d # c
    BY <2>3, TakenWords DEF IInv, SocketInv, TakesWord
  <2> QED BY <2>2, <2>3
<1>4. Read \in 0..3 /\ Read' \in 0..3 /\ \A i \in Nat : i > 0 =>
        \/ Read' + i = Read + (i + 1)
        \/ Read + (i + 1) > 3 /\ Read' + i > 3
  <2>1. Read \in 0..3 /\ ((Read' = Read + 1 /\ Read < 3) \/ (Read' = 3 /\ Read = 3))
    BY ReadFacts DEF TakesWord
  <2> QED BY <2>1
<1>5. ASSUME NEW i \in DOMAIN down'[c]
      PROVE  \/ IsNth(down'[c][i], Read' + i, watch'[c])
             \/ i = Len(down'[c]) /\ down'[c][i].type \in Endings
  <2>1. i + 1 \in DOMAIN down[c] /\ down'[c][i] = down[c][i + 1] /\ i \in Nat /\ i > 0
    BY TakenWords
  <2>2. CASE i + 1 = Len(down[c]) /\ down[c][i + 1].type \in Endings
    BY <2>1, <2>2, TakenWords
  <2>3. CASE IsNth(down[c][i + 1], Read + (i + 1), watch[c])
    <3>1. watch' = watch
      BY DEF TakesWord
    <3>2. Read' + i = Read + (i + 1) \/ (Read + (i + 1) > 3 /\ Read' + i > 3)
      BY <1>4, <2>1
    <3>3. Read + (i + 1) \in Nat /\ Read' + i \in Nat
      <4>1. Read \in 0..3 /\ Read' \in 0..3
        BY <1>4
      <4>2. \A p, q \in 0..3 : p + (i + 1) \in Nat /\ q + i \in Nat
        BY <2>1
      <4> QED BY <4>1, <4>2
    <3>4. \A w, r : \A m, n \in Nat :
            IsNth(w, m, r) /\ (n = m \/ (m > 3 /\ n > 3)) => IsNth(w, n, r)
      BY DEF IsNth
    <3>5. IsNth(down[c][i + 1], Read' + i, watch[c])
      BY <2>3, <3>2, <3>3, <3>4
    <3> QED BY <2>1, <3>1, <3>5
  <2>4. \/ IsNth(down[c][i + 1], Read + (i + 1), watch[c])
        \/ i + 1 = Len(down[c]) /\ down[c][i + 1].type \in Endings
    BY <1>2, <2>1 DEF IInv, WordsInv, TakesWord
  <2> QED BY <2>2, <2>3, <2>4
<1>6. WordsInv'
  <2>1. /\ link'.client = c /\ c = link.client /\ sock' = sock /\ stage' = stage
    BY DEF TakesWord
  <2>2. sock[c] # "closed"
    BY <1>2
  <2>3. ASSUME stage[c] # "over"
        PROVE  /\ \A i \in DOMAIN down'[c] : down'[c][i].type \notin Endings
               /\ Read' + Len(down'[c]) >= 3 <=> stage[c] = "streaming"
               /\ stage[c] = "silent" => Read' + Len(down'[c]) = 0
               /\ stage[c] = "greeted" => Read' + Len(down'[c]) = 1
               /\ stage[c] = "subscribed" => Read' + Len(down'[c]) = 2
    <3>1. /\ \A i \in DOMAIN down[c] : down[c][i].type \notin Endings
          /\ Read + Len(down[c]) >= 3 <=> stage[c] = "streaming"
          /\ stage[c] = "silent" => Read + Len(down[c]) = 0
          /\ stage[c] = "greeted" => Read + Len(down[c]) = 1
          /\ stage[c] = "subscribed" => Read + Len(down[c]) = 2
      BY <1>2, <2>1, <2>2, <2>3 DEF IInv, WordsInv
    <3>2. \/ Read' + Len(down'[c]) = Read + Len(down[c])
          \/ Read' + Len(down'[c]) >= 3 /\ Read + Len(down[c]) >= 3
      BY ReadFacts, TakenWords DEF TakesWord
    <3> QED BY <3>1, <3>2, TakenWords
  <2> QED BY <1>5, <2>1, <2>2, <2>3 DEF WordsInv
<1>7. BaseInv'
  <2>1. /\ link'.client = c /\ c = link.client /\ sock' = sock
        /\ StateOf(watch[c], view[c])' = StateOf(watch[c], view[c])
    BY DEF TakesWord, StateOf
  <2>2. ASSUME NEW i \in DOMAIN down'[c], down'[c][i].type = "FULL_SNAPSHOT"
        PROVE  Leads(Tail(down[c]), down'[c][i].state, StateOf(watch[c], view[c]))
    <3>1. /\ i + 1 \in DOMAIN down[c] /\ down'[c][i] = down[c][i + 1] /\ i \in Nat /\ i > 0
          /\ down[c] \in Seq(DownWords) /\ down[c] # <<>>
      BY TakenWords DEF TakesWord, IInv, WiresTyped
    <3>2. Leads(down[c], down'[c][i].state, StateOf(watch[c], view[c]))
      BY <1>2, <2>1, <2>2, <3>1 DEF IInv, BaseInv
    <3>3. Head(down[c]).type # "FRAME_DIFF"
      <4>1. Read' + i = 3
        BY <1>4, <1>5, <2>2, <3>1 DEF IsNth, Endings, Answers
      <4>2. Read # 3
        BY <1>4, <3>1, <4>1 DEF TakesWord
      <4> QED BY <4>2, NextWordIs DEF TakesWord
    <3> QED BY <3>1, <3>2, <3>3, LeadsTail
  <2> QED BY <2>1, <2>2, TakenWords DEF BaseInv
<1> QED BY <1>1, <1>3, <1>6, <1>7

LEMMA TakenAnswers ==
  ASSUME IInv, NEW c \in Conns, TakesWord(c), UNCHANGED <<up, verdict, outcome>>,
         link'.acks = link.acks
  PROVE  AnswersInv' /\ AnswersAreTheKernels'
<1>1. ASSUME NEW d \in Conns, NEW i \in DOMAIN down'[d]
      PROVE  \E j \in DOMAIN down[d] : down'[d][i] = down[d][j]
  BY TakenWords
<1> QED BY <1>1 DEF IInv, AnswersInv, AnswersAreTheKernels

LEMMA EnteredPhase ==
  ASSUME IInv, app.kind = "CONNECTING", NEW phase \in Phases \ {"CASE_LAUNCH"},
         app.phase # "CASE_LAUNCH", EnterPhase(phase)
  PROVE  /\ app' \in AppStates /\ app'.kind = "CONNECTING" /\ app'.phase # "CASE_LAUNCH"
         /\ boots' \in [fresh : BOOLEAN, stale : Nat] /\ ~boots'.fresh
<1>1. ~boots.fresh /\ boots \in [fresh : BOOLEAN, stale : Nat] /\ app \in AppStates
  BY DEF IInv, TypeOK, ScreenInv
<1>2. Outdated \in [fresh : BOOLEAN, stale : Nat] /\ ~Outdated.fresh
  BY OutdatedIdle DEF Idle
<1> QED BY <1>1, <1>2, ScreenKinds DEF EnterPhase, ShowConnecting

LEMMA OnOpenStep ==
  ASSUME IInv, NEW c \in Conns, OnOpen(c)
  PROVE  IInv'
<1>1. /\ link.client = c /\ sock[c] = "connecting" /\ sock' = [sock EXCEPT ![c] = "open"]
      /\ watch' = [watch EXCEPT ![c] = link.run] /\ up' = [up EXCEPT ![c] = OpeningWords(c)]
      /\ EnterPhase("HANDSHAKING")
      /\ UNCHANGED <<flowVars, link, down, viewer, shells, store, outcome, destroyed, wanted,
                     truth, stage, view, owes, verdict>>
  BY DEF OnOpen, Watch
<1>2. /\ c # NoConn /\ down[c] = <<>> /\ up[c] = <<>> /\ stage[c] = "silent" /\ ~owes[c]
  BY <1>1, ViewerFlowAssumption DEF IInv, SocketInv
<1>3. Read = 0
  <2>1. Read + 0 = 0
    BY <1>1, <1>2 DEF IInv, WordsInv
  <2> QED BY <2>1, ReadFacts
<1>4. /\ link.baseline = NoState /\ app.kind = "CONNECTING" /\ app.phase # "CASE_LAUNCH"
      /\ session # NoRun /\ ~destroyed /\ link.run \in Runs /\ link.run # NoRun
  BY <1>1, <1>3, ReadFacts, Current, ViewerFlowAssumption
<1>5. /\ app' \in AppStates /\ app'.kind = "CONNECTING" /\ app'.phase # "CASE_LAUNCH"
      /\ boots' \in [fresh : BOOLEAN, stale : Nat] /\ ~boots'.fresh
  BY <1>1, <1>4, EnteredPhase DEF Phases
<1>6. /\ sock'[c] = "open" /\ \A d \in Conns : d # c => sock'[d] = sock[d]
      /\ watch'[c] = link.run /\ \A d \in Conns : d # c => watch'[d] = watch[d]
      /\ \A d \in Conns : d # c => up'[d] = up[d]
  BY <1>1 DEF IInv, TypeOK, WiresTyped
<1> DEFINE word == [type |-> "VIEWER_HELLO"]
<1>7. /\ up'[c] = Append(<<>>, word) /\ word \in UpWords /\ word.type = "VIEWER_HELLO"
  BY <1>1, <1>2 DEF OpeningWords, IInv, WiresTyped, UpWords
<1> HIDE DEF word
<1>8. /\ up' \in [Conns -> Seq(UpWords)] /\ DOMAIN up'[c] = {1} /\ up'[c][1] = word
  <2>1. Append(<<>>, word) \in Seq(UpWords) /\ DOMAIN Append(<<>>, word) = {1}
        /\ Append(<<>>, word)[1] = word
    BY <1>7
  <2> QED BY <1>1, <1>7, <2>1 DEF IInv, WiresTyped
<1>9. TypeOK'
  BY <1>1, <1>5 DEF IInv, TypeOK, flowVars
<1>10. WiresTyped'
  BY <1>1, <1>4, <1>8 DEF IInv, WiresTyped
<1>11. SocketInv'
  BY <1>1, <1>2, <1>4, <1>6 DEF IInv, SocketInv
<1>12. Read' = 0
  BY <1>1, <1>3 DEF Read
<1>13. WordsInv' /\ BaseInv'
  <2>1. /\ link'.client = c /\ DOMAIN down'[c] = {} /\ Len(down'[c]) = 0 /\ stage'[c] = "silent"
        /\ sock'[c] = "open"
    BY <1>1, <1>2, <1>6
  <2> QED BY <1>12, <2>1 DEF WordsInv, BaseInv
<1>14. KeptInv' /\ ShellInv' /\ IngestedInv' /\ FollowsKernel'
  BY <1>1, <1>4 DEF IInv, KeptInv, ShellInv, IngestedInv, FollowsKernel
<1>15. AnswersInv' /\ AnswersAreTheKernels'
  <2>1. \A d \in Conns : \A i \in DOMAIN up'[d] : up'[d][i].type = "INPUT_COMMAND" =>
          i \in DOMAIN up[d] /\ up'[d][i] = up[d][i]
    BY <1>6, <1>7, <1>8
  <2>2. \A d \in Conns : \A i \in DOMAIN up'[d] : up'[d][i].type = "INPUT_COMMAND" =>
          LET id == up'[d][i].cmd IN
          /\ verdict[id] = "none"
          /\ outcome[id] # "none" \/ id \in link.acks
          /\ \A e \in Conns : \A j \in DOMAIN up'[e] :
               up'[e][j].type = "INPUT_COMMAND" /\ up'[e][j].cmd = id => e = d /\ j = i
    BY <2>1 DEF IInv, AnswersInv
  <2> QED BY <1>1, <2>2 DEF IInv, AnswersInv, AnswersAreTheKernels
<1>16. WantedInv' /\ ScreenInv' /\ ErrorsAreHonest'
  BY <1>1, <1>2, <1>4, <1>5
  DEF IInv, WantedInv, ScreenInv, InPlay, ErrorsAreHonest, flowVars
<1> QED BY <1>9, <1>10, <1>11, <1>13, <1>14, <1>15, <1>16 DEF IInv

\* An event that arrives.
LEMMA Arrived ==
  ASSUME IInv, NEW c \in Conns, NEW type, Arrives(c, type), type \notin Endings
  PROVE  /\ link.client = c /\ down[c] # <<>> /\ Head(down[c]).type = type
         /\ sock[c] \in {"open", "closing"} /\ watch[c] = link.run
         /\ session # NoRun /\ session = link.run /\ link.run \in Runs
         /\ ~destroyed /\ link.client # NoConn
         /\ Read < 3 => app.kind = "CONNECTING" /\ app.phase # "CASE_LAUNCH"
                        /\ link.baseline = NoState /\ ~link.ingested /\ link.pending = <<>>
<1>1. link.client = c /\ down[c] # <<>> /\ Head(down[c]).type = type
  BY DEF Arrives
<1>2. sock[c] \in {"open", "closing"} /\ watch[c] = link.run
  BY <1>1, NextWord
<1>3. Read < 3 => link.baseline = NoState
  BY ReadFacts
<1> QED BY <1>1, <1>2, <1>3, Current DEF IInv, WantedInv

LEMMA OnKernelHelloStep ==
  ASSUME IInv, NEW c \in Conns, OnKernelHello(c)
  PROVE  IInv'
<1> DEFINE l == Validated("hello")
<1>1. Arrives(c, "KERNEL_HELLO") /\ "KERNEL_HELLO" \notin Endings
  BY DEF OnKernelHello, Endings
<1>2. /\ link.client = c /\ down[c] # <<>> /\ Head(down[c]).type = "KERNEL_HELLO"
      /\ session # NoRun /\ session = link.run /\ link.run \in Runs /\ ~destroyed
      /\ sock[c] \in {"open", "closing"} /\ c # NoConn
  BY <1>1, Arrived
<1>3. Read = 0 /\ Head(down[c]).run = session
  BY <1>1, <1>2, NextWordIs
<1>4. /\ app.kind = "CONNECTING" /\ app.phase # "CASE_LAUNCH" /\ link.baseline = NoState
      /\ link.checked = "nothing" /\ ~link.ingested /\ link.pending = <<>>
  BY <1>1, <1>3, Arrived, ReadFacts
<1>5. /\ l \in Links /\ l.checked = "hello" /\ l.run = link.run /\ l.client = link.client
      /\ l.baseline = NoState /\ ~l.ingested /\ l.pending = <<>> /\ l.acks = link.acks
  BY <1>4 DEF Validated, IInv, TypeOK, Links
<1>6. SyncedLink(l) = l /\ SyncedStore(l, store) = IngestHello(store, link.run)
  BY <1>5 DEF SyncedLink, SyncedStore
<1>7. /\ IngestHello(store, link.run) \in Stores
      /\ IngestHello(store, link.run).anchor = link.run
  BY <1>2 DEF IngestHello, IInv, TypeOK, Stores
<1>8. CASE sock[c] # "open"
  <2>1. /\ Show(Error("CONNECTION_FAILURE", "SUBSCRIBE_SEND_FAILED"))
        /\ store' = IF viewer = "up" THEN SyncedStore(l, store) ELSE store
        /\ UNCHANGED <<asked, begun, session, failure, up, viewer, shells, destroyed, wanted,
                       kernelVars>>
    BY <1>2, <1>3, <1>4, <1>8 DEF OnKernelHello, FailSynced
  <2>2. store' \in Stores /\ "SUBSCRIBE_SEND_FAILED" \notin Blaming
    BY <1>6, <1>7, <2>1 DEF IInv, TypeOK, Stores, Blaming
  <2> QED BY <1>2, <2>1, <2>2, FailStep, OutdatedIdle DEF Show
<1>9. CASE sock[c] = "open"
  <2> DEFINE word == [type |-> "SUBSCRIBE"]
  <2>1. /\ SetLink(l) /\ Taken(c)
        /\ up' = [up EXCEPT ![c] = Append(@, word)]
        /\ UNCHANGED <<app, flowVars, sock, viewer, shells, boots, outcome, destroyed, wanted,
                       kernelVars>>
    BY <1>2, <1>3, <1>4, <1>9 DEF OnKernelHello
  <2> HIDE DEF l
  <2>2. /\ link' = l
        /\ store' = IF viewer = "up" THEN IngestHello(store, link.run) ELSE store
    BY <1>6, <2>1 DEF SetLink
  <2>3. Read' = 1
    BY <1>5, <2>2 DEF Read
  <2>4. TakesWord(c)
    BY <1>1, <1>2, <1>3, <1>5, <2>1, <2>2, <2>3 DEF TakesWord, kernelVars
  <2>5. word \in UpWords /\ word.type = "SUBSCRIBE"
    BY DEF UpWords
  <2> HIDE DEF word
  <2>6. /\ up[c] \in Seq(UpWords) /\ up'[c] = Append(up[c], word)
        /\ \A d \in Conns : d # c => up'[d] = up[d]
        /\ up' \in [Conns -> Seq(UpWords)]
    <3>1. up \in [Conns -> Seq(UpWords)]
      BY DEF IInv, WiresTyped
    <3>2. Append(up[c], word) \in Seq(UpWords)
      BY <2>5, <3>1
    <3> QED BY <2>1, <3>1, <3>2
  <2>7. WiresTyped' /\ SocketInv' /\ WordsInv' /\ BaseInv'
    BY <2>4, <2>6, TakenWires
  <2>8. TypeOK'
    <3>1. store' \in [anchor : Runs \cup {NoRun}, state : States, desynced : BOOLEAN]
      BY <1>7, <2>2 DEF IInv, TypeOK, Stores
    <3> QED BY <1>5, <2>1, <2>2, <3>1 DEF IInv, TypeOK, flowVars, kernelVars
  <2>9. KeptInv' /\ IngestedInv' /\ FollowsKernel'
    BY <1>5, <2>2 DEF KeptInv, IngestedInv, FollowsKernel
  <2>10. ShellInv'
    BY <1>5, <1>7, <2>1, <2>2 DEF ShellInv
  <2>11. \A d \in Conns : \A i \in DOMAIN up'[d] : up'[d][i].type = "INPUT_COMMAND" =>
          i \in DOMAIN up[d] /\ up'[d][i] = up[d][i]
    BY <2>5, <2>6, AppendWord
  <2>12. \A d \in Conns : \A i \in DOMAIN down'[d] : \E j \in DOMAIN down[d] :
           down'[d][i] = down[d][j]
    BY <2>4, TakenWords
  <2>13. AnswersInv' /\ AnswersAreTheKernels'
    BY <1>5, <2>1, <2>2, <2>11, <2>12 DEF IInv, AnswersInv, AnswersAreTheKernels, kernelVars
  <2>14. WantedInv'
    BY <1>2, <1>5, <2>1, <2>2 DEF IInv, WantedInv, flowVars
  <2>15. ScreenInv' /\ ErrorsAreHonest'
    BY <1>2, <1>4, <1>5, <2>1, <2>2 DEF IInv, ScreenInv, InPlay, ErrorsAreHonest, flowVars
  <2> QED BY <2>7, <2>8, <2>9, <2>10, <2>13, <2>14, <2>15 DEF IInv
<1> QED BY <1>8, <1>9

LEMMA OnSubscribedStep ==
  ASSUME IInv, NEW c \in Conns, OnSubscribed(c)
  PROVE  IInv'
<1> DEFINE l == Validated("subscribed")
<1>1. Arrives(c, "SUBSCRIBED") /\ "SUBSCRIBED" \notin Endings
  BY DEF OnSubscribed, Endings
<1>2. /\ link.client = c /\ down[c] # <<>> /\ Head(down[c]).type = "SUBSCRIBED"
      /\ session # NoRun /\ session = link.run /\ link.run \in Runs /\ ~destroyed
      /\ sock[c] \in {"open", "closing"} /\ c # NoConn
  BY <1>1, Arrived
<1>3. Read = 1
  BY <1>1, <1>2, NextWordIs
<1>4. /\ app.kind = "CONNECTING" /\ app.phase # "CASE_LAUNCH" /\ link.baseline = NoState
      /\ link.checked = "hello" /\ ~link.ingested /\ link.pending = <<>>
  BY <1>1, <1>3, Arrived, ReadFacts
<1>5. /\ l \in Links /\ l.checked = "subscribed" /\ l.run = link.run /\ l.client = link.client
      /\ l.baseline = NoState /\ ~l.ingested /\ l.pending = <<>> /\ l.acks = link.acks
  BY <1>4 DEF Validated, IInv, TypeOK, Links
<1>6. /\ link' = l /\ Taken(c) /\ EnterPhase("WAITING_FOR_BASELINE")
      /\ UNCHANGED <<flowVars, sock, up, viewer, shells, store, outcome, destroyed, wanted,
                     kernelVars>>
  BY <1>4 DEF OnSubscribed
<1> HIDE DEF l
<1>7. /\ app' \in AppStates /\ app'.kind = "CONNECTING" /\ app'.phase # "CASE_LAUNCH"
      /\ boots' \in [fresh : BOOLEAN, stale : Nat] /\ ~boots'.fresh
  BY <1>4, <1>6, EnteredPhase DEF Phases
<1>8. Read' = 2
  BY <1>5, <1>6 DEF Read
<1>9. TakesWord(c)
  BY <1>1, <1>2, <1>3, <1>5, <1>6, <1>8 DEF TakesWord, kernelVars
<1>10. WiresTyped' /\ SocketInv' /\ WordsInv' /\ BaseInv'
  BY <1>6, <1>9, TakenWires DEF IInv, WiresTyped
<1>11. TypeOK'
  BY <1>5, <1>6, <1>7 DEF IInv, TypeOK, flowVars, kernelVars
<1>12. KeptInv' /\ IngestedInv' /\ FollowsKernel'
  BY <1>5, <1>6 DEF KeptInv, IngestedInv, FollowsKernel
<1>13. ShellInv'
  BY <1>4, <1>5, <1>6 DEF IInv, ShellInv
<1>14. AnswersInv' /\ AnswersAreTheKernels'
  BY <1>5, <1>6, <1>9, TakenAnswers DEF kernelVars
<1>15. WantedInv'
  BY <1>2, <1>5, <1>6 DEF IInv, WantedInv, flowVars
<1>16. ScreenInv' /\ ErrorsAreHonest'
  BY <1>2, <1>4, <1>5, <1>6, <1>7 DEF IInv, ScreenInv, InPlay, ErrorsAreHonest, flowVars
<1> QED BY <1>10, <1>11, <1>12, <1>13, <1>14, <1>15, <1>16 DEF IInv

\* Taking a word that is not a diff leaves the rest of a chain.
LEMMA TakenChain ==
  ASSUME IInv, NEW c \in Conns, TakesWord(c), NEW a,
         Leads(down[c], a, StateOf(watch[c], view[c]))
  PROVE  /\ Head(down[c]).type # "FRAME_DIFF" =>
              Leads(down'[c], a, StateOf(watch[c], view[c]))
         /\ Head(down[c]).type = "FRAME_DIFF" =>
              /\ Head(down[c]).from = a
              /\ Leads(down'[c], Head(down[c]).to, StateOf(watch[c], view[c]))
<1>1. down[c] \in Seq(DownWords) /\ down[c] # <<>>
  BY DEF IInv, WiresTyped, TakesWord
<1> QED BY <1>1, LeadsTail, TakenWords

LEMMA OnFullSnapshotStep ==
  ASSUME IInv, NEW c \in Conns, OnFullSnapshot(c)
  PROVE  IInv'
<1> DEFINE state == Head(down[c]).state
           l == Based(state, c)
<1>1. Arrives(c, "FULL_SNAPSHOT") /\ "FULL_SNAPSHOT" \notin Endings
  BY DEF OnFullSnapshot, Endings
<1>2. /\ link.client = c /\ down[c] # <<>> /\ Head(down[c]).type = "FULL_SNAPSHOT"
      /\ session # NoRun /\ session = link.run /\ link.run \in Runs /\ ~destroyed
      /\ sock[c] \in {"open", "closing"} /\ c # NoConn
  BY <1>1, Arrived
<1>3. Read = 2 /\ state \in States /\ state.run = link.run /\ state # NoState
  BY <1>1, <1>2, NextWordIs, StateFacts
<1>4. /\ app.kind = "CONNECTING" /\ app.phase # "CASE_LAUNCH" /\ link.baseline = NoState
      /\ link.checked = "subscribed" /\ ~link.ingested /\ link.pending = <<>>
  BY <1>1, <1>3, Arrived, ReadFacts
<1>5. /\ SetLink(l) /\ Taken(c) /\ app' = [kind |-> "LIVE_GAME"] /\ MountLiveGameShell
      /\ UNCHANGED <<flowVars, sock, up, viewer, shells, outcome, destroyed, wanted, kernelVars>>
  BY <1>2, <1>4 DEF OnFullSnapshot
<1>6. /\ l \in Links /\ l.checked = "subscribed" /\ l.run = link.run /\ l.client = link.client
      /\ l.baseline = state /\ ~l.ingested /\ l.pending = <<>> /\ l.acks = link.acks
  <2>1. link \in Links /\ <<>> \in Seq(Diffs)
    BY DEF IInv, TypeOK
  <2> QED BY <1>3, <1>4, <2>1 DEF Based, Links
<1> DEFINE based == [anchor |-> link.run, state |-> state, desynced |-> FALSE]
<1>7. SyncedStore(l, store) = based
  <2>1. IngestSnapshot(IngestHello(store, link.run), state) = based
    <3>1. store = [anchor |-> store.anchor, state |-> store.state, desynced |-> store.desynced]
      BY LinkFields
    <3> QED BY <3>1, BaselineIngested
  <2>3. based \in Stores /\ ~based.desynced /\ based.state = state /\ <<>> \in Seq(Diffs)
    BY <1>2, <1>3 DEF Stores
  <2> HIDE DEF l, based, state
  <2>4. IngestDiffs(based, <<>>) = [based EXCEPT !.state = state, !.desynced = FALSE]
    BY <2>3, LeadsNowhere, ChainIngested
  <2>5. IngestDiffs(based, <<>>) = based
    BY <2>4 DEF based
  <2> QED BY <1>3, <1>6, <2>1, <2>5 DEF SyncedStore
<1>8. /\ SyncedLink(l).client = l.client /\ SyncedLink(l).run = l.run
      /\ SyncedLink(l).checked = l.checked /\ SyncedLink(l).baseline = l.baseline
      /\ SyncedLink(l).acks = l.acks /\ SyncedLink(l).ingested /\ SyncedLink(l).pending = <<>>
      /\ SyncedLink(l) \in Links
  <2>1. <<>> \in Seq(Diffs)
    OBVIOUS
  <2> HIDE DEF l, state
  <2> QED BY <1>3, <1>6, <2>1 DEF SyncedLink, Links
<1> HIDE DEF l
<1>9. /\ link' \in Links /\ link'.checked = "subscribed" /\ link'.run = link.run
      /\ link'.client = link.client /\ link'.baseline = state /\ link'.pending = <<>>
      /\ link'.acks = link.acks /\ (link'.ingested <=> viewer = "up")
      /\ store' = IF viewer = "up" THEN based ELSE store
  BY <1>5, <1>6, <1>7, <1>8 DEF SetLink
<1>10. /\ based.anchor = link.run /\ based.state = state /\ ~based.desynced
       /\ based \in [anchor : Runs \cup {NoRun}, state : States, desynced : BOOLEAN]
  BY <1>2, <1>3
<1> HIDE DEF based, state
<1>11. /\ boots' \in [fresh : BOOLEAN, stale : Nat] /\ (boots'.fresh => viewer = "none")
       /\ app' \in AppStates /\ app'.kind = "LIVE_GAME"
  <2>1. viewer # "up" => viewer = "none"
    BY <1>2 DEF IInv, TypeOK, ScreenInv
  <2> QED BY <1>5, <2>1, MountedBoots, ScreenKinds
<1>12. Read' = 3
  BY <1>3, <1>9 DEF Read
<1>13. TakesWord(c)
  BY <1>1, <1>2, <1>3, <1>5, <1>9, <1>12 DEF TakesWord, kernelVars
<1>14. WiresTyped' /\ SocketInv' /\ WordsInv' /\ BaseInv'
  BY <1>5, <1>13, TakenWires DEF IInv, WiresTyped
<1>15. TypeOK'
  <2>1. store' \in [anchor : Runs \cup {NoRun}, state : States, desynced : BOOLEAN]
    BY <1>9, <1>10 DEF IInv, TypeOK
  <2> QED BY <1>5, <1>9, <1>11, <2>1 DEF IInv, TypeOK, flowVars, kernelVars
<1>16. KeptInv' /\ ShellInv' /\ IngestedInv'
  BY <1>3, <1>5, <1>9, <1>10 DEF KeptInv, ShellInv, IngestedInv
<1>17. FollowsKernel'
  <2>1. Held' = state /\ Ahead' = state
    BY <1>5, <1>9, <1>10 DEF Held, Ahead
  <2>2. Leads(down[c], state, StateOf(watch[c], view[c]))
    <3>1. 1 \in DOMAIN down[c] /\ Head(down[c]) = down[c][1]
      BY <1>2, TailWords DEF IInv, WiresTyped
    <3> QED BY <1>2, <3>1 DEF IInv, BaseInv, state
  <2>3. Leads(down'[c], state, StateOf(watch[c], view[c]))
    BY <1>2, <1>13, <2>2, TakenChain
  <2>4. /\ link'.client = c /\ StateOf(watch[c], view[c])' = StateOf(watch[c], view[c])
    BY <1>2, <1>5, <1>9 DEF StateOf, kernelVars
  <2>5. Leads(link'.pending, state, state)
    BY <1>9, LeadsNowhere
  <2> QED BY <1>5, <1>9, <1>10, <2>1, <2>3, <2>4, <2>5 DEF FollowsKernel
<1>18. AnswersInv' /\ AnswersAreTheKernels'
  BY <1>5, <1>9, <1>13, TakenAnswers DEF kernelVars
<1>19. WantedInv'
  BY <1>2, <1>3, <1>5, <1>9 DEF IInv, WantedInv, flowVars
<1>20. ScreenInv' /\ ErrorsAreHonest'
  BY <1>2, <1>3, <1>4, <1>5, <1>9, <1>11
  DEF IInv, ScreenInv, InPlay, ErrorsAreHonest, flowVars
<1> QED BY <1>14, <1>15, <1>16, <1>17, <1>18, <1>19, <1>20 DEF IInv

LEMMA OnFrameDiffStep ==
  ASSUME IInv, NEW c \in Conns, OnFrameDiff(c)
  PROVE  IInv'
<1> DEFINE diff == Head(down[c])
<1>1. Arrives(c, "FRAME_DIFF") /\ "FRAME_DIFF" \notin Endings
  BY DEF OnFrameDiff, Endings
<1>2. /\ link.client = c /\ down[c] # <<>> /\ diff.type = "FRAME_DIFF"
      /\ session # NoRun /\ session = link.run /\ link.run \in Runs /\ ~destroyed
      /\ sock[c] \in {"open", "closing"} /\ c # NoConn
  BY <1>1, Arrived
<1>3. /\ Read = 3 /\ diff \in Diffs /\ diff.to.run = link.run
      /\ diff.from \in States /\ diff.to \in States
  <2>1. Read = 3 /\ diff \in Diffs /\ diff.to.run = link.run
    BY <1>1, <1>2, NextWordIs
  <2> QED BY <2>1 DEF Diffs
<1>4. link.baseline # NoState /\ link.checked = "subscribed"
  BY <1>3, ReadFacts DEF IInv, WantedInv
<1>5. /\ Taken(c)
      /\ UNCHANGED <<app, flowVars, sock, up, viewer, shells, boots, outcome, destroyed, wanted,
                     kernelVars>>
      /\ \/ /\ link.ingested /\ viewer = "up"
            /\ store' = IngestDiff(store, diff) /\ link' = link
         \/ /\ ~(link.ingested /\ viewer = "up")
            /\ link' = [link EXCEPT !.pending = Append(link.pending, diff)] /\ store' = store
  BY <1>4 DEF OnFrameDiff
<1>6. link' \in Links /\ SameLine /\ link'.acks = link.acks /\ link'.ingested = link.ingested
  <2>1. link \in Links /\ Append(link.pending, diff) \in Seq(Diffs)
    BY <1>3, LinkFields DEF IInv, TypeOK
  <2> QED BY <1>5, <2>1 DEF SameLine, Links
<1>7. Read' = 3
  BY <1>4, <1>6 DEF Read, SameLine
<1>8. TakesWord(c)
  BY <1>1, <1>2, <1>3, <1>5, <1>6, <1>7 DEF TakesWord, SameLine, kernelVars
<1>9. /\ diff.from = Ahead /\ Leads(down'[c], diff.to, StateOf(watch[c], view[c]))
  BY <1>2, <1>4, <1>8, TakenChain DEF IInv, FollowsKernel
<1>10. WiresTyped' /\ SocketInv' /\ WordsInv' /\ BaseInv'
  BY <1>5, <1>8, TakenWires DEF IInv, WiresTyped
<1>11. AnswersInv' /\ AnswersAreTheKernels'
  BY <1>5, <1>6, <1>8, TakenAnswers DEF kernelVars
<1>12. StateOf(watch[c], view[c])' = StateOf(watch[c], view[c]) /\ link'.client = c
  BY <1>2, <1>5, <1>6 DEF StateOf, kernelVars, SameLine
<1>13. diff.to # NoState
  BY <1>2, <1>3, StateFacts
<1> HIDE DEF diff
<1>14. /\ store' \in [anchor : Runs \cup {NoRun}, state : States, desynced : BOOLEAN]
       /\ KeptInv' /\ ShellInv' /\ IngestedInv' /\ FollowsKernel'
  <2>1. CASE link.ingested /\ viewer = "up"
    <3>1. link' = link /\ viewer' = "up" /\ store' = IngestDiff(store, diff)
      BY <1>5, <2>1
    <3>2. link.pending = <<>> /\ Held = store.state /\ Ahead = store.state
      BY <2>1 DEF IInv, KeptInv, Held, Ahead
    <3>3. ~store.desynced /\ store.anchor = link.run
      BY <1>4, <2>1 DEF IInv, ShellInv
    <3>4. store' = [store EXCEPT !.state = diff.to]
      BY <1>9, <3>1, <3>2, <3>3 DEF IngestDiff, Chained
    <3>5. store'.state = diff.to /\ store'.anchor = link.run /\ ~store'.desynced
          /\ store' \in [anchor : Runs \cup {NoRun}, state : States, desynced : BOOLEAN]
      BY <1>3, <3>3, <3>4 DEF IInv, TypeOK
    <3>6. Held' = diff.to /\ Ahead' = diff.to
      BY <2>1, <3>1, <3>2, <3>5 DEF Held, Ahead
    <3>7. Leads(link'.pending, diff.to, diff.to)
      BY <3>1, <3>2, LeadsNowhere
    <3>8. FollowsKernel'
      BY <1>9, <1>12, <2>1, <3>1, <3>5, <3>6, <3>7 DEF FollowsKernel
    <3> QED BY <1>3, <1>13, <2>1, <3>1, <3>2, <3>5, <3>8 DEF KeptInv, ShellInv, IngestedInv
  <2>2. CASE ~(link.ingested /\ viewer = "up")
    <3> DEFINE n == Len(link.pending) + 1
    <3>1. /\ link' = [link EXCEPT !.pending = Append(link.pending, diff)]
          /\ viewer' = viewer /\ store' = store
      BY <1>5, <2>2
    <3>2. viewer # "up" /\ ~link.ingested
      BY <1>4, <2>2 DEF IInv, ShellInv, IngestedInv
    <3>3. link'.pending = Append(link.pending, diff) /\ ~link'.ingested
      BY <1>6, <3>1, <3>2 DEF IInv, TypeOK, Links
    <3>4. /\ Append(link.pending, diff)[n] = diff /\ Len(Append(link.pending, diff)) = n
          /\ Append(link.pending, diff) # <<>>
          /\ DOMAIN Append(link.pending, diff) = DOMAIN link.pending \cup {n}
          /\ \A i \in DOMAIN link.pending : Append(link.pending, diff)[i] = link.pending[i]
      BY <1>3, LinkFields, AppendWord
    <3> HIDE DEF n
    <3>5. Held' = Held /\ Ahead' = diff.to
      BY <1>6, <3>2, <3>3, <3>4 DEF Held, Ahead, SameLine
    <3>6. Leads(link.pending, Held, diff.from)
      BY <1>4, <1>9 DEF IInv, FollowsKernel
    <3>7. Leads(Append(link.pending, diff), Held, diff.to)
      <4>1. link.pending \in Seq(Diffs) /\ diff \in Diffs /\ diff.type = "FRAME_DIFF"
        BY <1>2, <1>3, LinkFields DEF diff
      <4> QED BY <3>6, <4>1, LeadsAppendDiff
    <3>8. FollowsKernel'
      BY <1>9, <1>12, <3>1, <3>2, <3>3, <3>5, <3>7 DEF FollowsKernel
    <3>9. KeptInv'
      BY <1>3, <1>6, <3>3, <3>4 DEF IInv, KeptInv, SameLine
    <3>10. ShellInv' /\ IngestedInv'
      BY <3>1, <3>2, <3>3 DEF ShellInv, IngestedInv
    <3> QED BY <3>1, <3>8, <3>9, <3>10 DEF IInv, TypeOK
  <2> QED BY <2>1, <2>2
<1>15. TypeOK'
  BY <1>5, <1>6, <1>14 DEF IInv, TypeOK, flowVars, kernelVars
<1>16. WantedInv'
  BY <1>2, <1>4, <1>5, <1>6 DEF IInv, WantedInv, flowVars, SameLine
<1>17. ScreenInv' /\ ErrorsAreHonest'
  BY <1>2, <1>5, <1>6 DEF IInv, ScreenInv, InPlay, ErrorsAreHonest, flowVars, SameLine
<1> QED BY <1>10, <1>11, <1>14, <1>15, <1>16, <1>17 DEF IInv

LEMMA OnCommandAnswerStep ==
  ASSUME IInv, NEW c \in Conns,
         NEW type, NEW result,
         \/ type = "COMMAND_ACCEPTED" /\ result = "accepted"
         \/ type = "COMMAND_REJECTED" /\ result = "rejected",
         OnCommandAnswer(c, type, result)
  PROVE  IInv'
<1> DEFINE id == Head(down[c]).cmd
<1>1. Arrives(c, type) /\ type \notin Endings /\ type \in Answers
  BY DEF OnCommandAnswer, Endings, Answers
<1>2. /\ link.client = c /\ down[c] # <<>> /\ Head(down[c]).type = type
      /\ session # NoRun /\ session = link.run /\ link.run \in Runs /\ ~destroyed
      /\ sock[c] \in {"open", "closing"} /\ c # NoConn
  BY <1>1, Arrived
<1>3. Read = 3 /\ id \in Cmds
  BY <1>1, <1>2, NextWordIs
<1>4. link.baseline # NoState /\ link.checked = "subscribed"
  BY <1>3, ReadFacts DEF IInv, WantedInv
<1>5. /\ link' = [link EXCEPT !.acks = @ \ {id}]
      /\ outcome' = [outcome EXCEPT ![id] = IF id \in link.acks THEN result ELSE @]
      /\ Taken(c)
      /\ UNCHANGED <<app, flowVars, sock, up, viewVars, destroyed, wanted, kernelVars>>
  BY <1>4 DEF OnCommandAnswer, PendingOf
<1>6. verdict[id] = result
  <2>1. 1 \in DOMAIN down[c] /\ Head(down[c]) = down[c][1]
    BY <1>2, TailWords DEF IInv, WiresTyped
  <2> QED BY <1>2, <2>1 DEF IInv, AnswersInv
<1> HIDE DEF id
<1>7. /\ link' \in Links /\ SameLine /\ link'.acks = link.acks \ {id}
      /\ link'.ingested = link.ingested /\ link'.pending = link.pending
  <2>1. link \in Links /\ link' = [link EXCEPT !.acks = link.acks \ {id}]
    BY <1>5 DEF IInv, TypeOK
  <2> QED BY <2>1 DEF SameLine, Links
<1>8. Read' = 3
  BY <1>4, <1>7 DEF Read, SameLine
<1>9. TakesWord(c)
  BY <1>1, <1>2, <1>3, <1>5, <1>7, <1>8 DEF TakesWord, SameLine, kernelVars
<1>10. WiresTyped' /\ SocketInv' /\ WordsInv' /\ BaseInv'
  BY <1>5, <1>9, TakenWires DEF IInv, WiresTyped
<1>11. KeptInv' /\ ShellInv' /\ IngestedInv'
  BY <1>5, <1>7 DEF IInv, KeptInv, ShellInv, IngestedInv, SameLine, viewVars
<1>12. FollowsKernel'
  <2>1. Held' = Held /\ Ahead' = Ahead
    BY <1>5, <1>7 DEF Held, Ahead, SameLine, viewVars
  <2>2. Leads(down'[c], Ahead, StateOf(watch[c], view[c]))
    <3>1. Head(down[c]).type # "FRAME_DIFF"
      BY <1>2
    <3> QED BY <1>2, <1>4, <1>9, <3>1, TakenChain DEF IInv, FollowsKernel
  <2>3. StateOf(watch[c], view[c])' = StateOf(watch[c], view[c]) /\ link'.client = c
    BY <1>2, <1>5, <1>7 DEF StateOf, kernelVars, SameLine
  <2> QED BY <1>2, <1>5, <1>7, <2>1, <2>2, <2>3 DEF IInv, FollowsKernel, SameLine, viewVars
<1>13. /\ \A x \in Cmds : outcome'[x] = IF x = id /\ id \in link.acks THEN result ELSE outcome[x]
       /\ outcome' \in [Cmds -> {"none", "accepted", "rejected", "timeout", "lost", "unsent",
                                 "threw"}]
  <2>1. outcome \in [Cmds -> {"none", "accepted", "rejected", "timeout", "lost", "unsent",
                              "threw"}]
    BY DEF IInv, TypeOK
  <2>2. result \in {"accepted", "rejected"}
    OBVIOUS
  <2> QED BY <1>3, <1>5, <2>1, <2>2
<1>14. TypeOK'
  BY <1>5, <1>7, <1>13 DEF IInv, TypeOK, flowVars, viewVars, kernelVars
<1>15. AnswersAreTheKernels'
  BY <1>5, <1>6, <1>13 DEF IInv, AnswersAreTheKernels, kernelVars
<1>16. AnswersInv'
  <2>1. \A x \in Cmds : outcome[x] # "none" \/ x \in link.acks =>
                        outcome'[x] # "none" \/ x \in link'.acks
    BY <1>7, <1>13
  <2>2. \A d \in Conns : \A i \in DOMAIN up[d] : up[d][i].type = "INPUT_COMMAND" =>
          up[d][i].cmd \in Cmds
    BY UpFields DEF IInv, WiresTyped
  <2>3. \A d \in Conns : \A i \in DOMAIN down'[d] : \E j \in DOMAIN down[d] :
          down'[d][i] = down[d][j]
    BY <1>9, TakenWords
  <2> QED BY <1>5, <2>1, <2>2, <2>3 DEF IInv, AnswersInv, kernelVars
<1>17. WantedInv'
  BY <1>2, <1>4, <1>5, <1>7 DEF IInv, WantedInv, flowVars, SameLine
<1>18. ScreenInv' /\ ErrorsAreHonest'
  BY <1>2, <1>5, <1>7
  DEF IInv, ScreenInv, InPlay, ErrorsAreHonest, flowVars, viewVars, SameLine
<1> QED BY <1>10, <1>11, <1>12, <1>14, <1>15, <1>16, <1>17, <1>18 DEF IInv

---------------------------------------------------------------------------
(* Steps of the kernel.                                                    *)

LEMMA KernelFrame ==
  ASSUME IInv, UNCHANGED flowSide
  PROVE  /\ WantedInv' /\ ScreenInv' /\ KeptInv' /\ ShellInv' /\ IngestedInv' /\ ErrorsAreHonest'
         /\ link' = link /\ sock' = sock /\ viewer' = viewer /\ store' = store
         /\ outcome' = outcome
         /\ Read' = Read /\ Held' = Held /\ Ahead' = Ahead
         /\ verdict' \in [Cmds -> {"none", "accepted", "rejected"}]
              /\ owes' \in [Conns -> BOOLEAN] => TypeOK'
<1>1. /\ app' = app /\ attempt' = attempt /\ asked' = asked /\ begun' = begun
      /\ session' = session /\ failure' = failure /\ link' = link /\ sock' = sock
      /\ viewer' = viewer /\ shells' = shells /\ boots' = boots /\ store' = store
      /\ outcome' = outcome /\ destroyed' = destroyed /\ wanted' = wanted
  BY DEF flowSide, flowVars, viewVars
<1>2. WantedInv' /\ ScreenInv' /\ KeptInv' /\ ShellInv' /\ IngestedInv' /\ ErrorsAreHonest'
  BY <1>1 DEF IInv, WantedInv, ScreenInv, InPlay, KeptInv, ShellInv, IngestedInv, ErrorsAreHonest
<1>3. Read' = Read /\ Held' = Held /\ Ahead' = Ahead
  BY <1>1 DEF Read, Held, Ahead
<1>4. verdict' \in [Cmds -> {"none", "accepted", "rejected"}]
        /\ owes' \in [Conns -> BOOLEAN] => TypeOK'
  BY <1>1 DEF IInv, TypeOK
<1> QED BY <1>1, <1>2, <1>3, <1>4

\* A connection the kernel steps for is open or closed, and watches a run.
LEMMA KernelsConn ==
  ASSUME IInv, NEW c \in Conns, sock[c] = "open" \/ stage[c] = "streaming",
         stage[c] # "over"
  PROVE  /\ sock[c] \in {"open", "closed"} /\ watch[c] \in Runs
         /\ sock[c] = "open" => c = link.client /\ c # NoConn
<1>1. sock[c] \in {"none", "connecting", "open", "closing", "closed"}
  BY DEF IInv, TypeOK
<1>2. sock[c] \notin {"none", "connecting", "closing"}
  BY DEF IInv, SocketInv
<1>3. sock[c] = "open" => c = link.client /\ c # NoConn
  BY ViewerFlowAssumption DEF IInv, SocketInv
<1>4. watch[c] \in Runs
  <2>1. CASE sock[c] = "open"
    BY <1>3, <2>1, Current DEF IInv, SocketInv
  <2>2. CASE stage[c] = "streaming"
    BY <2>2 DEF IInv, SocketInv, WiresTyped
  <2> QED BY <2>1, <2>2
<1> QED BY <1>1, <1>2, <1>3, <1>4

LEMMA Said ==
  ASSUME IInv, NEW c \in Conns, NEW w \in DownWords, Says(c, <<w>>)
  PROVE  /\ down' \in [Conns -> Seq(DownWords)]
         /\ sock[c] # "open" => down' = down
         /\ \A d \in Conns : d # c => down'[d] = down[d]
         /\ sock[c] = "open" =>
              LET n == Len(down[c]) + 1 IN
              /\ down'[c] = Append(down[c], w) /\ n \in Nat
              /\ Len(down'[c]) = n /\ n \notin DOMAIN down[c]
              /\ DOMAIN down'[c] = DOMAIN down[c] \cup {n} /\ down'[c][n] = w
              /\ \A i \in DOMAIN down[c] : down'[c][i] = down[c][i] /\ i \in Nat /\ i < n /\ i > 0
<1>1. down \in [Conns -> Seq(DownWords)] /\ down[c] \in Seq(DownWords)
  BY DEF IInv, WiresTyped
<1>2. CASE sock[c] # "open"
  BY <1>1, <1>2 DEF Says
<1>3. CASE sock[c] = "open"
  <2>1. down' = [down EXCEPT ![c] = Append(down[c], w)]
    <3>1. down[c] \o <<w>> = Append(down[c], w)
      BY <1>1, AppendWord
    <3>2. down' = [down EXCEPT ![c] = down[c] \o <<w>>]
      BY <1>3 DEF Says
    <3> QED BY <3>1, <3>2
  <2>2. Append(down[c], w) \in Seq(DownWords)
    BY <1>1
  <2>3. /\ down'[c] = Append(down[c], w) /\ \A d \in Conns : d # c => down'[d] = down[d]
        /\ down' \in [Conns -> Seq(DownWords)]
    BY <1>1, <2>1, <2>2
  <2>4. \A i \in DOMAIN down[c] : i \in Nat /\ i < Len(down[c]) + 1 /\ i > 0
    BY <1>1
  <2> QED BY <1>1, <1>3, <2>3, <2>4, AppendWord
<1> QED BY <1>2, <1>3

LEMMA Heard ==
  ASSUME IInv, NEW c \in Conns, NEW type, Hears(c, type)
  PROVE  /\ up' \in [Conns -> Seq(UpWords)] /\ \A d \in Conns : d # c => up'[d] = up[d]
         /\ Head(up[c]) = up[c][1] /\ 1 \in DOMAIN up[c] /\ up[c][1].type = type
         /\ up[c][1] \in UpWords
         /\ \A i \in DOMAIN up'[c] :
              i + 1 \in DOMAIN up[c] /\ up'[c][i] = up[c][i + 1] /\ i \in Nat /\ i > 0
<1>1. up \in [Conns -> Seq(UpWords)] /\ up[c] \in Seq(UpWords) /\ up[c] # <<>>
      /\ Head(up[c]).type = type
  BY DEF IInv, WiresTyped, Hears
<1>2. up' = [up EXCEPT ![c] = Tail(up[c])] /\ Tail(up[c]) \in Seq(UpWords)
  BY <1>1, TailWords DEF Hears
<1>3. up'[c] = Tail(up[c]) /\ \A d \in Conns : d # c => up'[d] = up[d]
  BY <1>1, <1>2
<1> QED BY <1>1, <1>2, <1>3, TailWords

\* The word fits the stream: the next one, or an ending.
Fits(c, w) ==
  \/ w.type \in Endings /\ stage'[c] = "over"
  \/ LET n == Read + Len(down[c]) + 1 IN
     /\ IsNth(w, n, watch[c])
     /\ stage'[c] = IF n = 1 THEN "greeted" ELSE IF n = 2 THEN "subscribed" ELSE "streaming"

KernelSpeaks(c, w) ==
  /\ w \in DownWords /\ Says(c, <<w>>) /\ UNCHANGED flowSide
  /\ sock[c] = "open" \/ stage[c] = "streaming"
  /\ stage[c] # "over" /\ watch' = watch
  /\ \A d \in Conns : d # c => stage'[d] = stage[d] /\ view'[d] = view[d]
  /\ sock[c] = "open" => Fits(c, w)

LEMMA StreamsOn ==
  ASSUME IInv, NEW c \in Conns, sock[c] = "open"
  PROVE  /\ Read + Len(down[c]) \in Nat /\ Len(down[c]) \in Nat
         /\ stage[c] = "silent" => Read + Len(down[c]) = 0
         /\ stage[c] = "greeted" => Read + Len(down[c]) = 1
         /\ stage[c] = "subscribed" => Read + Len(down[c]) = 2
         /\ stage[c] = "streaming" => Read + Len(down[c]) >= 3
<1>1. c = link.client /\ c # NoConn
  BY ViewerFlowAssumption DEF IInv, SocketInv
<1>2. Read \in Nat /\ Len(down[c]) \in Nat
  BY ReadFacts DEF IInv, WiresTyped
<1>3. Read + Len(down[c]) \in Nat
  BY <1>2
<1> QED BY <1>1, <1>2, <1>3 DEF IInv, WordsInv

LEMMA SpokenWords ==
  ASSUME IInv, NEW c \in Conns, NEW w, KernelSpeaks(c, w)
  PROVE  WordsInv'
<1>1. /\ link' = link /\ sock' = sock /\ Read' = Read /\ watch' = watch
      /\ w \in DownWords /\ Says(c, <<w>>) /\ stage[c] # "over"
      /\ \A d \in Conns : d # c => stage'[d] = stage[d]
  BY KernelFrame DEF KernelSpeaks
<1>2. sock[c] \in {"open", "closed"} /\ (sock[c] = "open" => c = link.client /\ c # NoConn)
  BY KernelsConn DEF KernelSpeaks
<1>3. CASE sock[c] # "open"
  <2>1. down' = down /\ sock[c] = "closed"
    BY <1>1, <1>2, <1>3, Said
  <2>2. CASE link.client = c
    <3>1. link'.client = c /\ sock'[c] = "closed" /\ watch' = watch /\ down' = down
      BY <1>1, <2>1, <2>2
    <3> QED BY <1>1, <2>1, <2>2, <3>1 DEF IInv, WordsInv
  <2>3. CASE link.client # c
    <3>1. link.client # NoConn => link.client \in Conns
      BY LinkFields
    <3>2. link.client # NoConn => stage'[link.client] = stage[link.client]
      BY <1>1, <2>3, <3>1
    <3> QED BY <1>1, <2>1, <3>2 DEF IInv, WordsInv
  <2> QED BY <2>2, <2>3
<1>4. CASE sock[c] = "open"
  <2> DEFINE n == Len(down[c]) + 1
  <2>1. link'.client = c /\ link.client = c /\ c # NoConn /\ sock'[c] = "open"
    BY <1>1, <1>2, <1>4
  <2>2. /\ \A i \in DOMAIN down[c] : IsNth(down[c][i], Read + i, watch[c])
                                     /\ down[c][i].type \notin Endings
    BY <1>1, <1>4, <2>1 DEF IInv, WordsInv
  <2>3. /\ n \in Nat /\ Len(down'[c]) = n /\ n \notin DOMAIN down[c]
        /\ DOMAIN down'[c] = DOMAIN down[c] \cup {n} /\ down'[c][n] = w
        /\ \A i \in DOMAIN down[c] : down'[c][i] = down[c][i]
    BY <1>1, <1>4, Said
  <2> HIDE DEF n
  <2>4. CASE w.type \in Endings /\ stage'[c] = "over"
    <3>1. \A i \in DOMAIN down'[c] : \/ IsNth(down'[c][i], Read' + i, watch'[c])
                                     \/ i = Len(down'[c]) /\ down'[c][i].type \in Endings
      BY <1>1, <2>2, <2>3, <2>4
    <3> QED BY <2>1, <2>4, <3>1 DEF WordsInv
  <2>5. CASE /\ IsNth(w, Read + n, watch[c])
             /\ stage'[c] = IF Read + n = 1 THEN "greeted"
                            ELSE IF Read + n = 2 THEN "subscribed" ELSE "streaming"
    <3>1. \A i \in DOMAIN down'[c] : IsNth(down'[c][i], Read' + i, watch'[c])
      BY <1>1, <2>2, <2>3, <2>5
    <3>2. w.type \notin Endings
      BY <2>5 DEF IsNth, Endings, Answers
    <3>3. \A i \in DOMAIN down'[c] : down'[c][i].type \notin Endings
      BY <2>2, <2>3, <3>2
    <3>4. Read + n \in Nat /\ Read + n > 0 /\ Read' + Len(down'[c]) = Read + n
      BY <1>1, <2>3, ReadFacts, StreamsOn, <1>4 DEF n
    <3> HIDE DEF n
    <3> QED BY <2>1, <2>5, <3>1, <3>3, <3>4 DEF WordsInv
  <2>6. Read + Len(down[c]) + 1 = Read + n
    BY <1>4, ReadFacts, StreamsOn DEF n
  <2> QED BY <1>4, <2>4, <2>5, <2>6 DEF KernelSpeaks, Fits
<1> QED BY <1>3, <1>4

\* The chain of diffs goes on: the word is a diff from the state before to the
\* state after, or the baseline, or it moves nothing.
Chains(c, w) ==
  LET now == StateOf(watch[c], view[c])
      next == StateOf(watch[c], view'[c]) IN
  \/ w.type \notin {"FRAME_DIFF", "FULL_SNAPSHOT"} /\ next = now
  \/ w.type = "FRAME_DIFF" /\ w.from = now /\ w.to = next
  \/ w.type = "FULL_SNAPSHOT" /\ w.state = next /\ Read + Len(down[c]) = 2

LEMMA SpokenChain ==
  ASSUME IInv, NEW c \in Conns, NEW w, KernelSpeaks(c, w), sock[c] = "open" => Chains(c, w)
  PROVE  BaseInv' /\ FollowsKernel'
<1>1. /\ link' = link /\ sock' = sock /\ viewer' = viewer /\ store' = store /\ watch' = watch
      /\ Held' = Held /\ Ahead' = Ahead
      /\ w \in DownWords /\ Says(c, <<w>>) /\ stage[c] # "over"
      /\ \A d \in Conns : d # c => view'[d] = view[d]
  BY KernelFrame DEF KernelSpeaks
<1>2. sock[c] \in {"open", "closed"} /\ (sock[c] = "open" => c = link.client /\ c # NoConn)
  BY KernelsConn DEF KernelSpeaks
<1>3. \A d \in Conns : StateOf(watch[d], view[d])' = StateOf(watch[d], view'[d])
  BY <1>1 DEF StateOf
<1>4. CASE sock[c] # "open"
  <2>1. down' = down /\ sock[c] = "closed"
    BY <1>1, <1>2, <1>4, Said
  <2>2. link.client \in Conns /\ link.client # c => view'[link.client] = view[link.client]
    BY <1>1
  <2>3. link.client # NoConn => link.client \in Conns
    BY LinkFields
  <2>4. link.baseline # NoState => link.client # NoConn
    BY DEF IInv, WantedInv, NoLink
  <2>5. link'.client = c => sock'[link'.client] = "closed"
    BY <1>1, <2>1
  <2>6. BaseInv'
    BY <1>1, <2>1, <2>2, <2>3, <2>5 DEF IInv, BaseInv, StateOf
  <2>7. FollowsKernel'
    BY <1>1, <2>1, <2>2, <2>3, <2>4, <2>5 DEF IInv, FollowsKernel, StateOf
  <2> QED BY <2>6, <2>7
<1>5. CASE sock[c] = "open"
  <2> DEFINE n == Len(down[c]) + 1
             now == StateOf(watch[c], view[c])
             next == StateOf(watch[c], view'[c])
  <2>1. link.client = c /\ link'.client = c /\ c # NoConn /\ sock'[c] = "open"
        /\ down[c] \in Seq(DownWords) /\ StateOf(watch[c], view[c])' = next
    BY <1>1, <1>2, <1>3, <1>5 DEF IInv, WiresTyped
  <2>2. /\ n \in Nat /\ n \notin DOMAIN down[c] /\ down'[c] = Append(down[c], w)
        /\ DOMAIN down'[c] = DOMAIN down[c] \cup {n} /\ down'[c][n] = w
        /\ \A i \in DOMAIN down[c] : down'[c][i] = down[c][i] /\ i \in Nat /\ i < n /\ i > 0
    BY <1>1, <1>5, Said
  <2>3. /\ \A i \in DOMAIN down[c] : \/ IsNth(down[c][i], Read + i, watch[c])
                                     \/ down[c][i].type \in Endings
    BY <2>1 DEF IInv, WordsInv
  <2>4. ASSUME NEW a, Leads(down[c], a, now), w.type # "FULL_SNAPSHOT"
        PROVE  Leads(down'[c], a, next)
    <3>1. CASE w.type = "FRAME_DIFF"
      <4>1. w.from = now /\ w.to = next
        BY <1>5, <3>1 DEF Chains
      <4> HIDE DEF now, next
      <4>2. w \in DownWords /\ down[c] \in Seq(DownWords) /\ Leads(down[c], a, w.from)
        BY <1>1, <2>1, <2>4, <4>1
      <4>3. Leads(Append(down[c], w), a, w.to)
        BY <3>1, <4>2, LeadsAppendDiff
      <4> QED BY <2>2, <4>1, <4>3
    <3>2. CASE w.type # "FRAME_DIFF"
      <4>1. next = now
        BY <1>5, <2>4, <3>2 DEF Chains
      <4> HIDE DEF now, next
      <4>2. w \in DownWords /\ down[c] \in Seq(DownWords) /\ Leads(down[c], a, next)
        BY <1>1, <2>1, <2>4, <4>1
      <4>3. Leads(Append(down[c], w), a, next)
        BY <3>2, <4>2, LeadsAppendOther
      <4> QED BY <2>2, <4>3
    <3> QED BY <3>1, <3>2
  <2>5. CASE w.type # "FULL_SNAPSHOT"
    <3>1. BaseInv'
      <4>1. ASSUME NEW i \in DOMAIN down'[c], down'[c][i].type = "FULL_SNAPSHOT"
            PROVE  Leads(down'[c], down'[c][i].state, next)
        <5>1. i \in DOMAIN down[c] /\ down'[c][i] = down[c][i]
          BY <2>2, <2>5, <4>1
        <5>2. Leads(down[c], down[c][i].state, now)
          BY <1>5, <2>1, <4>1, <5>1 DEF IInv, BaseInv
        <5> QED BY <2>4, <2>5, <5>1, <5>2
      <4> HIDE DEF next
      <4> QED BY <2>1, <4>1 DEF BaseInv
    <3>2. FollowsKernel'
      <4>1. link.baseline # NoState => Leads(down[c], Ahead, now)
        BY <1>5, <2>1 DEF IInv, FollowsKernel
      <4>2. link.baseline # NoState => Leads(down'[c], Ahead, next)
        BY <2>4, <2>5, <4>1
      <4> HIDE DEF next
      <4> QED BY <1>1, <2>1, <4>2 DEF IInv, FollowsKernel
    <3> QED BY <3>1, <3>2
  <2>6. CASE w.type = "FULL_SNAPSHOT"
    <3>1. w.state = next /\ Read + Len(down[c]) = 2
      BY <1>5, <2>6 DEF Chains
    <3>2. Read \in 0..3 /\ link.baseline = NoState
      BY <3>1, ReadFacts, StreamsOn, <1>5
    <3>3. \A i \in DOMAIN down[c] : Read + i \in Nat /\ Read + i < 3
      <4>1. n = Len(down[c]) + 1 /\ Len(down[c]) \in Nat
        BY StreamsOn, <1>5
      <4> QED BY <2>2, <3>1, <3>2, <4>1
    <3>4. \A i \in DOMAIN down[c] : down[c][i].type \notin {"FRAME_DIFF", "FULL_SNAPSHOT"}
      BY <2>3, <3>3 DEF IsNth, Endings
    <3>5. DiffsIn(down'[c]) = {}
      BY <2>2, <2>6, <3>4 DEF DiffsIn
    <3>6. Leads(down'[c], next, next)
      BY <3>5, LeadsWithoutDiffs
    <3>7. BaseInv'
      <4>1. \A i \in DOMAIN down'[c] : down'[c][i].type = "FULL_SNAPSHOT" =>
              down'[c][i].state = next
        BY <2>2, <3>1, <3>4
      <4> HIDE DEF next
      <4> QED BY <2>1, <3>6, <4>1 DEF BaseInv
    <3>8. FollowsKernel'
      BY <1>1, <3>2 DEF FollowsKernel
    <3> QED BY <3>7, <3>8
  <2> QED BY <2>5, <2>6
<1> QED BY <1>4, <1>5

\* The types and the sockets after a word.
LEMMA SpokenWires ==
  ASSUME IInv, NEW c \in Conns, NEW w, KernelSpeaks(c, w),
         truth' \in [Runs -> Positions],
         stage' \in [Conns -> {"silent", "greeted", "subscribed", "streaming", "over"}],
         view' \in [Conns -> Positions \cup {Blank}],
         stage'[c] = "streaming" => view'[c] \in Positions,
         up' \in [Conns -> Seq(UpWords)], \A d \in Conns : d # c => up'[d] = up[d],
         \A d \in Conns : d # c => owes'[d] = owes[d]
  PROVE  WiresTyped' /\ SocketInv'
<1>1. /\ link' = link /\ sock' = sock /\ watch' = watch
      /\ w \in DownWords /\ Says(c, <<w>>) /\ stage[c] # "over"
      /\ \A d \in Conns : d # c => stage'[d] = stage[d] /\ view'[d] = view[d]
  BY KernelFrame DEF KernelSpeaks
<1>2. /\ sock[c] \in {"open", "closed"} /\ (sock[c] = "open" => c = link.client)
      /\ watch[c] \in Runs
  BY KernelsConn DEF KernelSpeaks
<1>3. WiresTyped'
  BY <1>1, Said DEF IInv, WiresTyped
<1>4. ASSUME NEW d \in Conns, d # c
      PROVE  down'[d] = down[d]
  BY <1>1, <1>4, Said
<1>5. sock[c] # "open" => down' = down
  BY <1>1, Said
<1>6. watch[c] # NoRun
  BY <1>2, ViewerFlowAssumption
<1>7. SocketInv'
  <2>1. SUFFICES ASSUME NEW d \in Conns
        PROVE  /\ d # link.client => sock[d] \in {"none", "closed"} /\ down'[d] = <<>>
               /\ d = link.client => sock[d] # "none"
               /\ sock[d] \in {"none", "connecting"} =>
                    /\ watch[d] = NoRun /\ stage'[d] = "silent" /\ ~owes'[d]
                    /\ up'[d] = <<>> /\ down'[d] = <<>>
               /\ sock[d] \in {"open", "closing"} => watch[d] = link.run
               /\ sock[d] = "closing" => stage'[d] = "over"
               /\ stage'[d] # "silent" => watch[d] # NoRun
               /\ stage'[d] = "streaming" => view'[d] \in Positions
    BY <1>1 DEF SocketInv
  <2>2. CASE d = c
    BY <1>2, <1>5, <1>6, <2>2 DEF IInv, SocketInv
  <2>3. CASE d # c
    BY <1>1, <1>4, <2>3 DEF IInv, SocketInv
  <2> QED BY <2>2, <2>3
<1> QED BY <1>3, <1>7

\* A word that answers no command.
LEMMA SpokenNoAnswer ==
  ASSUME IInv, NEW c \in Conns, NEW w, KernelSpeaks(c, w), w.type \notin Answers,
         verdict' = verdict, up' = up \/ \E type : type # "INPUT_COMMAND" /\ Hears(c, type)
  PROVE  AnswersInv' /\ AnswersAreTheKernels'
<1>1. link' = link /\ outcome' = outcome /\ w \in DownWords /\ Says(c, <<w>>)
  BY KernelFrame DEF KernelSpeaks
<1>2. AnswersAreTheKernels'
  BY <1>1 DEF IInv, AnswersAreTheKernels
<1>3. ASSUME NEW d \in Conns, NEW i \in DOMAIN down'[d], down'[d][i].type \in Answers
      PROVE  \E j \in DOMAIN down[d] : down'[d][i] = down[d][j]
  <2>1. CASE d # c \/ sock[c] # "open"
    BY <1>1, <2>1, Said
  <2>2. CASE d = c /\ sock[c] = "open"
    BY <1>1, <1>3, <2>2, Said
  <2> QED BY <2>1, <2>2
<1>4. \A d \in Conns : \A i \in DOMAIN down'[d] :
        /\ down'[d][i].type = "COMMAND_ACCEPTED" => verdict'[down'[d][i].cmd] = "accepted"
        /\ down'[d][i].type = "COMMAND_REJECTED" => verdict'[down'[d][i].cmd] = "rejected"
  BY <1>3 DEF IInv, AnswersInv, Answers
<1>5. CASE up' = up
  BY <1>1, <1>2, <1>4, <1>5 DEF IInv, AnswersInv
<1>6. CASE \E type : type # "INPUT_COMMAND" /\ Hears(c, type)
  <2>1. /\ \A d \in Conns : d # c => up'[d] = up[d]
        /\ \A i \in DOMAIN up'[c] :
             i + 1 \in DOMAIN up[c] /\ up'[c][i] = up[c][i + 1] /\ i \in Nat /\ i > 0
    BY <1>6, Heard
  <2>2. ASSUME NEW d \in Conns, NEW i \in DOMAIN up'[d], up'[d][i].type = "INPUT_COMMAND",
               NEW e \in Conns, NEW j \in DOMAIN up'[e], up'[e][j].type = "INPUT_COMMAND",
               up'[e][j].cmd = up'[d][i].cmd
        PROVE  e = d /\ j = i
    <3> DEFINE at(x, k) == IF x = c THEN k + 1 ELSE k
    <3>1. /\ at(d, i) \in DOMAIN up[d] /\ up'[d][i] = up[d][at(d, i)]
          /\ at(e, j) \in DOMAIN up[e] /\ up'[e][j] = up[e][at(e, j)]
      BY <2>1
    <3>2. e = d /\ at(e, j) = at(d, i)
      <4> HIDE DEF at
      <4> QED BY <2>2, <3>1 DEF IInv, AnswersInv
    <3> QED BY <2>1, <3>2
  <2>3. ASSUME NEW d \in Conns, NEW i \in DOMAIN up'[d]
        PROVE  \E j \in DOMAIN up[d] : up'[d][i] = up[d][j]
    BY <2>1
  <2>4. ASSUME NEW d \in Conns, NEW i \in DOMAIN up'[d], up'[d][i].type = "INPUT_COMMAND"
        PROVE  /\ verdict'[up'[d][i].cmd] = "none"
               /\ outcome'[up'[d][i].cmd] # "none" \/ up'[d][i].cmd \in link'.acks
    BY <1>1, <2>3, <2>4 DEF IInv, AnswersInv
  <2>5. \A id \in Cmds : verdict'[id] # "none" => outcome'[id] # "none" \/ id \in link'.acks
    BY <1>1 DEF IInv, AnswersInv
  <2> QED BY <1>2, <1>4, <2>2, <2>4, <2>5 DEF AnswersInv
<1> QED BY <1>2, <1>5, <1>6

\* The answer to the command that was heard.
LEMMA SpokenAnswer ==
  ASSUME IInv, NEW c \in Conns, NEW w, KernelSpeaks(c, w), Hears(c, "INPUT_COMMAND"),
         NEW v, w.cmd = up[c][1].cmd,
         \/ w.type = "COMMAND_ACCEPTED" /\ v = "accepted"
         \/ w.type = "COMMAND_REJECTED" /\ v = "rejected",
         verdict' = [verdict EXCEPT ![up[c][1].cmd] = v]
  PROVE  /\ AnswersInv' /\ AnswersAreTheKernels'
         /\ verdict' \in [Cmds -> {"none", "accepted", "rejected"}]
<1> DEFINE id == up[c][1].cmd
<1>1. link' = link /\ outcome' = outcome /\ w \in DownWords /\ Says(c, <<w>>)
  BY KernelFrame DEF KernelSpeaks
<1>2. /\ \A d \in Conns : d # c => up'[d] = up[d]
      /\ \A i \in DOMAIN up'[c] :
           i + 1 \in DOMAIN up[c] /\ up'[c][i] = up[c][i + 1] /\ i \in Nat /\ i > 0
      /\ 1 \in DOMAIN up[c] /\ up[c][1].type = "INPUT_COMMAND" /\ up[c][1] \in UpWords
  BY Heard
<1>3. id \in Cmds
  BY <1>2, UpFields
<1>4. verdict[id] = "none" /\ (outcome[id] # "none" \/ id \in link.acks)
  BY <1>2 DEF IInv, AnswersInv
<1>5. \A d \in Conns : \A j \in DOMAIN up[d] :
        up[d][j].type = "INPUT_COMMAND" /\ up[d][j].cmd = id => d = c /\ j = 1
  BY <1>2 DEF IInv, AnswersInv
<1>6. /\ verdict' \in [Cmds -> {"none", "accepted", "rejected"}] /\ verdict'[id] = v
      /\ \A x \in Cmds : x # id => verdict'[x] = verdict[x]
  <2>1. verdict \in [Cmds -> {"none", "accepted", "rejected"}] /\ v \in {"accepted", "rejected"}
    BY DEF IInv, TypeOK
  <2> QED BY <1>3, <2>1
<1> HIDE DEF id
<1>7. AnswersAreTheKernels'
  BY <1>1, <1>4, <1>6 DEF IInv, AnswersAreTheKernels
<1>8. ASSUME NEW d \in Conns, NEW i \in DOMAIN down'[d], down'[d][i].type \in Answers
      PROVE  \/ down'[d][i] = w
             \/ down'[d][i].cmd \in Cmds /\ \E j \in DOMAIN down[d] : down'[d][i] = down[d][j]
  <2>1. CASE d # c \/ sock[c] # "open"
    <3>1. down'[d] = down[d]
      BY <1>1, <2>1, Said
    <3> QED BY <1>8, <3>1, WordFields DEF IInv, WiresTyped
  <2>2. CASE d = c /\ sock[c] = "open"
    <3>1. (i = Len(down[c]) + 1 /\ down'[d][i] = w) \/ (i \in DOMAIN down[c] /\ down'[d][i] = down[d][i])
      BY <1>1, <2>2, Said
    <3> QED BY <1>8, <2>2, <3>1, WordFields DEF IInv, WiresTyped
  <2> QED BY <2>1, <2>2
<1>9. \A d \in Conns : \A i \in DOMAIN down'[d] :
        /\ down'[d][i].type = "COMMAND_ACCEPTED" => verdict'[down'[d][i].cmd] = "accepted"
        /\ down'[d][i].type = "COMMAND_REJECTED" => verdict'[down'[d][i].cmd] = "rejected"
  <2>1. SUFFICES ASSUME NEW d \in Conns, NEW i \in DOMAIN down'[d], down'[d][i].type \in Answers
        PROVE  /\ down'[d][i].type = "COMMAND_ACCEPTED" => verdict'[down'[d][i].cmd] = "accepted"
               /\ down'[d][i].type = "COMMAND_REJECTED" => verdict'[down'[d][i].cmd] = "rejected"
    BY DEF Answers
  <2>2. CASE down'[d][i] = w
    BY <1>6, <2>2 DEF id
  <2>3. CASE down'[d][i].cmd \in Cmds /\ \E j \in DOMAIN down[d] : down'[d][i] = down[d][j]
    <3>1. /\ down'[d][i].type = "COMMAND_ACCEPTED" => verdict[down'[d][i].cmd] = "accepted"
          /\ down'[d][i].type = "COMMAND_REJECTED" => verdict[down'[d][i].cmd] = "rejected"
      BY <2>3 DEF IInv, AnswersInv
    <3>2. down'[d][i].cmd # id
      BY <1>4, <2>1, <3>1 DEF Answers
    <3> QED BY <1>6, <2>3, <3>1, <3>2
  <2> QED BY <1>8, <2>1, <2>2, <2>3
<1>10. ASSUME NEW d \in Conns, NEW i \in DOMAIN up'[d], up'[d][i].type = "INPUT_COMMAND",
              NEW e \in Conns, NEW j \in DOMAIN up'[e], up'[e][j].type = "INPUT_COMMAND",
              up'[e][j].cmd = up'[d][i].cmd
       PROVE  e = d /\ j = i
  <2> DEFINE at(x, k) == IF x = c THEN k + 1 ELSE k
  <2>1. /\ at(d, i) \in DOMAIN up[d] /\ up'[d][i] = up[d][at(d, i)]
        /\ at(e, j) \in DOMAIN up[e] /\ up'[e][j] = up[e][at(e, j)]
    BY <1>2
  <2>2. e = d /\ at(e, j) = at(d, i)
    <3> HIDE DEF at
    <3> QED BY <1>10, <2>1 DEF IInv, AnswersInv
  <2> QED BY <1>2, <2>2
<1>11. ASSUME NEW d \in Conns, NEW i \in DOMAIN up'[d], up'[d][i].type = "INPUT_COMMAND"
       PROVE  /\ verdict'[up'[d][i].cmd] = "none"
              /\ outcome'[up'[d][i].cmd] # "none" \/ up'[d][i].cmd \in link'.acks
  <2>1. PICK j \in DOMAIN up[d] : up'[d][i] = up[d][j] /\ (d # c \/ j # 1)
    <3>1. CASE d = c
      <4>1. i + 1 \in DOMAIN up[d] /\ up'[d][i] = up[d][i + 1] /\ i + 1 # 1
        BY <1>2, <3>1
      <4> QED BY <4>1
    <3>2. CASE d # c
      BY <1>2, <3>2
    <3> QED BY <3>1, <3>2
  <2>2. /\ up[d][j].cmd # id /\ up[d][j].cmd \in Cmds
    BY <1>5, <1>11, <2>1, UpFields DEF IInv, WiresTyped
  <2> QED BY <1>1, <1>6, <1>11, <2>1, <2>2 DEF IInv, AnswersInv
<1>12. \A x \in Cmds : verdict'[x] # "none" => outcome'[x] # "none" \/ x \in link'.acks
  BY <1>1, <1>4, <1>6 DEF IInv, AnswersInv
<1> QED BY <1>6, <1>7, <1>9, <1>10, <1>11, <1>12 DEF AnswersInv

LEMMA SimpleWords ==
  /\ \A type \in {"SUBSCRIBED"} \cup Endings :
       [type |-> type] \in DownWords /\ [type |-> type].type = type
  /\ \A r \in Runs : LET w == [type |-> "KERNEL_HELLO", run |-> r] IN
       w \in DownWords /\ w.type = "KERNEL_HELLO" /\ w.run = r
  /\ \A s \in States : LET w == [type |-> "FULL_SNAPSHOT", state |-> s] IN
       w \in DownWords /\ w.type = "FULL_SNAPSHOT" /\ w.state = s
  /\ \A s, t \in States : LET w == [type |-> "FRAME_DIFF", from |-> s, to |-> t] IN
       w \in DownWords /\ w.type = "FRAME_DIFF" /\ w.from = s /\ w.to = t
  /\ \A type \in Answers, id \in Cmds : LET w == [type |-> type, cmd |-> id] IN
       w \in DownWords /\ w.type = type /\ w.cmd = id
BY DEF DownWords, Diffs

LEMMA KernelGreetsStep ==
  ASSUME IInv, NEW c \in Conns, KernelGreets(c)
  PROVE  IInv'
<1> DEFINE w == [type |-> "KERNEL_HELLO", run |-> watch[c]]
<1>1. /\ sock[c] = "open" /\ Hears(c, "VIEWER_HELLO") /\ stage[c] = "silent"
      /\ stage' = [stage EXCEPT ![c] = "greeted"] /\ Says(c, <<w>>)
      /\ UNCHANGED flowSide
      /\ truth' = truth /\ watch' = watch /\ view' = view /\ owes' = owes /\ verdict' = verdict
  BY DEF KernelGreets, Greet, Advance
<1>2. watch[c] \in Runs
  BY <1>1, KernelsConn
<1>3. w \in DownWords /\ w.type = "KERNEL_HELLO" /\ w.run = watch[c]
  BY <1>2, SimpleWords
<1> HIDE DEF w
<1>4. /\ stage'[c] = "greeted" /\ \A d \in Conns : d # c => stage'[d] = stage[d]
      /\ stage' \in [Conns -> {"silent", "greeted", "subscribed", "streaming", "over"}]
  BY <1>1 DEF IInv, WiresTyped
<1>5. Read + Len(down[c]) + 1 = 1
  BY <1>1, StreamsOn
<1>6. KernelSpeaks(c, w)
  BY <1>1, <1>3, <1>4, <1>5 DEF KernelSpeaks, Fits, IsNth
<1>7. Chains(c, w)
  BY <1>1, <1>3 DEF Chains
<1>8. WordsInv' /\ BaseInv' /\ FollowsKernel'
  BY <1>6, <1>7, SpokenWords, SpokenChain
<1>9. up' \in [Conns -> Seq(UpWords)] /\ \A d \in Conns : d # c => up'[d] = up[d]
  BY <1>1, Heard
<1>10. WiresTyped' /\ SocketInv'
  BY <1>1, <1>4, <1>6, <1>9, SpokenWires DEF IInv, WiresTyped
<1>11. AnswersInv' /\ AnswersAreTheKernels'
  BY <1>1, <1>3, <1>6, SpokenNoAnswer DEF Answers
<1>12. TypeOK' /\ WantedInv' /\ ScreenInv' /\ KeptInv' /\ ShellInv' /\ IngestedInv'
       /\ ErrorsAreHonest'
  BY <1>1, KernelFrame DEF IInv, TypeOK
<1> QED BY <1>8, <1>10, <1>11, <1>12 DEF IInv

LEMMA KernelSubscribesStep ==
  ASSUME IInv, NEW c \in Conns, KernelSubscribes(c)
  PROVE  IInv'
<1> DEFINE w == [type |-> "SUBSCRIBED"]
<1>1. /\ sock[c] = "open" /\ Hears(c, "SUBSCRIBE") /\ stage[c] = "greeted"
      /\ stage' = [stage EXCEPT ![c] = "subscribed"] /\ Says(c, <<w>>)
      /\ UNCHANGED flowSide
      /\ truth' = truth /\ watch' = watch /\ view' = view /\ owes' = owes /\ verdict' = verdict
  BY DEF KernelSubscribes, Subscribed, Advance
<1>2. w \in DownWords /\ w.type = "SUBSCRIBED"
  BY SimpleWords
<1> HIDE DEF w
<1>4. /\ stage'[c] = "subscribed" /\ \A d \in Conns : d # c => stage'[d] = stage[d]
      /\ stage' \in [Conns -> {"silent", "greeted", "subscribed", "streaming", "over"}]
  BY <1>1 DEF IInv, WiresTyped
<1>5. Read + Len(down[c]) + 1 = 2
  BY <1>1, StreamsOn
<1>6. KernelSpeaks(c, w)
  BY <1>1, <1>2, <1>4, <1>5 DEF KernelSpeaks, Fits, IsNth
<1>7. Chains(c, w)
  BY <1>1, <1>2 DEF Chains
<1>8. WordsInv' /\ BaseInv' /\ FollowsKernel'
  BY <1>6, <1>7, SpokenWords, SpokenChain
<1>9. up' \in [Conns -> Seq(UpWords)] /\ \A d \in Conns : d # c => up'[d] = up[d]
  BY <1>1, Heard
<1>10. WiresTyped' /\ SocketInv'
  BY <1>1, <1>4, <1>6, <1>9, SpokenWires DEF IInv, WiresTyped
<1>11. AnswersInv' /\ AnswersAreTheKernels'
  BY <1>1, <1>2, <1>6, SpokenNoAnswer DEF Answers
<1>12. TypeOK' /\ WantedInv' /\ ScreenInv' /\ KeptInv' /\ ShellInv' /\ IngestedInv'
       /\ ErrorsAreHonest'
  BY <1>1, KernelFrame DEF IInv, TypeOK
<1> QED BY <1>8, <1>10, <1>11, <1>12 DEF IInv

LEMMA KernelSendsBaselineStep ==
  ASSUME IInv, NEW c \in Conns, KernelSendsBaseline(c)
  PROVE  IInv'
<1> DEFINE w == [type |-> "FULL_SNAPSHOT", state |-> StateOf(watch[c], view'[c])]
<1>1. /\ sock[c] = "open" /\ stage[c] = "subscribed"
      /\ stage' = [stage EXCEPT ![c] = "streaming"] /\ Says(c, <<w>>)
      /\ view' = [view EXCEPT ![c] = truth[watch[c]]]
      /\ UNCHANGED flowSide
      /\ truth' = truth /\ watch' = watch /\ up' = up /\ owes' = owes /\ verdict' = verdict
  BY DEF KernelSendsBaseline, Baseline, Advance
<1>2. watch[c] \in Runs
  BY <1>1, KernelsConn
<1>3. /\ view'[c] \in Positions /\ \A d \in Conns : d # c => view'[d] = view[d]
      /\ view' \in [Conns -> Positions \cup {Blank}]
  BY <1>1, <1>2 DEF IInv, WiresTyped
<1>4. /\ w \in DownWords /\ w.type = "FULL_SNAPSHOT" /\ w.state = StateOf(watch[c], view'[c])
      /\ w.state.run = watch[c]
  BY <1>2, <1>3, StateFacts, SimpleWords
<1> HIDE DEF w
<1>5. /\ stage'[c] = "streaming" /\ \A d \in Conns : d # c => stage'[d] = stage[d]
      /\ stage' \in [Conns -> {"silent", "greeted", "subscribed", "streaming", "over"}]
  BY <1>1 DEF IInv, WiresTyped
<1>6. Read + Len(down[c]) = 2 /\ Read + Len(down[c]) + 1 = 3
  BY <1>1, StreamsOn
<1>7. KernelSpeaks(c, w)
  BY <1>1, <1>3, <1>4, <1>5, <1>6 DEF KernelSpeaks, Fits, IsNth
<1>8. Chains(c, w)
  BY <1>4, <1>6 DEF Chains
<1>9. WordsInv' /\ BaseInv' /\ FollowsKernel'
  BY <1>7, <1>8, SpokenWords, SpokenChain
<1>10. WiresTyped' /\ SocketInv'
  BY <1>1, <1>3, <1>5, <1>7, SpokenWires DEF IInv, WiresTyped
<1>11. AnswersInv' /\ AnswersAreTheKernels'
  BY <1>1, <1>4, <1>7, SpokenNoAnswer DEF Answers
<1>12. TypeOK' /\ WantedInv' /\ ScreenInv' /\ KeptInv' /\ ShellInv' /\ IngestedInv'
       /\ ErrorsAreHonest'
  BY <1>1, KernelFrame DEF IInv, TypeOK
<1> QED BY <1>9, <1>10, <1>11, <1>12 DEF IInv

LEMMA KernelAnswersStep ==
  ASSUME IInv, NEW c \in Conns, KernelAccepts(c) \/ KernelRejects(c)
  PROVE  IInv'
<1>1. /\ stage[c] = "streaming" /\ Hears(c, "INPUT_COMMAND")
      /\ UNCHANGED flowSide /\ watch' = watch /\ stage' = stage /\ view' = view
  BY DEF KernelAccepts, KernelRejects, Change, streamVars
<1> DEFINE id == up[c][1].cmd
<1>2. /\ Head(up[c]) = up[c][1] /\ up[c][1].type = "INPUT_COMMAND" /\ up[c][1] \in UpWords
      /\ up' \in [Conns -> Seq(UpWords)] /\ \A d \in Conns : d # c => up'[d] = up[d]
  BY <1>1, Heard
<1>3. id \in Cmds
  BY <1>2, UpFields
<1>4. PICK type \in Answers, v \in {"accepted", "rejected"} :
        /\ \/ type = "COMMAND_ACCEPTED" /\ v = "accepted"
           \/ type = "COMMAND_REJECTED" /\ v = "rejected"
        /\ Says(c, <<[type |-> type, cmd |-> id]>>)
        /\ verdict' = [verdict EXCEPT ![id] = v]
        /\ truth' \in [Runs -> Positions]
        /\ owes' \in {owes, [owes EXCEPT ![c] = TRUE]}
  <2>1. CASE KernelAccepts(c)
    <3>1. /\ Says(c, <<[type |-> "COMMAND_ACCEPTED", cmd |-> id]>>)
          /\ verdict' = [verdict EXCEPT ![id] = "accepted"]
          /\ truth' = [truth EXCEPT ![watch[c]].ver = @ + 1]
          /\ owes' = [owes EXCEPT ![c] = TRUE]
      BY <1>2, <2>1 DEF KernelAccepts, Change
    <3>2. truth \in [Runs -> Positions]
      BY DEF IInv, WiresTyped
    <3>3. watch[c] \in Runs
      BY <1>1, KernelsConn
    <3>4. truth' \in [Runs -> Positions]
      BY <3>1, <3>2, <3>3 DEF Positions
    <3> QED BY <3>1, <3>4 DEF Answers
  <2>2. CASE KernelRejects(c)
    BY <1>2, <2>2 DEF KernelRejects, streamVars, IInv, WiresTyped, Answers
  <2> QED BY <2>1, <2>2
<1> DEFINE w == [type |-> type, cmd |-> id]
<1>5. w \in DownWords /\ w.type = type /\ w.cmd = id
  BY <1>3, SimpleWords
<1>6. Says(c, <<w>>)
  BY <1>4
<1> HIDE DEF w
<1>7. sock[c] = "open" =>
        LET n == Read + Len(down[c]) + 1 IN n > 3 /\ n \in Nat
  BY <1>1, StreamsOn
<1>8. KernelSpeaks(c, w)
  BY <1>1, <1>5, <1>6, <1>7 DEF KernelSpeaks, Fits, IsNth
<1>9. Chains(c, w)
  BY <1>1, <1>4, <1>5 DEF Chains, Answers
<1>10. WordsInv' /\ BaseInv' /\ FollowsKernel'
  BY <1>8, <1>9, SpokenWords, SpokenChain
<1>11. owes' \in [Conns -> BOOLEAN] /\ \A d \in Conns : d # c => owes'[d] = owes[d]
  BY <1>4 DEF IInv, TypeOK
<1>12. WiresTyped' /\ SocketInv'
  <2>1. stage[c] = "streaming" => view[c] \in Positions
    BY DEF IInv, SocketInv
  <2> QED BY <1>1, <1>2, <1>4, <1>8, <1>11, <2>1, SpokenWires DEF IInv, WiresTyped
<1>13. /\ AnswersInv' /\ AnswersAreTheKernels'
       /\ verdict' \in [Cmds -> {"none", "accepted", "rejected"}]
  BY <1>1, <1>4, <1>5, <1>8, SpokenAnswer
<1>14. TypeOK' /\ WantedInv' /\ ScreenInv' /\ KeptInv' /\ ShellInv' /\ IngestedInv'
       /\ ErrorsAreHonest'
  BY <1>1, <1>11, <1>13, KernelFrame
<1> QED BY <1>10, <1>12, <1>13, <1>14 DEF IInv

LEMMA KernelStreamsStep ==
  ASSUME IInv, NEW c \in Conns, KernelStreams(c)
  PROVE  IInv'
<1> DEFINE diff == [type |-> "FRAME_DIFF", from |-> StateOf(watch[c], view[c]),
                    to |-> StateOf(watch[c], view'[c])]
<1>1. /\ stage[c] = "streaming" /\ UNCHANGED flowSide
      /\ watch' = watch /\ up' = up /\ verdict' = verdict
      /\ owes' = [owes EXCEPT ![c] = FALSE]
      /\ truth' = [truth EXCEPT ![watch[c]].tick = @ + 1]
  BY DEF KernelStreams, Diff, Overrun, Advance
<1>2. watch[c] \in Runs /\ view[c] \in Positions
  BY <1>1, KernelsConn DEF IInv, SocketInv
<1>3. truth' \in [Runs -> Positions] /\ truth'[watch[c]] \in Positions
  <2>1. truth \in [Runs -> Positions]
    BY DEF IInv, WiresTyped
  <2> QED BY <1>1, <1>2, <2>1 DEF Positions
<1>4. owes' \in [Conns -> BOOLEAN] /\ \A d \in Conns : d # c => owes'[d] = owes[d]
  BY <1>1 DEF IInv, TypeOK
<1>5. PICK w \in {diff, [type |-> "ERROR"]} :
        /\ Says(c, <<w>>)
        /\ \/ w = diff /\ stage' = stage /\ view' = [view EXCEPT ![c] = truth'[watch[c]]]
           \/ w = [type |-> "ERROR"] /\ stage' = [stage EXCEPT ![c] = "over"] /\ view' = view
  BY DEF KernelStreams, Diff, Overrun, Advance
<1>6. /\ view' \in [Conns -> Positions \cup {Blank}] /\ view'[c] \in Positions
      /\ stage' \in [Conns -> {"silent", "greeted", "subscribed", "streaming", "over"}]
      /\ stage'[c] \in {"streaming", "over"}
      /\ \A d \in Conns : d # c => stage'[d] = stage[d] /\ view'[d] = view[d]
  BY <1>1, <1>2, <1>3, <1>5 DEF IInv, WiresTyped
<1>7. /\ diff \in DownWords /\ diff.type = "FRAME_DIFF" /\ diff.from = StateOf(watch[c], view[c])
      /\ diff.to = StateOf(watch[c], view'[c]) /\ diff.to.run = watch[c]
  BY <1>2, <1>6, StateFacts, SimpleWords
<1>8. CASE w = diff /\ stage' = stage
  <2>1. sock[c] = "open" => LET n == Read + Len(down[c]) + 1 IN n > 3 /\ n \in Nat
    BY <1>1, StreamsOn
  <2> HIDE DEF diff
  <2>2. KernelSpeaks(c, w)
    BY <1>1, <1>5, <1>6, <1>7, <1>8, <2>1 DEF KernelSpeaks, Fits, IsNth
  <2>3. Chains(c, w)
    BY <1>7, <1>8 DEF Chains
  <2>4. WordsInv' /\ BaseInv' /\ FollowsKernel'
    BY <2>2, <2>3, SpokenWords, SpokenChain
  <2>5. WiresTyped' /\ SocketInv'
    BY <1>1, <1>3, <1>4, <1>6, <2>2, SpokenWires DEF IInv, WiresTyped
  <2>6. AnswersInv' /\ AnswersAreTheKernels'
    BY <1>1, <1>7, <1>8, <2>2, SpokenNoAnswer DEF Answers
  <2>7. TypeOK' /\ WantedInv' /\ ScreenInv' /\ KeptInv' /\ ShellInv' /\ IngestedInv'
        /\ ErrorsAreHonest'
    BY <1>1, <1>4, KernelFrame DEF IInv, TypeOK
  <2> QED BY <2>4, <2>5, <2>6, <2>7 DEF IInv
<1>9. CASE w = [type |-> "ERROR"] /\ stage' = [stage EXCEPT ![c] = "over"] /\ view' = view
  <2>1. w \in DownWords /\ w.type = "ERROR"
    BY <1>9, SimpleWords DEF Endings
  <2>2. stage'[c] = "over"
    BY <1>9 DEF IInv, WiresTyped
  <2>3. KernelSpeaks(c, w)
    BY <1>1, <1>5, <1>6, <2>1, <2>2 DEF KernelSpeaks, Fits, Endings
  <2>4. Chains(c, w)
    BY <1>9, <2>1 DEF Chains
  <2>5. WordsInv' /\ BaseInv' /\ FollowsKernel'
    BY <2>3, <2>4, SpokenWords, SpokenChain
  <2>6. WiresTyped' /\ SocketInv'
    BY <1>1, <1>3, <1>4, <1>6, <2>3, SpokenWires DEF IInv, WiresTyped
  <2>7. AnswersInv' /\ AnswersAreTheKernels'
    BY <1>1, <2>1, <2>3, SpokenNoAnswer DEF Answers
  <2>8. TypeOK' /\ WantedInv' /\ ScreenInv' /\ KeptInv' /\ ShellInv' /\ IngestedInv'
        /\ ErrorsAreHonest'
    BY <1>1, <1>4, KernelFrame DEF IInv, TypeOK
  <2> QED BY <2>5, <2>6, <2>7, <2>8 DEF IInv
<1> QED BY <1>5, <1>8, <1>9

LEMMA KernelEndsStep ==
  ASSUME IInv, NEW c \in Conns, KernelEnds(c)
  PROVE  IInv'
<1>1. /\ sock[c] = "open" \/ stage[c] = "streaming"
      /\ stage[c] # "over" /\ stage' = [stage EXCEPT ![c] = "over"]
      /\ UNCHANGED flowSide /\ owes' = [owes EXCEPT ![c] = FALSE]
      /\ truth' = truth /\ watch' = watch /\ view' = view /\ up' = up /\ verdict' = verdict
  BY DEF KernelEnds, End
<1>2. PICK last \in {"ERROR", "GARBLED", "CLOSE"} : Says(c, <<[type |-> last]>>)
  BY DEF KernelEnds
<1> DEFINE w == [type |-> last]
<1>3. w \in DownWords /\ w.type = last /\ w.type \in Endings
  BY SimpleWords DEF Endings
<1>4. Says(c, <<w>>)
  BY <1>2
<1> HIDE DEF w
<1>5. /\ stage' \in [Conns -> {"silent", "greeted", "subscribed", "streaming", "over"}]
      /\ stage'[c] = "over" /\ \A d \in Conns : d # c => stage'[d] = stage[d]
      /\ owes' \in [Conns -> BOOLEAN] /\ \A d \in Conns : d # c => owes'[d] = owes[d]
  BY <1>1 DEF IInv, TypeOK, WiresTyped
<1>6. KernelSpeaks(c, w)
  BY <1>1, <1>3, <1>4, <1>5 DEF KernelSpeaks, Fits
<1>7. Chains(c, w)
  BY <1>1, <1>3 DEF Chains
<1>8. WordsInv' /\ BaseInv' /\ FollowsKernel'
  BY <1>6, <1>7, SpokenWords, SpokenChain
<1>9. WiresTyped' /\ SocketInv'
  BY <1>1, <1>5, <1>6, SpokenWires DEF IInv, WiresTyped
<1>10. AnswersInv' /\ AnswersAreTheKernels'
  BY <1>1, <1>3, <1>6, SpokenNoAnswer DEF Answers
<1>11. TypeOK' /\ WantedInv' /\ ScreenInv' /\ KeptInv' /\ ShellInv' /\ IngestedInv'
       /\ ErrorsAreHonest'
  BY <1>1, <1>5, KernelFrame DEF IInv, TypeOK
<1> QED BY <1>8, <1>9, <1>10, <1>11 DEF IInv

---------------------------------------------------------------------------
(* The invariant.                                                          *)

LEMMA InitIInv == Init => IInv
<1> SUFFICES ASSUME Init PROVE IInv
  OBVIOUS
<1> USE DEF Init, StreamInit
<1>1. /\ NoLink \in Links /\ link = NoLink /\ NoLink.client = NoConn /\ NoLink.baseline = NoState
      /\ NoLink.acks = {} /\ ~NoLink.ingested /\ NoLink.pending = <<>>
  BY NewLinkFacts DEF NewLink, NoLink
<1>2. app \in AppStates /\ app.kind = "BOOT"
  BY ScreenKinds
<1>3. TypeOK
  BY <1>1, <1>2, StateFacts DEF TypeOK, EmptyStore
<1>4. WiresTyped
  BY DEF WiresTyped, Positions, Blank
<1>5. WantedInv /\ ScreenInv
  BY <1>1, <1>2 DEF WantedInv, ScreenInv, InPlay
<1>6. SocketInv
  BY <1>1, ViewerFlowAssumption DEF SocketInv
<1>7. WordsInv /\ BaseInv /\ KeptInv /\ ShellInv /\ IngestedInv /\ FollowsKernel
  BY <1>1 DEF WordsInv, BaseInv, KeptInv, ShellInv, IngestedInv, FollowsKernel
<1>8. AnswersInv /\ AnswersAreTheKernels
  BY DEF AnswersInv, AnswersAreTheKernels
<1>9. ErrorsAreHonest
  BY <1>2 DEF ErrorsAreHonest
<1> QED BY <1>3, <1>4, <1>5, <1>6, <1>7, <1>8, <1>9 DEF IInv

LEMMA StutterIInv ==
  ASSUME IInv, UNCHANGED vars PROVE IInv'
<1>1. UNCHANGED flowSide /\ UNCHANGED <<up, down, kernelVars>>
  BY DEF vars, flowSide
<1>2. WireInv'
  BY <1>1, KernelFrame, WireFrame DEF IInv, WireInv
<1>3. TypeOK' /\ WantedInv' /\ ScreenInv' /\ ErrorsAreHonest'
  BY <1>1, KernelFrame DEF IInv, TypeOK, kernelVars
<1> QED BY <1>2, <1>3 DEF IInv, WireInv

LEMMA NextIInv ==
  ASSUME IInv, [Next]_vars PROVE IInv'
<1>1. CASE User
  BY <1>1, GoToStep, BeginCaseLaunchStep, RetryLiveConnectionStep, RetryCannotConnectStep,
     SubmitStep, LocaleChangesStep, DestroyStep DEF User
<1>2. CASE BootFlow
  BY <1>2, BootFlowStep
<1>3. CASE LaunchAnswered
  BY <1>3, LaunchSucceedsStep, LaunchFailureStep, LaunchOutdatedStep DEF LaunchAnswered
<1>4. ASSUME NEW fresh \in BOOLEAN, BootEnds(fresh) PROVE IInv'
  BY <1>4, BootResolvesStep, BootFailsStep DEF BootEnds
<1>5. ASSUME NEW id \in Cmds, AckTimeout(id) PROVE IInv'
  BY <1>5, AckTimeoutStep
<1>6. ASSUME NEW c \in Conns, SocketEvent(c) PROVE IInv'
  <2>1. CASE OnOpen(c)
    BY <2>1, OnOpenStep
  <2>2. CASE OnKernelHello(c)
    BY <2>2, OnKernelHelloStep
  <2>3. CASE OnSubscribed(c)
    BY <2>3, OnSubscribedStep
  <2>4. CASE OnFullSnapshot(c)
    BY <2>4, OnFullSnapshotStep
  <2>5. CASE OnFrameDiff(c)
    BY <2>5, OnFrameDiffStep
  <2>6. CASE OnCommandAnswer(c, "COMMAND_ACCEPTED", "accepted")
    BY <2>6, OnCommandAnswerStep
  <2>7. CASE OnCommandAnswer(c, "COMMAND_REJECTED", "rejected")
    BY <2>7, OnCommandAnswerStep
  <2>8. CASE OnError(c) \/ OnProtocolError(c) \/ OnClose(c) \/ OnTransportError(c)
    BY <2>8, EndingStep
  <2> QED BY <1>6, <2>1, <2>2, <2>3, <2>4, <2>5, <2>6, <2>7, <2>8 DEF SocketEvent
<1>7. ASSUME NEW c \in Conns, Drop(c) \/ Closing(c) \/ KernelStep(c) \/ KernelEnds(c)
      PROVE IInv'
  BY <1>7, DropStep, ClosingStep, KernelEndsStep, KernelGreetsStep, KernelSubscribesStep,
     KernelSendsBaselineStep, KernelAnswersStep, KernelStreamsStep DEF KernelStep
<1>8. CASE UNCHANGED vars
  BY <1>8, StutterIInv
<1> QED BY <1>1, <1>2, <1>3, <1>4, <1>5, <1>6, <1>7, <1>8 DEF Next

LEMMA IInvAlways == Spec => []IInv
<1> QED BY InitIInv, NextIInv, PTL DEF Spec

---------------------------------------------------------------------------
(* The theorems.                                                           *)

\* Every variable of the viewer has its type, whatever is in flight.
THEOREM ViewerTypes == Spec => []TypeOK
<1>1. IInv => TypeOK
  BY DEF IInv
<1> QED BY <1>1, IInvAlways, PTL

\* The game on the screen and the state in the shell are those of the run asked
\* for last, however late launches, sockets and mounts of earlier runs come back.
THEOREM WantedRunShown == Spec => []ShowsWantedRun
<1>1. IInv => ShowsWantedRun
  <2> SUFFICES ASSUME IInv PROVE ShowsWantedRun
    OBVIOUS
  <2>1. session \in {NoRun, wanted}
        /\ (link.client # NoConn => session = wanted /\ link.run = wanted)
    BY DEF IInv, WantedInv
  <2>2. ASSUME app.kind = "LIVE_GAME", ~destroyed, viewer = "up"
        PROVE  store.anchor = wanted /\ store.state.run = wanted
    <3>1. link.client # NoConn /\ link.baseline # NoState
      BY <2>2 DEF IInv, ScreenInv
    <3>2. link.checked = "subscribed"
      BY <3>1 DEF IInv, WantedInv
    <3> QED BY <2>1, <2>2, <3>1, <3>2 DEF IInv, ShellInv
  <2> QED BY <2>1, <2>2 DEF ShowsWantedRun
<1> QED BY <1>1, IInvAlways, PTL

\* What the viewer holds, keeps and has still to receive is one chain of diffs up
\* to the kernel's state, for any number of diffs on any run.
THEOREM KernelFollowed == Spec => []FollowsKernel
<1>1. IInv => FollowsKernel
  BY DEF IInv
<1> QED BY <1>1, IInvAlways, PTL

\* No socket outlives its screen, no waiting screen is without something that will
\* end it, and one shell at most runs.
THEOREM ScreenMatchesSocket == Spec => []ScreenAndSocketAgree
<1>1. IInv => ScreenAndSocketAgree
  <2> SUFFICES ASSUME IInv PROVE ScreenAndSocketAgree
    OBVIOUS
  <2>1. ASSUME NEW c \in Conns, sock[c] \in {"connecting", "open", "closing"}
        PROVE  c = link.client /\ ~destroyed /\ app.kind \in {"CONNECTING", "LIVE_GAME"}
    <3>1. c = link.client
      BY <2>1 DEF IInv, SocketInv
    <3> QED BY <3>1, Current
  <2>2. /\ shells = IF viewer = "up" THEN 1 ELSE 0
        /\ destroyed => shells = 0
    BY DEF IInv, ScreenInv
  <2>3. ~destroyed => /\ app.kind = "LIVE_GAME" => link.client # NoConn /\ link.baseline # NoState
                      /\ app.kind = "CONNECTING" =>
                           \/ app.phase = "CASE_LAUNCH" /\ attempt \in asked
                           \/ app.phase # "CASE_LAUNCH" /\ link.client # NoConn
    BY DEF IInv, ScreenInv
  <2> QED BY <2>1, <2>2, <2>3 DEF ScreenAndSocketAgree
<1> QED BY <1>1, IInvAlways, PTL

\* What a caller is told about its command is what the kernel decided about it.
THEOREM AnswersHonest == Spec => []AnswersAreTheKernels
<1>1. IInv => AnswersAreTheKernels
  BY DEF IInv
<1> QED BY <1>1, IInvAlways, PTL

\* No error blames a kernel that keeps its promise, and every retry that is
\* offered has what it needs.
THEOREM ErrorsHonest == Spec => []ErrorsAreHonest
<1>1. IInv => ErrorsAreHonest
  BY DEF IInv
<1> QED BY <1>1, IInvAlways, PTL
=============================================================================

--------------------------- MODULE DataLinkProofs ---------------------------
(***************************************************************************)
(* Proofs of DataLink's safety, for every number of frames, connections    *)
(* and restarts, every window and every cap.                               *)
(*                                                                         *)
(* The induction is on IInv.  One lemma per action shows that it preserves *)
(* IInv; the step of each part an action disturbs is spelled out.          *)
(***************************************************************************)
EXTENDS DataLink, FiniteSetTheorems, TLAPS

-----------------------------------------------------------------------------
(* Initial states.                                                         *)

\* The initial state satisfies the inductive invariant.
LEMMA InitIInv == Init => IInv
<1> SUFFICES ASSUME Init PROVE IInv
  OBVIOUS
<1> USE DataLinkAssumption, SpoolQueueAssumption DEF Init, QInit
<1>1. TypeOK
  <2>1. QueueTypeOK
    BY DEF QueueTypeOK
  <2>2. AgentTypeOK
    <3>1. 0 \in 0..MaxConn
      OBVIOUS
    <3>2. ackData \in BOOLEAN /\ clock \in BOOLEAN
      OBVIOUS
    <3> QED
      BY <3>1, <3>2 DEF AgentTypeOK
  <2>3. NetTypeOK
    BY DEF NetTypeOK
  <2>4. ServerTypeOK
    <3>1. NoMsg \in Msg
      BY DEF NoMsg, Msg
    <3> QED
      BY <3>1 DEF ServerTypeOK
  <2> QED
    BY <2>1, <2>2, <2>3, <2>4 DEF TypeOK
<1>2. SessionInv
  BY DEF SessionInv, SessionOK, NoMsg, Control
<1>3. PrefixInv /\ BurstInv
  BY DEF PrefixInv, BurstInv
<1>4. conn = "up" => WatermarkInv
  OBVIOUS
<1>5. LinkInv /\ SeenInv /\ AccountInv /\ ReleasedIsSettled
  BY DEF LinkInv, SeenInv, AccountInv, ReleasedIsSettled
<1> QED
  BY <1>1, <1>2, <1>3, <1>4, <1>5 DEF IInv

-----------------------------------------------------------------------------
(* The producers.                                                          *)

\* Enqueue preserves the invariant: the new frame is newer than any in flight.
LEMMA EnqueueStep ==
  ASSUME IInv, Enqueue
  PROVE  IInv'
<1>1. PICK S \in SUBSET live :
        /\ produced < MaxFrame
        /\ produced' = produced + 1
        /\ live' = (live \ S) \cup {produced + 1}
        /\ dropped' = dropped \cup S
        /\ UNCHANGED <<released, agentVars, netVars, serverVars, dbVars, onWrite>>
  BY DEF Enqueue
<1>a. /\ produced \in Nat /\ MaxFrame \in Nat
      /\ \A g \in live : g \in Nat /\ 1 <= g /\ g <= produced
      /\ \A e \in inflight : e.frame \in Nat /\ e.frame <= produced
      /\ \A f \in burst : f \in Nat /\ f <= produced
  BY SpoolQueueAssumption
     DEF IInv, TypeOK, QueueTypeOK, AgentTypeOK, PrefixInv, BurstInv, Frame
<1>2. QueueTypeOK'
  BY <1>1, <1>a DEF IInv, TypeOK, QueueTypeOK
<1>3. TypeOK'
  BY <1>1, <1>2 DEF IInv, TypeOK, AgentTypeOK, NetTypeOK, ServerTypeOK,
     agentVars, netVars, serverVars, dbVars
<1>4. SessionInv'
  BY <1>1 DEF IInv, SessionInv, SessionOK, agentVars, netVars, serverVars
<1>5. PrefixInv'
  <2>1. UNCHANGED <<inflight, seq>>
    BY <1>1 DEF agentVars
  <2>2. \A e \in inflight, g \in live' : g <= e.frame => g \in live
    BY <1>1, <1>a
  <2> QED
    BY <1>1, <1>a, <2>1, <2>2 DEF IInv, PrefixInv
<1>6. (conn = "up" => WatermarkInv)'
  BY <1>1 DEF IInv, WatermarkInv, Settled, agentVars, netVars, serverVars, dbVars
<1>7. LinkInv'
  <2>1. /\ produced + 1 \in live'
        /\ \A e \in inflight : e.frame <= produced + 1
    BY <1>1, <1>a
  <2> QED
    BY <1>1, <2>1 DEF IInv, LinkInv, agentVars, netVars
<1>8. AccountInv'
  BY <1>1, <1>a DEF IInv, AccountInv
<1>9. ReleasedIsSettled' /\ SeenInv'
  BY <1>1 DEF IInv, ReleasedIsSettled, SeenInv, Settled, serverVars, dbVars
<1>10. BurstInv'
  <2>1. UNCHANGED <<inflight, burst, conn>>
    BY <1>1 DEF agentVars
  <2>2. \A f \in burst, g \in live' : g <= f => g \in live
    BY <1>1, <1>a
  <2>3. /\ produced + 1 \in live'
        /\ \A f \in burst : f <= produced + 1
    BY <1>1, <1>a
  <2> QED
    BY <1>1, <1>a, <2>1, <2>2, <2>3 DEF IInv, BurstInv
<1> QED
  BY <1>3, <1>4, <1>5, <1>6, <1>7, <1>8, <1>9, <1>10 DEF IInv

-----------------------------------------------------------------------------
(* The connection.                                                         *)

\* Connect preserves the invariant: the new session starts empty.
LEMMA ConnectStep ==
  ASSUME IInv, Connect
  PROVE  IInv'
<1> USE DEF Connect, qvars, netVars, dbVars
<1>1. cur + 1 \in Conn /\ cur \in Nat
  BY DataLinkAssumption DEF IInv, TypeOK, AgentTypeOK, Conn
<1>2. TypeOK'
  <2>1. AgentTypeOK'
    BY <1>1 DEF IInv, TypeOK, AgentTypeOK, Conn
  <2>2. ServerTypeOK'
    BY <1>1 DEF IInv, TypeOK, ServerTypeOK
  <2> QED
    BY <2>1, <2>2 DEF IInv, TypeOK, QueueTypeOK, NetTypeOK
<1>3. SessionInv'
  <2> SUFFICES ASSUME NEW c \in Conn PROVE SessionOK(c)'
    BY DEF SessionInv
  <2>1. CASE c = cur + 1
    BY <1>1, <2>1 DEF IInv, TypeOK, ServerTypeOK, SessionInv, SessionOK
  <2>2. CASE c # cur + 1
    BY <1>1, <2>2 DEF IInv, TypeOK, ServerTypeOK, SessionInv, SessionOK, Conn
  <2> QED
    BY <2>1, <2>2
<1>4. PrefixInv' /\ LinkInv' /\ BurstInv'
  BY DEF IInv, PrefixInv, LinkInv, BurstInv
<1>5. /\ (conn = "up" => WatermarkInv)'
      /\ AccountInv' /\ ReleasedIsSettled' /\ SeenInv'
  BY DEF IInv, AccountInv, ReleasedIsSettled, SeenInv, Settled
<1> QED
  BY <1>2, <1>3, <1>4, <1>5 DEF IInv

\* HelloAck preserves the invariant: nothing is in flight before it.
LEMMA HelloAckStep ==
  ASSUME IInv, NEW mode \in BOOLEAN, HelloAck(mode)
  PROVE  IInv'
<1> USE DEF HelloAck, qvars, netVars, serverVars, dbVars
<1>1. TypeOK'
  BY DEF IInv, TypeOK, QueueTypeOK, AgentTypeOK, NetTypeOK, ServerTypeOK
<1>2. SessionInv' /\ PrefixInv' /\ AccountInv' /\ ReleasedIsSettled' /\ SeenInv'
  BY DEF IInv, SessionInv, SessionOK, PrefixInv, AccountInv, ReleasedIsSettled,
     SeenInv, Settled
<1>3. inflight' = {} /\ acks' = {} /\ burst' = {}
  BY DEF IInv, LinkInv, BurstInv
<1>4. WatermarkInv' /\ LinkInv' /\ BurstInv'
  BY <1>3 DEF IInv, WatermarkInv, LinkInv, BurstInv
<1> QED
  BY <1>1, <1>2, <1>4 DEF IInv

\* Giving the connection up preserves the invariant: the window is forgotten,
\* and what leaves the spool on the way is accounted for.
LEMMA AbandonStep ==
  ASSUME IInv, Abandon, QueueTypeOK', AccountInv', ReleasedIsSettled',
         UNCHANGED <<wire, serverVars, dbVars>>
  PROVE  IInv'
<1> USE DEF Abandon, serverVars, dbVars
<1>1. TypeOK'
  BY DEF IInv, TypeOK, AgentTypeOK, NetTypeOK, ServerTypeOK
<1>2. SessionInv' /\ PrefixInv' /\ LinkInv' /\ BurstInv'
  BY DEF IInv, SessionInv, SessionOK, PrefixInv, LinkInv, BurstInv
<1>3. (conn = "up" => WatermarkInv)' /\ SeenInv'
  BY DEF IInv, SeenInv
<1> QED
  BY <1>1, <1>2, <1>3 DEF IInv

\* Disconnect and AckStall preserve the invariant.
LEMMA DisconnectStep ==
  ASSUME IInv, Disconnect \/ AckStall
  PROVE  IInv'
<1>1. Abandon /\ UNCHANGED <<qvars, wire, serverVars, dbVars, onWrite>>
  BY DEF Disconnect, AckStall
<1>2. QueueTypeOK' /\ AccountInv' /\ ReleasedIsSettled'
  BY <1>1 DEF IInv, TypeOK, QueueTypeOK, AccountInv, ReleasedIsSettled, Settled, qvars,
     dbVars
<1> QED
  BY <1>1, <1>2, AbandonStep

\* AgentCrash preserves the invariant: a restart only brings frames back.
LEMMA AgentCrashStep ==
  ASSUME IInv, AgentCrash
  PROVE  IInv'
<1>1. PICK back \in SUBSET (1..produced) : live' = live \cup back
  BY DEF AgentCrash
<1>2. QueueTypeOK' /\ AccountInv' /\ ReleasedIsSettled'
  BY <1>1 DEF IInv, TypeOK, QueueTypeOK, AccountInv, AgentCrash, ReleasedIsSettled,
     Settled, dbVars
<1> QED
  BY <1>2, AbandonStep DEF AgentCrash

-----------------------------------------------------------------------------
(* The agent's drain.                                                      *)

\* Sending preserves the sessions' part of the invariant: the new message has
\* a number above all others of its connection.
LEMMA TransmitSession ==
  ASSUME IInv, conn # "down", NEW f \in Frame \cup {Control}, Transmit(f),
         UNCHANGED <<cur, serverVars>>
  PROVE  /\ SessionInv'
         /\ wire' \in [Conn -> SUBSET Msg]
         /\ seq' \in Nat
         /\ wire'[cur] = wire[cur] \cup {[seq |-> seq + 1, frame |-> f]}
<1> DEFINE new == [seq |-> seq + 1, frame |-> f]
<1>1. /\ cur \in Conn /\ seq \in Nat
      /\ wire \in [Conn -> SUBSET Msg]
      /\ last \in [Conn -> Nat]
  BY DEF IInv, TypeOK, AgentTypeOK, NetTypeOK, ServerTypeOK
<1>2. new \in Msg
  BY <1>1 DEF Msg
<1>3. /\ wire'[cur] = wire[cur] \cup {new}
      /\ \A c \in Conn : c # cur => wire'[c] = wire[c]
      /\ seq' = seq + 1
  BY <1>1 DEF Transmit
<1>4. wire' \in [Conn -> SUBSET Msg]
  BY <1>1, <1>2 DEF Transmit
<1>5. SessionInv'
  <2> SUFFICES ASSUME NEW c \in Conn PROVE SessionOK(c)'
    BY DEF SessionInv
  <2>1. CASE c = cur
    <3>1. /\ last[c] <= seq /\ last[c] \in Nat
          /\ \A m \in wire[c] : m.seq \in Nat /\ m.seq > last[c] /\ m.seq <= seq
          /\ \A m, n \in wire[c] : m.seq = n.seq => m = n
          /\ handled[c] <= last[c]
          /\ busy[c] # NoMsg => open[c] /\ busy[c].seq = last[c] /\ busy[c].frame \in Frame
      BY <1>1, <2>1 DEF IInv, SessionInv, SessionOK, Msg
    <3>2. new.seq = seq + 1
      OBVIOUS
    <3>3. \A m \in wire'[c] : m.seq > last[c] /\ m.seq <= seq'
      BY <1>1, <1>3, <2>1, <3>1, <3>2
    <3>4. \A m, n \in wire'[c] : m.seq = n.seq => m = n
      BY <1>1, <1>3, <2>1, <3>1, <3>2
    <3> QED
      BY <1>1, <1>3, <2>1, <3>1, <3>3, <3>4 DEF SessionOK, serverVars, Conn
  <2>2. CASE c # cur
    BY <1>1, <1>3, <2>2 DEF IInv, SessionInv, SessionOK, serverVars
  <2> QED
    BY <2>1, <2>2
<1> QED
  BY <1>1, <1>3, <1>4, <1>5

\* Pruning and peeking preserve the invariant: a live frame is never pruned,
\* and the burst starts right behind the newest frame in flight.
LEMMA DrainTickStep ==
  ASSUME IInv, NEW B \in SUBSET live, DrainTick(B)
  PROVE  IInv'
<1>1. /\ conn = "up" /\ (ackData \/ inflight = {})
      /\ OldestOf(B, Unsent)
      /\ burst' = B
      /\ inflight' = Pruned
      /\ UNCHANGED <<qvars, cur, conn, ackData, seq, clock, netVars, serverVars,
                     dbVars, onWrite>>
  BY DEF DrainTick, Idle
<1>2. /\ \A g \in live : g \in Nat /\ g <= produced /\ g \in Frame
      /\ produced \in Nat
      /\ \A e \in inflight : e.frame \in Nat /\ e.seq \in Nat
      /\ Pruned \subseteq inflight
  BY SpoolQueueAssumption DEF IInv, TypeOK, QueueTypeOK, AgentTypeOK, Frame, Pruned
<1>3. TypeOK'
  <2>1. AgentTypeOK'
    BY <1>1, <1>2 DEF IInv, TypeOK, AgentTypeOK
  <2> QED
    BY <1>1, <2>1 DEF IInv, TypeOK, QueueTypeOK, NetTypeOK, ServerTypeOK, qvars, netVars,
       serverVars, dbVars
<1>4. ASSUME NEW e \in Pruned, NEW g \in live, g <= e.frame
      PROVE  \E d \in Pruned : d.frame = g /\ d.seq <= e.seq
  <2>1. PICK d \in inflight : d.frame = g /\ d.seq <= e.seq
    BY <1>2, <1>4 DEF IInv, PrefixInv
  <2>2. d \in Pruned
    BY <1>2, <2>1 DEF Pruned
  <2> QED
    BY <2>1, <2>2
<1>5. PrefixInv'
  BY <1>1, <1>2, <1>4 DEF IInv, PrefixInv, qvars
<1>6. BurstInv'
  <2>1. \A f \in B : f \in live /\ \A e \in Pruned : e.frame < f
    <3>1. \A f \in B : f \in live /\ \A e \in Pruned : f > e.frame
      BY <1>1 DEF OldestOf, Unsent
    <3> QED
      BY <1>2, <3>1
  <2>2. ASSUME NEW f \in B, NEW g \in live, g <= f, g \notin B
        PROVE  \E d \in Pruned : d.frame = g
    <3>1. g \notin Unsent
      BY <1>1, <1>2, <2>2 DEF OldestOf
    <3>2. PICK e \in Pruned : ~(g > e.frame)
      BY <3>1 DEF Unsent
    <3>3. g <= e.frame
      BY <1>2, <3>2
    <3> QED
      BY <1>4, <3>3
  <2>3. \A f \in B : f <= produced /\ f <= f
    BY <1>2, <2>1
  <2>4. burst' = B /\ inflight' = Pruned /\ live' = live /\ conn' = "up"
        /\ produced' = produced
    BY <1>1 DEF qvars
  <2> QED
    BY <2>1, <2>2, <2>3, <2>4 DEF BurstInv
<1>7. SessionInv' /\ SeenInv' /\ AccountInv' /\ ReleasedIsSettled'
  BY <1>1 DEF IInv, SessionInv, SessionOK, SeenInv, AccountInv, ReleasedIsSettled,
     Settled, qvars, netVars, serverVars, dbVars
<1>8. WatermarkInv' /\ LinkInv'
  BY <1>1, <1>2 DEF IInv, WatermarkInv, LinkInv, Settled, qvars, netVars, serverVars,
     dbVars
<1> QED
  BY <1>3, <1>5, <1>6, <1>7, <1>8 DEF IInv

\* Writing a frame of the burst preserves the invariant: it is newer than
\* everything in flight, and every older live frame is in flight already.
LEMMA SendBurstStep ==
  ASSUME IInv, NEW f \in burst, SendBurst(f)
  PROVE  IInv'
<1> DEFINE new == [seq |-> seq + 1, frame |-> f]
<1>1. /\ Least(f, burst) /\ Transmit(f)
      /\ inflight' = inflight \cup {new}
      /\ burst' = burst \ {f}
      /\ seq' = seq + 1
      /\ clock' = (clock \/ ackData)
      /\ UNCHANGED <<qvars, cur, conn, ackData, acks, serverVars, dbVars, onWrite>>
  BY DEF SendBurst, Transmit
<1>2. /\ conn = "up" /\ cur \in Conn /\ seq \in Nat
      /\ f \in Frame /\ f \in Nat /\ f <= produced
      /\ \A g \in live : g \in Nat
      /\ \A g \in burst : g \in Nat
      /\ \A e \in inflight : e.seq \in Nat /\ e.frame \in Nat /\ e.seq <= seq
      /\ \A e \in inflight : e.frame < f
      /\ inflight \subseteq [seq : Nat, frame : Frame]
      /\ new.seq = seq + 1 /\ new.frame = f
  <2>1. conn = "up" /\ f <= produced /\ \A e \in inflight : e.frame < f
    BY DEF IInv, BurstInv
  <2>2. cur \in Conn /\ seq \in Nat /\ burst \subseteq Frame
        /\ inflight \subseteq [seq : Nat, frame : Frame]
    BY <2>1 DEF IInv, TypeOK, AgentTypeOK
  <2>3. \A g \in live : g \in Nat
    BY SpoolQueueAssumption DEF IInv, TypeOK, QueueTypeOK
  <2>4. \A e \in inflight : e.seq <= seq
    BY DEF IInv, PrefixInv
  <2> QED
    BY <2>1, <2>2, <2>3, <2>4, SpoolQueueAssumption DEF Frame
<1>3. /\ SessionInv'
      /\ wire' \in [Conn -> SUBSET Msg]
      /\ wire'[cur] = wire[cur] \cup {new}
  BY <1>1, <1>2, TransmitSession
<1>4. TypeOK'
  <2>1. AgentTypeOK'
    <3>1. inflight' \subseteq [seq : Nat, frame : Frame] /\ seq' \in Nat
      BY <1>1, <1>2
    <3>2. clock' \in BOOLEAN
      BY <1>1
    <3> QED
      BY <1>1, <3>1, <3>2 DEF IInv, TypeOK, AgentTypeOK
  <2> QED
    BY <1>1, <1>3, <2>1
    DEF IInv, TypeOK, QueueTypeOK, NetTypeOK, ServerTypeOK, qvars, serverVars, dbVars
<1>5. PrefixInv'
  <2>1. \A e \in inflight' : e.seq <= seq' /\ e.frame <= produced'
    BY <1>1, <1>2 DEF IInv, PrefixInv, qvars
  <2>2. \A d, e \in inflight' : d.seq = e.seq => d = e
    BY <1>1, <1>2 DEF IInv, PrefixInv
  <2>3. \A d, e \in inflight' : d.seq < e.seq => d.frame < e.frame
    BY <1>1, <1>2 DEF IInv, PrefixInv
  <2>4. ASSUME NEW e \in inflight', NEW g \in live', g <= e.frame
        PROVE  \E d \in inflight' : d.frame = g /\ d.seq <= e.seq
    <3>1. g \in live
      BY <1>1 DEF qvars
    <3>2. CASE e \in inflight
      BY <1>1, <2>4, <3>1, <3>2 DEF IInv, PrefixInv
    <3>3. CASE e = new
      <4>1. CASE g = f
        BY <1>1, <1>2, <3>3, <4>1
      <4>2. CASE g # f
        <5>1. g \notin burst
          BY <1>1, <1>2, <2>4, <3>1, <3>3, <4>2 DEF Least
        <5>2. PICK d \in inflight : d.frame = g
          BY <1>2, <2>4, <3>1, <3>3, <5>1 DEF IInv, BurstInv
        <5> QED
          BY <1>1, <1>2, <3>3, <5>2
      <4> QED
        BY <4>1, <4>2
    <3> QED
      BY <1>1, <3>2, <3>3
  <2> QED
    BY <2>1, <2>2, <2>3, <2>4 DEF PrefixInv
<1>6. BurstInv'
  <2>1. \A g \in burst' : g \in burst /\ g > f
    BY <1>1, <1>2 DEF Least
  <2>2. \A g \in burst', e \in inflight' : e.frame < g
    BY <1>1, <1>2, <2>1 DEF IInv, BurstInv
  <2>3. ASSUME NEW a \in burst', NEW g \in live, g <= a, g \notin burst'
        PROVE  \E d \in inflight' : d.frame = g
    <3>1. CASE g = f
      BY <1>1, <1>2, <3>1
    <3>2. CASE g # f
      BY <1>1, <2>1, <2>3, <3>2 DEF IInv, BurstInv
    <3> QED
      BY <3>1, <3>2
  <2>4. \A a \in burst' : a <= produced /\ \E g \in live : a <= g
    BY <2>1 DEF IInv, BurstInv
  <2>5. live' = live /\ conn' = "up" /\ produced' = produced
    BY <1>1, <1>2 DEF qvars
  <2> QED
    BY <2>2, <2>3, <2>4, <2>5 DEF BurstInv
<1>7. WatermarkInv'
  <2>1. handled[cur] <= seq /\ handled[cur] \in Nat
    BY <1>2 DEF IInv, SessionInv, SessionOK, TypeOK, ServerTypeOK
  <2>2. \A w \in acks : w \in Nat /\ w <= seq
    BY <1>2 DEF IInv, TypeOK, NetTypeOK, WatermarkInv
  <2> QED
    BY <1>1, <1>2, <1>3, <2>1, <2>2
    DEF IInv, WatermarkInv, Settled, serverVars, dbVars
<1>8. LinkInv'
  <2>1. \E g \in live : f <= g
    BY DEF IInv, BurstInv
  <2> QED
    BY <1>1, <1>2, <2>1 DEF IInv, LinkInv, qvars
<1>9. AccountInv' /\ ReleasedIsSettled' /\ SeenInv'
  BY <1>1 DEF IInv, AccountInv, ReleasedIsSettled, SeenInv, Settled, qvars, serverVars,
     dbVars
<1> QED
  BY <1>2, <1>3, <1>4, <1>5, <1>6, <1>7, <1>8, <1>9 DEF IInv

\* A positional commit of in-flight frames that are older than the rest of the
\* window takes exactly those frames: this is where PrefixInv is needed.
LEMMA CommitExact ==
  ASSUME IInv, NEW done \in SUBSET inflight,
         \A d \in done, e \in inflight \ done : d.seq < e.seq,
         CommitThrough({e.frame : e \in done}), UNCHANGED <<produced, dropped>>
  PROVE  /\ live' = live \ {e.frame : e \in done}
         /\ released' = released \cup {e.frame : e \in done}
         /\ QueueTypeOK'
         /\ AccountInv'
<1> DEFINE S == {e.frame : e \in done}
<1>1. /\ \A e \in inflight : e.seq \in Nat /\ e.frame \in Nat
      /\ \A e \in inflight : e.frame \in 1..produced
      /\ \A g \in live : g \in Nat
      /\ produced \in Nat
  <2>1. produced \in Nat /\ live \subseteq 1..produced
    BY SpoolQueueAssumption DEF IInv, TypeOK, QueueTypeOK
  <2>2. \A e \in inflight : e.seq \in Nat /\ e.frame \in 1..MaxFrame
    BY DEF IInv, TypeOK, AgentTypeOK, Frame
  <2>3. \A e \in inflight : e.frame <= produced
    BY DEF IInv, PrefixInv
  <2> QED
    BY <2>1, <2>2, <2>3, SpoolQueueAssumption
<1>2. live' = {g \in live : \A f \in S : g > f} /\ released' = released \cup S
  BY DEF CommitThrough
<1>3. ASSUME NEW g \in live, NEW e \in done, g <= e.frame
      PROVE  g \in S
  <2>1. PICK d \in inflight : d.frame = g /\ d.seq <= e.seq
    BY <1>3 DEF IInv, PrefixInv
  <2>2. d \in done
    BY <1>1, <2>1
  <2> QED
    BY <2>1, <2>2
<1>4. live' = live \ S
  <2>1. ASSUME NEW g \in live, g \notin S, NEW f \in S
        PROVE  g > f
    <3>1. PICK e \in done : f = e.frame
      OBVIOUS
    <3> QED
      BY <1>1, <1>3, <2>1, <3>1
  <2>2. \A g \in live : g \in S => ~(g > g)
    BY <1>1
  <2> QED
    BY <1>2, <2>1, <2>2
<1>5. S \subseteq 1..produced
  BY <1>1
<1>6. QueueTypeOK' /\ AccountInv'
  BY <1>2, <1>4, <1>5 DEF IInv, TypeOK, QueueTypeOK, AccountInv
<1> QED
  BY <1>2, <1>4, <1>6

\* Committing what was written accounts for it.
LEMMA WrittenStep ==
  ASSUME IInv, CommitThrough(Written), onWrite' = onWrite \cup Written,
         UNCHANGED <<produced, dropped, dbVars>>
  PROVE  QueueTypeOK' /\ AccountInv' /\ ReleasedIsSettled'
<1>1. CASE ackData
  <2>1. Written = {e.frame : e \in {}}
    BY <1>1 DEF Written
  <2>2. /\ released' = released \cup Written
        /\ QueueTypeOK' /\ AccountInv'
    BY <2>1, CommitExact
  <2> QED
    BY <2>1, <2>2 DEF IInv, ReleasedIsSettled, Settled, dbVars
<1>2. CASE ~ackData
  <2>1. Written = {e.frame : e \in inflight}
    BY <1>2 DEF Written
  <2>2. /\ released' = released \cup Written
        /\ QueueTypeOK' /\ AccountInv'
    BY <2>1, CommitExact
  <2> QED
    BY <2>2 DEF IInv, ReleasedIsSettled, Settled, dbVars
<1> QED
  BY <1>1, <1>2

\* CommitOnWrite preserves the invariant.
LEMMA CommitOnWriteStep ==
  ASSUME IInv, CommitOnWrite
  PROVE  IInv'
<1>1. /\ conn = "up" /\ ~ackData
      /\ burst = {}
      /\ inflight' = {}
      /\ UNCHANGED <<produced, dropped, cur, conn, ackData, seq, burst, clock, netVars,
                     serverVars, dbVars>>
  BY DEF CommitOnWrite
<1>2. QueueTypeOK' /\ AccountInv' /\ ReleasedIsSettled'
  BY <1>1, WrittenStep DEF CommitOnWrite
<1>3. TypeOK'
  BY <1>1, <1>2 DEF IInv, TypeOK, AgentTypeOK, NetTypeOK, ServerTypeOK, netVars,
     serverVars, dbVars
<1>4. SessionInv' /\ SeenInv'
  BY <1>1 DEF IInv, SessionInv, SessionOK, SeenInv, netVars, serverVars, dbVars
<1>5. PrefixInv' /\ LinkInv' /\ WatermarkInv' /\ BurstInv'
  BY <1>1 DEF IInv, PrefixInv, LinkInv, WatermarkInv, BurstInv, netVars
<1> QED
  BY <1>2, <1>3, <1>4, <1>5 DEF IInv

\* WriteError preserves the invariant.
LEMMA WriteErrorStep ==
  ASSUME IInv, WriteError
  PROVE  IInv'
<1>1. QueueTypeOK' /\ AccountInv' /\ ReleasedIsSettled'
  BY WrittenStep DEF WriteError
<1> QED
  BY <1>1, AbandonStep DEF WriteError

\* SendControl preserves the invariant.
LEMMA SendControlStep ==
  ASSUME IInv, SendControl
  PROVE  IInv'
<1>1. /\ conn # "down" /\ Transmit(Control) /\ seq' = seq + 1
      /\ UNCHANGED <<qvars, cur, conn, ackData, burst, inflight, clock, acks, serverVars,
                     dbVars, onWrite>>
  BY DEF SendControl, Transmit, Idle
<1>2. /\ seq \in Nat
      /\ \A e \in inflight : e.seq \in Nat /\ e.seq <= seq
      /\ \A w \in acks : w \in Nat /\ w <= seq
  BY <1>1 DEF IInv, TypeOK, AgentTypeOK, NetTypeOK, PrefixInv, WatermarkInv, LinkInv
<1>3. /\ SessionInv'
      /\ wire' \in [Conn -> SUBSET Msg]
      /\ seq' \in Nat
      /\ wire[cur] \subseteq wire'[cur]
  BY <1>1, TransmitSession
<1>4. TypeOK'
  BY <1>1, <1>3 DEF IInv, TypeOK, QueueTypeOK, AgentTypeOK, NetTypeOK,
     ServerTypeOK, qvars, serverVars, dbVars
<1>5. PrefixInv'
  BY <1>1, <1>2 DEF IInv, PrefixInv, qvars
<1>6. (conn = "up" => WatermarkInv)'
  BY <1>1, <1>2, <1>3 DEF IInv, WatermarkInv, Settled, serverVars, dbVars
<1>7. LinkInv' /\ AccountInv' /\ ReleasedIsSettled' /\ SeenInv' /\ BurstInv'
  BY <1>1 DEF IInv, LinkInv, AccountInv, ReleasedIsSettled, SeenInv, BurstInv, Settled,
     qvars, serverVars, dbVars
<1> QED
  BY <1>3, <1>4, <1>5, <1>6, <1>7 DEF IInv

\* OnDataAck preserves the invariant: what it releases is settled.
LEMMA OnDataAckStep ==
  ASSUME IInv, NEW w \in acks, OnDataAck(w)
  PROVE  IInv'
<1> DEFINE done == {e \in inflight : e.seq <= w}
<1>1. /\ conn = "up" /\ burst = {}
      /\ acks' = acks \ {w}
      /\ UNCHANGED <<produced, dropped, cur, conn, ackData, seq, burst, wire, serverVars,
                     dbVars, onWrite>>
  BY DEF OnDataAck, Idle
<1>2. /\ w \in Nat
      /\ \A e \in inflight : e.seq \in Nat /\ e.frame \in Nat
      /\ \A g \in live : g \in Nat
  BY SpoolQueueAssumption
     DEF IInv, TypeOK, QueueTypeOK, AgentTypeOK, NetTypeOK, Frame
<1>3. SessionInv' /\ SeenInv' /\ BurstInv'
  BY <1>1 DEF IInv, SessionInv, SessionOK, SeenInv, BurstInv, serverVars, dbVars
<1>4. CASE done = {}
  <2>1. UNCHANGED <<live, released, inflight, clock>>
    BY <1>4 DEF OnDataAck
  <2>2. TypeOK'
    BY <1>1, <2>1 DEF IInv, TypeOK, QueueTypeOK, AgentTypeOK, NetTypeOK,
       ServerTypeOK, serverVars, dbVars
  <2>3. PrefixInv' /\ LinkInv' /\ WatermarkInv'
    BY <1>1, <2>1 DEF IInv, PrefixInv, LinkInv, WatermarkInv, Settled, serverVars,
       dbVars
  <2>4. AccountInv' /\ ReleasedIsSettled'
    BY <1>1, <2>1 DEF IInv, AccountInv, ReleasedIsSettled, Settled, dbVars
  <2> QED
    BY <1>3, <2>2, <2>3, <2>4 DEF IInv
<1>5. CASE done # {}
  <2>1. /\ inflight' = inflight \ done
        /\ clock' = ClockAfterAck(inflight \ done)
        /\ CommitThrough({e.frame : e \in done})
    BY <1>5 DEF OnDataAck
  <2>2. \A d \in done, e \in inflight \ done : d.seq < e.seq
    BY <1>2
  <2>3. /\ live' = live \ {e.frame : e \in done}
        /\ released' = released \cup {e.frame : e \in done}
        /\ QueueTypeOK' /\ AccountInv'
    BY <1>1, <2>1, <2>2, CommitExact
  <2>4. TypeOK'
    <3>1. clock' \in BOOLEAN
      BY <2>1 DEF ClockAfterAck
    <3> QED
      BY <1>1, <2>1, <2>3, <3>1 DEF IInv, TypeOK, AgentTypeOK, NetTypeOK,
         ServerTypeOK, serverVars, dbVars
  <2>5. PrefixInv'
    <3>1. ASSUME NEW e \in inflight \ done, NEW g \in live \ {a.frame : a \in done},
                 g <= e.frame
          PROVE  \E d \in inflight \ done : d.frame = g /\ d.seq <= e.seq
      BY <3>1 DEF IInv, PrefixInv
    <3> QED
      BY <1>1, <2>1, <2>3, <3>1 DEF IInv, PrefixInv
  <2>6. WatermarkInv'
    BY <1>1, <2>1 DEF IInv, WatermarkInv, Settled, serverVars, dbVars
  <2>7. LinkInv'
    <3>1. ASSUME ackData, NEW e0 \in inflight \ done
          PROVE  \E g \in live' : e0.frame <= g
      <4>1. PICK g \in live : e0.frame <= g
        BY <3>1 DEF IInv, LinkInv
      <4>2. \A d \in done : d.frame < e0.frame
        BY <2>2 DEF IInv, PrefixInv
      <4>3. g \notin {d.frame : d \in done}
        BY <1>2, <4>1, <4>2
      <4> QED
        BY <2>3, <4>1, <4>3
    <3> QED
      BY <1>1, <2>1, <3>1 DEF LinkInv
  <2>8. ReleasedIsSettled'
    <3>1. \A e \in done : Settled(e.frame)
      BY <1>1 DEF IInv, WatermarkInv
    <3> QED
      BY <1>1, <2>3, <3>1 DEF IInv, ReleasedIsSettled, Settled, dbVars
  <2> QED
    BY <1>3, <2>3, <2>4, <2>5, <2>6, <2>7, <2>8 DEF IInv
<1> QED
  BY <1>4, <1>5

-----------------------------------------------------------------------------
(* The server.  Its steps leave the agent alone, so they only have to keep *)
(* TypeOK, SessionInv, SeenInv, WatermarkInv and what is settled.          *)

\* A server step that keeps the sessions' part and the watermark's, and
\* unsettles nothing, preserves the invariant.
LEMMA ServerStep ==
  ASSUME IInv, UNCHANGED <<qvars, agentVars, onWrite>>,
         NetTypeOK', ServerTypeOK', SessionInv', SeenInv',
         conn = "up" => WatermarkInv',
         acks' = acks \/ conn = "up",
         \A f \in Frame : Settled(f) => Settled(f)'
  PROVE  IInv'
<1>1. TypeOK'
  BY DEF IInv, TypeOK, QueueTypeOK, AgentTypeOK, qvars, agentVars
<1>2. PrefixInv' /\ BurstInv' /\ LinkInv' /\ AccountInv'
  BY DEF IInv, PrefixInv, BurstInv, LinkInv, AccountInv, qvars, agentVars
<1>3. ReleasedIsSettled'
  <2>1. released \subseteq Frame
    BY SpoolQueueAssumption DEF IInv, TypeOK, QueueTypeOK, Frame
  <2>2. released' = released /\ onWrite' = onWrite
    BY DEF qvars
  <2> QED
    BY <2>1, <2>2 DEF IInv, ReleasedIsSettled
<1> QED
  BY <1>1, <1>2, <1>3 DEF IInv, agentVars

\* What reading the oldest message of a connection leaves behind.
LEMMA ReadFacts ==
  ASSUME IInv, NEW c \in Conn, NEW m \in wire[c], Reads(c, m)
  PROVE  /\ m \in Msg /\ m.seq \in Nat /\ m.seq > last[c]
         /\ wire' \in [Conn -> SUBSET Msg]
         /\ wire'[c] = wire[c] \ {m}
         /\ \A k \in Conn : k # c => wire'[k] = wire[k]
         /\ \A n \in wire'[c] : n \in wire[c] /\ n.seq > m.seq
         /\ c = cur => m.seq <= seq
         /\ ~(c > cur)
<1>1. /\ wire \in [Conn -> SUBSET Msg] /\ last \in [Conn -> Nat]
      /\ wire' = [wire EXCEPT ![c] = @ \ {m}]
      /\ \A n \in wire[c] : m.seq <= n.seq
  BY DEF IInv, TypeOK, NetTypeOK, ServerTypeOK, Reads
<1>2. /\ \A n \in wire[c] : n \in Msg /\ n.seq \in Nat
      /\ \A n \in wire[c] : n.seq = m.seq => n = m
      /\ m.seq > last[c] /\ ~(c > cur)
      /\ c = cur => m.seq <= seq
  BY <1>1 DEF IInv, SessionInv, SessionOK, Msg
<1> QED
  BY <1>1, <1>2

\* Freezing preserves the invariant: a frozen watermark claims nothing.
LEMMA ReadGarbledStep ==
  ASSUME IInv, NEW c \in Conn, NEW m \in wire[c], ReadGarbled(c, m)
  PROVE  IInv'
<1>1. /\ Reads(c, m)
      /\ frozen' = [frozen EXCEPT ![c] = TRUE]
      /\ UNCHANGED <<qvars, agentVars, acks, open, last, handled, acked, busy, saw,
                     dbVars, onWrite>>
  BY DEF ReadGarbled
<1>2. NetTypeOK' /\ ServerTypeOK'
  BY <1>1, ReadFacts DEF IInv, TypeOK, NetTypeOK, ServerTypeOK, dbVars
<1>3. SessionInv' /\ SeenInv'
  <2>1. \A k \in Conn : wire'[k] \subseteq wire[k]
    BY <1>1, ReadFacts
  <2> QED
    BY <1>1, <2>1 DEF IInv, SessionInv, SessionOK, SeenInv, agentVars, dbVars
<1>4. ASSUME conn = "up" PROVE WatermarkInv'
  <2>1. cur \in Conn /\ frozen \in [Conn -> BOOLEAN]
    BY <1>4 DEF IInv, TypeOK, AgentTypeOK, ServerTypeOK
  <2>2. \A w \in acks : w <= seq /\ \A e \in inflight : e.seq <= w => Settled(e.frame)
    BY <1>4 DEF IInv, WatermarkInv
  <2>3. CASE c = cur
    BY <1>1, <2>1, <2>2, <2>3 DEF WatermarkInv, Settled, agentVars, dbVars
  <2>4. CASE c # cur
    <3>1. frozen'[cur] = frozen[cur] /\ wire'[cur] = wire[cur]
      BY <1>1, <2>1, <2>4, ReadFacts
    <3> QED
      BY <1>1, <1>4, <3>1 DEF IInv, WatermarkInv, Settled, agentVars, dbVars
  <2> QED
    BY <2>3, <2>4
<1> QED
  BY <1>1, <1>2, <1>3, <1>4, ServerStep DEF Settled, dbVars

\* Reading a control frame moves the watermark past it, and past no data.
LEMMA ReadControlStep ==
  ASSUME IInv, NEW c \in Conn, NEW m \in wire[c], ReadControl(c, m)
  PROVE  IInv'
<1>1. /\ Reads(c, m)
      /\ m.frame = Control
      /\ last' = [last EXCEPT ![c] = m.seq]
      /\ handled' = [handled EXCEPT ![c] = m.seq]
      /\ UNCHANGED <<qvars, agentVars, acks, open, acked, frozen, busy, saw, dbVars,
                     onWrite>>
  <2>1. Reads(c, m)
    BY DEF ReadControl
  <2>2. /\ m.seq \in Nat /\ m.seq > last[c]
        /\ last \in [Conn -> Nat] /\ handled \in [Conn -> Nat]
        /\ handled[c] <= last[c]
    BY <2>1, ReadFacts DEF IInv, TypeOK, ServerTypeOK, SessionInv, SessionOK
  <2>3. ~(m.seq <= last[c]) /\ ~(m.seq <= handled[c])
    BY <2>2
  <2> QED
    BY <2>1, <2>2, <2>3 DEF ReadControl, NoteHandled
<1>2. NetTypeOK' /\ ServerTypeOK'
  BY <1>1, ReadFacts DEF IInv, TypeOK, NetTypeOK, ServerTypeOK, dbVars
<1>3. SessionInv'
  <2> SUFFICES ASSUME NEW k \in Conn PROVE SessionOK(k)'
    BY DEF SessionInv
  <2>1. CASE k = c
    <3>1. /\ handled'[c] = m.seq /\ last'[c] = m.seq /\ busy[c] = NoMsg
          /\ m.seq <= m.seq /\ ~(c > cur)
          /\ c = cur => m.seq <= seq
          /\ \A a \in wire'[c] : a \in wire[c] /\ a.seq > m.seq
      BY <1>1, ReadFacts DEF IInv, TypeOK, ServerTypeOK, Reads
    <3>2. /\ \A a, b \in wire'[c] : a.seq = b.seq => a = b
          /\ \A a \in wire'[c] : c = cur => a.seq <= seq
      BY <3>1 DEF IInv, SessionInv, SessionOK
    <3>3. busy'[c] = NoMsg /\ cur' = cur /\ seq' = seq
      BY <1>1, <3>1 DEF agentVars
    <3> QED
      BY <2>1, <3>1, <3>2, <3>3 DEF SessionOK
  <2>2. CASE k # c
    BY <1>1, <2>2, ReadFacts DEF IInv, SessionInv, SessionOK, TypeOK, ServerTypeOK,
       agentVars
  <2> QED
    BY <2>1, <2>2
<1>4. ASSUME conn = "up" PROVE WatermarkInv'
  <2>1. /\ cur \in Conn /\ handled \in [Conn -> Nat]
        /\ \A e \in inflight : e.frame # Control /\ e.seq \in Nat
    BY <1>4 DEF IInv, TypeOK, AgentTypeOK, ServerTypeOK, Control, Frame
  <2>2. CASE c = cur
    <3>1. handled'[cur] = m.seq /\ busy[cur] = NoMsg /\ open[cur]
      BY <1>1, <2>1, <2>2 DEF Reads
    <3>2. ASSUME NEW e \in inflight, ~frozen[cur]
          PROVE  /\ e.seq <= m.seq => Settled(e.frame)
                 /\ e.seq > m.seq => e \in wire'[cur]
      <4>1. CASE e.seq <= handled[cur]
        BY <1>1, <1>4, <2>1, <2>2, <3>2, <4>1, ReadFacts
        DEF IInv, WatermarkInv, SessionInv, SessionOK, TypeOK, ServerTypeOK
      <4>2. CASE e.seq > handled[cur]
        <5>1. e \in wire[cur]
          <6>1. e # NoMsg
            BY <2>1 DEF NoMsg
          <6> QED
            BY <1>4, <3>1, <3>2, <4>2, <6>1 DEF IInv, WatermarkInv
        <5>2. e # m
          BY <1>1, <2>1
        <5>3. e \in wire'[cur] /\ e.seq > m.seq
          BY <1>1, <2>2, <5>1, <5>2, ReadFacts
        <5> QED
          BY <2>1, <5>3, <1>1, ReadFacts
      <4> QED
        BY <2>1, <4>1, <4>2
    <3> QED
      BY <1>1, <1>4, <3>1, <3>2 DEF IInv, WatermarkInv, Settled, agentVars, dbVars
  <2>3. CASE c # cur
    <3>1. handled'[cur] = handled[cur] /\ wire'[cur] = wire[cur]
      BY <1>1, <2>1, <2>3, ReadFacts
    <3> QED
      BY <1>1, <1>4, <3>1 DEF IInv, WatermarkInv, Settled, agentVars, dbVars
  <2> QED
    BY <2>2, <2>3
<1>5. SeenInv'
  BY <1>1 DEF IInv, SeenInv, dbVars
<1> QED
  BY <1>1, <1>2, <1>3, <1>4, <1>5, ServerStep DEF Settled, dbVars

\* Starting to dispatch a data frame preserves the invariant: the message
\* moves from the wire to the session, above the watermark all the while.
LEMMA ReadDataStep ==
  ASSUME IInv, NEW c \in Conn, NEW m \in wire[c], ReadData(c, m)
  PROVE  IInv'
<1>1. /\ Reads(c, m)
      /\ m.frame # Control
      /\ last' = [last EXCEPT ![c] = m.seq]
      /\ busy' = [busy EXCEPT ![c] = m]
      /\ saw' = [saw EXCEPT ![c] = rows[m.frame] > 0]
      /\ UNCHANGED <<qvars, agentVars, acks, open, handled, acked, frozen, dbVars,
                     onWrite>>
  BY DEF ReadData
<1>2. NetTypeOK' /\ ServerTypeOK'
  <2>1. (rows[m.frame] > 0) \in BOOLEAN
    OBVIOUS
  <2> QED
    BY <1>1, <2>1, ReadFacts DEF IInv, TypeOK, NetTypeOK, ServerTypeOK, dbVars
<1>3. SessionInv'
  <2> SUFFICES ASSUME NEW k \in Conn PROVE SessionOK(k)'
    BY DEF SessionInv
  <2>1. CASE k = c
    <3>1. /\ last'[c] = m.seq /\ busy'[c] = m /\ m.frame \in Frame
          /\ ~(c > cur)
          /\ c = cur => m.seq <= seq
          /\ \A a \in wire'[c] : a \in wire[c] /\ a.seq > m.seq
      BY <1>1, ReadFacts DEF IInv, TypeOK, ServerTypeOK, Msg
    <3>2. handled[c] <= m.seq
      BY <1>1, ReadFacts DEF IInv, SessionInv, SessionOK, TypeOK, ServerTypeOK
    <3>3. open[c]
      BY <1>1 DEF Reads
    <3> QED
      BY <1>1, <2>1, <3>1, <3>2, <3>3 DEF IInv, SessionInv, SessionOK, agentVars
  <2>2. CASE k # c
    BY <1>1, <2>2, ReadFacts DEF IInv, SessionInv, SessionOK, TypeOK, ServerTypeOK,
       agentVars
  <2> QED
    BY <2>1, <2>2
<1>4. ASSUME conn = "up" PROVE WatermarkInv'
  <2>1. /\ cur \in Conn /\ busy \in [Conn -> Msg]
        /\ \A e \in inflight : e.frame # Control
    BY <1>4 DEF IInv, TypeOK, AgentTypeOK, ServerTypeOK, Control, Frame
  <2>2. CASE c = cur
    <3>1. busy'[cur] = m /\ busy[cur] = NoMsg
      BY <1>1, <2>1, <2>2 DEF Reads
    <3>2. \A e \in inflight : e # NoMsg
      BY <2>1 DEF NoMsg
    <3>3. \A e \in inflight : e \in wire[cur] => e \in wire'[cur] \/ e = busy'[cur]
      BY <1>1, <2>2, <3>1, ReadFacts
    <3> QED
      BY <1>1, <1>4, <3>1, <3>2, <3>3
      DEF IInv, WatermarkInv, Settled, agentVars, dbVars
  <2>3. CASE c # cur
    <3>1. busy'[cur] = busy[cur] /\ wire'[cur] = wire[cur]
      BY <1>1, <2>1, <2>3, ReadFacts
    <3> QED
      BY <1>1, <1>4, <3>1 DEF IInv, WatermarkInv, Settled, agentVars, dbVars
  <2> QED
    BY <2>2, <2>3
<1>5. SeenInv'
  <2>1. busy \in [Conn -> Msg] /\ saw \in [Conn -> BOOLEAN]
    BY DEF IInv, TypeOK, ServerTypeOK
  <2> SUFFICES ASSUME NEW k \in Conn, busy'[k] # NoMsg, saw'[k]
               PROVE  rows'[busy'[k].frame] > 0
    BY DEF SeenInv
  <2>2. CASE k = c
    BY <1>1, <2>1, <2>2 DEF dbVars
  <2>3. CASE k # c
    BY <1>1, <2>1, <2>3 DEF IInv, SeenInv, dbVars
  <2> QED
    BY <2>2, <2>3
<1> QED
  BY <1>1, <1>2, <1>3, <1>4, <1>5, ServerStep DEF Settled, dbVars

\* Completing a dispatch that settled its frame preserves the invariant.
LEMMA FinishStep ==
  ASSUME IInv, NEW c \in Conn, Finish(c),
         rows' \in [Frame -> Nat], refused' \subseteq Frame,
         \A f \in Frame : rows[f] > 0 => rows'[f] > 0,
         \A f \in Frame : Settled(f) => Settled(f)',
         \A f \in Frame : f = busy[c].frame => Settled(f)'
  PROVE  IInv'
<1>1. /\ busy[c] # NoMsg
      /\ handled' = [handled EXCEPT ![c] = IF busy[c].seq <= @ THEN @ ELSE busy[c].seq]
      /\ busy' = [busy EXCEPT ![c] = NoMsg]
      /\ UNCHANGED <<qvars, agentVars, netVars, open, last, acked, frozen, saw,
                     onWrite>>
  BY DEF Finish, NoteHandled
<1>2. /\ handled \in [Conn -> Nat] /\ last \in [Conn -> Nat] /\ busy \in [Conn -> Msg]
      /\ handled[c] <= last[c] /\ busy[c].seq = last[c] /\ busy[c].seq \in Nat
      /\ busy[c].frame \in Frame
      /\ NoMsg \in Msg
  BY <1>1 DEF IInv, TypeOK, ServerTypeOK, SessionInv, SessionOK, Msg, NoMsg
<1>3. /\ handled'[c] = last[c] /\ busy'[c] = NoMsg
      /\ \A k \in Conn : k # c => handled'[k] = handled[k] /\ busy'[k] = busy[k]
      /\ handled' \in [Conn -> Nat] /\ busy' \in [Conn -> Msg]
  BY <1>1, <1>2
<1>4. NetTypeOK' /\ ServerTypeOK'
  BY <1>1, <1>3 DEF IInv, TypeOK, NetTypeOK, ServerTypeOK, netVars
<1>5. SessionInv'
  <2> SUFFICES ASSUME NEW k \in Conn PROVE SessionOK(k)'
    BY DEF SessionInv
  <2>1. CASE k = c
    <3>1. ~(c > cur) /\ last[c] <= last[c]
      BY <1>1, <1>2 DEF IInv, SessionInv, SessionOK
    <3> QED
      BY <1>1, <1>3, <2>1, <3>1 DEF IInv, SessionInv, SessionOK, agentVars, netVars
  <2>2. CASE k # c
    BY <1>1, <1>3, <2>2 DEF IInv, SessionInv, SessionOK, agentVars, netVars
  <2> QED
    BY <2>1, <2>2
<1>6. ASSUME conn = "up" PROVE WatermarkInv'
  <2>1. /\ cur \in Conn
        /\ \A e \in inflight : e.seq \in Nat /\ e.frame \in Frame
    BY <1>6 DEF IInv, TypeOK, AgentTypeOK
  <2>2. \A w \in acks : w <= seq /\ \A e \in inflight : e.seq <= w => Settled(e.frame)'
    BY <1>6, <2>1 DEF IInv, WatermarkInv
  <2>3. CASE c = cur
    <3>1. ASSUME NEW e \in inflight, ~frozen[cur]
          PROVE  /\ e.seq <= last[cur] => Settled(e.frame)'
                 /\ e.seq > last[cur] /\ open[cur] => e \in wire[cur]
      <4>1. CASE e.seq <= handled[cur]
        BY <1>2, <1>6, <2>1, <2>3, <3>1, <4>1 DEF IInv, WatermarkInv
      <4>2. CASE e.seq > handled[cur]
        <5>1. CASE e = busy[cur]
          <6>1. Settled(e.frame)' /\ e.seq = last[cur]
            BY <1>2, <2>3, <5>1
          <6> QED
            BY <1>2, <2>1, <6>1
        <5>2. CASE e \in wire[cur]
          BY <1>2, <2>1, <2>3, <5>2 DEF IInv, SessionInv, SessionOK
        <5>3. CASE ~open[cur]
          <6>1. open[cur]
            BY <1>1, <2>1, <2>3 DEF IInv, SessionInv, SessionOK
          <6> QED
            BY <5>3, <6>1
        <5> QED
          BY <1>6, <3>1, <4>2, <5>1, <5>2, <5>3 DEF IInv, WatermarkInv
      <4> QED
        BY <1>2, <2>1, <2>3, <4>1, <4>2
    <3> QED
      BY <1>1, <1>3, <2>2, <2>3, <3>1 DEF WatermarkInv, agentVars, netVars
  <2>4. CASE c # cur
    <3>1. handled'[cur] = handled[cur] /\ busy'[cur] = busy[cur]
      BY <1>3, <2>1, <2>4
    <3> QED
      BY <1>1, <1>6, <2>1, <2>2, <3>1 DEF IInv, WatermarkInv, agentVars, netVars
  <2> QED
    BY <2>3, <2>4
<1>7. SeenInv'
  <2> SUFFICES ASSUME NEW k \in Conn, busy'[k] # NoMsg, saw[k]
               PROVE  rows'[busy[k].frame] > 0 /\ busy'[k] = busy[k]
    BY <1>1 DEF SeenInv
  <2>1. k # c /\ busy'[k] = busy[k]
    BY <1>3
  <2>2. busy[k].frame \in Frame /\ rows[busy[k].frame] > 0
    BY <2>1 DEF IInv, SeenInv, SessionInv, SessionOK
  <2> QED
    BY <2>1, <2>2
<1> QED
  BY <1>1, <1>4, <1>5, <1>6, <1>7, ServerStep DEF netVars

\* Store preserves the invariant: the frame has a row afterwards.
LEMMA StoreStep ==
  ASSUME IInv, NEW c \in Conn, Store(c)
  PROVE  IInv'
<1>1. /\ Finish(c) /\ refused' = refused
      /\ rows' = IF saw[c] \/ rows[busy[c].frame] > 0 THEN rows
                 ELSE [rows EXCEPT ![busy[c].frame] = @ + 1]
  BY DEF Store
<1>2. /\ rows \in [Frame -> Nat] /\ refused \subseteq Frame
      /\ busy[c].frame \in Frame
  BY <1>1 DEF Finish, IInv, TypeOK, ServerTypeOK, SessionInv, SessionOK
<1>3. rows' \in [Frame -> Nat] /\ \A f \in Frame : rows[f] > 0 => rows'[f] > 0
  BY <1>1, <1>2
<1>4. ASSUME NEW f \in Frame, f = busy[c].frame PROVE rows'[f] > 0
  <2>1. CASE rows[f] > 0
    BY <1>3, <2>1
  <2>2. CASE ~(rows[f] > 0)
    <3>1. ~saw[c]
      BY <1>1, <1>4, <2>2 DEF IInv, SeenInv, Finish
    <3> QED
      BY <1>1, <1>2, <1>4, <2>2, <3>1
  <2> QED
    BY <2>1, <2>2
<1> QED
  BY <1>1, <1>2, <1>3, <1>4, FinishStep DEF Settled

\* RefuseFrame preserves the invariant: the frame is counted as refused.
LEMMA RefuseFrameStep ==
  ASSUME IInv, NEW c \in Conn, RefuseFrame(c)
  PROVE  IInv'
<1>1. Finish(c) /\ rows' = rows /\ refused' = refused \cup {busy[c].frame}
  BY DEF RefuseFrame
<1>2. /\ rows \in [Frame -> Nat] /\ refused \subseteq Frame
      /\ busy[c].frame \in Frame
  BY <1>1 DEF Finish, IInv, TypeOK, ServerTypeOK, SessionInv, SessionOK
<1> QED
  BY <1>1, <1>2, FinishStep DEF Settled

\* FlushAck preserves the invariant: it acknowledges settled frames only.
LEMMA FlushAckStep ==
  ASSUME IInv, NEW c \in Conn, FlushAck(c)
  PROVE  IInv'
<1>1. /\ c = cur /\ conn = "up" /\ ~frozen[cur]
      /\ acked' = [acked EXCEPT ![c] = handled[c]]
      /\ acks' = acks \cup {handled[cur]}
      /\ UNCHANGED <<qvars, agentVars, wire, open, last, handled, frozen, busy, saw,
                     dbVars, onWrite>>
  BY DEF FlushAck
<1>2. handled \in [Conn -> Nat] /\ acks \subseteq Nat
  BY DEF IInv, TypeOK, NetTypeOK, ServerTypeOK
<1>3. NetTypeOK' /\ ServerTypeOK'
  BY <1>1, <1>2 DEF IInv, TypeOK, NetTypeOK, ServerTypeOK, dbVars
<1>4. SessionInv' /\ SeenInv'
  BY <1>1 DEF IInv, SessionInv, SessionOK, SeenInv, agentVars, dbVars
<1>5. WatermarkInv'
  <2>1. handled[cur] <= seq
    <3>1. handled[cur] \in Nat /\ last[cur] \in Nat /\ seq \in Nat
      BY <1>1 DEF IInv, TypeOK, AgentTypeOK, ServerTypeOK
    <3> QED
      BY <1>1, <3>1 DEF IInv, SessionInv, SessionOK
  <2> QED
    BY <1>1, <2>1 DEF IInv, WatermarkInv, Settled, agentVars, dbVars
<1> QED
  BY <1>1, <1>3, <1>4, <1>5, ServerStep DEF Settled, dbVars

\* ServerClose preserves the invariant: a closed session claims nothing about
\* what it had not read.
LEMMA ServerCloseStep ==
  ASSUME IInv, NEW c \in Conn, ServerClose(c)
  PROVE  IInv'
<1>1. /\ open' = [open EXCEPT ![c] = FALSE]
      /\ busy' = [busy EXCEPT ![c] = NoMsg]
      /\ wire' = [wire EXCEPT ![c] = {}]
      /\ UNCHANGED <<qvars, agentVars, acks, last, handled, acked, frozen, saw,
                     dbVars, onWrite>>
  BY DEF ServerClose
<1>2. /\ open \in [Conn -> BOOLEAN] /\ busy \in [Conn -> Msg]
      /\ wire \in [Conn -> SUBSET Msg] /\ NoMsg \in Msg
  BY DEF IInv, TypeOK, NetTypeOK, ServerTypeOK, NoMsg, Msg
<1>3. /\ ~open'[c] /\ busy'[c] = NoMsg /\ wire'[c] = {}
      /\ \A k \in Conn : k # c => /\ open'[k] = open[k]
                                  /\ busy'[k] = busy[k]
                                  /\ wire'[k] = wire[k]
  BY <1>1, <1>2
<1>4. NetTypeOK' /\ ServerTypeOK'
  BY <1>1, <1>2 DEF IInv, TypeOK, NetTypeOK, ServerTypeOK, dbVars
<1>5. SessionInv'
  <2> SUFFICES ASSUME NEW k \in Conn PROVE SessionOK(k)'
    BY DEF SessionInv
  <2>1. CASE k = c
    BY <1>1, <1>3, <2>1 DEF IInv, SessionInv, SessionOK, agentVars
  <2>2. CASE k # c
    BY <1>1, <1>3, <2>2 DEF IInv, SessionInv, SessionOK, agentVars
  <2> QED
    BY <2>1, <2>2
<1>6. ASSUME conn = "up" PROVE WatermarkInv'
  <2>1. cur \in Conn
    BY <1>6 DEF IInv, TypeOK, AgentTypeOK
  <2> QED
    BY <1>1, <1>3, <1>6, <2>1 DEF IInv, WatermarkInv, Settled, agentVars, dbVars
<1>7. SeenInv'
  BY <1>1, <1>3 DEF IInv, SeenInv, dbVars
<1> QED
  BY <1>1, <1>4, <1>5, <1>6, <1>7, ServerStep DEF Settled, dbVars

-----------------------------------------------------------------------------
(* The theorems.                                                           *)

\* Every step preserves the inductive invariant.
LEMMA NextStep ==
  ASSUME IInv, [Next]_vars
  PROVE  IInv'
<1>1. CASE Enqueue
  BY <1>1, EnqueueStep
<1>2. CASE Connect
  BY <1>2, ConnectStep
<1>3. CASE Disconnect \/ AckStall
  BY <1>3, DisconnectStep
<1>4. CASE WriteError
  BY <1>4, WriteErrorStep
<1>5. CASE AgentCrash
  BY <1>5, AgentCrashStep
<1>6. CASE \E mode \in BOOLEAN : HelloAck(mode)
  BY <1>6, HelloAckStep
<1>7. CASE \/ \E B \in SUBSET live : DrainTick(B)
            \/ \E f \in burst : SendBurst(f)
  BY <1>7, DrainTickStep, SendBurstStep
<1>8. CASE CommitOnWrite
  BY <1>8, CommitOnWriteStep
<1>9. CASE SendControl
  BY <1>9, SendControlStep
<1>10. CASE \E w \in acks : OnDataAck(w)
  BY <1>10, OnDataAckStep
<1>11. CASE \E c \in Conn : Server(c)
  <2>1. PICK c \in Conn : Server(c)
    BY <1>11
  <2>2. CASE \E m \in wire[c] : ReadGarbled(c, m) \/ ReadControl(c, m) \/ ReadData(c, m)
    BY <2>2, ReadGarbledStep, ReadControlStep, ReadDataStep
  <2>3. CASE Store(c) \/ RefuseFrame(c) \/ FlushAck(c) \/ ServerClose(c)
    BY <2>3, StoreStep, RefuseFrameStep, FlushAckStep, ServerCloseStep
  <2> QED
    BY <2>1, <2>2, <2>3 DEF Server
<1>12. CASE UNCHANGED vars
  <2> USE <1>12 DEF vars, qvars, agentVars, netVars, serverVars, dbVars
  <2>1. TypeOK'
    BY DEF IInv, TypeOK, QueueTypeOK, AgentTypeOK, NetTypeOK, ServerTypeOK
  <2>2. SessionInv' /\ PrefixInv' /\ BurstInv' /\ LinkInv' /\ SeenInv'
    BY DEF IInv, SessionInv, SessionOK, PrefixInv, BurstInv, LinkInv, SeenInv
  <2>3. (conn = "up" => WatermarkInv)' /\ AccountInv' /\ ReleasedIsSettled'
    BY DEF IInv, WatermarkInv, Settled, AccountInv, ReleasedIsSettled
  <2> QED
    BY <2>1, <2>2, <2>3 DEF IInv
<1> QED
  BY <1>1, <1>2, <1>3, <1>4, <1>5, <1>6, <1>7, <1>8, <1>9, <1>10, <1>11, <1>12
  DEF Next

\* The inductive invariant holds throughout.
THEOREM Invariance == Spec => []IInv
<1>1. Init => IInv
  BY InitIInv
<1>2. IInv /\ [Next]_vars => IInv'
  BY NextStep
<1> QED
  BY <1>1, <1>2, PTL DEF Spec

\* The agent's window, the sessions and the table keep their types.
THEOREM TypeCorrect == Spec => []TypeOK
<1>1. IInv => TypeOK
  BY DEF IInv
<1> QED
  BY <1>1, Invariance, PTL

\* What onDataAck discards was settled by the server, for any number of
\* connections, restarts, evictions and frames, and any window: the
\* acknowledgement protocol loses nothing.
THEOREM AckedSafely == Spec => []ReleasedIsSettled
<1>1. IInv => ReleasedIsSettled
  BY DEF IInv
<1> QED
  BY <1>1, Invariance, PTL

\* No observation the agent made disappears without being stored, refused and
\* counted, evicted and recorded, or (without data.ack) written to the socket.
THEOREM Accounted == Spec => []NothingUnaccounted
<1>1. IInv => NothingUnaccounted
  BY DEF IInv, AccountInv, ReleasedIsSettled, NothingUnaccounted
<1> QED
  BY <1>1, Invariance, PTL

\* The agent's own numbering never trips receive_frame_receipt's replay guard.
THEOREM NoSpuriousReplay == Spec => []NoReplayRejects
<1>1. IInv => NoReplayRejects
  BY DEF IInv, SessionInv, SessionOK, NoReplayRejects
<1> QED
  BY <1>1, Invariance, PTL

\* However often a frame is re-sent, and however its dispatches by an old and
\* by a new session overlap, ingest_host_sample stores one row for it.
THEOREM AtMostOnce == Spec => []StoredOnce
<1>1. Init => StoredOnce
  BY DEF Init, StoredOnce
<1>2. IInv /\ StoredOnce /\ [Next]_vars => StoredOnce'
  <2> SUFFICES ASSUME IInv, StoredOnce, [Next]_vars PROVE StoredOnce'
    OBVIOUS
  <2>1. CASE rows' = rows
    BY <2>1 DEF StoredOnce
  <2>2. ASSUME NEW c \in Conn, Store(c) PROVE StoredOnce'
    <3>1. rows \in [Frame -> Nat] /\ busy[c].frame \in Frame
      BY <2>2 DEF Store, Finish, IInv, TypeOK, ServerTypeOK, SessionInv, SessionOK
    <3> QED
      BY <2>2, <3>1 DEF Store, StoredOnce
  <2>3. rows' = rows \/ \E c \in Conn : Store(c)
    BY DEF Next, Server, Enqueue, Connect, Disconnect, AckStall, AgentCrash, HelloAck,
       DrainTick, SendBurst, CommitOnWrite, WriteError, SendControl, OnDataAck,
       ReadGarbled, ReadControl, ReadData, RefuseFrame, FlushAck, ServerClose, dbVars, vars
  <2> QED
    BY <2>1, <2>2, <2>3
<1> QED
  BY <1>1, <1>2, Invariance, PTL DEF Spec

\* The stall clock runs while frames are in flight, and only while frames are
\* in flight or about to be.
ClockInv ==
  conn = "up" /\ ackData => /\ inflight # {} => clock
                            /\ clock => inflight # {} \/ burst # {}

\* On an acknowledging link the stall clock runs exactly while the window is
\* not empty, and a window whose frames were all evicted can be refilled.
THEOREM StallClock == Spec => [](StallClockExact /\ PruneRefills)
<1>1. Init => ClockInv
  BY DEF Init, ClockInv
<1>2. IInv => PruneRefills
  <2> SUFFICES ASSUME IInv, Idle, ackData, inflight # {}, Pruned = {}
               PROVE  Unsent # {}
    BY DEF PruneRefills
  <2>1. live # {}
    BY DEF IInv, LinkInv
  <2> QED
    BY <2>1 DEF Unsent
<1>3. IInv /\ ClockInv /\ [Next]_vars => ClockInv'
  <2> SUFFICES ASSUME IInv, ClockInv, [Next]_vars PROVE ClockInv'
    OBVIOUS
  <2>1. CASE UNCHANGED <<conn, ackData, burst, inflight, clock>>
    BY <2>1 DEF ClockInv
  <2>2. CASE conn' # "up" \/ ~ackData'
    BY <2>2 DEF ClockInv
  <2>3. ASSUME NEW mode \in BOOLEAN, HelloAck(mode) PROVE ClockInv'
    BY <2>3 DEF HelloAck, IInv, LinkInv, ClockInv
  <2>4. ASSUME NEW B \in SUBSET live, DrainTick(B) PROVE ClockInv'
    <3> SUFFICES ASSUME ackData
                 PROVE  /\ inflight' # {} => clock
                        /\ clock => inflight' # {} \/ burst' # {}
      BY <2>4 DEF DrainTick, ClockInv
    <3>1. /\ Idle /\ burst = {} /\ conn = "up"
          /\ burst' = B /\ inflight' = Pruned
          /\ B = {} => Unsent = {} \/ Pruned # {}
      BY <2>4 DEF DrainTick, Budgeted, Idle
    <3>2. Pruned \subseteq inflight
      BY DEF Pruned
    <3>3. clock => inflight # {}
      BY <3>1 DEF ClockInv
    <3>4. inflight # {} => clock
      BY <3>1 DEF ClockInv
    <3> QED
      BY <1>2, <3>1, <3>2, <3>3, <3>4 DEF PruneRefills
  <2>5. ASSUME NEW f \in burst, SendBurst(f) PROVE ClockInv'
    BY <2>5 DEF SendBurst, ClockInv
  <2>6. ASSUME NEW w \in acks, OnDataAck(w) PROVE ClockInv'
    <3>1. CASE {e \in inflight : e.seq <= w} = {}
      BY <2>6, <3>1 DEF OnDataAck, ClockInv
    <3>2. CASE {e \in inflight : e.seq <= w} # {}
      <4>1. clock' = (inflight' # {})
        BY <2>6, <3>2 DEF OnDataAck, ClockAfterAck
      <4> QED
        BY <4>1 DEF ClockInv
    <3> QED
      BY <3>1, <3>2
  <2>7. \/ UNCHANGED <<conn, ackData, burst, inflight, clock>>
        \/ conn' # "up" \/ ~ackData'
        \/ \E mode \in BOOLEAN : HelloAck(mode)
        \/ \E B \in SUBSET live : DrainTick(B)
        \/ \E f \in burst : SendBurst(f)
        \/ \E w \in acks : OnDataAck(w)
    BY DEF Next, Server, Enqueue, Connect, Disconnect, AckStall, AgentCrash, Abandon,
       CommitOnWrite, WriteError, SendControl, ReadGarbled, ReadControl, ReadData,
       Store, RefuseFrame, Finish, FlushAck, ServerClose, agentVars, vars
  <2> QED
    BY <2>1, <2>2, <2>3, <2>4, <2>5, <2>6, <2>7
<1>4. ClockInv => StallClockExact
  BY DEF ClockInv, StallClockExact, Idle
<1> QED
  BY <1>1, <1>2, <1>3, <1>4, Invariance, PTL DEF Spec

\* The agent's side of the link implements the loss-free queue: every step is
\* a Put, a Release from the old end, a Reopen, or leaves the queue alone.
THEOREM Refinement == Spec => ImplementsQueue
<1>1. Init => QInit
  BY DEF Init
<1>2. IInv /\ [Next]_vars => [QNext]_qvars
  <2> SUFFICES ASSUME IInv, [Next]_vars PROVE [QNext]_qvars
    OBVIOUS
  <2>1. CASE Enqueue
    BY <2>1 DEF Enqueue, QNext, Put
  <2>2. CASE AgentCrash
    <3>1. produced \in Nat /\ produced <= MaxFrame
      BY SpoolQueueAssumption DEF IInv, TypeOK, QueueTypeOK
    <3> QED
      BY <2>2, <3>1 DEF AgentCrash, QNext, Reopen
  <2>3. ASSUME NEW done \in SUBSET inflight,
               \A d \in done, e \in inflight \ done : d.seq < e.seq,
               CommitThrough({e.frame : e \in done}), UNCHANGED <<produced, dropped>>
        PROVE  Release
    <3> DEFINE S == {e.frame : e \in done}
    <3>1. live' = live \ S /\ released' = released \cup S
      BY <2>3, CommitExact
    <3>2. \A e \in done : e.frame \in 1..produced
      <4>1. \A e \in inflight : e.frame \in 1..MaxFrame
        BY DEF IInv, TypeOK, AgentTypeOK, Frame
      <4>2. \A e \in inflight : e.frame <= produced
        BY DEF IInv, PrefixInv
      <4>3. produced \in Nat
        BY SpoolQueueAssumption DEF IInv, TypeOK, QueueTypeOK
      <4> QED
        BY <4>1, <4>2, <4>3, SpoolQueueAssumption
    <3>3. OldestOf(S \cap live, live)
      <4> SUFFICES ASSUME NEW f \in S \cap live, NEW g \in live \ (S \cap live)
                   PROVE  f < g
        BY DEF OldestOf
      <4>1. g \in live'
        BY <3>1
      <4>2. \A h \in live : h \in Nat
        BY SpoolQueueAssumption DEF IInv, TypeOK, QueueTypeOK
      <4>3. f \in Nat /\ g \in Nat
        <5>1. f \in live /\ g \in live
          OBVIOUS
        <5> QED
          BY <4>2, <5>1
      <4>4. g > f
        BY <2>3, <4>1 DEF CommitThrough
      <4> QED
        BY <4>3, <4>4
    <3>4. S \in SUBSET (1..produced)
      BY <3>2
    <3> QED
      BY <2>3, <3>1, <3>3, <3>4 DEF Release
  <2>4. CASE CommitOnWrite \/ WriteError
    <3>1. CommitThrough(Written) /\ UNCHANGED <<produced, dropped>>
      BY <2>4 DEF CommitOnWrite, WriteError
    <3>2. \/ Written = {e.frame : e \in {}}
          \/ Written = {e.frame : e \in inflight}
      BY DEF Written
    <3> QED
      BY <2>3, <3>1, <3>2 DEF QNext
  <2>5. ASSUME NEW w \in acks, OnDataAck(w) PROVE [QNext]_qvars
    <3> DEFINE done == {e \in inflight : e.seq <= w}
    <3>1. UNCHANGED <<produced, dropped>>
      BY <2>5 DEF OnDataAck
    <3>2. CASE done = {}
      BY <2>5, <3>1, <3>2 DEF OnDataAck, qvars
    <3>3. CASE done # {}
      <4>1. CommitThrough({e.frame : e \in done})
        BY <2>5, <3>3 DEF OnDataAck
      <4>2. \A d \in done, e \in inflight \ done : d.seq < e.seq
        <5>1. w \in Nat /\ \A e \in inflight : e.seq \in Nat
          BY DEF IInv, TypeOK, AgentTypeOK, NetTypeOK
        <5> QED
          BY <5>1
      <4> QED
        BY <2>3, <3>1, <4>1, <4>2 DEF QNext
    <3> QED
      BY <3>2, <3>3
  <2>6. \/ UNCHANGED qvars
        \/ Enqueue \/ AgentCrash \/ CommitOnWrite \/ WriteError
        \/ \E w \in acks : OnDataAck(w)
    BY DEF Next, Server, Connect, Disconnect, AckStall, HelloAck, DrainTick, SendBurst,
       SendControl, ReadGarbled, ReadControl, ReadData, Store, RefuseFrame, Finish,
       FlushAck, ServerClose, vars
  <2> QED
    BY <2>1, <2>2, <2>4, <2>5, <2>6
<1> QED
  BY <1>1, <1>2, Invariance, PTL DEF Spec, ImplementsQueue, QSpec

\* Window and burst together fit in maxInflightFrames.
BoundInv ==
  /\ IsFiniteSet(inflight) /\ IsFiniteSet(burst)
  /\ ackData => Cardinality(inflight) + Cardinality(burst) <= Window
  /\ conn # "up" => inflight = {} /\ burst = {}

\* The window never holds more than maxInflightFrames frames, and frames
\* travel in the order of the backlog.
THEOREM WindowBounded == Spec => []WindowOrdered
<1>a. Window \in Nat /\ Window >= 1
  BY DataLinkAssumption
<1>b. IsFiniteSet({}) /\ Cardinality({}) = 0
  BY FS_EmptySet
<1>1. Init => BoundInv
  BY <1>a, <1>b DEF Init, BoundInv
<1>2. IInv /\ BoundInv /\ [Next]_vars => BoundInv'
  <2> SUFFICES ASSUME IInv, BoundInv, [Next]_vars PROVE BoundInv'
    OBVIOUS
  <2>1. CASE inflight' = {} /\ burst' = {}
    BY <1>a, <1>b, <2>1 DEF BoundInv
  <2>2. CASE UNCHANGED <<conn, ackData, burst, inflight>>
    BY <2>2 DEF BoundInv
  <2>3. ASSUME NEW B \in SUBSET live, DrainTick(B) PROVE BoundInv'
    <3>1. /\ conn' = "up" /\ ackData' = ackData
          /\ burst' = B /\ inflight' = Pruned
          /\ ackData => Cardinality(Pruned) + Cardinality(B) <= Window
      BY <2>3 DEF DrainTick, Budgeted, Idle
    <3>2. IsFiniteSet(Pruned)
      BY FS_Subset DEF BoundInv, Pruned
    <3>3. IsFiniteSet(B)
      <4>1. produced \in Nat /\ B \in SUBSET (1..produced)
        BY SpoolQueueAssumption DEF IInv, TypeOK, QueueTypeOK
      <4>2. IsFiniteSet(1..produced)
        BY <4>1, FS_Interval
      <4> QED
        BY <4>1, <4>2, FS_Subset
    <3> QED
      BY <3>1, <3>2, <3>3 DEF BoundInv
  <2>4. ASSUME NEW f \in burst, SendBurst(f) PROVE BoundInv'
    <3> DEFINE new == [seq |-> seq + 1, frame |-> f]
    <3>1. /\ inflight' = inflight \cup {new} /\ burst' = burst \ {f}
          /\ ackData' = ackData /\ conn' = conn
      BY <2>4 DEF SendBurst
    <3>2. conn = "up"
      BY DEF BoundInv
    <3>3. /\ IsFiniteSet(inflight') /\ Cardinality(inflight) \in Nat
          /\ Cardinality(inflight') \in {Cardinality(inflight), Cardinality(inflight) + 1}
      BY <3>1, FS_AddElement, FS_CardinalityType DEF BoundInv
    <3>4. /\ IsFiniteSet(burst') /\ Cardinality(burst) \in Nat
          /\ Cardinality(burst') = Cardinality(burst) - 1
      BY <3>1, FS_RemoveElement, FS_CardinalityType DEF BoundInv
    <3> QED
      BY <1>a, <3>1, <3>2, <3>3, <3>4 DEF BoundInv
  <2>5. ASSUME NEW w \in acks, OnDataAck(w) PROVE BoundInv'
    <3>1. /\ burst' = burst /\ ackData' = ackData /\ conn' = conn /\ conn = "up"
          /\ inflight' \in SUBSET inflight
      BY <2>5 DEF OnDataAck, Idle
    <3>2. /\ IsFiniteSet(inflight') /\ Cardinality(inflight') <= Cardinality(inflight)
      BY <3>1, FS_Subset DEF BoundInv
    <3>3. /\ Cardinality(inflight') \in Nat /\ Cardinality(inflight) \in Nat
          /\ Cardinality(burst) \in Nat
      BY <3>2, FS_CardinalityType DEF BoundInv
    <3> QED
      BY <1>a, <3>1, <3>2, <3>3 DEF BoundInv
  <2>6. ASSUME NEW mode \in BOOLEAN, HelloAck(mode) PROVE inflight' = {} /\ burst' = {}
    BY <2>6 DEF HelloAck, BoundInv
  <2>7. \/ inflight' = {} /\ burst' = {}
        \/ UNCHANGED <<conn, ackData, burst, inflight>>
        \/ \E B \in SUBSET live : DrainTick(B)
        \/ \E f \in burst : SendBurst(f)
        \/ \E w \in acks : OnDataAck(w)
        \/ \E mode \in BOOLEAN : HelloAck(mode)
    <3>1. ASSUME Connect PROVE inflight' = {} /\ burst' = {}
      BY <3>1 DEF Connect, BoundInv
    <3> QED
      BY <3>1 DEF Next, Server, Enqueue, Disconnect, AckStall, AgentCrash, Abandon,
         CommitOnWrite, WriteError, SendControl, ReadGarbled, ReadControl, ReadData,
         Store, RefuseFrame, Finish, FlushAck, ServerClose, agentVars, vars
  <2> QED
    BY <2>1, <2>2, <2>3, <2>4, <2>5, <2>6, <2>7
<1>3. IInv /\ BoundInv => WindowOrdered
  <2> SUFFICES ASSUME IInv, BoundInv PROVE WindowOrdered
    OBVIOUS
  <2>1. Cardinality(inflight) \in Nat /\ Cardinality(burst) \in Nat
    BY FS_CardinalityType DEF BoundInv
  <2> QED
    BY <1>a, <2>1 DEF IInv, PrefixInv, BoundInv, WindowOrdered
<1> QED
  BY <1>1, <1>2, <1>3, Invariance, PTL DEF Spec

\* No step of the agent takes a frame out of the backlog that is neither
\* released by the drain nor dropped by the cap: the queue's promise, carried
\* over to the link by the refinement.
THEOREM NeverSilent == Spec => NoSilentLoss
<1>1. [QNext]_qvars => [live \subseteq live' \cup released' \cup dropped']_qvars
  <2> SUFFICES ASSUME QNext PROVE live \subseteq live' \cup released' \cup dropped'
    OBVIOUS
  <2>1. CASE Put
    BY <2>1 DEF Put
  <2>2. CASE Refuse
    BY <2>2 DEF Refuse
  <2>3. CASE Drop
    BY <2>3 DEF Drop
  <2>4. CASE Release
    BY <2>4 DEF Release
  <2>5. CASE Reopen
    BY <2>5 DEF Reopen
  <2> QED
    BY <2>1, <2>2, <2>3, <2>4, <2>5 DEF QNext
<1> QED
  BY <1>1, Refinement, PTL DEF ImplementsQueue, QSpec, NoSilentLoss

=============================================================================

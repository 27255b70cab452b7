------------------------- MODULE LinkSessionProofs -------------------------
(* Proofs of LinkSession's safety, for every number of sockets, overlapping   *)
(* sessions and edits.                                                        *)
EXTENDS LinkSession, SequenceTheorems, TLAPS

----------------------------------------------------------------------------
(* The inductive invariant.                                                   *)

\* The connection key names the session that wrote it last, or nobody.
OwnerWrote == owner \in {None, writer}

\* A session that wrote the key is past its hello.
WriterPast == writer # None => pc[writer] \notin {"new", "dialed", "hello", "present"}

\* The key never names a session whose teardown has released it: no control
\* frame is routed to a socket that is closed for good.
NoStaleOwner ==
  owner # None => pc[owner] \in {"registered", "acked", "deregister"} \cup Listening

RegistryInv == OwnerWrote /\ WriterPast /\ NoStaleOwner /\ RegistryKept

IInv == TypeOK /\ RegistryInv

\* The initial state satisfies the invariant.
LEMMA InitIInv == Init => IInv
<1> SUFFICES ASSUME Init PROVE IInv
  OBVIOUS
<1> USE SessionAssumption DEF Init
<1>1. active \in BOOLEAN /\ presence \in BOOLEAN
  OBVIOUS
<1>2. control \in [Conn -> Seq({"grants", "disconnect"} \X Nat)]
  OBVIOUS
<1>3. inbox \in [Conn -> Seq({"heartbeat", "uninstall"})]
      /\ queue \in [Conn -> Seq({"grants", "disconnect"} \X Nat)]
  OBVIOUS
<1>4. TypeOK
  BY <1>1, <1>2, <1>3 DEF TypeOK
<1>5. RegistryInv
  BY DEF RegistryInv, OwnerWrote, WriterPast, NoStaleOwner, RegistryKept
<1> QED
  BY <1>4, <1>5 DEF IInv

----------------------------------------------------------------------------
(* Types.                                                                     *)

\* What every step leaves of the types of rows, keys and sockets.
KeysTypeOK ==
  /\ active \in BOOLEAN /\ presence \in BOOLEAN
  /\ grants \in Nat /\ applied \in Nat
  /\ owner \in Conn \cup {None} /\ writer \in Conn \cup {None}
  /\ open \subseteq Conn /\ desynced \subseteq Conn
  /\ publishing \subseteq {"grants", "disconnect"}

\* What every step leaves of the types of the sessions.
SessionsTypeOK ==
  /\ pc \in [Conn -> Listening \cup Greeting \cup Releasing \cup {"new", "dialed"}]
  /\ snap \in [Conn -> Nat]

QueuesTypeOK ==
  /\ control \in [Conn -> Seq({"grants", "disconnect"} \X Nat)]
  /\ queue \in [Conn -> Seq({"grants", "disconnect"} \X Nat)]
  /\ inbox \in [Conn -> Seq({"heartbeat", "uninstall"})]

\* The parts are the whole.
LEMMA TypeParts == TypeOK <=> KeysTypeOK /\ SessionsTypeOK /\ QueuesTypeOK
BY DEF TypeOK, KeysTypeOK, SessionsTypeOK, QueuesTypeOK

\* The control frames and the agent's frames of a session.
LEMMA QueuesType ==
  ASSUME TypeOK, Next
  PROVE  QueuesTypeOK'
<1> DEFINE Frame == {"grants", "disconnect"} \X Nat
           Word == {"heartbeat", "uninstall"}
<1> USE DEF row, redis, sessions, agent
<1>1. /\ control \in [Conn -> Seq(Frame)] /\ queue \in [Conn -> Seq(Frame)]
      /\ inbox \in [Conn -> Seq(Word)]
  BY DEF TypeOK
<1>2. /\ \A f \in {"grants", "disconnect"} : <<f, grants>> \in Frame
      /\ "heartbeat" \in Word /\ "uninstall" \in Word
  BY DEF TypeOK
<1> HIDE DEF Frame, Word
<1>0. ASSUME NEW c \in Conn, Leave(c) PROVE QueuesTypeOK'
  <2>1. <<>> \in Seq(Frame) /\ <<>> \in Seq(Word)
    OBVIOUS
  <2> QED
    BY <1>0, <1>1, <2>1 DEF Leave, QueuesTypeOK, Frame, Word
<1>3. CASE \E f \in {"grants", "disconnect"} : Publish(f)
  <2>1. PICK f \in {"grants", "disconnect"} : Publish(f)
    BY <1>3
  <2>2. \A c \in Conn : Append(control[c], <<f, grants>>) \in Seq(Frame)
    <3>1. \A s \in Seq(Frame), x \in Frame : Append(s, x) \in Seq(Frame)
      OBVIOUS
    <3>2. <<f, grants>> \in Frame
      BY <1>2
    <3> QED
      BY <1>1, <3>1, <3>2
  <2>3. control' \in [Conn -> Seq(Frame)] /\ queue' = queue /\ inbox' = inbox
    BY <1>1, <2>1, <2>2 DEF Publish
  <2> QED
    BY <1>1, <2>3 DEF QueuesTypeOK, Frame, Word
<1>4. ASSUME NEW c \in Conn, SendFrame(c) PROVE QueuesTypeOK'
  <2>1. <<IF c \in Notifier THEN "uninstall" ELSE "heartbeat">> \in Seq(Word)
    BY <1>2
  <2>2. inbox' \in [Conn -> Seq(Word)] /\ control' = control /\ queue' = queue
    BY <1>1, <1>4, <2>1 DEF SendFrame
  <2> QED
    BY <1>1, <2>2 DEF QueuesTypeOK, Frame, Word
<1>5. ASSUME NEW c \in Conn, ClaimControlFrame(c) PROVE QueuesTypeOK'
  <2>1. /\ control[c] \in Seq(Frame) /\ control[c] # <<>> /\ inbox' = inbox
        /\ control' = [control EXCEPT ![c] = Tail(@)]
        /\ \/ queue' = [queue EXCEPT ![c] = Append(@, Head(control[c]))]
           \/ queue' = queue
    BY <1>1, <1>5 DEF ClaimControlFrame
  <2>2. Tail(control[c]) \in Seq(Frame) /\ Head(control[c]) \in Frame
    BY <2>1
  <2>3. Append(queue[c], Head(control[c])) \in Seq(Frame)
    <3>1. \A s \in Seq(Frame), x \in Frame : Append(s, x) \in Seq(Frame)
      OBVIOUS
    <3> QED
      BY <1>1, <2>2, <3>1
  <2>4. control' \in [Conn -> Seq(Frame)] /\ queue' \in [Conn -> Seq(Frame)]
    BY <1>1, <2>1, <2>2, <2>3
  <2> QED
    BY <1>1, <2>1, <2>4 DEF QueuesTypeOK, Frame, Word
<1>6. ASSUME NEW c \in Conn, SendControlFrame(c) PROVE QueuesTypeOK'
  <2>1. CASE Leave(c)
    BY <1>0, <2>1
  <2>2. CASE queue' = [queue EXCEPT ![c] = Tail(@)] /\ UNCHANGED <<control, inbox>>
    <3>1. queue[c] \in Seq(Frame) /\ queue[c] # <<>>
      BY <1>1, <1>6 DEF SendControlFrame
    <3>2. Tail(queue[c]) \in Seq(Frame)
      BY <3>1
    <3> QED
      BY <1>1, <2>2, <3>2 DEF QueuesTypeOK, Frame, Word
  <2> QED
    BY <1>6, <2>1, <2>2 DEF SendControlFrame
<1>7. ASSUME NEW c \in Conn, Receive(c) PROVE QueuesTypeOK'
  <2>1. CASE Leave(c)
    BY <1>0, <2>1
  <2>2. CASE inbox' = [inbox EXCEPT ![c] = Tail(@)] /\ UNCHANGED <<control, queue>>
    <3>1. inbox[c] \in Seq(Word) /\ inbox[c] # <<>>
      BY <1>1, <1>7 DEF Receive
    <3>2. Tail(inbox[c]) \in Seq(Word)
      BY <3>1
    <3> QED
      BY <1>1, <2>2, <3>2 DEF QueuesTypeOK, Frame, Word
  <2> QED
    BY <1>7, <2>1, <2>2 DEF Receive
<1>8. CASE UNCHANGED <<control, queue, inbox>>
  BY <1>1, <1>8 DEF QueuesTypeOK, Frame, Word
<1>9. CASE Withdraw({"disconnect"}) \/ Withdraw({}) \/ PutCapabilities \/ Expire
  BY <1>8, <1>9 DEF Withdraw, PutCapabilities, Expire
<1>10. ASSUME NEW c \in Conn,
              \/ Dial(c) \/ HangUp(c) \/ Desync(c) \/ AcceptHello(c)
              \/ MarkPresenceConnected(c) \/ RegisterAgentConnection(c)
              \/ SendHelloPhase(c) \/ Subscribe(c) \/ RefreshPresence(c)
              \/ Deregister(c) \/ MarkPresenceDisconnected(c)
       PROVE  QueuesTypeOK'
  BY <1>8, <1>10 DEF Dial, HangUp, Desync, AcceptHello, MarkPresenceConnected,
                     RegisterAgentConnection, SendHelloPhase, Subscribe,
                     RefreshPresence, Deregister, MarkPresenceDisconnected
<1>11. ASSUME NEW c \in Conn, Poll(c) PROVE QueuesTypeOK'
  BY <1>0, <1>11 DEF Poll
<1> QED
  BY <1>3, <1>4, <1>5, <1>6, <1>7, <1>9, <1>10, <1>11 DEF Next, Session

\* The row, the keys, the sockets and where each session is.
LEMMA KeysType ==
  ASSUME TypeOK, Next
  PROVE  KeysTypeOK' /\ SessionsTypeOK'
<1> USE DEF row, redis, sessions, agent
<1>1. KeysTypeOK /\ SessionsTypeOK
  BY TypeParts
<1>2. CASE \/ Withdraw({"disconnect"}) \/ Withdraw({}) \/ PutCapabilities \/ Expire
           \/ \E f \in {"grants", "disconnect"} : Publish(f)
  <2>1. CASE Withdraw({"disconnect"}) \/ Withdraw({})
    BY <1>1, <2>1 DEF Withdraw, KeysTypeOK, SessionsTypeOK
  <2>2. CASE PutCapabilities
    BY <1>1, <2>2 DEF PutCapabilities, KeysTypeOK, SessionsTypeOK
  <2>3. CASE Expire
    BY <1>1, <2>3 DEF Expire, KeysTypeOK, SessionsTypeOK
  <2>4. CASE \E f \in {"grants", "disconnect"} : Publish(f)
    BY <1>1, <2>4 DEF Publish, KeysTypeOK, SessionsTypeOK
  <2> QED
    BY <1>2, <2>1, <2>2, <2>3, <2>4
<1>3. ASSUME NEW c \in Conn, Dial(c) \/ HangUp(c) \/ Desync(c) \/ SendFrame(c)
      PROVE  KeysTypeOK' /\ SessionsTypeOK'
  BY <1>1, <1>3 DEF Dial, HangUp, Desync, SendFrame, KeysTypeOK, SessionsTypeOK
<1>4. ASSUME NEW c \in Conn,
             AcceptHello(c) \/ MarkPresenceConnected(c) \/ RegisterAgentConnection(c)
             \/ Subscribe(c) \/ RefreshPresence(c) \/ Poll(c)
             \/ ClaimControlFrame(c) \/ Deregister(c) \/ MarkPresenceDisconnected(c)
      PROVE  KeysTypeOK' /\ SessionsTypeOK'
  BY <1>1, <1>4 DEF AcceptHello, MarkPresenceConnected, RegisterAgentConnection,
                    Subscribe, RefreshPresence, Poll, Leave, ClaimControlFrame, Deregister,
                    MarkPresenceDisconnected, KeysTypeOK, SessionsTypeOK, Listening, Greeting, Releasing
<1>5. ASSUME NEW c \in Conn, SendHelloPhase(c) PROVE KeysTypeOK' /\ SessionsTypeOK'
  BY <1>1, <1>5 DEF SendHelloPhase, KeysTypeOK, SessionsTypeOK, Greeting, Releasing
<1>6. ASSUME NEW c \in Conn, SendControlFrame(c) PROVE KeysTypeOK' /\ SessionsTypeOK'
  <2> DEFINE Frame == {"grants", "disconnect"} \X Nat
  <2>1. queue[c] \in Seq(Frame) /\ queue[c] # <<>>
    BY <1>6 DEF TypeOK, SendControlFrame
  <2> HIDE DEF Frame
  <2>2. Head(queue[c]) \in Frame
    BY <2>1
  <2>3. Head(queue[c])[2] \in Nat
    BY <2>2 DEF Frame
  <2> QED
    BY <1>1, <1>6, <2>3 DEF SendControlFrame, Leave, KeysTypeOK, SessionsTypeOK, Releasing
<1>7. ASSUME NEW c \in Conn, Receive(c) PROVE KeysTypeOK' /\ SessionsTypeOK'
  <2>1. CASE c \notin desynced /\ ~active
    BY <1>1, <1>7, <2>1 DEF Receive, Leave, KeysTypeOK, SessionsTypeOK, Releasing
  <2>2. CASE ~(c \notin desynced /\ ~active)
    BY <1>1, <1>7, <2>2 DEF Receive, KeysTypeOK, SessionsTypeOK, Listening
  <2> QED
    BY <2>1, <2>2
<1> QED
  BY <1>2, <1>3, <1>4, <1>5, <1>6, <1>7 DEF Next, Session

----------------------------------------------------------------------------
(* The connection key.                                                        *)

\* Steps of operators, of the agent, and the expiry of the keys.
LEMMA OutsideKeeps ==
  ASSUME IInv,
         \/ Withdraw({"disconnect"}) \/ Withdraw({}) \/ PutCapabilities \/ Expire
         \/ \E f \in {"grants", "disconnect"} : Publish(f)
         \/ \E c \in Conn : Dial(c) \/ HangUp(c) \/ Desync(c) \/ SendFrame(c)
  PROVE  RegistryInv'
<1> USE SessionAssumption DEF row, redis, sessions, agent, RegistryInv
<1>1. TypeOK /\ RegistryInv
  BY DEF IInv
<1>2. CASE \/ Withdraw({"disconnect"}) \/ Withdraw({}) \/ PutCapabilities
           \/ \E f \in {"grants", "disconnect"} : Publish(f)
           \/ \E c \in Conn : HangUp(c) \/ Desync(c) \/ SendFrame(c)
  BY <1>1, <1>2 DEF Withdraw, PutCapabilities, Publish, HangUp, Desync, SendFrame, OwnerWrote,
                    WriterPast, NoStaleOwner, RegistryKept
\* The key expires only when every session that could hold it has lost its peer.
<1>3. CASE Expire
  <2>1. RegistryKept'
    BY <1>1, <1>3 DEF Expire, TypeOK, WriterPast, RegistryKept
  <2> QED
    BY <1>1, <1>3, <2>1 DEF Expire, OwnerWrote, WriterPast, NoStaleOwner
<1>4. ASSUME NEW c \in Conn, Dial(c) PROVE RegistryInv'
  <2>1. c # writer /\ c # owner
    BY <1>1, <1>4 DEF Dial, WriterPast, OwnerWrote
  <2> QED
    BY <1>1, <1>4, <2>1 DEF Dial, TypeOK, OwnerWrote, WriterPast, NoStaleOwner, RegistryKept
<1> QED
  BY <1>2, <1>3, <1>4

\* Steps of a session: whatever overlaps it, its teardown deletes the key only
\* when it wrote it last.
LEMMA SessionKeeps ==
  ASSUME IInv, NEW c \in Conn, Session(c)
  PROVE  RegistryInv'
<1> USE SessionAssumption DEF row, redis, sessions, agent, RegistryInv
<1>1. TypeOK /\ RegistryInv
  BY DEF IInv
<1> USE DEF OwnerWrote, WriterPast, NoStaleOwner, RegistryKept
<1>2. CASE AcceptHello(c)
  <2>1. c # writer /\ c # owner
    BY <1>1, <1>2 DEF AcceptHello
  <2> QED
    BY <1>1, <1>2, <2>1 DEF AcceptHello, TypeOK
<1>3. CASE MarkPresenceConnected(c)
  <2>1. c # writer /\ c # owner
    BY <1>1, <1>3 DEF MarkPresenceConnected
  <2> QED
    BY <1>1, <1>3, <2>1 DEF MarkPresenceConnected, TypeOK
<1>4. CASE RegisterAgentConnection(c)
  BY <1>1, <1>4 DEF RegisterAgentConnection, TypeOK, Releasing
<1>5. CASE SendHelloPhase(c)
  BY <1>1, <1>5 DEF SendHelloPhase, TypeOK, Releasing
<1>6. CASE Subscribe(c)
  BY <1>1, <1>6 DEF Subscribe, TypeOK, Releasing, Listening
<1>7. CASE ClaimControlFrame(c) \/ SendControlFrame(c)
  <2>1. CASE ClaimControlFrame(c)
    BY <1>1, <2>1 DEF ClaimControlFrame
  <2>2. CASE SendControlFrame(c)
    <3>1. /\ pc[c] = "live"
          /\ UNCHANGED pc \/ pc' = [pc EXCEPT ![c] = "deregister"]
          /\ UNCHANGED <<redis, open, desynced>>
      BY <2>2 DEF SendControlFrame, Leave
    <3> QED
      BY <1>1, <3>1 DEF TypeOK, Releasing, Listening
  <2> QED
    BY <1>7, <2>1, <2>2
<1>8. CASE Receive(c)
  <2>1. CASE c \notin desynced /\ ~active
    BY <1>1, <1>8, <2>1 DEF Receive, Leave, TypeOK, Releasing, Listening
  <2>2. CASE ~(c \notin desynced /\ ~active)
    BY <1>1, <1>8, <2>2 DEF Receive, TypeOK, Releasing, Listening
  <2> QED
    BY <2>1, <2>2
<1>9. CASE RefreshPresence(c)
  BY <1>1, <1>9 DEF RefreshPresence, TypeOK, Releasing, Listening
<1>10. CASE Poll(c)
  BY <1>1, <1>10 DEF Poll, Leave, TypeOK, Releasing, Listening
<1>11. CASE Deregister(c)
  BY <1>1, <1>11 DEF Deregister, TypeOK, Releasing, Listening
<1>12. CASE MarkPresenceDisconnected(c)
  <2>1. c # owner
    BY <1>1, <1>12 DEF MarkPresenceDisconnected, Listening
  <2> QED
    BY <1>1, <1>12, <2>1 DEF MarkPresenceDisconnected, TypeOK, Releasing
<1> QED
  BY <1>2, <1>3, <1>4, <1>5, <1>6, <1>7, <1>8, <1>9, <1>10, <1>11, <1>12 DEF Session

\* Every step preserves the invariant.
LEMMA NextIInv == IInv /\ [Next]_vars => IInv'
<1> SUFFICES ASSUME IInv, [Next]_vars PROVE IInv'
  OBVIOUS
<1>1. CASE UNCHANGED vars
  BY <1>1 DEF vars, row, redis, sessions, agent, IInv, TypeOK, RegistryInv, OwnerWrote,
              WriterPast, NoStaleOwner, RegistryKept
<1>2. CASE Next
  <2>1. KeysTypeOK' /\ SessionsTypeOK' /\ QueuesTypeOK'
    BY <1>2, KeysType, QueuesType DEF IInv
  <2>2. TypeOK'
    BY <2>1 DEF TypeOK, KeysTypeOK, SessionsTypeOK, QueuesTypeOK
  <2>3. RegistryInv'
    BY <1>2, OutsideKeeps, SessionKeeps DEF Next
  <2> QED
    BY <2>2, <2>3 DEF IInv
<1> QED
  BY <1>1, <1>2

----------------------------------------------------------------------------
(* Theorems.                                                                  *)

\* The inductive invariant holds throughout.
THEOREM RegistryInvariant == Spec => []IInv
BY InitIInv, NextIInv, PTL DEF Spec

\* The row, the keys, the sessions and their queues keep their types.
THEOREM TypeCorrect == Spec => []TypeOK
<1>1. IInv => TypeOK
  BY DEF IInv
<1> QED
  BY <1>1, RegistryInvariant, PTL

\* However the sessions of an agent overlap, the teardown of one does not take
\* the connection key from the one that wrote it last and can read an open socket.
THEOREM RegistryAlwaysKept == Spec => []RegistryKept
<1>1. IInv => RegistryKept
  BY DEF IInv, RegistryInv
<1> QED
  BY <1>1, RegistryInvariant, PTL

\* The connection key never names a session that has been torn down, or one that
\* has not registered: a control frame is claimed by a session that can send it.
THEOREM OwnerNeverStale == Spec => []NoStaleOwner
<1>1. IInv => NoStaleOwner
  BY DEF IInv, RegistryInv
<1> QED
  BY <1>1, RegistryInvariant, PTL
============================================================================

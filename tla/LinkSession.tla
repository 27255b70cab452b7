---------------------------- MODULE LinkSession ----------------------------
(* The server's view of one agent's connections.  Every accepted /link socket *)
(* is a session of its own coroutine, possibly in another worker process; the *)
(* sessions of an agent that reconnects, or whose `cb-agent uninstall` opens  *)
(* a second socket, overlap.  They share the agent's row and two Redis keys:  *)
(* the presence key, which the fleet view reads, and the connection key,      *)
(* which names the session that may claim control frames.  Operators change   *)
(* the row and publish control frames, which reach the listening sessions     *)
(* only (Redis pub/sub keeps nothing).                                        *)
EXTENDS Naturals, Sequences, FiniteSets

CONSTANTS
  Conn,          \* sockets the agent opens, numbers in the order of dialling
  Notifier,      \* those opened by `cb-agent uninstall`, at any time
  None,          \* no session
  MaxPut,        \* bound: capability edits
  MaxOverlap     \* bound: sessions of the agent at one time

ASSUME SessionAssumption ==
  /\ Conn \subseteq Nat /\ Notifier \subseteq Conn
  /\ None \notin Conn
  /\ MaxPut \in Nat /\ MaxOverlap \in Nat

VARIABLES
  \* the agent's row
  active,        \* status is "active", not revoked, rejected or deleted
  grants,        \* version of its capability grants
  \* Redis
  presence,      \* the presence key exists
  owner,         \* value of the connection key, or None
  \* sessions
  pc,            \* where link_stream is, per socket
  snap,          \* the grants a session read with its hello
  control,       \* control frames published while the session listened
  queue,         \* those its listener claimed for link_stream to send
  inbox,         \* frames the agent sent on the socket, not yet received
  \* the agent
  open,          \* sockets the agent still holds open
  desynced,      \* those whose frames the server cannot decrypt any more
  applied,       \* grants the agent runs with
  \* operators
  publishing,    \* frames that committed requests have yet to publish
  \* ghost
  writer         \* last session to write the connection key

row == <<active, grants>>
redis == <<presence, owner, writer>>
sessions == <<pc, snap, control, queue, inbox>>
agent == <<open, desynced, applied>>
vars == <<row, redis, sessions, agent, publishing>>

\* link_stream in its loop.
Listening == {"live", "beat"}
\* link_stream between the hello's commit and the loop.
Greeting == {"hello", "present", "registered", "acked"}
\* _release_link_connection, and after it.
Releasing == {"deregister", "absent", "closed"}

\* An approved agent that has not connected yet (approve_agent).
Init ==
  /\ active = TRUE /\ grants = 1
  /\ presence = FALSE /\ owner = None /\ writer = None
  /\ pc = [c \in Conn |-> "new"]
  /\ snap = [c \in Conn |-> 0]
  /\ control = [c \in Conn |-> <<>>]
  /\ queue = [c \in Conn |-> <<>>]
  /\ inbox = [c \in Conn |-> <<>>]
  /\ open = {} /\ desynced = {} /\ applied = 0
  /\ publishing = {}

TypeOK ==
  /\ active \in BOOLEAN /\ presence \in BOOLEAN
  /\ grants \in Nat /\ applied \in Nat
  /\ owner \in Conn \cup {None} /\ writer \in Conn \cup {None}
  /\ pc \in [Conn -> Listening \cup Greeting \cup Releasing \cup {"new", "dialed"}]
  /\ snap \in [Conn -> Nat]
  /\ control \in [Conn -> Seq({"grants", "disconnect"} \X Nat)]
  /\ queue \in [Conn -> Seq({"grants", "disconnect"} \X Nat)]
  /\ inbox \in [Conn -> Seq({"heartbeat", "uninstall"})]
  /\ open \subseteq Conn /\ desynced \subseteq Conn
  /\ publishing \subseteq {"grants", "disconnect"}

----------------------------------------------------------------------------
(* Operators                                                                  *)

\* post_revoke, post_reject: commit the status and publish `disconnect` after
\* that; delete_agent publishes nothing.
Withdraw(frames) ==
  /\ active
  /\ active' = FALSE
  /\ publishing' = publishing \cup frames
  /\ UNCHANGED <<grants, redis, sessions, agent>>

\* put_capabilities commits an edit; it publishes the committed set after that.
PutCapabilities ==
  /\ active /\ grants <= MaxPut /\ "grants" \notin publishing
  /\ grants' = grants + 1
  /\ publishing' = publishing \cup {"grants"}
  /\ UNCHANGED <<active, redis, sessions, agent>>

\* publish_agent_control_frame: the sessions subscribed at this moment get it.
Publish(frame) ==
  /\ frame \in publishing
  /\ publishing' = publishing \ {frame}
  /\ control' = [c \in Conn |-> IF pc[c] \in Listening
                                THEN Append(control[c], <<frame, grants>>)
                                ELSE control[c]]
  /\ UNCHANGED <<row, redis, pc, snap, queue, inbox, agent>>

----------------------------------------------------------------------------
(* The agent                                                                  *)

\* The daemon holds one socket at a time; uninstall's notifier is a second.
Dial(c) ==
  /\ pc[c] = "new"
  /\ Cardinality({d \in Conn : pc[d] \notin {"new", "closed"}}) < MaxOverlap
  /\ c \notin Notifier => /\ open \subseteq Notifier
                         /\ \A d \in Conn \ Notifier : d < c => pc[d] # "new"
  /\ pc' = [pc EXCEPT ![c] = "dialed"]
  /\ open' = open \cup {c}
  /\ UNCHANGED <<row, redis, snap, control, queue, inbox, desynced, applied, publishing>>

\* The socket is gone for the agent; the server may not notice for a while.
HangUp(c) ==
  /\ c \in open
  /\ open' = open \ {c}
  /\ UNCHANGED <<row, redis, sessions, desynced, applied, publishing>>

\* The two ciphers of a socket fall out of step (a rekey missed, a frame
\* damaged): nothing the agent sends on it decrypts from now on.
Desync(c) ==
  /\ c \in open \ desynced /\ pc[c] \in Listening
  /\ desynced' = desynced \cup {c}
  /\ UNCHANGED <<row, redis, sessions, open, applied, publishing>>

\* Heartbeats and the notifier's one frame go out once hello.ack was accepted.
\* What a socket out of step sends has no effect (see Receive), and is left out.
SendFrame(c) ==
  /\ c \in open \ desynced /\ pc[c] \in Listening /\ inbox[c] = <<>>
  /\ inbox' = [inbox EXCEPT ![c] = <<IF c \in Notifier THEN "uninstall"
                                     ELSE "heartbeat">>]
  /\ UNCHANGED <<row, redis, pc, snap, control, queue, agent, publishing>>

----------------------------------------------------------------------------
(* link_stream: the hello                                                     *)

\* The hello's transaction: an agent that is not active is turned away; for
\* one that is, the grants are read and "connected" is recorded.
AcceptHello(c) ==
  /\ pc[c] = "dialed"
  /\ IF active
     THEN /\ pc' = [pc EXCEPT ![c] = "hello"]
          /\ snap' = [snap EXCEPT ![c] = grants]
          /\ UNCHANGED open
     ELSE /\ pc' = [pc EXCEPT ![c] = "closed"]
          /\ open' = open \ {c}
          /\ UNCHANGED snap
  /\ UNCHANGED <<row, redis, control, queue, inbox, desynced, applied, publishing>>

MarkPresenceConnected(c) ==
  /\ pc[c] = "hello"
  /\ presence' = TRUE
  /\ pc' = [pc EXCEPT ![c] = "present"]
  /\ UNCHANGED <<row, owner, writer, snap, control, queue, inbox, agent, publishing>>

RegisterAgentConnection(c) ==
  /\ pc[c] = "present"
  /\ owner' = c /\ writer' = c
  /\ pc' = [pc EXCEPT ![c] = "registered"]
  /\ UNCHANGED <<row, presence, snap, control, queue, inbox, agent, publishing>>

\* hello.ack and capabilities.set; a peer that is gone ends the session.
SendHelloPhase(c) ==
  /\ pc[c] = "registered"
  /\ IF c \in open
     THEN /\ pc' = [pc EXCEPT ![c] = "acked"]
          /\ applied' = IF c \in Notifier THEN applied ELSE snap[c]
     ELSE /\ pc' = [pc EXCEPT ![c] = "deregister"]
          /\ UNCHANGED applied
  /\ snap' = [snap EXCEPT ![c] = 0]
  /\ UNCHANGED <<row, redis, control, queue, inbox, open, desynced, publishing>>

\* _run_control_frame_listener subscribes.
Subscribe(c) ==
  /\ pc[c] = "acked"
  /\ pc' = [pc EXCEPT ![c] = "live"]
  /\ UNCHANGED <<row, redis, snap, control, queue, inbox, agent, publishing>>

----------------------------------------------------------------------------
(* link_stream: the loop                                                      *)

\* link_stream's `finally`: the listener and the pending receive are cancelled,
\* and with them goes what they had not handled.
Leave(c) ==
  /\ pc' = [pc EXCEPT ![c] = "deregister"]
  /\ control' = [control EXCEPT ![c] = <<>>]
  /\ queue' = [queue EXCEPT ![c] = <<>>]
  /\ inbox' = [inbox EXCEPT ![c] = <<>>]

\* claim_agent_control_frames, in the listener's task: a frame counts only for
\* the session that owns the connection at this moment; others drop it.
ClaimControlFrame(c) ==
  /\ pc[c] \in Listening /\ control[c] # <<>>
  /\ control' = [control EXCEPT ![c] = Tail(@)]
  /\ queue' = IF owner = c THEN [queue EXCEPT ![c] = Append(@, Head(control[c]))]
              ELSE queue
  /\ UNCHANGED <<row, redis, pc, snap, inbox, agent, publishing>>

\* link_stream sends what was claimed, whoever owns the connection by now, and
\* leaves after a `disconnect` or when the peer is gone.
SendControlFrame(c) ==
  /\ pc[c] = "live" /\ queue[c] # <<>>
  /\ LET frame == Head(queue[c])
     IN /\ applied' = IF c \in open \ Notifier /\ frame[1] = "grants"
                      THEN frame[2] ELSE applied
        /\ IF c \notin open \/ frame[1] = "disconnect"
           THEN Leave(c)
           ELSE /\ queue' = [queue EXCEPT ![c] = Tail(@)]
                /\ UNCHANGED <<pc, control, inbox>>
  /\ UNCHANGED <<row, redis, snap, open, desynced, publishing>>

\* A frame that does not decrypt is dropped before anything is read.  For every
\* other the row is read again: an agent no longer active loses its socket.  A
\* heartbeat renews the connection key, an uninstall revokes.
Receive(c) ==
  /\ pc[c] = "live" /\ inbox[c] # <<>>
  /\ IF c \notin desynced /\ ~active
     THEN Leave(c) /\ UNCHANGED <<active, owner, writer>>
     ELSE /\ inbox' = [inbox EXCEPT ![c] = Tail(@)]
          /\ UNCHANGED <<control, queue>>
          /\ CASE c \in desynced ->
                    UNCHANGED <<pc, active, owner, writer>>
               [] c \notin desynced /\ Head(inbox[c]) = "heartbeat" ->
                    /\ owner' = c /\ writer' = c
                    /\ pc' = [pc EXCEPT ![c] = "beat"]
                    /\ UNCHANGED active
               [] OTHER ->
                    active' = FALSE /\ UNCHANGED <<pc, owner, writer>>
  /\ UNCHANGED <<grants, presence, snap, agent, publishing>>

\* Mutant: the heartbeat only extends the presence key's life.
RefreshPresence_ExpireOnly(c) ==
  /\ pc[c] = "beat"
  /\ pc' = [pc EXCEPT ![c] = "live"]
  /\ UNCHANGED <<row, redis, snap, control, queue, inbox, agent, publishing>>

\* _handle_heartbeat, dispatched after it: refresh_presence_heartbeat.
RefreshPresence(c) ==
  /\ pc[c] = "beat"
  /\ presence' = TRUE
  /\ pc' = [pc EXCEPT ![c] = "live"]
  /\ UNCHANGED <<row, owner, writer, snap, control, queue, inbox, agent, publishing>>

\* Mutant: the poll looks at the row only.
Poll_RowOnly(c) ==
  /\ pc[c] = "live" /\ inbox[c] = <<>> /\ queue[c] = <<>>
  /\ ~active
  /\ Leave(c)
  /\ UNCHANGED <<row, redis, snap, agent, publishing>>

\* Mutant: the poll only notices a closed socket.
Poll_ClosedOnly(c) ==
  /\ pc[c] = "live" /\ inbox[c] = <<>> /\ queue[c] = <<>>
  /\ c \notin open
  /\ Leave(c)
  /\ UNCHANGED <<row, redis, snap, agent, publishing>>

\* Nothing arrived for a poll interval: leave when the agent is not active any
\* more, when the socket turns out closed, or when no heartbeat has been read from
\* it for _LINK_DEAD_SECONDS.
Poll(c) ==
  /\ pc[c] = "live" /\ inbox[c] = <<>> /\ queue[c] = <<>>
  /\ ~active \/ c \notin open \/ c \in desynced
  /\ Leave(c)
  /\ UNCHANGED <<row, redis, snap, agent, publishing>>

----------------------------------------------------------------------------
(* _release_link_connection                                                   *)

\* Mutant: the key is deleted whoever it names.
Deregister_Unconditional(c) ==
  /\ pc[c] = "deregister"
  /\ owner' = None
  /\ open' = open \ {c} /\ desynced' = desynced \ {c}
  /\ pc' = [pc EXCEPT ![c] = "absent"]
  /\ UNCHANGED <<row, presence, writer, snap, control, queue, inbox, applied, publishing>>

\* Compare-and-delete of the connection key; the socket is closed.
Deregister(c) ==
  /\ pc[c] = "deregister"
  /\ owner' = IF owner = c THEN None ELSE owner
  /\ open' = open \ {c} /\ desynced' = desynced \ {c}
  /\ pc' = [pc EXCEPT ![c] = "absent"]
  /\ UNCHANGED <<row, presence, writer, snap, control, queue, inbox, applied, publishing>>

\* The presence key is deleted whoever wrote it; "disconnected" is recorded.
MarkPresenceDisconnected(c) ==
  /\ pc[c] = "absent"
  /\ presence' = FALSE
  /\ pc' = [pc EXCEPT ![c] = "closed"]
  /\ UNCHANGED <<row, owner, writer, snap, control, queue, inbox, agent, publishing>>

\* A key no session has renewed for three heartbeats expires.
Expire ==
  /\ \A c \in Conn : pc[c] \in Greeting \cup Listening => pc[c] = "live" /\ (c \notin open \/ c \in desynced)
  /\ presence \/ owner # None
  /\ presence' = FALSE /\ owner' = None
  /\ UNCHANGED <<row, writer, sessions, agent, publishing>>

----------------------------------------------------------------------------

Session(c) ==
  \/ AcceptHello(c) \/ MarkPresenceConnected(c) \/ RegisterAgentConnection(c)
  \/ SendHelloPhase(c) \/ Subscribe(c) \/ ClaimControlFrame(c) \/ SendControlFrame(c)
  \/ Receive(c) \/ RefreshPresence(c) \/ Poll(c) \/ Deregister(c)
  \/ MarkPresenceDisconnected(c)

Next ==
  \/ Withdraw({"disconnect"}) \/ Withdraw({}) \/ PutCapabilities
  \/ \E f \in {"grants", "disconnect"} : Publish(f)
  \/ \E c \in Conn : Dial(c) \/ HangUp(c) \/ Desync(c) \/ SendFrame(c)
  \/ \E c \in Conn : Session(c)
  \/ Expire

Spec == Init /\ [][Next]_vars

\* Every session's coroutine and its listener are scheduled; an open connection
\* keeps sending heartbeats, further apart than the poll interval, so that quiet
\* moments recur; a request that committed goes on to publish; keys expire.
Fairness ==
  /\ \A c \in Conn : /\ WF_vars(Session(c)) /\ WF_vars(SendFrame(c))
                     /\ WF_vars(ClaimControlFrame(c))
  /\ WF_vars(Publish("grants")) /\ WF_vars(Publish("disconnect"))
  /\ WF_vars(Expire)

FairSpec == Spec /\ Fairness

\* Each turn of the loop takes a claimed control frame before an inbound one.
SendingSpec == FairSpec /\ \A c \in Conn : SF_vars(SendControlFrame(c))

----------------------------------------------------------------------------
(* Properties                                                                 *)

\* A session's teardown does not take the connection key from the session that
\* wrote it last, however the two overlap: as long as that one serves an open
\* socket whose frames it can read, control frames are routed to it.
RegistryKept ==
  writer # None /\ pc[writer] \notin Releasing /\ writer \in open \ desynced
    => owner = writer

Stays(c) == pc[c] \in Listening /\ c \in open /\ active

\* A connected agent is shown online and can be reached: a session that stays
\* ends up owning the connection key, with the presence key set, although the
\* teardown of an older session deletes that key without looking.
OnlineConverges ==
  \A c \in Conn \ Notifier :
    <>[]Stays(c) => <>[](presence /\ owner = c)

\* An agent without a connection ends up offline, with nobody registered and
\* every session torn down.
OfflineConverges ==
  <>[](open = {}) => <>[](/\ ~presence /\ owner = None
                          /\ \A c \in Conn : pc[c] \in {"new", "closed"})

\* An agent that is withdrawn, by an operator or by its own uninstall, loses
\* every connection it has, whichever session owns the key that routes the
\* `disconnect` frame.
WithdrawnIsCutOff == <>[](~active) => <>[](\A c \in Conn : pc[c] \in {"new", "closed"})

\* put_capabilities: "the agent still picks the change up next time it
\* (re)connects or via its own periodic status poll", so an agent that stays
\* connected ends up with the committed grants.
GrantsConverge ==
  \A c \in Conn \ Notifier : <>[]Stays(c) => <>[](applied = grants)
============================================================================

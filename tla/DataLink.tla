------------------------------ MODULE DataLink ------------------------------
(***************************************************************************)
(* Delivery of the agent's data frames over /link, end to end: the spool's *)
(* backlog, the in-flight window of internal/link's dataFrameSender, the   *)
(* connection, the server's receive loop (ws_agents.link_stream) with its  *)
(* acknowledgement watermark, and the table the samples end in.            *)
(*                                                                         *)
(* The spool is the queue of SpoolQueue, which module Spool implements.  A *)
(* frame's number stands for its position in the spool's stream.  Each     *)
(* connection is reliable and in order until one side gives it up; the     *)
(* server may go on reading what an abandoned connection already carried,  *)
(* while the agent re-sends the same frames on the next one.               *)
(***************************************************************************)
EXTENDS SpoolQueue, FiniteSets

CONSTANTS
  CapFrames,    \* the spool's size cap, in frames
  Window,       \* maxInflightFrames
  Burst,        \* drainFramesPerTick
  AckModes,     \* may hello.ack offer data_ack? a set of Booleans
  MaxConn,      \* bound: connections; the last one meets no fault
  MaxSeq,       \* bound: sequence numbers up to which control frames go out
  MaxCrash      \* bound: agent restarts

ASSUME DataLinkAssumption ==
  /\ {CapFrames, Window, Burst, MaxConn} \subseteq Nat \ {0}
  /\ {MaxSeq, MaxCrash} \subseteq Nat
  /\ AckModes \subseteq BOOLEAN

Frame == 1..MaxFrame
Conn == 1..MaxConn
Control == 0                  \* a heartbeat, a status, a rekey: no data
Msg == [seq : Nat, frame : Frame \cup {Control}]
NoMsg == [seq |-> 0, frame |-> Control]

VARIABLES
  \* agent
  cur,        \* number of the agent's latest connection
  conn,       \* that connection: "down", "hello" or "up"
  ackData,    \* whether it negotiated data.ack
  seq,        \* last sequence number it sent
  burst,      \* frames a drain tick peeked and has not written yet
  inflight,   \* data messages written and not acknowledged
  clock,      \* whether unackedSince is set
  \* network
  wire,       \* per connection, messages the server has not read
  acks,       \* data.ack watermarks the agent has not read
  \* server, per connection
  open,       \* whether link_stream's loop runs
  last,       \* LinkSessionState.last_seq
  handled,    \* handled_seq, 0 for None
  acked,      \* acked_seq, 0 for None
  frozen,     \* ack_frozen
  busy,       \* the data message being dispatched, or NoMsg
  saw,        \* whether its dedupe SELECT found a row
  \* server database
  rows,       \* rows stored for each frame
  refused,    \* frames refused for good and counted as such
  \* history and bounds
  onWrite,    \* frames committed on write, without data.ack
  crashes

agentVars  == <<cur, conn, ackData, seq, burst, inflight, clock>>
netVars    == <<wire, acks>>
serverVars == <<open, last, handled, acked, frozen, busy, saw>>
dbVars     == <<rows, refused>>
vars == <<qvars, agentVars, netVars, serverVars, dbVars, onWrite, crashes>>

\* The environment may still disturb connection c.
Faulty(c) == c < MaxConn

-----------------------------------------------------------------------------
Init ==
  /\ QInit
  /\ cur = 0 /\ conn = "down" /\ ackData = FALSE /\ seq = 0
  /\ burst = {} /\ inflight = {} /\ clock = FALSE
  /\ wire = [c \in Conn |-> {}] /\ acks = {}
  /\ open = [c \in Conn |-> FALSE] /\ last = [c \in Conn |-> 0]
  /\ handled = [c \in Conn |-> 0] /\ acked = [c \in Conn |-> 0]
  /\ frozen = [c \in Conn |-> FALSE]
  /\ busy = [c \in Conn |-> NoMsg] /\ saw = [c \in Conn |-> FALSE]
  /\ rows = [f \in Frame |-> 0] /\ refused = {}
  /\ onWrite = {} /\ crashes = 0

-----------------------------------------------------------------------------
(* The producers: Run's enqueue goroutine.                                 *)

\* Spool.Enqueue; at the cap it evicts the oldest frames, in flight or not.
Enqueue ==
  \E S \in SUBSET live :
    /\ produced < MaxFrame
    /\ OldestOf(S, live)
    /\ IF Cardinality(live) < CapFrames THEN S = {} ELSE S # {}
    /\ produced' = produced + 1
    /\ live' = (live \ S) \cup {produced + 1}
    /\ dropped' = dropped \cup S
    /\ UNCHANGED <<released, agentVars, netVars, serverVars, dbVars, onWrite,
                   crashes>>

-----------------------------------------------------------------------------
(* The connection.                                                         *)

\* dialAndHandshake, and hello written as message 1.
Connect ==
  /\ conn = "down"
  /\ cur < MaxConn
  /\ cur' = cur + 1
  /\ conn' = "hello"
  /\ seq' = 1
  /\ open' = [open EXCEPT ![cur + 1] = TRUE]
  /\ last' = [last EXCEPT ![cur + 1] = 1]
  /\ UNCHANGED <<qvars, ackData, burst, inflight, clock, netVars, handled, acked,
                 frozen, busy, saw, dbVars, onWrite, crashes>>

\* Mutant: the sequence counter starts over at hello.ack.
HelloAck_ResetSeq(mode) ==
  /\ conn = "hello"
  /\ open[cur]
  /\ mode \in AckModes
  /\ conn' = "up"
  /\ ackData' = mode
  /\ seq' = 0
  /\ UNCHANGED <<qvars, cur, burst, inflight, clock, netVars, serverVars, dbVars,
                 onWrite, crashes>>

\* hello.ack arrives and settles how data frames are committed.
HelloAck(mode) ==
  /\ conn = "hello"
  /\ open[cur]
  /\ mode \in AckModes
  /\ conn' = "up"
  /\ ackData' = mode
  /\ UNCHANGED <<qvars, cur, seq, burst, inflight, clock, netVars, serverVars, dbVars,
                 onWrite, crashes>>

\* runOnce returns: the connection's window and stall clock go with it.
Abandon ==
  /\ conn' = "down"
  /\ ackData' = FALSE
  /\ burst' = {}
  /\ inflight' = {}
  /\ clock' = FALSE
  /\ acks' = {}
  /\ UNCHANGED <<cur, seq>>

\* runOnce's select loop is not inside drainBurst.
Idle == conn = "up" /\ burst = {} /\ (ackData \/ inflight = {})

\* A read error, a server's close, a control frame that cannot be written, a
\* failed hello.
Disconnect ==
  /\ conn = "hello" \/ Idle
  /\ Faulty(cur)
  /\ Abandon
  /\ UNCHANGED <<qvars, wire, serverVars, dbVars, onWrite, crashes>>

\* ackStallError: nothing was released for ackStallTimeout.
AckStall ==
  /\ Idle /\ ackData
  /\ inflight # {} \/ live # {}       \* hasBacklog, the drain tick's guard
  /\ clock
  /\ Faulty(cur)
  /\ Abandon
  /\ UNCHANGED <<qvars, wire, serverVars, dbVars, onWrite, crashes>>

\* The agent process dies and reopens its spool.
AgentCrash ==
  /\ crashes < MaxCrash
  /\ Faulty(cur)
  /\ crashes' = crashes + 1
  /\ \E back \in SUBSET (1..produced) : live' = live \cup back
  /\ Abandon
  /\ UNCHANGED <<produced, released, dropped, wire, serverVars, dbVars, onWrite>>

-----------------------------------------------------------------------------
(* The agent's drain.                                                      *)

Transmit(f) ==
  /\ seq' = seq + 1
  /\ wire' = [wire EXCEPT ![cur] = @ \cup {[seq |-> seq + 1, frame |-> f]}]

\* Mutant: commit by count from the head instead of by position.
CommitThrough_Count(S) ==
  /\ live' = {g \in live : Cardinality({h \in live : h < g}) >= Cardinality(S)}
  /\ released' = released \cup S

\* CommitThrough: everything up to the newest frame of S leaves the backlog.
CommitThrough(S) ==
  /\ live' = {g \in live : \A f \in S : g > f}
  /\ released' = released \cup S

\* dropEvicted: in-flight entries older than the backlog's head are forgotten.
Pruned == {e \in inflight : \E g \in live : e.frame >= g}

\* The frames PeekAt(nextSendPos) may return.
Unsent == {f \in live : \A e \in Pruned : f > e.frame}

Least(f, S) == f \in S /\ \A g \in S : f <= g

\* budgetFrames, and a byte budget that may cut a burst short but, with
\* nothing in flight, not to nothing.
Budgeted(B) ==
  /\ Cardinality(B) <= Burst
  /\ ackData => Cardinality(Pruned) + Cardinality(B) <= Window
  /\ B = {} => Unsent = {} \/ Pruned # {}

\* A drain tick prunes the window and peeks the frames it will send.  (With
\* commit-on-write the window is empty here, and Unsent is the backlog.)
DrainTick(B) ==
  /\ Idle
  /\ OldestOf(B, Unsent)
  /\ Budgeted(B)
  /\ burst' = B
  /\ inflight' = Pruned
  /\ UNCHANGED <<qvars, cur, conn, ackData, seq, clock, netVars, serverVars,
                 dbVars, onWrite, crashes>>

\* Mutant: the stall clock is never started.
SendBurst_NoClock(f) ==
  /\ Least(f, burst)
  /\ Transmit(f)
  /\ burst' = burst \ {f}
  /\ inflight' = inflight \cup {[seq |-> seq + 1, frame |-> f]}
  /\ UNCHANGED <<qvars, cur, conn, ackData, clock, acks, serverVars, dbVars,
                 onWrite, crashes>>

\* The next frame of the burst is written.  Enqueue may have evicted it since
\* the peek.
SendBurst(f) ==
  /\ Least(f, burst)
  /\ Transmit(f)
  /\ burst' = burst \ {f}
  /\ inflight' = inflight \cup {[seq |-> seq + 1, frame |-> f]}
  /\ clock' = (clock \/ ackData)
  /\ UNCHANGED <<qvars, cur, conn, ackData, acks, serverVars, dbVars, onWrite,
                 crashes>>

\* What drainCommitOnWrite commits: the frames the socket accepted.
Written == IF ackData THEN {} ELSE {e.frame : e \in inflight}

\* The end of drainCommitOnWrite: commit, by position, what was sent.
CommitOnWrite ==
  /\ conn = "up" /\ ~ackData
  /\ burst = {} /\ inflight # {}
  /\ CommitThrough(Written)
  /\ onWrite' = onWrite \cup Written
  /\ inflight' = {}
  /\ UNCHANGED <<produced, dropped, cur, conn, ackData, seq, burst, clock,
                 netVars, serverVars, dbVars, crashes>>

\* A write of the burst fails: without data.ack the successes are committed,
\* with it nothing is, and the connection ends.
WriteError ==
  /\ burst # {}
  /\ Faulty(cur)
  /\ CommitThrough(Written)
  /\ onWrite' = onWrite \cup Written
  /\ Abandon
  /\ UNCHANGED <<produced, dropped, wire, serverVars, dbVars, crashes>>

\* A heartbeat or another control frame; it shares the sequence.  An
\* update.status does not wait for hello.ack.
SendControl ==
  /\ conn = "hello" \/ Idle
  /\ seq < MaxSeq
  /\ Transmit(Control)
  /\ UNCHANGED <<qvars, cur, conn, ackData, burst, inflight, clock, acks,
                 serverVars, dbVars, onWrite, crashes>>

\* Mutant: an acknowledgement restarts the clock even when nothing is left.
ClockAfterAck_Always(rest) == TRUE

\* The stretch restarts for what is still outstanding, and ends with the last.
ClockAfterAck(rest) == rest # {}

\* onDataAck, for the oldest watermark waiting.
OnDataAck(w) ==
  LET done == {e \in inflight : e.seq <= w}
  IN
  /\ Idle
  /\ Least(w, acks)
  /\ acks' = acks \ {w}
  /\ IF done = {}
     THEN UNCHANGED <<live, released, inflight, clock>>
     ELSE /\ inflight' = inflight \ done
          /\ clock' = ClockAfterAck(inflight \ done)
          /\ CommitThrough({e.frame : e \in done})
  /\ UNCHANGED <<produced, dropped, cur, conn, ackData, seq, burst, wire,
                 serverVars, dbVars, onWrite, crashes>>

-----------------------------------------------------------------------------
(* The server's receive loop.                                              *)

Reads(c, m) ==
  /\ open[c]
  /\ busy[c] = NoMsg
  /\ m \in wire[c]
  /\ \A n \in wire[c] : m.seq <= n.seq
  /\ wire' = [wire EXCEPT ![c] = @ \ {m}]

\* note_handled
NoteHandled(c, n) ==
  handled' = [handled EXCEPT ![c] = IF n <= @ THEN @ ELSE n]

\* Mutant: an unreadable frame is skipped and acknowledgement goes on.
ReadGarbled_NoFreeze(c, m) ==
  /\ Faulty(c)
  /\ Reads(c, m)
  /\ UNCHANGED <<qvars, agentVars, acks, serverVars, dbVars, onWrite, crashes>>

\* A frame that cannot be decrypted or parsed freezes acknowledgement.
ReadGarbled(c, m) ==
  /\ Faulty(c)
  /\ Reads(c, m)
  /\ frozen' = [frozen EXCEPT ![c] = TRUE]
  /\ UNCHANGED <<qvars, agentVars, acks, open, last, handled, acked, busy, saw,
                 dbVars, onWrite, crashes>>

\* receive_frame_receipt refuses a replayed or decreasing sequence number,
\* terminally; dispatch_frame handles a control frame at once.  (Its third
\* terminal refusal, of another protocol version, cannot happen between these two
\* ends: sendDataFrame stamps every frame with the one version there is.)
ReadControl(c, m) ==
  /\ Reads(c, m)
  /\ m.frame = Control \/ m.seq <= last[c]
  /\ last' = [last EXCEPT ![c] = IF m.seq <= @ THEN @ ELSE m.seq]
  /\ NoteHandled(c, m.seq)
  /\ UNCHANGED <<qvars, agentVars, acks, open, acked, frozen, busy, saw,
                 dbVars, onWrite, crashes>>

\* dispatch_frame starts on a data frame: the handler's dedupe SELECT.
ReadData(c, m) ==
  /\ Reads(c, m)
  /\ m.frame # Control /\ m.seq > last[c]
  /\ last' = [last EXCEPT ![c] = m.seq]
  /\ busy' = [busy EXCEPT ![c] = m]
  /\ saw' = [saw EXCEPT ![c] = rows[m.frame] > 0]
  /\ UNCHANGED <<qvars, agentVars, acks, open, handled, acked, frozen, dbVars,
                 onWrite, crashes>>

Finish(c) ==
  /\ busy[c] # NoMsg
  /\ NoteHandled(c, busy[c].seq)
  /\ busy' = [busy EXCEPT ![c] = NoMsg]
  /\ UNCHANGED <<qvars, agentVars, netVars, open, last, acked, frozen, saw,
                 onWrite, crashes>>

\* Mutant: only the SELECT guards the insert.
Store_NoUnique(c) ==
  /\ Finish(c)
  /\ rows' = IF saw[c] THEN rows ELSE [rows EXCEPT ![busy[c].frame] = @ + 1]
  /\ UNCHANGED refused

\* ingest_host_sample inserts the row unless the SELECT, or the unique
\* constraint against a writer that came in between, found it stored.
Store(c) ==
  /\ Finish(c)
  /\ rows' = IF saw[c] \/ rows[busy[c].frame] > 0 THEN rows
             ELSE [rows EXCEPT ![busy[c].frame] = @ + 1]
  /\ UNCHANGED refused

\* The capability is withheld or the payload invalid: counted, and over.
RefuseFrame(c) ==
  /\ Finish(c)
  /\ refused' = refused \cup {busy[c].frame}
  /\ UNCHANGED rows

\* flush_data_ack; its coalescing only chooses when.  (What a session sends
\* to a connection the agent gave up is read by nobody.)
FlushAck(c) ==
  /\ c = cur /\ conn = "up" /\ ackData
  /\ open[c] /\ busy[c] = NoMsg
  /\ ~frozen[c]
  /\ handled[c] > acked[c]
  /\ acked' = [acked EXCEPT ![c] = handled[c]]
  /\ acks' = acks \cup {handled[c]}
  /\ UNCHANGED <<qvars, agentVars, wire, open, last, handled, frozen, busy, saw,
                 dbVars, onWrite, crashes>>

\* The session ends: an exception out of dispatch_frame, the dead-link
\* deadline, a status flip, a server restart.  What it had not read is lost.
ServerClose(c) ==
  /\ open[c]
  /\ Faulty(c)
  /\ open' = [open EXCEPT ![c] = FALSE]
  /\ busy' = [busy EXCEPT ![c] = NoMsg]
  /\ wire' = [wire EXCEPT ![c] = {}]
  /\ UNCHANGED <<qvars, agentVars, acks, last, handled, acked, frozen, saw,
                 dbVars, onWrite, crashes>>

-----------------------------------------------------------------------------
Server(c) ==
  \/ \E m \in wire[c] : ReadGarbled(c, m) \/ ReadControl(c, m) \/ ReadData(c, m)
  \/ Store(c) \/ RefuseFrame(c) \/ FlushAck(c) \/ ServerClose(c)

Next ==
  \/ Enqueue \/ Connect \/ Disconnect \/ AckStall \/ AgentCrash
  \/ \E mode \in BOOLEAN : HelloAck(mode)
  \/ \E B \in SUBSET live : DrainTick(B)
  \/ \E f \in burst : SendBurst(f)
  \/ CommitOnWrite \/ WriteError \/ SendControl
  \/ \E w \in acks : OnDataAck(w)
  \/ \E c \in Conn : Server(c)

Spec == Init /\ [][Next]_vars

\* Fairness: the agent's select loop and reconnect loop, and the server's
\* receive loop, take the steps that stay possible; faults need not happen.
Fairness ==
  /\ WF_vars(Connect)
  /\ WF_vars(\E mode \in BOOLEAN : HelloAck(mode))
  /\ WF_vars(\E B \in SUBSET live : DrainTick(B))
  /\ WF_vars(\E f \in burst : SendBurst(f))
  /\ WF_vars(CommitOnWrite)
  /\ WF_vars(\E w \in acks : OnDataAck(w))
  /\ WF_vars(AckStall)
  /\ WF_vars(conn = "hello" /\ Disconnect)
  /\ \A c \in Conn :
       /\ WF_vars(\E m \in wire[c] : ReadControl(c, m) \/ ReadData(c, m))
       /\ WF_vars(Store(c) \/ RefuseFrame(c))
       /\ WF_vars(FlushAck(c))

FairSpec == Spec /\ Fairness

-----------------------------------------------------------------------------
(* Properties.                                                             *)

QueueTypeOK ==
  /\ produced \in 0..MaxFrame
  /\ live \subseteq 1..produced
  /\ released \subseteq 1..produced
  /\ dropped \subseteq 1..produced

AgentTypeOK ==
  /\ cur \in 0..MaxConn
  /\ conn \in {"down", "hello", "up"}
  /\ conn # "down" => cur \in Conn
  /\ ackData \in BOOLEAN
  /\ seq \in Nat
  /\ burst \subseteq Frame
  /\ inflight \subseteq [seq : Nat, frame : Frame]
  /\ clock \in BOOLEAN

NetTypeOK ==
  /\ wire \in [Conn -> SUBSET Msg]
  /\ acks \subseteq Nat

ServerTypeOK ==
  /\ open \in [Conn -> BOOLEAN]
  /\ last \in [Conn -> Nat]
  /\ handled \in [Conn -> Nat]
  /\ acked \in [Conn -> Nat]
  /\ frozen \in [Conn -> BOOLEAN]
  /\ busy \in [Conn -> Msg]
  /\ saw \in [Conn -> BOOLEAN]
  /\ rows \in [Frame -> Nat]
  /\ refused \subseteq Frame

\* The variables of both ends and of the connections between them have their
\* types.
TypeOK ==
  /\ QueueTypeOK
  /\ AgentTypeOK
  /\ NetTypeOK
  /\ ServerTypeOK

\* The server is done with frame f for good: stored, or refused and counted.
Settled(f) == rows[f] > 0 \/ f \in refused

\* A frame the agent discards on an acknowledgement was settled by the server:
\* "only onDataAck ... discards them" (outbound.go), whatever was lost, garbled,
\* evicted or re-sent, and on however many connections.
ReleasedIsSettled == \A f \in released \ onWrite : Settled(f)

\* A frame in the spool leaves it only settled, evicted, or, without data.ack,
\* written to the socket: no observation disappears unaccounted for.
NothingUnaccounted ==
  \A f \in 1..produced : f \in live \/ Settled(f) \/ f \in dropped \/ f \in onWrite

\* At-least-once delivery stores each sample at most once, also when an old
\* session and a new one dispatch the same frame at the same time.
StoredOnce == \A f \in Frame : rows[f] <= 1

\* The agent never trips the server's replay guard (receive_frame_receipt):
\* what is on the wire is newer than anything the session accepted.
NoReplayRejects == \A c \in Conn : \A m \in wire[c] : m.seq > last[c]

\* Between drain ticks the ack-stall clock runs exactly while frames are in
\* flight unacknowledged: an idle link is never faulted, a waiting one always
\* will be, also when the cap destroyed what it waited for.
StallClockExact == Idle /\ ackData => (clock <=> inflight # {})

\* When the cap destroyed every frame in flight, the same drain tick has a
\* frame to refill the window with (outbound.go, dropEvicted): the clock never
\* runs against nothing.
PruneRefills ==
  Idle /\ ackData /\ inflight # {} /\ Pruned = {} => Unsent # {}

\* The window holds at most maxInflightFrames frames, and frames travel in
\* spool order: sequence numbers order them the way the backlog does.
WindowOrdered ==
  /\ ackData => Cardinality(inflight) <= Window
  /\ \A d, e \in inflight : d.seq < e.seq => d.frame < e.frame

\* The agent's side of the link behaves as the loss-free queue of SpoolQueue.
ImplementsQueue == QSpec

\* Once faults stop, every buffered frame leaves the spool: a frozen, closed
\* or black-holed session is noticed and everything re-sent.
EveryFrameLeaves == \A f \in Frame : f \in live ~> f \notin live

-----------------------------------------------------------------------------
(* The inductive invariant behind the safety properties, in parts.         *)

\* A connection not yet made has no session; a session hears of messages in
\* the order of their numbers, and dispatches at most the last one it read.
SessionOK(c) ==
  /\ c > cur => wire[c] = {} /\ handled[c] = 0 /\ busy[c] = NoMsg
  /\ handled[c] <= last[c]
  /\ busy[c] # NoMsg => /\ open[c]
                        /\ busy[c].seq = last[c]
                        /\ busy[c].frame \in Frame
  /\ \A m \in wire[c] : m.seq > last[c]
  /\ \A m, n \in wire[c] : m.seq = n.seq => m = n
  /\ c = cur => last[c] <= seq /\ \A m \in wire[c] : m.seq <= seq

SessionInv == \A c \in Conn : SessionOK(c)

\* In flight are the oldest frames of the backlog, in its order: a live frame
\* older than one in flight was itself sent before it.
PrefixInv ==
  /\ \A e \in inflight : e.seq <= seq /\ e.frame <= produced
  /\ \A d, e \in inflight : d.seq = e.seq => d = e
  /\ \A d, e \in inflight : d.seq < e.seq => d.frame < e.frame
  /\ \A e \in inflight, g \in live :
       g <= e.frame => \E d \in inflight : d.frame = g /\ d.seq <= e.seq

\* A burst continues the window without a gap: it is newer than everything in
\* flight, and an older live frame is in the burst or in flight.
BurstInv ==
  /\ burst # {} => conn = "up"
  /\ \A f \in burst : f <= produced /\ \E g \in live : f <= g
  /\ \A f \in burst, e \in inflight : e.frame < f
  /\ \A f \in burst, g \in live :
       g <= f => g \in burst \/ \E d \in inflight : d.frame = g

\* While acknowledgement is not frozen, a message in flight above the
\* watermark is still to be read or being dispatched, and one at or below it
\* is settled; so is one any acknowledgement under way covers.
WatermarkInv ==
  /\ ~frozen[cur] =>
       \A e \in inflight :
         /\ e.seq <= handled[cur] => Settled(e.frame)
         /\ e.seq > handled[cur] /\ open[cur] => e \in wire[cur] \/ e = busy[cur]
  /\ \A w \in acks : w <= seq /\ \A e \in inflight : e.seq <= w => Settled(e.frame)

\* Window and acknowledgements belong to an accepted session, and no frame in
\* flight is newer than the newest live one.
LinkInv ==
  /\ conn # "up" => inflight = {} /\ ~clock /\ acks = {}
  /\ ackData => \A e \in inflight : \E g \in live : e.frame <= g

\* A dispatch whose SELECT found the row may rely on it: rows are not removed
\* from under it.
SeenInv == \A c \in Conn : busy[c] # NoMsg /\ saw[c] => rows[busy[c].frame] > 0

\* Every produced frame is live, released or dropped.
AccountInv == 1..produced \subseteq live \cup released \cup dropped

\* The inductive invariant.
IInv ==
  /\ TypeOK
  /\ SessionInv
  /\ PrefixInv
  /\ BurstInv
  /\ conn = "up" => WatermarkInv
  /\ LinkInv
  /\ SeenInv
  /\ AccountInv
  /\ ReleasedIsSettled

=============================================================================

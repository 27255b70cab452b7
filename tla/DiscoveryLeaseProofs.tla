------------------------ MODULE DiscoveryLeaseProofs ------------------------
(* Proofs of DiscoveryLease's safety, for every number of jobs, dispatchers,   *)
(* link sessions and findings, whatever dies, is cancelled or is replayed.     *)
EXTENDS DiscoveryLease, FiniteSetTheorems, SequenceTheorems, TLAPS

-----------------------------------------------------------------------------
(* The inductive invariant.                                                    *)

\* A dispatcher between its claim and its publication.
Holding(d) == disp[d].pc \in {"claimed", "publish"}

\* A row is leased from its claim on, unless it is parked; what was requested
\* was requested under its lease; its outcome is what the clients were told.
RowOK(j) ==
  /\ job[j].status \in {"none", "queued"} => job[j].lease = None
  /\ requested[j] \subseteq {job[j].lease}
  /\ announced[j] = IF job[j].status \in Terminal THEN <<job[j].status>> ELSE <<>>

\* The rows of a job's results are counted, and there are none before the job.
CountOK(j) ==
  /\ IsFiniteSet(results[j])
  /\ job[j].count = Cardinality(results[j]) /\ job[j].count <= Ceiling
  /\ job[j].status = "none" => job[j].count = 0 /\ results[j] = {}

\* The lease of the row a dispatcher claimed stays its own, open or closed, and
\* nothing was requested under it yet.
HolderOK(d) ==
  Holding(d) => LET row == job[disp[d].job] IN
                  /\ row.lease = disp[d].token /\ row.status \notin {"none", "queued"}
                  /\ requested[disp[d].job] = {}

\* One dispatcher at a time holds a job.
OneHolder == \A d, e \in Dispatcher : Holding(d) /\ Holding(e) /\ disp[d].job = disp[e].job => d = e

\* A frame under way belongs to a job.
IngestOK(h) == ingest[h] # None => job[ingest[h][1]].status # "none"

\* A token is the lease of one job.
LeaseUnique ==
  /\ \A j \in Job : job[j].lease # None => job[j].lease \in 1..minted
  /\ \A i, j \in Job : job[i].lease = job[j].lease /\ job[i].lease # None => i = j

LeaseInv ==
  /\ \A j \in Job : RowOK(j) /\ CountOK(j)
  /\ \A d \in Dispatcher : HolderOK(d)
  /\ OneHolder
  /\ \A h \in Handler : IngestOK(h)
  /\ LeaseUnique

IInv == TypeOK /\ LeaseInv

\* The initial state satisfies the invariant.
LEMMA InitIInv == Init => IInv
<1> SUFFICES ASSUME Init PROVE IInv
  OBVIOUS
<1> USE LeaseAssumption DEF Init
<1>1. TypeOK
  <2>1. RowsTypeOK
    <3>1. NoJob \in Row
      BY DEF Row, NoJob, Created
    <3>2. <<>> \in Seq(Terminal)
      OBVIOUS
    <3> QED
      BY <3>1, <3>2 DEF RowsTypeOK
  <2>2. DispatchTypeOK
    BY DEF DispatchTypeOK, Idle
  <2>3. CancelTypeOK
    BY DEF CancelTypeOK, NoCancel
  <2>4. AgentTypeOK
    <3>1. toAgent \in Seq({"request", "cancel"} \X Nat)
      OBVIOUS
    <3>2. online \in BOOLEAN
      OBVIOUS
    <3> QED
      BY <3>1, <3>2 DEF AgentTypeOK
  <2> QED
    BY <2>1, <2>2, <2>3, <2>4 DEF TypeOK
<1>2. \A j \in Job : RowOK(j)
  BY DEF RowOK, NoJob, Created, Terminal
<1>3. \A j \in Job : CountOK(j)
  BY FS_EmptySet DEF CountOK, NoJob, Created
<1>4. \A d \in Dispatcher : ~Holding(d)
  BY DEF Holding, Idle
<1>5. LeaseUnique
  BY DEF LeaseUnique, NoJob, Created
<1> QED
  BY <1>1, <1>2, <1>3, <1>4, <1>5 DEF IInv, LeaseInv, HolderOK, OneHolder, IngestOK

-----------------------------------------------------------------------------
(* Types.                                                                      *)

\* A terminal write keeps the rows' types.
LEMMA CloseType ==
  ASSUME RowsTypeOK, NEW js, NEW status \in Terminal, Close(js, status),
         results' \in [Job -> SUBSET Finding]
  PROVE  RowsTypeOK'
<1> DEFINE won == {j \in js : job[j].status \in Open}
<1>1. job \in [Job -> Row] /\ announced \in [Job -> Seq(Terminal)]
  BY DEF RowsTypeOK
<1>2. \A j \in Job : [job[j] EXCEPT !.status = status, !.parked = FALSE] \in Row
  BY <1>1 DEF Row
<1>3. \A j \in Job : Append(announced[j], status) \in Seq(Terminal)
  BY <1>1
<1>4. /\ job' = [j \in Job |-> IF j \in won THEN [job[j] EXCEPT !.status = status,
                                                              !.parked = FALSE]
                               ELSE job[j]]
      /\ announced' = [j \in Job |-> IF j \in won THEN Append(announced[j], status)
                                     ELSE announced[j]]
  BY DEF Close
<1> QED
  BY <1>1, <1>2, <1>3, <1>4 DEF RowsTypeOK

\* A control frame that is delivered is one.
LEMMA DeliverType ==
  ASSUME AgentTypeOK, NEW frame \in {"request", "cancel"} \X Nat, Deliver(<<frame>>)
  PROVE  toAgent' \in Seq({"request", "cancel"} \X Nat)
<1> DEFINE Frame == {"request", "cancel"} \X Nat
<1>1. toAgent \in Seq(Frame) /\ frame \in Frame
  BY DEF AgentTypeOK
<1>2. toAgent' = IF online THEN toAgent \o <<frame>> ELSE toAgent
  BY DEF Deliver
<1> HIDE DEF Frame
<1>3. toAgent' \in Seq(Frame)
  BY <1>1, <1>2
<1> QED
  BY <1>3 DEF Frame

\* The dispatcher's steps keep the types.
LEMMA DispatchType ==
  ASSUME TypeOK, NEW d \in Dispatcher,
         \/ Dispatch(d) \/ Die(d)
         \/ \E j \in Job : execute_scan_job(d, j)
  PROVE  TypeOK'
<1> USE DEF TypeOK, rows, trigger, agent, edits
<1>0. "failed" \in Terminal
  BY DEF Terminal
<1>1. ASSUME NEW j \in Job, execute_scan_job(d, j) PROVE TypeOK'
  <2>1. RowsTypeOK' /\ CancelTypeOK' /\ AgentTypeOK'
    BY <1>1 DEF execute_scan_job, RowsTypeOK, CancelTypeOK, AgentTypeOK
  <2>2. DispatchTypeOK'
    BY <1>1 DEF execute_scan_job, DispatchTypeOK, CancelTypeOK
  <2> QED
    BY <2>1, <2>2
<1>2. CASE _claim(d)
  <2>1. CancelTypeOK' /\ AgentTypeOK'
    BY <1>2 DEF _claim, CancelTypeOK, AgentTypeOK
  <2>2. DispatchTypeOK'
    BY <1>2 DEF _claim, DispatchTypeOK, Idle
  <2>3. RowsTypeOK'
    <3>1. ASSUME NEW r \in Row, NEW t \in Nat, NEW v \in Nat
          PROVE  [r EXCEPT !.status = "running", !.lease = t, !.parked = FALSE,
                           !.late = FALSE, !.scope = v] \in Row
      BY DEF Row, Open
    <3>2. /\ disp[d].job \in Job /\ disp[d].token \in Nat /\ minted + 1 \in Nat
          /\ job[disp[d].job] \in Row /\ job \in [Job -> Row]
      BY <1>2 DEF _claim, DispatchTypeOK, RowsTypeOK
    <3>3. [job[disp[d].job] EXCEPT !.status = "running", !.lease = minted + 1,
             !.parked = FALSE, !.late = FALSE, !.scope = disp[d].token] \in Row
      BY <3>1, <3>2
    <3>4. job' \in [Job -> Row]
      BY <1>2, <3>2, <3>3 DEF _claim
    <3> QED
      BY <1>2, <3>4 DEF _claim, RowsTypeOK
  <2> QED
    BY <2>1, <2>2, <2>3
<1>3. CASE _release_to_waiting(d)
  <2>1. CancelTypeOK' /\ AgentTypeOK'
    BY <1>3 DEF _release_to_waiting, CancelTypeOK, AgentTypeOK
  <2>2. DispatchTypeOK'
    BY <1>3 DEF _release_to_waiting, DispatchTypeOK, Idle
  <2>3. RowsTypeOK'
    <3>1. ASSUME NEW r \in Row
          PROVE  [r EXCEPT !.status = "queued", !.lease = None, !.parked = TRUE,
                           !.late = FALSE, !.scope = None] \in Row
      BY DEF Row, Open
    <3>2. job' \in [Job -> Row]
      BY <1>3, <3>1 DEF _release_to_waiting, DispatchTypeOK, RowsTypeOK
    <3> QED
      BY <1>3, <3>2 DEF _release_to_waiting, RowsTypeOK
  <2> QED
    BY <2>1, <2>2, <2>3
<1>4. CASE Deny(d)
  <2>1. CancelTypeOK' /\ AgentTypeOK'
    BY <1>4 DEF Deny, CancelTypeOK, AgentTypeOK
  <2>2. DispatchTypeOK'
    BY <1>4 DEF Deny, DispatchTypeOK, Idle
  <2>3. RowsTypeOK'
    BY <1>0, <1>4, CloseType DEF Deny, finalize_agent_job, RowsTypeOK
  <2> QED
    BY <2>1, <2>2, <2>3
<1>5. CASE _lease_still_held(d)
  <2>1. RowsTypeOK' /\ CancelTypeOK' /\ AgentTypeOK'
    BY <1>5 DEF _lease_still_held, RowsTypeOK, CancelTypeOK, AgentTypeOK
  <2>2. DispatchTypeOK'
    BY <1>5 DEF _lease_still_held, DispatchTypeOK, Idle
  <2> QED
    BY <2>1, <2>2
<1>6. CASE PublishRequest(d)
  <2>1. CancelTypeOK'
    BY <1>6 DEF PublishRequest, CancelTypeOK
  <2>2. DispatchTypeOK'
    BY <1>6 DEF PublishRequest, DispatchTypeOK, Idle
  <2>3. RowsTypeOK'
    BY <1>0, <1>6, CloseType DEF PublishRequest, finalize_agent_job, RowsTypeOK
  <2>4. AgentTypeOK'
    <3>1. <<"request", disp[d].token>> \in {"request", "cancel"} \X Nat
      BY <1>6 DEF PublishRequest, DispatchTypeOK
    <3>2. toAgent' \in Seq({"request", "cancel"} \X Nat)
      BY <1>6, <3>1, DeliverType DEF PublishRequest, AgentTypeOK
    <3> QED
      BY <1>6, <3>2 DEF PublishRequest, AgentTypeOK
  <2> QED
    BY <2>1, <2>2, <2>3, <2>4
<1>7. CASE Die(d)
  <2>1. RowsTypeOK' /\ CancelTypeOK' /\ AgentTypeOK'
    BY <1>7 DEF Die, RowsTypeOK, CancelTypeOK, AgentTypeOK
  <2>2. DispatchTypeOK'
    BY <1>7 DEF Die, DispatchTypeOK, Idle
  <2> QED
    BY <2>1, <2>2
<1> QED
  BY <1>1, <1>2, <1>3, <1>4, <1>5, <1>6, <1>7 DEF Dispatch

\* The steps of cancellations and of the reconciler keep the types.
LEMMA CancelType ==
  ASSUME TypeOK,
         \/ Cancellation \/ _close_jobs \/ publish_discovery_cancels \/ _expire
         \/ \E j \in Job : create_scan_job(j) \/ DeadlinePasses(j) \/ ExpireRead(j)
  PROVE  TypeOK'
<1> USE DEF TypeOK, rows, trigger, server, agent, edits
<1>0. {"failed", "cancelled"} \subseteq Terminal
  BY DEF Terminal
<1>1. ASSUME NEW js \in SUBSET Job, NEW v \in Nat, NEW g \in BOOLEAN, CancelRead(js, v, g)
      PROVE  TypeOK'
  <2>1. RowsTypeOK' /\ DispatchTypeOK' /\ AgentTypeOK'
    BY <1>1 DEF CancelRead, Trigger, RowsTypeOK, DispatchTypeOK, AgentTypeOK
  <2>2. cancel' = [pc |-> "read", read |-> {<<j, job[j].lease>> : j \in js}, owed |-> {},
                   scope |-> v, granted |-> g]
    BY <1>1 DEF CancelRead
  <2>3. cancel'.read \subseteq Job \X (Nat \cup {None})
    BY <2>2 DEF RowsTypeOK, Row
  <2>4. cancel'.scope \in Nat /\ cancel'.granted \in BOOLEAN /\ cancel'.owed \subseteq Nat
    BY <2>2
  <2>5. CancelTypeOK'
    BY <1>1, <2>3, <2>4 DEF CancelRead, CancelTypeOK
  <2> QED
    BY <2>1, <2>5
<1>2. CASE Cancellation
  <2>1. scope \in Nat /\ scope + 1 \in Nat /\ granted \in BOOLEAN /\ FALSE \in BOOLEAN
    BY DEF CancelTypeOK
  <2>2. CASE cancel_agent_dispatches
    <3>1. {j \in Job : job[j].status \in Open} \in SUBSET Job
      OBVIOUS
    <3> QED
      BY <1>1, <2>1, <2>2, <3>1 DEF cancel_agent_dispatches
  <2>3. ASSUME NEW js \in SUBSET Job, cancel_job(js) \/ cancel_scope_changed_dispatches(js)
        PROVE  TypeOK'
    BY <1>1, <2>1, <2>3 DEF cancel_job, cancel_scope_changed_dispatches
  <2>4. CASE put_capabilities
    <3>1. RowsTypeOK' /\ DispatchTypeOK' /\ AgentTypeOK'
      BY <2>4 DEF put_capabilities, Trigger, RowsTypeOK, DispatchTypeOK, AgentTypeOK
    <3>2. CancelTypeOK'
      BY <2>4, <2>1 DEF put_capabilities, CancelTypeOK
    <3> QED
      BY <3>1, <3>2
  <2> QED
    BY <1>2, <2>2, <2>3, <2>4 DEF Cancellation
<1>3. ASSUME NEW tokens \in SUBSET Nat, Owes(tokens), scope' \in Nat, granted' \in BOOLEAN
      PROVE  CancelTypeOK'
  BY <1>3 DEF Owes, NoCancel, CancelTypeOK
<1>4. CASE _close_jobs
  <2>1. DispatchTypeOK' /\ AgentTypeOK'
    BY <1>4 DEF _close_jobs, DispatchTypeOK, AgentTypeOK
  <2>2. RowsTypeOK'
    BY <1>0, <1>4, CloseType DEF _close_jobs, RowsTypeOK
  <2>3. CancelTypeOK'
    <3> DEFINE tokens == {r[2] : r \in {x \in cancel.read : job[x[1]].status \in Open}} \ {None}
    <3>1. tokens \in SUBSET Nat
      BY DEF CancelTypeOK
    <3>2. Owes(tokens) /\ scope' \in Nat /\ granted' \in BOOLEAN
      BY <1>4 DEF _close_jobs, CancelTypeOK
    <3> HIDE DEF tokens
    <3> QED
      BY <1>3, <3>1, <3>2
  <2> QED
    BY <2>1, <2>2, <2>3
<1>5. CASE publish_discovery_cancels
  <2>1. PICK t \in cancel.owed : Owes(cancel.owed \ {t}) /\ Deliver(<<<<"cancel", t>>>>)
    BY <1>5 DEF publish_discovery_cancels
  <2>2. RowsTypeOK' /\ DispatchTypeOK'
    BY <1>5 DEF publish_discovery_cancels, RowsTypeOK, DispatchTypeOK
  <2>3. CancelTypeOK'
    <3>1. cancel.owed \ {t} \in SUBSET Nat /\ scope' \in Nat /\ granted' \in BOOLEAN
      BY <1>5 DEF publish_discovery_cancels, CancelTypeOK
    <3> QED
      BY <1>3, <2>1, <3>1
  <2>4. AgentTypeOK'
    <3>1. <<"cancel", t>> \in {"request", "cancel"} \X Nat
      BY DEF CancelTypeOK
    <3>2. toAgent' \in Seq({"request", "cancel"} \X Nat)
      BY <2>1, <3>1, DeliverType
    <3> QED
      BY <1>5, <3>2 DEF publish_discovery_cancels, AgentTypeOK
  <2> QED
    BY <2>2, <2>3, <2>4
<1>6. CASE _expire
  <2>1. DispatchTypeOK' /\ CancelTypeOK' /\ AgentTypeOK'
    BY <1>6 DEF _expire, DispatchTypeOK, CancelTypeOK, AgentTypeOK
  <2>2. RowsTypeOK'
    BY <1>0, <1>6, CloseType DEF _expire, finalize_agent_job, RowsTypeOK
  <2> QED
    BY <2>1, <2>2
<1>7. ASSUME NEW j \in Job, create_scan_job(j) \/ DeadlinePasses(j) \/ ExpireRead(j)
      PROVE  TypeOK'
  <2>1. CancelTypeOK' /\ AgentTypeOK'
    BY <1>7 DEF create_scan_job, DeadlinePasses, ExpireRead, CancelTypeOK, AgentTypeOK
  <2>2. DispatchTypeOK'
    BY <1>7 DEF create_scan_job, DeadlinePasses, ExpireRead, DispatchTypeOK
  <2>3. RowsTypeOK'
    <3>1. Created \in Row
      BY DEF Created, Row, Open
    <3>2. ASSUME NEW r \in Row PROVE [r EXCEPT !.late = TRUE] \in Row
      BY DEF Row
    <3>3. CASE create_scan_job(j)
      BY <3>1, <3>3 DEF create_scan_job, RowsTypeOK
    <3>4. CASE DeadlinePasses(j)
      BY <3>2, <3>4 DEF DeadlinePasses, RowsTypeOK
    <3>5. CASE ExpireRead(j)
      BY <3>5 DEF ExpireRead, RowsTypeOK
    <3> QED
      BY <1>7, <3>3, <3>4, <3>5
  <2> QED
    BY <2>1, <2>2, <2>3
<1> QED
  BY <1>2, <1>4, <1>5, <1>6, <1>7

\* The agent's steps and the ingest of its frames keep the types.
LEMMA AgentType ==
  ASSUME TypeOK,
         \/ AgentReceive \/ Flip
         \/ \E t \in Tokens, what \in Finding \cup {"completed", "failed"} : AgentReports(t, what)
         \/ \E h \in Handler : IngestWrite(h) \/ \E frame \in sent : IngestRead(h, frame)
  PROVE  TypeOK'
<1> USE DEF TypeOK, rows, trigger, server, agent, edits
<1>0. {"completed", "failed", "cancelled"} \subseteq Terminal
  BY DEF Terminal
<1>1. CASE AgentReceive
  <2>1. RowsTypeOK' /\ DispatchTypeOK' /\ CancelTypeOK'
    BY <1>1 DEF AgentReceive, RowsTypeOK, DispatchTypeOK, CancelTypeOK
  <2>2. /\ Head(toAgent) \in {"request", "cancel"} \X Nat
        /\ Tail(toAgent) \in Seq({"request", "cancel"} \X Nat)
    BY <1>1 DEF AgentReceive, AgentTypeOK
  <2>3. Head(toAgent)[2] \in Nat
    BY <2>2
  <2>4. sweeping' \subseteq Nat /\ sent' \subseteq (Finding \cup Terminal) \X Nat
    BY <1>0, <1>1, <2>3 DEF AgentReceive, AgentTypeOK
  <2>5. AgentTypeOK'
    BY <1>1, <2>2, <2>4 DEF AgentReceive, AgentTypeOK
  <2> QED
    BY <2>1, <2>5
<1>2. CASE Flip
  <2>1. RowsTypeOK' /\ DispatchTypeOK' /\ CancelTypeOK'
    BY <1>2 DEF Flip, RowsTypeOK, DispatchTypeOK, CancelTypeOK
  <2>2. toAgent' \in Seq({"request", "cancel"} \X Nat) /\ online' \in BOOLEAN
    BY <1>2 DEF Flip
  <2>3. AgentTypeOK'
    BY <1>2, <2>2 DEF Flip, AgentTypeOK
  <2> QED
    BY <2>1, <2>3
<1>3. ASSUME NEW t \in Tokens, NEW what \in Finding \cup {"completed", "failed"},
             AgentReports(t, what)
      PROVE  TypeOK'
  <2>1. RowsTypeOK' /\ DispatchTypeOK' /\ CancelTypeOK'
    BY <1>3 DEF AgentReports, RowsTypeOK, DispatchTypeOK, CancelTypeOK
  <2>2. AgentTypeOK'
    BY <1>0, <1>3 DEF AgentReports, AgentTypeOK
  <2> QED
    BY <2>1, <2>2
<1>4. ASSUME NEW h \in Handler, NEW frame \in sent, IngestRead(h, frame) PROVE TypeOK'
  <2>1. RowsTypeOK' /\ DispatchTypeOK' /\ CancelTypeOK'
    BY <1>4 DEF IngestRead, RowsTypeOK, DispatchTypeOK, CancelTypeOK
  <2>2. AgentTypeOK'
    BY <1>4 DEF IngestRead, HasLease, AgentTypeOK
  <2> QED
    BY <2>1, <2>2
<1>5. ASSUME NEW h \in Handler, IngestWrite(h) PROVE TypeOK'
  <2>1. DispatchTypeOK' /\ CancelTypeOK' /\ AgentTypeOK'
    BY <1>5 DEF IngestWrite, DispatchTypeOK, CancelTypeOK, AgentTypeOK
  <2>2. ingest[h] \in Job \X (Finding \cup Terminal)
    BY <1>5 DEF IngestWrite, AgentTypeOK
  <2>3. PICK j \in Job, what \in Finding \cup Terminal : ingest[h] = <<j, what>>
    BY <2>2
  <2>4. CASE what \in Terminal
    <3>1. finalize_agent_job(j, what)
      BY <1>5, <2>3, <2>4 DEF IngestWrite
    <3>2. RowsTypeOK'
      BY <2>4, <3>1, CloseType DEF finalize_agent_job, RowsTypeOK
    <3> QED
      BY <2>1, <3>2
  <2>5. CASE what \notin Terminal
    <3>1. _record_host_finding(j, what) /\ what \in Finding
      BY <1>5, <2>3, <2>5 DEF IngestWrite
    <3>2. CASE UNCHANGED rows
      BY <2>1, <3>2 DEF RowsTypeOK
    <3>3. CASE /\ results' = [results EXCEPT ![j] = @ \cup {what}]
               /\ job' = [job EXCEPT ![j].count = @ + 1]
               /\ UNCHANGED announced
      <4>1. ASSUME NEW r \in Row PROVE [r EXCEPT !.count = r.count + 1] \in Row
        BY DEF Row
      <4>2. job' \in [Job -> Row]
        BY <3>3, <4>1 DEF RowsTypeOK
      <4>3. RowsTypeOK'
        BY <3>1, <3>3, <4>2 DEF RowsTypeOK
      <4> QED
        BY <2>1, <4>3
    <3>4. CASE finalize_agent_job(j, "failed")
      <4>1. RowsTypeOK'
        BY <1>0, <3>4, CloseType DEF finalize_agent_job, RowsTypeOK
      <4> QED
        BY <2>1, <4>1
    <3> QED
      BY <3>1, <3>2, <3>3, <3>4 DEF _record_host_finding
  <2> QED
    BY <2>4, <2>5
<1> QED
  BY <1>1, <1>2, <1>3, <1>4, <1>5

\* Every step keeps the types.
LEMMA NextType == TypeOK /\ [Next]_vars => TypeOK'
<1> SUFFICES ASSUME TypeOK, [Next]_vars PROVE TypeOK'
  OBVIOUS
<1>1. CASE UNCHANGED vars
  BY <1>1 DEF vars, rows, server, trigger, agent, edits, TypeOK, RowsTypeOK, DispatchTypeOK,
              CancelTypeOK, AgentTypeOK
<1> QED
  BY <1>1, DispatchType, CancelType, AgentType DEF Next

-----------------------------------------------------------------------------
(* Leases: steps that claim, park or publish nothing.                          *)

\* No dispatcher holds a job that it did not hold before, under the same token.
FewerHold ==
  \A d \in Dispatcher : Holding(d)' => /\ Holding(d)
                                      /\ disp'[d].job = disp[d].job
                                      /\ disp'[d].token = disp[d].token

\* No handler has taken a frame up.
FewerIngest == \A h \in Handler : ingest'[h] # None => ingest'[h] = ingest[h]

\* A step that leaves rows and requests alone.
LEMMA IdleStep ==
  ASSUME IInv, FewerHold, FewerIngest,
         UNCHANGED <<job, results, announced, requested, minted>>
  PROVE  LeaseInv'
<1>1. \A j \in Job : RowOK(j)' /\ CountOK(j)'
  BY DEF IInv, LeaseInv, RowOK, CountOK
<1>2. \A d \in Dispatcher : HolderOK(d)'
  BY DEF IInv, LeaseInv, HolderOK, FewerHold
<1>3. OneHolder'
  BY DEF IInv, LeaseInv, OneHolder, FewerHold
<1>4. \A h \in Handler : IngestOK(h)'
  BY DEF IInv, LeaseInv, IngestOK, FewerIngest
<1>5. LeaseUnique'
  BY DEF IInv, LeaseInv, LeaseUnique
<1> QED
  BY <1>1, <1>2, <1>3, <1>4, <1>5 DEF LeaseInv

\* What a terminal write does to a row: an open one takes the status, and any
\* other one is as it was.
LEMMA ClosedRow ==
  ASSUME TypeOK, NEW js, NEW status \in Terminal, Close(js, status), NEW j \in Job
  PROVE  /\ job'[j].lease = job[j].lease /\ job'[j].count = job[j].count
         /\ \/ /\ job[j].status \in Open /\ job'[j].status = status
               /\ announced'[j] = Append(announced[j], status)
            \/ job'[j] = job[j] /\ announced'[j] = announced[j]
<1>1. job \in [Job -> Row]
  BY DEF TypeOK, RowsTypeOK
<1> QED
  BY <1>1 DEF Close, Row

\* Terminal writes, whoever makes them.
LEMMA CloseStep ==
  ASSUME IInv, NEW js, NEW status \in Terminal, Close(js, status),
         FewerHold, FewerIngest, UNCHANGED <<results, requested, minted>>
  PROVE  LeaseInv'
<1>1. TypeOK /\ LeaseInv
  BY DEF IInv
<1>2. ASSUME NEW j \in Job PROVE RowOK(j)' /\ CountOK(j)'
  <2>1. RowOK(j) /\ CountOK(j)
    BY <1>1 DEF LeaseInv
  <2>2. CASE job'[j] = job[j] /\ announced'[j] = announced[j]
    BY <2>1, <2>2 DEF RowOK, CountOK
  <2>3. CASE /\ job[j].status \in Open /\ job'[j].status = status
             /\ announced'[j] = Append(announced[j], status)
    <3>1. job'[j].lease = job[j].lease /\ job'[j].count = job[j].count
      BY <1>1, ClosedRow
    <3>2. announced[j] = <<>> /\ status # "none" /\ status # "queued"
      BY <2>1, <2>3 DEF RowOK, Open, Terminal
    <3>3. announced'[j] = <<status>>
      BY <2>3, <3>2
    <3>4. RowOK(j)'
      BY <2>1, <2>3, <3>1, <3>2, <3>3 DEF RowOK
    <3>5. CountOK(j)'
      BY <2>1, <2>3, <3>1, <3>2 DEF CountOK
    <3> QED
      BY <3>4, <3>5
  <2> QED
    BY <1>1, <2>2, <2>3, ClosedRow
<1>3. ASSUME NEW j \in Job
      PROVE  /\ job'[j].lease = job[j].lease
             /\ job[j].status \notin {"none", "queued"} => job'[j].status \notin {"none", "queued"}
             /\ job[j].status # "none" => job'[j].status # "none"
  BY <1>1, ClosedRow DEF Open, Terminal
<1>4. \A d \in Dispatcher : HolderOK(d)'
  <2> SUFFICES ASSUME NEW d \in Dispatcher, Holding(d)' PROVE HolderOK(d)'
    BY DEF HolderOK
  <2>1. /\ Holding(d) /\ disp'[d].job = disp[d].job /\ disp'[d].token = disp[d].token
        /\ HolderOK(d)
    BY <1>1 DEF FewerHold, LeaseInv
  <2>2. disp[d].job \in Job
    BY <1>1, <2>1 DEF TypeOK, DispatchTypeOK, Holding
  <2> QED
    BY <1>3, <2>1, <2>2 DEF HolderOK
<1>5. OneHolder'
  BY <1>1 DEF LeaseInv, OneHolder, FewerHold
<1>6. \A h \in Handler : IngestOK(h)'
  <2> SUFFICES ASSUME NEW h \in Handler, ingest'[h] # None PROVE IngestOK(h)'
    BY DEF IngestOK
  <2>1. ingest'[h] = ingest[h] /\ IngestOK(h)
    BY <1>1 DEF FewerIngest, LeaseInv
  <2>2. ingest[h][1] \in Job
    BY <1>1, <2>1 DEF TypeOK, AgentTypeOK
  <2> QED
    BY <1>3, <2>1, <2>2 DEF IngestOK
<1>7. LeaseUnique'
  BY <1>1, <1>3 DEF LeaseInv, LeaseUnique
<1> QED
  BY <1>2, <1>4, <1>5, <1>6, <1>7 DEF LeaseInv

-----------------------------------------------------------------------------
(* Leases: the dispatcher.                                                     *)

\* A claim: the row was queued, without a lease and without a request, and the
\* token is new.
LEMMA ClaimStep ==
  ASSUME IInv, NEW d \in Dispatcher, _claim(d)
  PROVE  LeaseInv'
<1> USE DEF rows, trigger, server, agent, edits
<1>1. TypeOK /\ LeaseInv
  BY DEF IInv
<1>2. CASE job[disp[d].job].status # "queued"
  <2>1. disp' = [disp EXCEPT ![d] = Idle] /\ UNCHANGED <<job, minted>>
    BY <1>2 DEF _claim
  <2>2. FewerHold
    BY <1>1, <2>1 DEF FewerHold, Holding, Idle, TypeOK, DispatchTypeOK
  <2>3. FewerIngest
    BY DEF _claim, FewerIngest
  <2> QED
    BY <2>1, <2>2, <2>3, IdleStep DEF _claim
<1>3. CASE job[disp[d].job].status = "queued"
  <2>a. disp[d].job \in Job /\ minted + 1 \in Nat
    BY <1>1 DEF _claim, TypeOK, DispatchTypeOK
  <2>b. PICK k \in Job : k = disp[d].job
    BY <2>a
  <2>c. PICK t \in Nat : t = minted + 1
    BY <2>a
  <2>0. /\ k \in Job /\ t \in Nat /\ disp[d].pc = "read" /\ job \in [Job -> Row]
        /\ minted \in Nat /\ disp \in [Dispatcher -> [pc : {"idle", "read", "claimed", "publish"},
                              job : Job \cup {None}, token : Nat \cup {None}]]
    BY <1>1 DEF _claim, TypeOK, DispatchTypeOK, RowsTypeOK
  <2>1. /\ job' = [job EXCEPT ![k] = [@ EXCEPT !.status = "running", !.lease = t,
                                               !.parked = FALSE, !.late = FALSE,
                                               !.scope = disp[d].token]]
        /\ disp' = [disp EXCEPT ![d] = [pc |-> "claimed", job |-> k, token |-> t]]
        /\ minted' = t
        /\ UNCHANGED <<results, announced, requested, ingest>>
    BY <1>3, <2>b, <2>c DEF _claim
  <2>2. job'[k].status = "running" /\ job'[k].lease = t /\ job'[k].count = job[k].count
    BY <2>0, <2>1 DEF Row
  <2>3. \A j \in Job \ {k} : job'[j] = job[j]
    BY <2>0, <2>1
  <2>4. requested[k] = {}
    <3>1. RowOK(k) /\ requested[k] \subseteq Nat
      BY <1>1, <2>0 DEF LeaseInv, TypeOK, DispatchTypeOK
    <3> QED
      BY <1>3, <2>b, <3>1, LeaseAssumption DEF RowOK
  <2>5. Holding(d)' /\ disp'[d].job = k /\ disp'[d].token = t
    BY <2>0, <2>1 DEF Holding
  <2>6. \A e \in Dispatcher \ {d} : disp'[e] = disp[e]
    BY <2>0, <2>1
  <2>7. \A e \in Dispatcher : Holding(e) => disp[e].job # k
    BY <1>1, <1>3, <2>b DEF LeaseInv, HolderOK
  <2>8. \A j \in Job : RowOK(j)' /\ CountOK(j)'
    <3>1. \A j \in Job : RowOK(j) /\ CountOK(j)
      BY <1>1 DEF LeaseInv
    <3>2. job[k].status = "queued"
      BY <1>3, <2>b
    <3>3. RowOK(k)'
      BY <2>0, <2>1, <2>2, <2>4, <3>1, <3>2 DEF RowOK, Terminal
    <3>4. CountOK(k)'
      BY <2>0, <2>1, <2>2, <3>1 DEF CountOK
    <3>5. \A j \in Job \ {k} : RowOK(j)' /\ CountOK(j)'
      BY <2>1, <2>3, <3>1 DEF RowOK, CountOK
    <3> QED
      BY <3>3, <3>4, <3>5
  <2>9. \A e \in Dispatcher : HolderOK(e)'
    <3>1. HolderOK(d)'
      BY <2>1, <2>2, <2>4, <2>5 DEF HolderOK
    <3>2. ASSUME NEW e \in Dispatcher \ {d}, Holding(e)' PROVE HolderOK(e)'
      <4>1. Holding(e) /\ HolderOK(e) /\ disp'[e] = disp[e]
        BY <1>1, <2>6, <3>2 DEF Holding, LeaseInv
      <4>2. disp[e].job \in Job \ {k}
        BY <1>1, <2>7, <4>1 DEF TypeOK, DispatchTypeOK, Holding
      <4> QED
        BY <2>1, <2>3, <4>1, <4>2 DEF HolderOK
    <3> QED
      BY <3>1, <3>2 DEF HolderOK
  <2>10. OneHolder'
    BY <1>1, <2>5, <2>6, <2>7 DEF LeaseInv, OneHolder, Holding
  <2>11. \A h \in Handler : IngestOK(h)'
    <3> SUFFICES ASSUME NEW h \in Handler, ingest[h] # None
                 PROVE  job'[ingest[h][1]].status # "none"
      BY <2>1 DEF IngestOK
    <3>1. ingest[h][1] \in Job /\ job[ingest[h][1]].status # "none"
      BY <1>1 DEF LeaseInv, IngestOK, TypeOK, AgentTypeOK
    <3> QED
      BY <2>2, <2>3, <3>1
  <2>12. LeaseUnique'
    <3>1. \A j \in Job : job[j].lease # None => job[j].lease \in 1..minted /\ job[j].lease # t
      BY <1>1, <2>0, <2>c DEF LeaseInv, LeaseUnique
    <3>2. t \in 1..minted'
      BY <2>0, <2>1, <2>c
    <3>3. minted' = minted + 1
      BY <2>1, <2>c
    <3> QED
      BY <1>1, <2>0, <2>2, <2>3, <3>1, <3>2, <3>3 DEF LeaseInv, LeaseUnique
  <2> QED
    BY <2>8, <2>9, <2>10, <2>11, <2>12 DEF LeaseInv
<1> QED
  BY <1>2, <1>3

\* A dispatcher that stops and leaves the rows alone: everyone else goes on.
LEMMA StopStep ==
  ASSUME IInv, NEW d \in Dispatcher, NEW r, r.pc = "idle" \/ r.pc = "read",
         disp' = [disp EXCEPT ![d] = r]
  PROVE  FewerHold
BY DEF FewerHold, Holding, IInv, TypeOK, DispatchTypeOK

\* A job is parked: only by the dispatcher that holds its lease, so that no
\* request was published under it, and nobody else waits to publish one.
LEMMA ParkStep ==
  ASSUME IInv, NEW d \in Dispatcher, _release_to_waiting(d)
  PROVE  LeaseInv'
<1> USE DEF rows, trigger, server, agent, edits
<1>1. TypeOK /\ LeaseInv
  BY DEF IInv
<1>2. /\ disp' = [disp EXCEPT ![d] = Idle] /\ disp[d].pc = "claimed"
      /\ UNCHANGED <<results, announced, requested, ingest, minted>>
  BY DEF _release_to_waiting
<1>3. FewerHold /\ FewerIngest /\ Idle.pc = "idle"
  BY <1>2, StopStep DEF FewerIngest, Idle
<1>4. CASE ~HoldsLease(d)
  BY <1>2, <1>3, <1>4, IdleStep DEF _release_to_waiting
<1>5. CASE HoldsLease(d)
  <2>1. disp[d].job \in Job /\ job \in [Job -> Row]
        /\ disp \in [Dispatcher -> [pc : {"idle", "read", "claimed", "publish"},
                              job : Job \cup {None}, token : Nat \cup {None}]]
    BY <1>1, <1>2 DEF TypeOK, DispatchTypeOK, RowsTypeOK
  <2>2. PICK k \in Job : k = disp[d].job
    BY <2>1
  <2>3. job' = [job EXCEPT ![k] = [@ EXCEPT !.status = "queued", !.lease = None,
                                            !.parked = TRUE, !.late = FALSE, !.scope = None]]
    BY <1>5, <2>2 DEF _release_to_waiting
  <2>4. job'[k].status = "queued" /\ job'[k].lease = None /\ job'[k].count = job[k].count
    BY <2>1, <2>3 DEF Row
  <2>5. \A j \in Job \ {k} : job'[j] = job[j]
    BY <2>1, <2>3
  <2>6. requested[k] = {} /\ job[k].status = "running"
    BY <1>1, <1>2, <1>5, <2>2 DEF LeaseInv, HolderOK, Holding, HoldsLease
  <2>7. \A e \in Dispatcher : Holding(e)' => disp[e].job # k
    <3>1. Holding(d) /\ ~Holding(d)'
      BY <1>2, <2>1 DEF Holding, Idle
    <3> QED
      BY <1>1, <1>3, <2>2, <3>1 DEF LeaseInv, OneHolder, FewerHold
  <2>8. \A j \in Job : RowOK(j)' /\ CountOK(j)'
    <3>1. \A j \in Job : RowOK(j) /\ CountOK(j)
      BY <1>1 DEF LeaseInv
    <3>2. RowOK(k)'
      BY <1>2, <2>4, <2>6, <3>1 DEF RowOK, Terminal
    <3>3. CountOK(k)'
      BY <1>2, <2>4, <3>1 DEF CountOK
    <3>4. \A j \in Job \ {k} : RowOK(j)' /\ CountOK(j)'
      BY <1>2, <2>5, <3>1 DEF RowOK, CountOK
    <3> QED
      BY <3>2, <3>3, <3>4
  <2>9. \A e \in Dispatcher : HolderOK(e)'
    <3> SUFFICES ASSUME NEW e \in Dispatcher, Holding(e)' PROVE HolderOK(e)'
      BY DEF HolderOK
    <3>1. /\ Holding(e) /\ HolderOK(e)
          /\ disp'[e].job = disp[e].job /\ disp'[e].token = disp[e].token
      BY <1>1, <1>3 DEF FewerHold, LeaseInv
    <3>2. disp[e].job \in Job \ {k}
      BY <1>1, <2>7, <3>1 DEF TypeOK, DispatchTypeOK, Holding
    <3> QED
      BY <1>2, <2>5, <3>1, <3>2 DEF HolderOK
  <2>10. OneHolder'
    BY <1>1, <1>3 DEF LeaseInv, OneHolder, FewerHold
  <2>11. \A h \in Handler : IngestOK(h)'
    <3> SUFFICES ASSUME NEW h \in Handler, ingest[h] # None
                 PROVE  job'[ingest[h][1]].status # "none"
      BY <1>2 DEF IngestOK
    <3>1. ingest[h][1] \in Job /\ job[ingest[h][1]].status # "none"
      BY <1>1 DEF LeaseInv, IngestOK, TypeOK, AgentTypeOK
    <3> QED
      BY <2>4, <2>5, <3>1
  <2>12. LeaseUnique'
    BY <1>1, <1>2, <2>4, <2>5 DEF LeaseInv, LeaseUnique
  <2> QED
    BY <2>8, <2>9, <2>10, <2>11, <2>12 DEF LeaseInv
<1> QED
  BY <1>4, <1>5

\* A request goes out under the lease of the row, which has no request yet.
LEMMA PublishStep ==
  ASSUME IInv, NEW d \in Dispatcher, PublishRequest(d)
  PROVE  LeaseInv'
<1> USE DEF rows, trigger, server, agent, edits
<1>1. TypeOK /\ LeaseInv
  BY DEF IInv
<1>2. /\ disp' = [disp EXCEPT ![d] = Idle] /\ disp[d].pc = "publish"
      /\ UNCHANGED <<ingest, minted>>
  BY DEF PublishRequest
<1>3. FewerHold /\ FewerIngest
  BY <1>2, StopStep DEF FewerIngest, Idle
<1>4. CASE finalize_agent_job(disp[d].job, "failed") /\ UNCHANGED <<toAgent, requested>>
  <2>1. "failed" \in Terminal
    BY DEF Terminal
  <2> QED
    BY <1>2, <1>3, <1>4, <2>1, CloseStep DEF finalize_agent_job
<1>5. CASE /\ requested' = [requested EXCEPT ![disp[d].job] = @ \cup {disp[d].token}]
           /\ UNCHANGED rows
  <2>1. /\ disp[d].job \in Job /\ requested \in [Job -> SUBSET Nat]
        /\ disp \in [Dispatcher -> [pc : {"idle", "read", "claimed", "publish"},
                              job : Job \cup {None}, token : Nat \cup {None}]]
    BY <1>1, <1>2 DEF TypeOK, DispatchTypeOK
  <2>2. PICK k \in Job : k = disp[d].job
    BY <2>1
  <2>3. HolderOK(d) /\ Holding(d)
    BY <1>1, <1>2 DEF LeaseInv, Holding
  <2>4. requested'[k] = {job[k].lease} /\ \A j \in Job \ {k} : requested'[j] = requested[j]
    BY <1>5, <2>1, <2>2, <2>3 DEF HolderOK
  <2>5. \A e \in Dispatcher : Holding(e)' => disp[e].job # k
    <3>1. ~Holding(d)'
      BY <1>2, <2>1 DEF Holding, Idle
    <3> QED
      BY <1>1, <1>3, <2>2, <2>3, <3>1 DEF LeaseInv, OneHolder, FewerHold
  <2>6. \A j \in Job : RowOK(j)' /\ CountOK(j)'
    <3>1. \A j \in Job : RowOK(j) /\ CountOK(j)
      BY <1>1 DEF LeaseInv
    <3>2. \A j \in Job : CountOK(j)'
      BY <1>5, <3>1 DEF CountOK
    <3>3. \A j \in Job : RowOK(j)'
      BY <1>5, <2>4, <3>1 DEF RowOK
    <3> QED
      BY <3>2, <3>3
  <2>7. \A e \in Dispatcher : HolderOK(e)'
    <3> SUFFICES ASSUME NEW e \in Dispatcher, Holding(e)' PROVE HolderOK(e)'
      BY DEF HolderOK
    <3>1. /\ Holding(e) /\ HolderOK(e)
          /\ disp'[e].job = disp[e].job /\ disp'[e].token = disp[e].token
      BY <1>1, <1>3 DEF FewerHold, LeaseInv
    <3>2. disp[e].job \in Job \ {k}
      BY <1>1, <2>5, <3>1 DEF TypeOK, DispatchTypeOK, Holding
    <3> QED
      BY <1>5, <2>4, <3>1, <3>2 DEF HolderOK
  <2>8. OneHolder'
    BY <1>1, <1>3 DEF LeaseInv, OneHolder, FewerHold
  <2>9. \A h \in Handler : IngestOK(h)'
    BY <1>1, <1>2, <1>5 DEF LeaseInv, IngestOK
  <2>10. LeaseUnique'
    BY <1>1, <1>2, <1>5 DEF LeaseInv, LeaseUnique
  <2> QED
    BY <2>6, <2>7, <2>8, <2>9, <2>10 DEF LeaseInv
<1> QED
  BY <1>4, <1>5 DEF PublishRequest

\* Every step of a dispatcher.
LEMMA DispatchLease ==
  ASSUME IInv, NEW d \in Dispatcher,
         \/ Dispatch(d) \/ Die(d)
         \/ \E j \in Job : execute_scan_job(d, j)
  PROVE  LeaseInv'
<1> USE DEF rows, trigger, server, agent, edits
<1>1. ASSUME NEW j \in Job, execute_scan_job(d, j) PROVE LeaseInv'
  <2>1. FewerHold /\ FewerIngest
    BY <1>1, StopStep DEF execute_scan_job, FewerIngest
  <2> QED
    BY <1>1, <2>1, IdleStep DEF execute_scan_job
<1>2. CASE Die(d)
  <2>1. FewerHold /\ FewerIngest
    BY <1>2, StopStep DEF Die, FewerIngest, Idle
  <2> QED
    BY <1>2, <2>1, IdleStep DEF Die
<1>3. CASE Deny(d)
  <2>1. FewerHold /\ FewerIngest
    BY <1>3, StopStep DEF Deny, FewerIngest, Idle
  <2>2. "failed" \in Terminal
    BY DEF Terminal
  <2> QED
    BY <1>3, <2>1, <2>2, CloseStep DEF Deny, finalize_agent_job
<1>4. CASE _lease_still_held(d)
  <2>1. FewerHold
    BY <1>4 DEF _lease_still_held, FewerHold, Holding, Idle, IInv, TypeOK, DispatchTypeOK
  <2>2. FewerIngest
    BY <1>4 DEF _lease_still_held, FewerIngest
  <2> QED
    BY <1>4, <2>1, <2>2, IdleStep DEF _lease_still_held
<1> QED
  BY <1>1, <1>2, <1>3, <1>4, ClaimStep, ParkStep, PublishStep DEF Dispatch

-----------------------------------------------------------------------------
(* Leases: everything else.                                                    *)

\* Cancellations, the reconciler and the creation of a job.
LEMMA CancelLease ==
  ASSUME IInv,
         \/ Cancellation \/ _close_jobs \/ publish_discovery_cancels \/ _expire
         \/ \E j \in Job : create_scan_job(j) \/ DeadlinePasses(j) \/ ExpireRead(j)
  PROVE  LeaseInv'
<1> USE DEF rows, trigger, server, agent, edits
<1>0. "failed" \in Terminal /\ "cancelled" \in Terminal
  BY DEF Terminal
<1>1. UNCHANGED disp => FewerHold
  BY DEF FewerHold, Holding
<1>2. UNCHANGED ingest => FewerIngest
  BY DEF FewerIngest
<1>3. CASE Cancellation \/ publish_discovery_cancels
  <2>1. UNCHANGED <<job, results, announced, requested, minted, disp, ingest>>
    BY <1>3 DEF Cancellation, publish_discovery_cancels, cancel_agent_dispatches,
                put_capabilities, cancel_job, cancel_scope_changed_dispatches, CancelRead
  <2> QED
    BY <1>1, <1>2, <2>1, IdleStep
<1>4. CASE _close_jobs
  BY <1>0, <1>1, <1>2, <1>4, CloseStep DEF _close_jobs
<1>5. CASE _expire
  BY <1>0, <1>1, <1>2, <1>5, CloseStep DEF _expire, finalize_agent_job
<1>6. ASSUME NEW j \in Job, ExpireRead(j) PROVE LeaseInv'
  BY <1>1, <1>2, <1>6, IdleStep DEF ExpireRead
<1>7. ASSUME NEW k \in Job, create_scan_job(k) \/ DeadlinePasses(k) PROVE LeaseInv'
  <2>1. /\ TypeOK /\ LeaseInv /\ job \in [Job -> Row]
        /\ UNCHANGED <<results, announced, requested, minted, disp, ingest>>
    BY <1>7 DEF IInv, TypeOK, RowsTypeOK, create_scan_job, DeadlinePasses
  <2>2. /\ \A j \in Job \ {k} : job'[j] = job[j]
        /\ job'[k].lease = job[k].lease /\ job'[k].count = job[k].count
        /\ \/ job'[k].status = job[k].status
           \/ job[k].status = "none" /\ job'[k].status = "queued"
    <3>1. CASE create_scan_job(k)
      <4>1. job[k].lease = None /\ job[k].count = 0
        BY <2>1, <3>1 DEF create_scan_job, LeaseInv, RowOK, CountOK
      <4> QED
        BY <2>1, <3>1, <4>1 DEF create_scan_job, Created
    <3>2. CASE DeadlinePasses(k)
      BY <2>1, <3>2 DEF DeadlinePasses, Row
    <3> QED
      BY <1>7, <3>1, <3>2
  <2>3. \A j \in Job : RowOK(j)' /\ CountOK(j)'
    <3>1. \A j \in Job : RowOK(j) /\ CountOK(j)
      BY <2>1 DEF LeaseInv
    <3>2. \A j \in Job : RowOK(j)'
      BY <2>1, <2>2, <3>1, ZenonT(60) DEF RowOK, Terminal
    <3>3. \A j \in Job : CountOK(j)'
      BY <2>1, <2>2, <3>1 DEF CountOK
    <3> QED
      BY <3>2, <3>3
  <2>4. \A d \in Dispatcher : HolderOK(d)'
    <3> SUFFICES ASSUME NEW d \in Dispatcher, Holding(d) PROVE HolderOK(d)'
      BY <2>1 DEF HolderOK, Holding
    <3>1. HolderOK(d) /\ disp[d].job \in Job
      BY <2>1 DEF LeaseInv, TypeOK, DispatchTypeOK, Holding
    <3> QED
      BY <2>1, <2>2, <3>1 DEF HolderOK
  <2>5. OneHolder'
    BY <2>1 DEF LeaseInv, OneHolder, Holding
  <2>6. \A h \in Handler : IngestOK(h)'
    <3> SUFFICES ASSUME NEW h \in Handler, ingest[h] # None
                 PROVE  job'[ingest[h][1]].status # "none"
      BY <2>1 DEF IngestOK
    <3>1. ingest[h][1] \in Job /\ job[ingest[h][1]].status # "none"
      BY <2>1 DEF LeaseInv, IngestOK, TypeOK, AgentTypeOK
    <3> QED
      BY <2>2, <3>1
  <2>7. LeaseUnique'
    BY <2>1, <2>2 DEF LeaseInv, LeaseUnique
  <2> QED
    BY <2>3, <2>4, <2>5, <2>6, <2>7 DEF LeaseInv
<1> QED
  BY <1>3, <1>4, <1>5, <1>6, <1>7

\* A finding is recorded: one row more, and one more in the counter, below the
\* ceiling.
LEMMA CountStep ==
  ASSUME IInv, NEW k \in Job, NEW f \in Finding, f \notin results[k], job[k].count < Ceiling,
         job[k].status # "none", FewerIngest,
         results' = [results EXCEPT ![k] = @ \cup {f}],
         job' = [job EXCEPT ![k].count = @ + 1],
         UNCHANGED <<announced, requested, minted, disp>>
  PROVE  LeaseInv'
<1>1. /\ TypeOK /\ LeaseInv /\ job \in [Job -> Row]
      /\ results \in [Job -> SUBSET Finding]
  BY DEF IInv, TypeOK, RowsTypeOK
<1>2. /\ \A j \in Job \ {k} : job'[j] = job[j] /\ results'[j] = results[j]
      /\ job'[k].lease = job[k].lease /\ job'[k].status = job[k].status
      /\ job'[k].count = job[k].count + 1 /\ results'[k] = results[k] \cup {f}
  BY <1>1 DEF Row
<1>3. \A j \in Job : RowOK(j) /\ CountOK(j)
  BY <1>1 DEF LeaseInv
<1>4. \A j \in Job : RowOK(j)'
  BY <1>2, <1>3, ZenonT(30) DEF RowOK
<1>5. CountOK(k)'
  <2>1. IsFiniteSet(results'[k]) /\ Cardinality(results'[k]) = Cardinality(results[k]) + 1
    BY <1>2, <1>3, FS_AddElement DEF CountOK
  <2>2. job[k].count \in Nat
    BY <1>1 DEF Row
  <2> QED
    BY <1>2, <1>3, <2>1, <2>2, LeaseAssumption DEF CountOK
<1>6. \A j \in Job \ {k} : CountOK(j)'
  BY <1>2, <1>3 DEF CountOK
<1>7. \A d \in Dispatcher : HolderOK(d)'
  <2> SUFFICES ASSUME NEW d \in Dispatcher, Holding(d) PROVE HolderOK(d)'
    BY DEF HolderOK, Holding
  <2>1. HolderOK(d) /\ disp[d].job \in Job
    BY <1>1 DEF LeaseInv, TypeOK, DispatchTypeOK, Holding
  <2> QED
    BY <1>2, <2>1 DEF HolderOK
<1>8. OneHolder'
  BY <1>1 DEF LeaseInv, OneHolder, Holding
<1>9. \A h \in Handler : IngestOK(h)'
  <2> SUFFICES ASSUME NEW h \in Handler, ingest'[h] # None PROVE IngestOK(h)'
    BY DEF IngestOK
  <2>1. ingest'[h] = ingest[h] /\ IngestOK(h) /\ ingest[h][1] \in Job
    BY <1>1 DEF FewerIngest, LeaseInv, TypeOK, AgentTypeOK
  <2> QED
    BY <1>2, <2>1 DEF IngestOK
<1>10. LeaseUnique'
  BY <1>1, <1>2 DEF LeaseInv, LeaseUnique
<1> QED
  BY <1>4, <1>5, <1>6, <1>7, <1>8, <1>9, <1>10 DEF LeaseInv

\* The agent's steps, and the ingestion of its frames.
LEMMA AgentLease ==
  ASSUME IInv,
         \/ AgentReceive \/ Flip
         \/ \E t \in Tokens, what \in Finding \cup {"completed", "failed"} : AgentReports(t, what)
         \/ \E h \in Handler : IngestWrite(h) \/ \E frame \in sent : IngestRead(h, frame)
  PROVE  LeaseInv'
<1> USE DEF rows, trigger, server, agent, edits
<1>1. UNCHANGED disp => FewerHold
  BY DEF FewerHold, Holding
<1>2. CASE \/ AgentReceive \/ Flip
           \/ \E t \in Tokens, what \in Finding \cup {"completed", "failed"} : AgentReports(t, what)
  <2>1. UNCHANGED <<job, results, announced, requested, minted, disp, ingest>>
    BY <1>2 DEF AgentReceive, Flip, AgentReports
  <2>2. FewerIngest
    BY <2>1 DEF FewerIngest
  <2> QED
    BY <1>1, <2>1, <2>2, IdleStep
<1>3. ASSUME NEW h \in Handler, NEW frame \in sent, IngestRead(h, frame) PROVE LeaseInv'
  <2>1. UNCHANGED <<job, results, announced, requested, minted, disp>>
    BY <1>3 DEF IngestRead
  <2>2. PICK j \in Job : job[j].status = "running" /\ ingest' = [ingest EXCEPT ![h] = <<j, frame[1]>>]
    BY <1>3 DEF IngestRead, HasLease
  <2>3. TypeOK /\ LeaseInv
    BY DEF IInv
  <2>4. \A g \in Handler : IngestOK(g)'
    <3>1. \A g \in Handler : IngestOK(g)
      BY <2>3 DEF LeaseInv
    <3>2. ingest'[h] = <<j, frame[1]>> /\ \A g \in Handler \ {h} : ingest'[g] = ingest[g]
      BY <2>2, <2>3 DEF TypeOK, AgentTypeOK
    <3> QED
      BY <2>1, <2>2, <3>1, <3>2 DEF IngestOK
  <2>5. \A k \in Job : RowOK(k)' /\ CountOK(k)'
    BY <2>1, <2>3 DEF LeaseInv, RowOK, CountOK
  <2>6. (\A d \in Dispatcher : HolderOK(d)') /\ OneHolder'
    BY <2>1, <2>3 DEF LeaseInv, HolderOK, Holding, OneHolder
  <2>7. LeaseUnique'
    BY <2>1, <2>3 DEF LeaseInv, LeaseUnique
  <2> QED
    BY <2>4, <2>5, <2>6, <2>7 DEF LeaseInv
<1>4. ASSUME NEW h \in Handler, IngestWrite(h) PROVE LeaseInv'
  <2>1. /\ ingest[h] # None /\ ingest' = [ingest EXCEPT ![h] = None]
        /\ UNCHANGED <<requested, minted, disp>>
    BY <1>4 DEF IngestWrite
  <2>2. /\ ingest \in [Handler -> (Job \X (Finding \cup Terminal)) \cup {None}]
        /\ LeaseInv
    BY DEF IInv, TypeOK, AgentTypeOK
  <2>3. FewerIngest /\ FewerHold
    BY <1>1, <2>1, <2>2 DEF FewerIngest
  <2>4. PICK j \in Job, what \in Finding \cup Terminal : ingest[h] = <<j, what>>
    BY <2>1, <2>2
  <2>5. job[j].status # "none"
    BY <2>1, <2>2, <2>4 DEF LeaseInv, IngestOK
  <2>6. IF what \in Terminal THEN finalize_agent_job(j, what) ELSE _record_host_finding(j, what)
    BY <1>4, <2>4 DEF IngestWrite
  <2>7. CASE what \in Terminal
    BY <2>1, <2>3, <2>6, <2>7, CloseStep DEF finalize_agent_job
  <2>8. CASE what \notin Terminal
    <3>1. CASE what \in results[j]
      BY <2>1, <2>3, <2>6, <2>8, <3>1, IdleStep DEF _record_host_finding
    <3>2. CASE what \notin results[j] /\ job[j].count < Ceiling
      <4>1. /\ results' = [results EXCEPT ![j] = @ \cup {what}]
            /\ job' = [job EXCEPT ![j].count = @ + 1]
            /\ UNCHANGED announced
        BY <2>6, <2>8, <3>2 DEF _record_host_finding
      <4> QED
        BY <2>1, <2>3, <2>4, <2>5, <2>8, <3>2, <4>1, CountStep
    <3>3. CASE what \notin results[j] /\ ~(job[j].count < Ceiling)
      <4>1. finalize_agent_job(j, "failed") /\ "failed" \in Terminal
        BY <2>6, <2>8, <3>3 DEF _record_host_finding, Terminal
      <4> QED
        BY <2>1, <2>3, <4>1, CloseStep DEF finalize_agent_job
    <3> QED
      BY <3>1, <3>2, <3>3
  <2> QED
    BY <2>7, <2>8
<1> QED
  BY <1>2, <1>3, <1>4

\* Every step preserves the invariant.
LEMMA NextIInv == IInv /\ [Next]_vars => IInv'
<1> SUFFICES ASSUME IInv, [Next]_vars PROVE IInv'
  OBVIOUS
<1>1. TypeOK'
  BY NextType DEF IInv
<1>2. CASE UNCHANGED vars
  <2>1. FewerHold /\ FewerIngest
    BY <1>2 DEF vars, rows, server, FewerHold, Holding, FewerIngest
  <2>2. LeaseInv'
    BY <1>2, <2>1, IdleStep DEF vars, rows, server
  <2> QED
    BY <1>1, <2>2 DEF IInv
<1>3. CASE Next
  <2>1. LeaseInv'
    BY <1>3, DispatchLease, CancelLease, AgentLease DEF Next
  <2> QED
    BY <1>1, <2>1 DEF IInv
<1> QED
  BY <1>2, <1>3

-----------------------------------------------------------------------------
(* Theorems.                                                                   *)

\* The inductive invariant holds throughout.
THEOREM LeaseInvariant == Spec => []IInv
BY InitIInv, NextIInv, PTL DEF Spec

\* Rows, leases, frames and what every coroutine knows keep their types.
THEOREM TypeCorrect == Spec => []TypeOK
<1>1. IInv => TypeOK
  BY DEF IInv
<1> QED
  BY <1>1, LeaseInvariant, PTL

\* A network is swept once per job: of all dispatchers that claim, park, retry
\* and die, one publishes a request, under the token the row still carries.
THEOREM OneSweepAlways == Spec => []OneSweep
<1>1. ASSUME IInv PROVE OneSweep
  <2> SUFFICES ASSUME NEW j \in Job
               PROVE  Cardinality(requested[j]) <= 1 /\ requested[j] \subseteq {job[j].lease}
    BY DEF OneSweep
  <2>1. requested[j] \subseteq {job[j].lease}
    BY <1>1 DEF IInv, LeaseInv, RowOK
  <2>2. IsFiniteSet({job[j].lease}) /\ Cardinality({job[j].lease}) = 1
    BY FS_Singleton
  <2> QED
    BY <2>1, <2>2, FS_Subset
<1> QED
  BY <1>1, LeaseInvariant, PTL

\* The counter of a job is the number of its result rows, and never above the
\* ceiling, whatever was replayed on which session.
THEOREM CountsAlwaysExact == Spec => []CountsExact
<1>1. IInv => CountsExact
  BY DEF IInv, LeaseInv, CountOK, CountsExact
<1> QED
  BY <1>1, LeaseInvariant, PTL

\* A token identifies one job: a frame that quotes it is applied to no other.
THEOREM LeasesUnique == Spec => []LeaseUnique
<1>1. IInv => LeaseUnique
  BY DEF IInv, LeaseInv
<1> QED
  BY <1>1, LeaseInvariant, PTL

\* The rows a step leaves in a terminal status: none is brought back by whoever
\* read it open, parks it or closes it again.
LEMMA TerminalKept ==
  ASSUME IInv, [Next]_vars, NEW j \in Job, job[j].status \in Terminal
  PROVE  job'[j].status = job[j].status
<1> USE DEF rows, trigger, server, agent, edits
<1>1. job \in [Job -> Row] /\ TypeOK /\ LeaseInv
  BY DEF IInv, TypeOK, RowsTypeOK
<1>2. "failed" \in Terminal /\ "cancelled" \in Terminal
  BY DEF Terminal
<1>3. ASSUME NEW js, NEW status \in Terminal, Close(js, status) PROVE job'[j].status = job[j].status
  <2>1. job[j].status \notin Open
    BY DEF Open, Terminal
  <2> QED
    BY <1>1, <1>3, <2>1, ClosedRow
<1>4. CASE UNCHANGED job
  BY <1>4
<1>5. ASSUME NEW d \in Dispatcher, Dispatch(d) PROVE job'[j].status = job[j].status
  <2>1. CASE _claim(d)
    BY <1>1, <2>1 DEF _claim, Terminal
  <2>2. CASE _release_to_waiting(d)
    BY <1>1, <2>2 DEF _release_to_waiting, HoldsLease, Terminal
  <2>3. CASE Deny(d)
    BY <1>2, <1>3, <2>3 DEF Deny, finalize_agent_job
  <2>4. CASE PublishRequest(d)
    BY <1>2, <1>3, <2>4 DEF PublishRequest, finalize_agent_job
  <2>5. CASE _lease_still_held(d)
    BY <2>5 DEF _lease_still_held
  <2> QED
    BY <1>5, <2>1, <2>2, <2>3, <2>4, <2>5 DEF Dispatch
<1>6. ASSUME NEW k \in Job, create_scan_job(k) \/ DeadlinePasses(k) \/ ExpireRead(k)
      PROVE  job'[j].status = job[j].status
  BY <1>1, <1>6 DEF create_scan_job, DeadlinePasses, ExpireRead, Terminal, Row
<1>7. CASE _close_jobs \/ _expire
  BY <1>2, <1>3, <1>7 DEF _close_jobs, _expire, finalize_agent_job
<1>8. ASSUME NEW h \in Handler, IngestWrite(h) PROVE job'[j].status = job[j].status
  <2>1. PICK k \in Job, what \in Finding \cup Terminal : ingest[h] = <<k, what>>
    BY <1>1, <1>8 DEF IngestWrite, TypeOK, AgentTypeOK
  <2>2. IF what \in Terminal THEN finalize_agent_job(k, what) ELSE _record_host_finding(k, what)
    BY <1>8, <2>1 DEF IngestWrite
  <2>3. CASE \E st \in Terminal : finalize_agent_job(k, st)
    BY <1>3, <2>3 DEF finalize_agent_job
  <2>4. CASE job' = [job EXCEPT ![k].count = @ + 1]
    BY <1>1, <2>4 DEF Row
  <2> QED
    BY <1>2, <1>4, <2>2, <2>3, <2>4 DEF _record_host_finding
<1>9. CASE \/ \E d \in Dispatcher : Die(d) \/ \E k \in Job : execute_scan_job(d, k)
           \/ Cancellation \/ publish_discovery_cancels \/ AgentReceive \/ Flip
           \/ \E t \in Tokens, what \in Finding \cup {"completed", "failed"} : AgentReports(t, what)
           \/ \E h \in Handler, frame \in sent : IngestRead(h, frame)
           \/ UNCHANGED vars
  <2>1. UNCHANGED job
    BY <1>9 DEF Die, execute_scan_job, Cancellation, publish_discovery_cancels, AgentReceive,
                Flip, AgentReports, IngestRead, vars, cancel_agent_dispatches, put_capabilities,
                cancel_job, cancel_scope_changed_dispatches, CancelRead
  <2> QED
    BY <2>1
<1> QED
  BY <1>5, <1>6, <1>7, <1>8, <1>9 DEF Next

\* A job ends once, with the outcome of whoever closed it first, and the clients
\* are told that outcome and no other.
THEOREM EndsOnceAlways == Spec => EndsOnce
<1>1. ASSUME IInv, IInv', [Next]_vars
      PROVE  [\A j \in Job :
                /\ job[j].status \in Terminal => job'[j].status = job[j].status
                /\ job'[j].status \in Terminal => announced'[j] = <<job'[j].status>>]_vars
  <2>1. \A j \in Job : job'[j].status \in Terminal => announced'[j] = <<job'[j].status>>
    BY <1>1 DEF IInv, LeaseInv, RowOK
  <2> QED
    BY <1>1, <2>1, TerminalKept
<1> QED
  BY <1>1, LeaseInvariant, PTL DEF Spec, EndsOnce
=============================================================================

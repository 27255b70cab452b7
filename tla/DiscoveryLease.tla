--------------------------- MODULE DiscoveryLease ---------------------------
(* Network scans carried out by an agent.  A scan job is a database row; the   *)
(* lease an agent works under is the token in that row.  Dispatchers (request *)
(* handlers, cron, the drains of the backlog) race to claim a queued job,     *)
(* await the agent's eligibility and publish the request; operators, grant    *)
(* and scope edits cancel; the reconciler gives up on silent and absent       *)
(* agents; the agent's findings and summaries arrive, and arrive again, on    *)
(* several link sessions.  They all write the same row, each in transactions  *)
(* of its own, and each knows only what it read before its last await.        *)
EXTENDS Naturals, Sequences, FiniteSets

CONSTANTS
  Job,           \* scan jobs of one agent
  Dispatcher,    \* concurrent calls of dispatch_discovery_job
  Handler,       \* link sessions that ingest the agent's frames
  Finding,       \* hosts the agent may find, per dispatch
  Ceiling,       \* findings a dispatch may record
  MaxScans,      \* max_concurrent_scans
  MaxTrigger,    \* bound: cancellations, grant and scope edits
  MaxFault,      \* bound: the agent's comings and goings and dispatchers' deaths
  None

ASSUME LeaseAssumption ==
  /\ Ceiling \in Nat /\ MaxScans \in Nat \ {0}
  /\ MaxTrigger \in Nat /\ MaxFault \in Nat
  /\ None \notin Job \cup Finding \cup Nat

VARIABLES
  job,           \* the rows of scan_jobs
  results,       \* job -> its rows of scan_results
  scope,         \* version of the agent's effective scope
  granted,       \* the local_discovery grant
  minted,        \* tokens minted so far
  disp,          \* dispatchers: where each is, its job and its token
  cancel,        \* the cancellation under way: what it read, what it owes
  doomed,        \* job the reconciler read as given up, or None
  online,        \* the agent's presence key is set
  toAgent,       \* control frames on their way to the agent
  sweeping,      \* tokens the agent works on
  sent,          \* frames the agent has sent, and may send again
  ingest,        \* handlers: the frame each has authenticated, or None
  \* history
  announced,     \* job -> statuses its closers go on to publish to the clients
  requested,     \* job -> tokens requests were published under
  \* bounds
  flips, deaths, triggers

rows == <<job, results, announced>>
trigger == <<cancel, triggers>>
server == <<disp, trigger, doomed, minted, requested>>
agent == <<online, toAgent, sweeping, sent, flips>>
edits == <<scope, granted>>
vars == <<rows, server, agent, edits, ingest, deaths>>

\* One more fault is within the bound.
MayFault == flips + deaths < MaxFault

Open == {"queued", "running"}
Terminal == {"completed", "failed", "cancelled"}

\* A row as create_scan_job leaves it.  `late` says that its
\* deadline has passed, and for a lease the grace for late findings with it.
Created == [status |-> "queued", lease |-> None, parked |-> FALSE, late |-> FALSE,
            scope |-> None, count |-> 0]
NoJob == [Created EXCEPT !.status = "none"]

Idle == [pc |-> "idle", job |-> None, token |-> None]
NoCancel == [pc |-> "idle", read |-> {}, owed |-> {}, scope |-> None, granted |-> None]

Init ==
  /\ job = [j \in Job |-> NoJob]
  /\ results = [j \in Job |-> {}]
  /\ announced = [j \in Job |-> <<>>]
  /\ requested = [j \in Job |-> {}]
  /\ scope = 1 /\ granted = TRUE /\ minted = 0
  /\ disp = [d \in Dispatcher |-> Idle]
  /\ cancel = NoCancel /\ doomed = None
  /\ online = FALSE /\ toAgent = <<>> /\ sweeping = {} /\ sent = {}
  /\ ingest = [h \in Handler |-> None]
  /\ flips = 0 /\ deaths = 0 /\ triggers = 0

create_scan_job(j) ==
  /\ job[j].status = "none"
  /\ job' = [job EXCEPT ![j] = Created]
  /\ UNCHANGED <<results, announced, server, agent, edits, ingest, deaths>>

----------------------------------------------------------------------------
(* The terminal writes                                                        *)

\* The one predicate of finalize_agent_job and _transition_terminal: a row that
\* is still open takes the status, and the winner tells the clients once it has
\* committed.  (One that dies in between tells nobody: `announced` is what the
\* clients may hear.)
Close(js, status) ==
  LET won == {j \in js : job[j].status \in Open} IN
    /\ job' = [j \in Job |-> IF j \in won THEN [job[j] EXCEPT !.status = status,
                                                              !.parked = FALSE]
                             ELSE job[j]]
    /\ announced' = [j \in Job |-> IF j \in won THEN Append(announced[j], status)
                                   ELSE announced[j]]

finalize_agent_job(j, status) == Close({j}, status) /\ UNCHANGED results

----------------------------------------------------------------------------
(* dispatch_discovery_job                                                     *)

Running == {j \in Job : job[j].status = "running"}

\* execute_scan_job and the drains look for a free slot, which is advice and no
\* claim; a parked job is retried only by the reconciler, with its agent back.
execute_scan_job(d, j) ==
  /\ disp[d].pc = "idle"
  /\ job[j].status = "queued"
  /\ job[j].parked => online
  /\ Cardinality(Running) < MaxScans
  /\ disp' = [disp EXCEPT ![d] = [pc |-> "read", job |-> j, token |-> scope]]
  /\ UNCHANGED <<rows, trigger, doomed, minted, requested, agent, edits, ingest, deaths>>

\* Mutant: the claim is written without asking whether the row is still queued.
_claim_Blind(d) ==
  LET j == disp[d].job IN
    /\ disp[d].pc = "read"
    /\ minted' = minted + 1
    /\ job' = [job EXCEPT ![j] = [@ EXCEPT !.status = "running", !.lease = minted + 1,
                                           !.parked = FALSE, !.late = FALSE,
                                           !.scope = disp[d].token]]
    /\ disp' = [disp EXCEPT ![d] = [pc |-> "claimed", job |-> j, token |-> minted + 1]]
    /\ UNCHANGED <<results, announced, trigger, doomed, requested, agent, edits, ingest, deaths>>

\* _claim: compare-and-set of a queued row without a lease, with the version of
\* the scope the dispatcher derived before it.
_claim(d) ==
  LET j == disp[d].job IN
    /\ disp[d].pc = "read"
    /\ IF job[j].status = "queued"
       THEN /\ minted' = minted + 1
            /\ job' = [job EXCEPT ![j] = [@ EXCEPT !.status = "running", !.lease = minted + 1,
                                                   !.parked = FALSE, !.late = FALSE,
                                                   !.scope = disp[d].token]]
            /\ disp' = [disp EXCEPT ![d] = [pc |-> "claimed", job |-> j, token |-> minted + 1]]
       ELSE /\ disp' = [disp EXCEPT ![d] = Idle]
            /\ UNCHANGED <<job, minted>>
    /\ UNCHANGED <<results, announced, trigger, doomed, requested, agent, edits, ingest, deaths>>

\* _lease_clause: the row is still the one this dispatcher claimed.
HoldsLease(d) ==
  LET row == job[disp[d].job] IN row.status = "running" /\ row.lease = disp[d].token

\* Mutant: the job is parked whoever has closed it during the await.
_release_to_waiting_Blind(d) ==
  LET j == disp[d].job IN
    /\ disp[d].pc = "claimed" /\ ~online
    /\ job' = [job EXCEPT ![j] = [@ EXCEPT !.status = "queued", !.lease = None,
                                           !.parked = TRUE, !.late = FALSE, !.scope = None]]
    /\ disp' = [disp EXCEPT ![d] = Idle]
    /\ UNCHANGED <<results, announced, trigger, doomed, minted, requested, agent, edits,
                   ingest, deaths>>

\* The agent is away, or its presence has outlived the owner of its link for a
\* moment (one more of its comings and goings): _release_to_waiting parks the
\* job, with a new deadline and without a token.
_release_to_waiting(d) ==
  LET j == disp[d].job IN
    /\ disp[d].pc = "claimed"
    /\ \/ ~online /\ UNCHANGED flips
       \/ online /\ MayFault /\ flips' = flips + 1
    /\ job' = IF HoldsLease(d)
              THEN [job EXCEPT ![j] = [@ EXCEPT !.status = "queued", !.lease = None,
                                                !.parked = TRUE, !.late = FALSE, !.scope = None]]
              ELSE job
    /\ disp' = [disp EXCEPT ![d] = Idle]
    /\ UNCHANGED <<results, announced, trigger, doomed, minted, requested, online,
                   toAgent, sweeping, sent, edits, ingest, deaths>>

\* Too many targets fail the job before the claim; any other denial of
\* evaluate_eligibility, an ungranted port or too many addresses after it.
Deny(d) ==
  /\ disp[d].pc \in {"read", "claimed"}
  /\ finalize_agent_job(disp[d].job, "failed")
  /\ disp' = [disp EXCEPT ![d] = Idle]
  /\ UNCHANGED <<trigger, doomed, minted, requested, agent, edits, ingest, deaths>>

\* Eligible; the lease is read again before the frame leaves.
_lease_still_held(d) ==
  /\ disp[d].pc = "claimed" /\ online /\ granted
  /\ disp' = [disp EXCEPT ![d] = IF HoldsLease(d) THEN [@ EXCEPT !.pc = "publish"] ELSE Idle]
  /\ UNCHANGED <<rows, trigger, doomed, minted, requested, agent, edits, ingest, deaths>>

\* A control frame reaches the agent over a live link and is lost otherwise.
Deliver(frames) == toAgent' = IF online THEN toAgent \o frames ELSE toAgent

\* The request goes out, or Redis is down and the job fails.
PublishRequest(d) ==
  /\ disp[d].pc = "publish"
  /\ disp' = [disp EXCEPT ![d] = Idle]
  /\ \/ /\ Deliver(<<<<"request", disp[d].token>>>>)
        /\ requested' = [requested EXCEPT ![disp[d].job] = @ \cup {disp[d].token}]
        /\ UNCHANGED rows
     \/ /\ finalize_agent_job(disp[d].job, "failed")
        /\ UNCHANGED <<toAgent, requested>>
  /\ UNCHANGED <<trigger, doomed, minted, online, sweeping, sent, flips, edits, ingest, deaths>>

\* The process of a dispatcher dies.
Die(d) ==
  /\ disp[d].pc # "idle" /\ MayFault
  /\ deaths' = deaths + 1
  /\ disp' = [disp EXCEPT ![d] = Idle]
  /\ UNCHANGED <<rows, trigger, doomed, minted, requested, agent, edits, ingest>>

----------------------------------------------------------------------------
(* Cancellation: a trigger selects open jobs, closes those that still are in  *)
(* the transaction of the edit that caused it, and publishes after the commit *)
(* a frame for each lease it read.                                            *)

Trigger ==
  /\ cancel.pc = "idle" /\ triggers < MaxTrigger
  /\ triggers' = triggers + 1

CancelRead(js, newScope, newGrant) ==
  /\ Trigger /\ js # {}
  /\ \A j \in js : job[j].status \in Open
  /\ cancel' = [pc |-> "read", read |-> {<<j, job[j].lease>> : j \in js}, owed |-> {},
                scope |-> newScope, granted |-> newGrant]
  /\ UNCHANGED <<rows, disp, doomed, minted, requested, agent, edits, ingest, deaths>>

\* cancel_job and cancel_profile_dispatches: an operator calls off one job, or
\* the jobs of a profile.
cancel_job(js) == CancelRead(js, scope, granted)

\* cancel_agent_dispatches: the grant is turned off, or the agent is revoked.
cancel_agent_dispatches ==
  /\ granted
  /\ CancelRead({j \in Job : job[j].status \in Open}, scope, FALSE)

\* The leases that a change of the scope retires: their version is not the new one.
Leased == {j \in Job : job[j].status \in Open /\ job[j].lease # None}

\* cancel_scope_changed_dispatches: all of those, and the jobs without a lease
\* whose targets are out of the new scope.
cancel_scope_changed_dispatches(js) ==
  /\ granted /\ Leased \subseteq js
  /\ CancelRead(js, scope + 1, granted)

\* An edit that finds nothing to retire only commits.  (A job that is claimed
\* between its reading and its commit is one whose dispatcher read the scope
\* before the edit.)
put_capabilities ==
  /\ Trigger /\ granted
  /\ \/ Leased = {} /\ scope' = scope + 1 /\ UNCHANGED granted
     \/ (\A j \in Job : job[j].status \notin Open) /\ granted' = FALSE /\ UNCHANGED scope
  /\ UNCHANGED <<rows, disp, cancel, doomed, minted, requested, agent, ingest, deaths>>

\* The cancellation has these frames left to publish.
Owes(tokens) ==
  cancel' = IF tokens = {} THEN NoCancel ELSE [NoCancel EXCEPT !.pc = "publish", !.owed = tokens]

\* _close_jobs, cancel_job_dispatch, and the commit: the edit takes effect with
\* the closing, and the frame quotes the lease that was read.
_close_jobs ==
  /\ cancel.pc = "read"
  /\ Close({r[1] : r \in cancel.read}, "cancelled")
  /\ scope' = cancel.scope /\ granted' = cancel.granted
  /\ Owes({r[2] : r \in {x \in cancel.read : job[x[1]].status \in Open}} \ {None})
  /\ UNCHANGED <<results, triggers, disp, doomed, minted, requested, agent, ingest, deaths>>

publish_discovery_cancels ==
  /\ cancel.pc = "publish"
  /\ \E t \in cancel.owed : Owes(cancel.owed \ {t}) /\ Deliver(<<<<"cancel", t>>>>)
  /\ UNCHANGED <<rows, triggers, disp, doomed, minted, requested, online, sweeping, sent, flips,
                 edits, ingest, deaths>>

----------------------------------------------------------------------------
(* The reconciler                                                             *)

\* The deadline of a parked job passes, or the deadline and the grace of a lease.
DeadlinePasses(j) ==
  /\ job[j].status = "running" \/ job[j].parked
  /\ ~job[j].late
  /\ job' = [job EXCEPT ![j].late = TRUE]
  /\ UNCHANGED <<results, announced, server, agent, edits, ingest, deaths>>

\* Mutant: nobody gives up on a parked job.
Expired_LeasesOnly(j) == job[j].late /\ job[j].status = "running"

\* _expire_dead_leases and _expire_parked_jobs select ...
Expired(j) == job[j].late /\ (job[j].status = "running" \/ job[j].parked)

ExpireRead(j) ==
  /\ doomed = None /\ Expired(j)
  /\ doomed' = j
  /\ UNCHANGED <<rows, disp, trigger, minted, requested, agent, edits, ingest, deaths>>

\* ... and close what is still open by then.
_expire ==
  /\ doomed # None
  /\ finalize_agent_job(doomed, "failed")
  /\ doomed' = None
  /\ UNCHANGED <<disp, trigger, minted, requested, agent, edits, ingest, deaths>>

----------------------------------------------------------------------------
(* The agent                                                                  *)

\* Runtime.Request and Runtime.Cancel; a request is refused with a summary, an
\* unknown dispatch is not remembered, and a dispatch that is called off sends
\* its summary.
AgentReceive ==
  /\ toAgent # <<>>
  /\ toAgent' = Tail(toAgent)
  /\ LET t == Head(toAgent)[2] IN
       IF Head(toAgent)[1] = "request"
       THEN \/ sweeping' = sweeping \cup {t} /\ UNCHANGED sent
            \/ sent' = sent \cup {<<"failed", t>>} /\ UNCHANGED sweeping
       ELSE /\ sweeping' = sweeping \ {t}
            /\ sent' = IF t \in sweeping THEN sent \cup {<<"cancelled", t>>} ELSE sent
  /\ UNCHANGED <<rows, server, online, flips, edits, ingest, deaths>>

\* A sweep reports what it finds, and ends with its summary.
AgentReports(t, what) ==
  /\ t \in sweeping
  /\ sent' = sent \cup {<<what, t>>}
  /\ sweeping' = IF what \in Terminal THEN sweeping \ {t} ELSE sweeping
  /\ UNCHANGED <<rows, server, online, toAgent, flips, edits, ingest, deaths>>

\* The agent's link comes or goes; frames on their way are lost with it.
Flip ==
  /\ MayFault
  /\ flips' = flips + 1
  /\ online' = ~online
  /\ toAgent' = <<>>
  /\ UNCHANGED <<rows, server, sweeping, sent, edits, ingest, deaths>>

----------------------------------------------------------------------------
(* ingest_discovery_finding                                                   *)

\* The job a token belongs to, if any row carries it.
HasLease(t) == {j \in Job : job[j].lease = t}

\* Reading: the frame passes when its dispatch is known, open, not late and, for
\* a finding, under the scope its lease was claimed with.
IngestRead(h, frame) ==
  /\ online /\ granted /\ ingest[h] = None
  /\ frame \in sent
  /\ \E j \in HasLease(frame[2]) :
       /\ job[j].status = "running"
       /\ ~job[j].late
       /\ frame[1] \in Finding => job[j].scope = scope
       /\ ingest' = [ingest EXCEPT ![h] = <<j, frame[1]>>]
  /\ UNCHANGED <<rows, server, agent, edits, deaths>>

\* Mutant: the row of the finding that breached the ceiling is not rolled back.
_record_host_finding_NoRollback(j, f) ==
  CASE f \in results[j] -> UNCHANGED rows
    [] f \notin results[j] /\ job[j].count < Ceiling ->
         /\ results' = [results EXCEPT ![j] = @ \cup {f}]
         /\ job' = [job EXCEPT ![j].count = @ + 1]
         /\ UNCHANGED announced
    [] OTHER -> Close({j}, "failed") /\ results' = [results EXCEPT ![j] = @ \cup {f}]

\* _record_host_finding: a replay is inert; the ceiling is part of the counting
\* statement, and one finding too many fails the job.
_record_host_finding(j, f) ==
  CASE f \in results[j] -> UNCHANGED rows
    [] f \notin results[j] /\ job[j].count < Ceiling ->
         /\ results' = [results EXCEPT ![j] = @ \cup {f}]
         /\ job' = [job EXCEPT ![j].count = @ + 1]
         /\ UNCHANGED announced
    [] OTHER -> finalize_agent_job(j, "failed")

IngestWrite(h) ==
  /\ ingest[h] # None
  /\ ingest' = [ingest EXCEPT ![h] = None]
  /\ LET j == ingest[h][1]
         what == ingest[h][2]
     IN IF what \in Terminal THEN finalize_agent_job(j, what) ELSE _record_host_finding(j, what)
  /\ UNCHANGED <<server, agent, edits, deaths>>

----------------------------------------------------------------------------

Dispatch(d) ==
  \/ _claim(d) \/ _release_to_waiting(d) \/ Deny(d) \/ _lease_still_held(d)
  \/ PublishRequest(d)

Cancellation ==
  \/ cancel_agent_dispatches \/ put_capabilities
  \/ \E js \in SUBSET Job : cancel_job(js) \/ cancel_scope_changed_dispatches(js)

Tokens == 1..minted

Next ==
  \/ \E j \in Job : create_scan_job(j) \/ DeadlinePasses(j) \/ ExpireRead(j)
  \/ \E d \in Dispatcher : Dispatch(d) \/ Die(d)
  \/ \E d \in Dispatcher, j \in Job : execute_scan_job(d, j)
  \/ Cancellation \/ _close_jobs \/ publish_discovery_cancels
  \/ _expire
  \/ AgentReceive \/ Flip
  \/ \E t \in Tokens, what \in Finding \cup {"completed", "failed"} : AgentReports(t, what)
  \/ \E h \in Handler : IngestWrite(h) \/ \E frame \in sent : IngestRead(h, frame)

Spec == Init /\ [][Next]_vars

\* A dispatcher that lives goes on, deadlines pass, and the reconciler runs
\* every minute: it expires and it drains the backlog.  Of the agent only that
\* it does not come and go for ever (MaxFault): every parking renews the deadline.
Fairness ==
  /\ \A d \in Dispatcher : WF_vars(Dispatch(d))
  /\ \A j \in Job : /\ WF_vars(DeadlinePasses(j)) /\ WF_vars(ExpireRead(j))
                    /\ WF_vars(\E d \in Dispatcher : execute_scan_job(d, j))
  /\ WF_vars(_expire)

FairSpec == Spec /\ Fairness

----------------------------------------------------------------------------
(* Properties                                                                 *)

Row == [status : Open \cup Terminal \cup {"none"}, lease : Nat \cup {None},
        parked : BOOLEAN, late : BOOLEAN, scope : Nat \cup {None}, count : Nat]

RowsTypeOK ==
  /\ job \in [Job -> Row]
  /\ results \in [Job -> SUBSET Finding]
  /\ announced \in [Job -> Seq(Terminal)]

DispatchTypeOK ==
  /\ minted \in Nat /\ requested \in [Job -> SUBSET Nat]
  /\ disp \in [Dispatcher -> [pc : {"idle", "read", "claimed", "publish"},
                              job : Job \cup {None}, token : Nat \cup {None}]]
  /\ \A d \in Dispatcher : disp[d].pc # "idle" => disp[d].job \in Job /\ disp[d].token \in Nat
  /\ doomed \in Job \cup {None}

CancelTypeOK ==
  /\ scope \in Nat /\ granted \in BOOLEAN
  /\ cancel.read \subseteq Job \X (Nat \cup {None}) /\ cancel.owed \subseteq Nat
  /\ cancel.pc = "read" => cancel.scope \in Nat /\ cancel.granted \in BOOLEAN

AgentTypeOK ==
  /\ online \in BOOLEAN
  /\ toAgent \in Seq({"request", "cancel"} \X Nat)
  /\ sweeping \subseteq Nat
  /\ sent \subseteq (Finding \cup Terminal) \X Nat
  /\ ingest \in [Handler -> (Job \X (Finding \cup Terminal)) \cup {None}]

\* Rows, leases, frames and what every coroutine knows have their types: a
\* token is a number, a coroutine that is under way has a job.
TypeOK == RowsTypeOK /\ DispatchTypeOK /\ CancelTypeOK /\ AgentTypeOK

\* A job ends once, with the outcome of whoever closed it first, and the clients
\* hear of that outcome and no other: a summary, a cancellation, the
\* reconciler, a dispatcher that failed and the finding ceiling race for it,
\* and a dispatcher that parks the job does not bring it back.
EndsOnce ==
  [][\A j \in Job :
       /\ job[j].status \in Terminal => job'[j].status = job[j].status
       /\ job'[j].status \in Terminal => announced'[j] = <<job'[j].status>>]_vars

\* A network is swept once per job: of all dispatchers that claim, park, retry
\* and die, one publishes a request, and the agent that answers it is known by
\* the token in the row (it would be recorded as a violation otherwise).
OneSweep ==
  \A j \in Job : /\ Cardinality(requested[j]) <= 1
                 /\ requested[j] \subseteq {job[j].lease}

\* The counters the clients see are those of the rows that were recorded,
\* whatever was replayed on which session, and never above the ceiling.  (The
\* retention job deletes old rows later and leaves the counter.)
CountsExact ==
  \A j \in Job : /\ job[j].count = Cardinality(results[j])
                 /\ job[j].count <= Ceiling

\* Every job that was created ends, for good: with an agent that is silent, gone, or comes
\* and goes (within MaxFault) while the job is parked and retried, and with
\* dispatchers that die holding the lease.
EveryJobEnds == \A j \in Job : <>[](job[j].status \notin Open)

\* "a finding for a job this closed is refused by `_assert_dispatch_open` whether
\* or not any `discovery.cancel` was ever delivered": nothing is recorded for a
\* job that has ended.
NothingAfterClose ==
  [][\A j \in Job : job[j].status \in Terminal => results'[j] = results[j]]_vars

\* "No lease means nothing was ever published under a token the agent could
\* quote": a cancellation that has published its frames has told the agent
\* about every request that was out when the job was closed.
CancelReaches ==
  [][_close_jobs =>
       \A r \in cancel.read : job[r[1]].status \in Open => requested[r[1]] \subseteq cancel'.owed]_vars

\* "a dispatch whose version has moved can only starve", so none is left open:
\* a lease is claimed under the scope in force.
ClaimedInForce == [][\A d \in Dispatcher : _claim(d) /\ job' # job => disp[d].token = scope]_vars
=============================================================================

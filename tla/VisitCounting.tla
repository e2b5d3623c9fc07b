----------------------------- MODULE VisitCounting -----------------------------
(***************************************************************************)
(* How following one link ends up in its TotalViews and in its hourly rows *)
(* of the table Visit.  A frontend that finds the destination in the cache *)
(* answers and leaves NotifyRedirect to its queue; otherwise it calls      *)
(* Redirect.  Either call makes a replica of the shard queue a visit task, *)
(* which increments TotalViews, looks for a visit row of the last hour and *)
(* updates it or inserts one.  From RedirectFrontend RedirectService.cs,   *)
(* GrpcBackend/Services/UrlService.cs, Repositories/UrlRepository.cs and   *)
(* VisitRepository.cs, and FrontendShared GrpcClientFactory.cs (retries).  *)
(* Pgpool balances the reads: a SELECT may be answered by a standby that   *)
(* has not got the latest changes yet.                                     *)
(***************************************************************************)
EXTENDS Integers, Sequences, FiniteSets, Functions, FiniteSetsExt

CONSTANTS
    Redirects,    \* the requests that follow the link
    Frontends,    \* the replicas of Shortener.RedirectFrontend
    Replicas,     \* the pods of the shard
    Capacity,     \* capacity of the background task queues
    MaxAttempts,  \* RetryPolicy.MaxAttempts
    Faults,       \* whether calls and tasks fail and processes stop
    Deletion      \* whether the link may be deleted

ASSUME VisitCountingAssumption ==
    /\ IsFiniteSet(Replicas)
    /\ Capacity \in Nat \ {0} /\ MaxAttempts \in Nat \ {0}
    /\ Faults \in BOOLEAN /\ Deletion \in BOOLEAN

VARIABLES
    present,    \* whether the link's row exists
    totalViews, \* its TotalViews
    visits,     \* its rows in Visit by Id: Total and the replica that inserted it
    fresh,      \* the Ids of the rows created within the last hour
    missed,     \* history: the replicas with a fresh row that a lookup of theirs missed
    call,       \* the gRPC call on behalf of each redirect
    frontQueue, \* BackgroundTaskQueue of each frontend
    notifying,  \* the redirects whose task a frontend's consumer is running
    queue,      \* the visit tasks in the BackgroundTaskQueue of each replica;
                \* they are alike, so that their number is enough
    worker,     \* the task that each replica's consumer is running
    answered    \* the redirects that got their destination

dbVars == <<present, totalViews, visits, fresh, missed>>
frontVars == <<frontQueue, notifying, answered>>
vars == <<dbVars, call, frontVars, queue, worker>>

Call == [pc: {"new", "sent", "read", "handled", "over"}, attempts: 0 .. MaxAttempts,
         at: Replicas \union {"none"}]
NewCall == [pc |-> "new", attempts |-> 0, at |-> "none"]

Worker == [pc: {"idle", "start", "incremented", "insert", "update", "waits"}, visit: Nat]
IdleWorker == [pc |-> "idle", visit |-> 0]

Init ==
    /\ present = TRUE /\ totalViews = 0 /\ visits = <<>>
    /\ fresh = {} /\ missed = {}
    /\ call = [v \in Redirects |-> NewCall]
    /\ frontQueue = [f \in Frontends |-> <<>>]
    /\ notifying = [f \in Frontends |-> {}]
    /\ queue = [r \in Replicas |-> 0]
    /\ worker = [r \in Replicas |-> IdleWorker]
    /\ answered = {}

-------------------------------------------------------------------------------
(* The frontends *)

Sent(v) == [call EXCEPT ![v] = [NewCall EXCEPT !.pc = "sent", !.attempts = 1]]

\* A cache hit, which may outlive the link: the answer follows once the task is
\* in the frontend's queue.
RedirectHit(v, f) ==
    /\ call[v].pc = "new" /\ v \notin answered /\ Len(frontQueue[f]) < Capacity
    /\ frontQueue' = [frontQueue EXCEPT ![f] = Append(@, v)]
    /\ answered' = answered \union {v}
    /\ UNCHANGED <<dbVars, call, notifying, queue, worker>>

RedirectMiss(v) ==
    /\ call[v].pc = "new" /\ v \notin answered
    /\ call' = Sent(v)
    /\ UNCHANGED <<dbVars, frontVars, queue, worker>>

\* The frontend's consumer runs one task at a time and waits for its call.
NotifyRedirect(f) ==
    /\ notifying[f] = {} /\ frontQueue[f] # <<>>
    /\ notifying' = [notifying EXCEPT ![f] = {Head(frontQueue[f])}]
    /\ frontQueue' = [frontQueue EXCEPT ![f] = Tail(@)]
    /\ call' = Sent(Head(frontQueue[f]))
    /\ UNCHANGED <<dbVars, answered, queue, worker>>

\* The call is over: the consumer goes on, and a redirect that was not answered
\* from the cache gets its destination if the call succeeded.
CallEnds(v, success) ==
    /\ call' = [call EXCEPT ![v] = [@ EXCEPT !.pc = "over", !.at = "none"]]
    /\ notifying' = [f \in Frontends |-> notifying[f] \ {v}]
    /\ answered' = IF success THEN answered \union {v} ELSE answered
    /\ UNCHANGED frontQueue

\* A frontend stops: its queue and the calls it is making are lost.
FrontendCrash(f) ==
    /\ Faults
    /\ frontQueue' = [frontQueue EXCEPT ![f] = <<>>]
    /\ notifying' = [notifying EXCEPT ![f] = {}]
    /\ call' = [v \in Redirects |->
          IF v \in notifying[f] \union Range(frontQueue[f])
          THEN [call[v] EXCEPT !.pc = "over", !.at = "none"] ELSE call[v]]
    /\ UNCHANGED <<dbVars, answered, queue, worker>>

-------------------------------------------------------------------------------
(* Redirect and NotifyRedirect at a replica *)

\* Redirect answers NotFound when it reads no row: there is none, or the standby it
\* reads has not got it; a standby may also still have a row that was deleted.
\* NotifyRedirect does not look.
Receive(v, r) ==
    /\ call[v].pc = "sent"
    /\ \/ /\ call' = [call EXCEPT ![v] = [@ EXCEPT !.pc = "read", !.at = r]]
          /\ UNCHANGED frontVars
       \/ /\ v \notin answered
          /\ CallEnds(v, FALSE)
    /\ UNCHANGED <<dbVars, queue, worker>>

\* Mutant: a full queue takes another task.
IncrementVisitInBackground_Unbounded(v) ==
    /\ call[v].pc = "read"
    /\ queue' = [queue EXCEPT ![call[v].at] = @ + 1]
    /\ call' = [call EXCEPT ![v].pc = "handled"]
    /\ UNCHANGED <<dbVars, frontVars, worker>>

IncrementVisitInBackground(v) ==
    /\ call[v].pc = "read" /\ queue[call[v].at] < Capacity
    /\ queue' = [queue EXCEPT ![call[v].at] = @ + 1]
    /\ call' = [call EXCEPT ![v].pc = "handled"]
    /\ UNCHANGED <<dbVars, frontVars, worker>>

Reply(v) ==
    /\ call[v].pc = "handled"
    /\ CallEnds(v, TRUE)
    /\ UNCHANGED <<dbVars, queue, worker>>

\* The attempts for the redirects in failed end Unavailable, their tasks queued
\* or not: the client tries again, MaxAttempts times in all.
AttemptsFail(failed) ==
    LET last == {v \in failed : call[v].attempts = MaxAttempts}
    IN  /\ call' = [v \in Redirects |->
              IF v \in last THEN [call[v] EXCEPT !.pc = "over", !.at = "none"]
              ELSE IF v \in failed
                   THEN [NewCall EXCEPT !.pc = "sent", !.attempts = call[v].attempts + 1]
              ELSE call[v]]
        /\ notifying' = [f \in Frontends |-> notifying[f] \ last]
        /\ UNCHANGED <<frontQueue, answered>>

AttemptFails(v) ==
    /\ Faults /\ call[v].pc \in {"sent", "read", "handled"}
    /\ AttemptsFail({v})
    /\ UNCHANGED <<dbVars, queue, worker>>

-------------------------------------------------------------------------------
(* The visit task *)

Becomes(r, pc) == worker' = [worker EXCEPT ![r].pc = pc]

Dequeue(r) ==
    /\ worker[r].pc = "idle" /\ queue[r] > 0
    /\ queue' = [queue EXCEPT ![r] = @ - 1]
    /\ Becomes(r, "start")
    /\ UNCHANGED <<dbVars, call, frontVars>>

\* Mutant: TotalViews is read, and written back later without a lock.
IncrementVisit_Lost(r) ==
    /\ worker[r].pc = "start"
    /\ totalViews' \in IF present THEN {totalViews, totalViews + 1} ELSE {totalViews}
    /\ Becomes(r, "incremented")
    /\ UNCHANGED <<present, visits, fresh, missed, call, frontVars, queue>>

IncrementVisit(r) ==
    /\ worker[r].pc = "start"
    /\ totalViews' = IF present THEN totalViews + 1 ELSE totalViews
    /\ Becomes(r, "incremented")
    /\ UNCHANGED <<present, visits, fresh, missed, call, frontVars, queue>>

\* Mutant: the hour is not looked up.
GetLastHour_Never(r) ==
    /\ worker[r].pc = "incremented"
    /\ worker' = [worker EXCEPT ![r].pc = "insert"]
    /\ UNCHANGED <<dbVars, call, frontVars, queue>>

InsertedBy(r) == \E i \in fresh : visits[i].by = r

\* LIMIT 1 without an order: any row of the last hour, or none, when there is none or the
\* standby that is read has none yet.
GetLastHour(r) ==
    /\ worker[r].pc = "incremented"
    /\ \/ /\ worker' = [worker EXCEPT ![r].pc = "insert"]
          /\ missed' = missed \union {q \in {r} : InsertedBy(q)}
       \/ /\ \E i \in fresh : worker' = [worker EXCEPT ![r] = [pc |-> "update", visit |-> i]]
          /\ UNCHANGED missed
    /\ UNCHANGED <<present, totalViews, visits, fresh, call, frontVars, queue>>

\* Without the link the foreign key makes the INSERT throw.
Insert(r) ==
    /\ worker[r].pc = "insert"
    /\ \/ /\ present
          /\ visits' = Append(visits, [total |-> 1, by |-> r])
          /\ fresh' = fresh \union {Len(visits) + 1}
       \/ ~present /\ UNCHANGED <<visits, fresh>>
    /\ worker' = [worker EXCEPT ![r] = IdleWorker]
    /\ UNCHANGED <<present, totalViews, missed, call, frontVars, queue>>

Update(r) ==
    /\ worker[r].pc = "update"
    /\ visits' = IF worker[r].visit \in DOMAIN visits
                 THEN [visits EXCEPT ![worker[r].visit].total = @ + 1] ELSE visits
    /\ worker' = [worker EXCEPT ![r] = IdleWorker]
    /\ UNCHANGED <<present, totalViews, fresh, missed, call, frontVars, queue>>

\* Postgres, GeoIp or the parser throws: the consumer logs it, what the task
\* has done stays and the rest is lost.
VisitTaskThrows(r) ==
    /\ Faults /\ worker[r].pc \notin {"idle", "waits"}
    /\ worker' = [worker EXCEPT ![r] = IdleWorker]
    /\ UNCHANGED <<dbVars, call, frontVars, queue>>

\* The consumer has taken a ChangeType from the queue, and visits have filled the queue
\* before ChangeType enqueues its delete task: it waits for good (module ShardLifecycle,
\* WedgedForGood).
ChangeTypeWaits(r) ==
    /\ worker[r].pc = "idle" /\ queue[r] = Capacity
    /\ Becomes(r, "waits")
    /\ UNCHANGED <<dbVars, call, frontVars, queue>>

\* The replica stops: its queue is lost, and the calls it was handling fail.
ReplicaCrash(r) ==
    /\ Faults
    /\ queue' = [queue EXCEPT ![r] = 0]
    /\ worker' = [worker EXCEPT ![r] = IdleWorker]
    /\ AttemptsFail({v \in Redirects : call[v].at = r})
    /\ UNCHANGED dbVars

-------------------------------------------------------------------------------
(* The database *)

\* An hour has passed since the oldest of the fresh rows was created.
HourPasses ==
    /\ fresh # {}
    /\ fresh' = fresh \ {Min(fresh)}
    /\ missed' = {r \in missed : \E i \in fresh' : visits[i].by = r}
    /\ UNCHANGED <<present, totalViews, visits, call, frontVars, queue, worker>>

\* The rows of Visit go with the link (ON DELETE CASCADE).
DeleteLink ==
    /\ Deletion /\ present
    /\ present' = FALSE /\ totalViews' = 0 /\ visits' = <<>>
    /\ fresh' = {} /\ missed' = {}
    /\ UNCHANGED <<call, frontVars, queue, worker>>

WorkerStep(r) ==
    \/ Dequeue(r) \/ IncrementVisit(r) \/ GetLastHour(r)
    \/ Insert(r) \/ Update(r) \/ VisitTaskThrows(r)

CallStep(v) ==
    \/ \E r \in Replicas : Receive(v, r)
    \/ IncrementVisitInBackground(v) \/ Reply(v) \/ AttemptFails(v)

Next ==
    \/ \E v \in Redirects, f \in Frontends : RedirectHit(v, f)
    \/ \E v \in Redirects : RedirectMiss(v) \/ CallStep(v)
    \/ \E f \in Frontends : NotifyRedirect(f) \/ FrontendCrash(f)
    \/ \E r \in Replicas : WorkerStep(r) \/ ChangeTypeWaits(r) \/ ReplicaCrash(r)
    \/ HourPasses \/ DeleteLink

Spec == Init /\ [][Next]_vars

\* Both consumer loops run, and calls under way go on; nothing is assumed of
\* new requests, of time or of the link's owner.
Fairness ==
    /\ \A f \in Frontends : WF_vars(NotifyRedirect(f))
    /\ \A v \in Redirects :
          /\ WF_vars(Reply(v)) /\ SF_vars(IncrementVisitInBackground(v))
          /\ WF_vars(\E r \in Replicas : Receive(v, r))
    /\ \A r \in Replicas : WF_vars(WorkerStep(r))

FairSpec == Spec /\ Fairness

-------------------------------------------------------------------------------
(* Properties *)

\* Every variable has its type.
TypeOK ==
    /\ present \in BOOLEAN /\ totalViews \in Nat
    /\ visits \in Seq([total: Nat, by: Replicas]) /\ fresh \subseteq DOMAIN visits
    /\ missed \subseteq Replicas
    /\ call \in [Redirects -> Call]
    /\ frontQueue \in [Frontends -> Seq(Redirects)]
    /\ notifying \in [Frontends -> SUBSET Redirects]
    /\ queue \in [Replicas -> 0 .. Capacity]
    /\ worker \in [Replicas -> Worker]
    /\ answered \subseteq Redirects

VisitTotal == SumFunction([i \in DOMAIN visits |-> visits[i].total])

\* The hourly statistics never show more visits than TotalViews, whatever is
\* retried, lost or cut short between the two tables.
VisitsNeverExceedViews == VisitTotal <= totalViews

\* Replicas that look up the hour at the same time may each insert a row for it, but
\* none inserts a second one, unless Pgpool let it read a standby that had not got the
\* first: otherwise a link has at most as many rows for an hour as the shard has replicas.
OneRowPerReplicaAndHour ==
    \A i, j \in fresh : visits[i].by = visits[j].by => i = j \/ visits[i].by \in missed

\* When nothing fails and the link stays, each redirect that was answered is counted once
\* in TotalViews and once in the hourly rows, unless a type change of the shard has its
\* queue's consumer wait for itself.
EveryVisitIsCounted ==
    <>[](\/ totalViews = Cardinality(answered) /\ VisitTotal = totalViews
         \/ \E r \in Replicas : worker[r].pc = "waits")
===============================================================================

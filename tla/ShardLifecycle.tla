---------------------------- MODULE ShardLifecycle ----------------------------
(***************************************************************************)
(* One shard of Shortener.GrpcBackend: its replicas share a Postgres       *)
(* database that numbers the short links, and each replica publishes in    *)
(* ZooKeeper what the shard still accepts.  The module follows             *)
(* GrpcBackend/Services/ShardService.cs (Initialize, ChangeType and its    *)
(* delete task), UrlService.Create with ChangeShardTypeInBackground, the   *)
(* background queue of Shared/Services/TaskQueuingService.cs, and the way  *)
(* Shared/Services/ShardService.UpdateShards reads the published nodes.    *)
(***************************************************************************)
EXTENDS Integers, Sequences, FiniteSets, Functions

CONSTANTS
    Replicas,              \* the pods of the shard
    Slots,                 \* the Create calls one replica serves at once
    Capacity,              \* capacity of a replica's background task queue
    ThresholdForNewUsers,  \* Constants.ThresholdForNewUsers
    ThresholdForNewUrls,   \* Constants.ThresholdForNewUrls
    RangeSize,             \* UrlEncoder.RangeSize
    ZooKeeperFaults,       \* whether ZooKeeper may throw and expire live sessions
    InsertFaults,          \* whether an INSERT may fail after drawing its id
    MaxId,                 \* bound: the ids the database hands out
    MaxSessions            \* bound: the times one replica is started

ASSUME ShardAssumption ==
    /\ Capacity \in Nat \ {0}
    /\ ThresholdForNewUsers \in Nat /\ ThresholdForNewUrls \in Nat
    /\ ThresholdForNewUsers < ThresholdForNewUrls
    /\ RangeSize \in Nat /\ ThresholdForNewUrls < RangeSize
    /\ ZooKeeperFaults \in BOOLEAN /\ InsertFaults \in BOOLEAN
    /\ MaxId \in Nat /\ MaxSessions \in Nat

VARIABLES
    lastId,   \* the SERIAL sequence of the table Urls
    maxRow,   \* MAX(Id) over the rows that exist, 0 when there are none
    nodes,    \* the ephemeral nodes under the shard path
    nextNode, \* ZooKeeper's sequence number for the next of them
    since,    \* the first node that can be of the replica's present ZooKeeper session
    status,   \* down, booting (Initialize has read MAX(Id)) or ready
    session,  \* the replica's present run, whose ZooKeeper sessions go by its number
    type,     \* ShardService._type
    child,    \* ShardService._shardChildPath, by its sequence number
    request,  \* the Create call in each slot
    queue,    \* BackgroundTaskQueue
    worker    \* QueuedHostedService, the queue's only consumer

dbVars == <<lastId, maxRow>>
zkVars == <<nodes, nextNode, since>>
replicaVars == <<status, session>>
vars == <<dbVars, zkVars, replicaVars, type, child, request, queue, worker>>

ShardType == {"Uninitialized", "ReadOnly", "ReadWrite", "WriteUrlsOnly"}

\* A node's name holds the shard's type and a sequence number unique under the
\* parent; owner and session are what ZooKeeper knows of its creator.
Node == [seq: Nat, type: ShardType, owner: Replicas, session: Nat]

Task == [op: {"changeType", "deleteNode", "other"}, to: ShardType, path: Nat]
ChangeTypeTask(t) == [op |-> "changeType", to |-> t, path |-> 0]
DeleteTask(p) == [op |-> "deleteNode", to |-> "Uninitialized", path |-> p]
OtherTask == [op |-> "other", to |-> "Uninitialized", path |-> 0]

Request == [pc: {"idle", "admitted", "inserted", "enqueue"}, id: Nat, want: ShardType]
NoRequest == [pc |-> "idle", id |-> 0, want |-> "Uninitialized"]

Worker == [pc: {"idle", "run", "enqueueDelete", "assignType", "requeue", "failed"},
           task: Task, oldPath: Nat]
IdleWorker == [pc |-> "idle", task |-> OtherTask, oldPath |-> 0]

Init ==
    /\ lastId = 0 /\ maxRow = 0
    /\ nodes = {} /\ nextNode = 1 /\ since = [r \in Replicas |-> 1]
    /\ status = [r \in Replicas |-> "down"]
    /\ session = [r \in Replicas |-> 0]
    /\ type = [r \in Replicas |-> "Uninitialized"]
    /\ child = [r \in Replicas |-> 0]
    /\ request = [c \in Replicas \X Slots |-> NoRequest]
    /\ queue = [r \in Replicas |-> <<>>]
    /\ worker = [r \in Replicas |-> IdleWorker]

-------------------------------------------------------------------------------
(* Start, crash and session expiry *)

TypeForMaxId(m) ==
    CASE m < ThresholdForNewUsers -> "ReadWrite"
      [] m >= ThresholdForNewUsers /\ m < ThresholdForNewUrls -> "WriteUrlsOnly"
      [] OTHER -> "ReadOnly"

InitializeReadMaxId(r) ==
    /\ status[r] = "down" /\ session[r] < MaxSessions
    /\ status' = [status EXCEPT ![r] = "booting"]
    /\ session' = [session EXCEPT ![r] = @ + 1]
    /\ type' = [type EXCEPT ![r] = TypeForMaxId(maxRow)]
    /\ UNCHANGED <<dbVars, zkVars, child, request, queue, worker>>

OwnNode(r, p, t) == [seq |-> p, type |-> t, owner |-> r, session |-> session[r]]
NewNode(r, t) == OwnNode(r, nextNode, t)

CreateChildEphemeral(r, t) ==
    /\ nodes' = nodes \union {NewNode(r, t)}
    /\ nextNode' = nextNode + 1
    /\ child' = [child EXCEPT ![r] = nextNode]
    /\ UNCHANGED since

InitializeRegister(r) ==
    /\ status[r] = "booting"
    /\ CreateChildEphemeral(r, type[r])
    /\ status' = [status EXCEPT ![r] = "ready"]
    /\ UNCHANGED <<dbVars, session, type, request, queue, worker>>

\* The process ends, in Initialize or later: what it kept in memory is gone,
\* its nodes stay until the session expires.
Crash(r) ==
    /\ status[r] # "down"
    /\ status' = [status EXCEPT ![r] = "down"]
    /\ type' = [type EXCEPT ![r] = "Uninitialized"]
    /\ request' = [c \in Replicas \X Slots |-> IF c[1] = r THEN NoRequest ELSE request[c]]
    /\ queue' = [queue EXCEPT ![r] = <<>>]
    /\ worker' = [worker EXCEPT ![r] = IdleWorker]
    /\ UNCHANGED <<dbVars, zkVars, session, child>>

\* Of a run that is over, or of one that goes on with a new session: Initialize has
\* made its node and does not make it again.
SessionExpires(r, s) ==
    /\ nodes' = {n \in nodes : ~(n.owner = r /\ n.session = s)}
    /\ nodes' # nodes
    /\ IF status[r] = "ready" /\ s = session[r]
       THEN ZooKeeperFaults /\ since' = [since EXCEPT ![r] = nextNode]
       ELSE UNCHANGED since
    /\ UNCHANGED <<dbVars, nextNode, replicaVars, type, child, request, queue, worker>>

-------------------------------------------------------------------------------
(* UrlService.Create in one slot, and the other writers of the database *)

\* Mutant: Create without the check of UrlService.cs:41.
CreateAdmit_NoTypeCheck(r, k) ==
    /\ status[r] = "ready" /\ request[<<r, k>>].pc = "idle"
    /\ request' = [request EXCEPT ![<<r, k>>].pc = "admitted"]
    /\ UNCHANGED <<dbVars, zkVars, replicaVars, type, child, queue, worker>>

CreateAdmit(r, k) ==
    /\ status[r] = "ready" /\ request[<<r, k>>].pc = "idle"
    /\ type[r] # "ReadOnly"
    /\ request' = [request EXCEPT ![<<r, k>>].pc = "admitted"]
    /\ UNCHANGED <<dbVars, zkVars, replicaVars, type, child, queue, worker>>

CreateInsert(r, k) ==
    /\ request[<<r, k>>].pc = "admitted"
    /\ lastId < MaxId
    /\ lastId' = lastId + 1 /\ maxRow' = lastId + 1
    /\ request' = [request EXCEPT ![<<r, k>>] = [@ EXCEPT !.pc = "inserted", !.id = lastId + 1]]
    /\ UNCHANGED <<zkVars, replicaVars, type, child, queue, worker>>

\* Invalid or banned destination, or an INSERT that fails; the sequence keeps
\* the number a failed INSERT drew.
CreateReject(r, k) ==
    /\ request[<<r, k>>].pc = "admitted"
    /\ \/ UNCHANGED lastId
       \/ InsertFaults /\ lastId < MaxId /\ lastId' = lastId + 1
    /\ request' = [request EXCEPT ![<<r, k>>] = NoRequest]
    /\ UNCHANGED <<maxRow, zkVars, replicaVars, type, child, queue, worker>>

\* Mutant: the change follows the id alone, not the replica's present type.
ChangeFor_IdOnly(id, t) == {TypeForMaxId(id)} \ {t}

\* The type change a new id calls for, given the type the replica has now.
ChangeFor(id, t) ==
    CASE id >= ThresholdForNewUsers /\ t = "ReadWrite" -> {"WriteUrlsOnly"}
      [] id >= ThresholdForNewUrls /\ t # "ReadWrite" -> {"ReadOnly"}
      [] OTHER -> {}

CreateDecide(r, k) ==
    /\ request[<<r, k>>].pc = "inserted"
    /\ LET wanted == ChangeFor(request[<<r, k>>].id, type[r])
       IN  \/ /\ wanted = {}
              /\ request' = [request EXCEPT ![<<r, k>>] = NoRequest]
           \/ \E t \in wanted :
                request' = [request EXCEPT ![<<r, k>>] = [@ EXCEPT !.pc = "enqueue", !.want = t]]
    /\ UNCHANGED <<dbVars, zkVars, replicaVars, type, child, queue, worker>>

HasRoom(r) == Len(queue[r]) < Capacity

\* Mutant: TryWrite for WriteAsync, a full queue loses the task.
CreateEnqueue_TryWrite(r, k) ==
    /\ request[<<r, k>>].pc = "enqueue"
    /\ queue' = IF HasRoom(r)
                THEN [queue EXCEPT ![r] = Append(@, ChangeTypeTask(request[<<r, k>>].want))]
                ELSE queue
    /\ request' = [request EXCEPT ![<<r, k>>] = NoRequest]
    /\ UNCHANGED <<dbVars, zkVars, replicaVars, type, child, worker>>

CreateEnqueue(r, k) ==
    /\ request[<<r, k>>].pc = "enqueue" /\ HasRoom(r)
    /\ queue' = [queue EXCEPT ![r] = Append(@, ChangeTypeTask(request[<<r, k>>].want))]
    /\ request' = [request EXCEPT ![<<r, k>>] = NoRequest]
    /\ UNCHANGED <<dbVars, zkVars, replicaVars, type, child, worker>>

\* Visits and cache updates of the other handlers go through the same queue.
OtherEnqueue(r) ==
    /\ status[r] = "ready" /\ HasRoom(r)
    /\ queue' = [queue EXCEPT ![r] = Append(@, OtherTask)]
    /\ UNCHANGED <<dbVars, zkVars, replicaVars, type, child, request, worker>>

\* Mutant: MAX(Id) of an empty table read as -1.
DeleteRows_MinusOne ==
    /\ \E m \in -1 .. maxRow - 1 : maxRow' = m
    /\ UNCHANGED <<lastId, zkVars, replicaVars, type, child, request, queue, worker>>

DeleteRows ==
    /\ \E m \in 0 .. maxRow - 1 : maxRow' = m
    /\ UNCHANGED <<lastId, zkVars, replicaVars, type, child, request, queue, worker>>

-------------------------------------------------------------------------------
(* The consumer, running ChangeType and the delete task it leaves behind *)

Dequeue(r) ==
    /\ status[r] = "ready" /\ worker[r].pc = "idle" /\ queue[r] # <<>>
    /\ worker' = [worker EXCEPT ![r] = [pc |-> "run", task |-> Head(queue[r]), oldPath |-> 0]]
    /\ queue' = [queue EXCEPT ![r] = Tail(@)]
    /\ UNCHANGED <<dbVars, zkVars, replicaVars, type, child, request>>

Running(r, op) == worker[r].pc = "run" /\ worker[r].task.op = op

RunOther(r) ==
    /\ Running(r, "other")
    /\ worker' = [worker EXCEPT ![r] = IdleWorker]
    /\ UNCHANGED <<dbVars, zkVars, replicaVars, type, child, request, queue>>

ChangeTypeSame(r) ==
    /\ Running(r, "changeType") /\ worker[r].task.to = type[r]
    /\ worker' = [worker EXCEPT ![r] = IdleWorker]
    /\ UNCHANGED <<dbVars, zkVars, replicaVars, type, child, request, queue>>

ChangeTypeCreate(r) ==
    /\ Running(r, "changeType") /\ worker[r].task.to # type[r]
    /\ CreateChildEphemeral(r, worker[r].task.to)
    /\ worker' = [worker EXCEPT ![r] = [@ EXCEPT !.pc = "enqueueDelete", !.oldPath = child[r]]]
    /\ UNCHANGED <<dbVars, replicaVars, type, request, queue>>

\* Mutant: _type is assigned before the node is made.
ChangeTypeThrows_TypeFirst(r) ==
    /\ ZooKeeperFaults
    /\ Running(r, "changeType") /\ worker[r].task.to # type[r]
    /\ type' = [type EXCEPT ![r] = worker[r].task.to]
    /\ worker' = [worker EXCEPT ![r] = IdleWorker]
    /\ UNCHANGED <<dbVars, zkVars, replicaVars, child, request, queue>>

\* ZooKeeper throws, with or without having made the node: the consumer logs
\* the exception and drops the task.
ChangeTypeThrows(r) ==
    /\ ZooKeeperFaults
    /\ Running(r, "changeType") /\ worker[r].task.to # type[r]
    /\ \/ UNCHANGED zkVars
       \/ /\ nodes' = nodes \union {NewNode(r, worker[r].task.to)}
          /\ nextNode' = nextNode + 1 /\ UNCHANGED since
    /\ worker' = [worker EXCEPT ![r] = IdleWorker]
    /\ UNCHANGED <<dbVars, replicaVars, type, child, request, queue>>

\* Mutant: the task deletes _shardChildPath, which is the new node by then.
ChangeTypeEnqueueDelete_CurrentPath(r) ==
    /\ worker[r].pc = "enqueueDelete" /\ HasRoom(r)
    /\ queue' = [queue EXCEPT ![r] = Append(@, DeleteTask(child[r]))]
    /\ worker' = [worker EXCEPT ![r].pc = "assignType"]
    /\ UNCHANGED <<dbVars, zkVars, replicaVars, type, child, request>>

\* Mutant: the delete is dropped when the queue is full.
ChangeTypeEnqueueDelete_DropWrite(r) ==
    /\ worker[r].pc = "enqueueDelete"
    /\ queue' = IF HasRoom(r)
                THEN [queue EXCEPT ![r] = Append(@, DeleteTask(worker[r].oldPath))]
                ELSE queue
    /\ worker' = [worker EXCEPT ![r].pc = "assignType"]
    /\ UNCHANGED <<dbVars, zkVars, replicaVars, type, child, request>>

ChangeTypeEnqueueDelete(r) ==
    /\ worker[r].pc = "enqueueDelete" /\ HasRoom(r)
    /\ queue' = [queue EXCEPT ![r] = Append(@, DeleteTask(worker[r].oldPath))]
    /\ worker' = [worker EXCEPT ![r].pc = "assignType"]
    /\ UNCHANGED <<dbVars, zkVars, replicaVars, type, child, request>>

ChangeTypeAssign(r) ==
    /\ worker[r].pc = "assignType"
    /\ type' = [type EXCEPT ![r] = worker[r].task.to]
    /\ worker' = [worker EXCEPT ![r] = IdleWorker]
    /\ UNCHANGED <<dbVars, zkVars, replicaVars, child, request, queue>>

Without(p) == {n \in nodes : n.seq # p}

DeleteNode(r) ==
    /\ Running(r, "deleteNode")
    /\ nodes' = Without(worker[r].task.path)
    /\ worker' = [worker EXCEPT ![r] = IdleWorker]
    /\ UNCHANGED <<dbVars, nextNode, since, replicaVars, type, child, request, queue>>

\* Mutant: a delete that failed is not tried again.
DeleteNodeThrows_GiveUp(r) ==
    /\ ZooKeeperFaults
    /\ Running(r, "deleteNode")
    /\ worker' = [worker EXCEPT ![r] = IdleWorker]
    /\ UNCHANGED <<dbVars, zkVars, replicaVars, type, child, request, queue>>

\* KeeperException: the task waits and then enqueues itself again; the node may
\* be gone all the same.
DeleteNodeThrows(r) ==
    /\ ZooKeeperFaults
    /\ Running(r, "deleteNode")
    /\ nodes' \in {nodes, Without(worker[r].task.path)}
    /\ worker' = [worker EXCEPT ![r].pc = "requeue"]
    /\ UNCHANGED <<dbVars, nextNode, since, replicaVars, type, child, request, queue>>

\* Any other exception, for instance when the client has no more time to retry, ends
\* the task: the consumer catches it.
DeleteNodeFails(r) ==
    /\ ZooKeeperFaults
    /\ Running(r, "deleteNode")
    /\ nodes' \in {nodes, Without(worker[r].task.path)}
    /\ worker' = [worker EXCEPT ![r].pc = "failed"]
    /\ UNCHANGED <<dbVars, nextNode, since, replicaVars, type, child, request, queue>>

LogError(r) ==
    /\ worker[r].pc = "failed"
    /\ worker' = [worker EXCEPT ![r] = IdleWorker]
    /\ UNCHANGED <<dbVars, zkVars, replicaVars, type, child, request, queue>>

DeleteNodeRequeue(r) ==
    /\ worker[r].pc = "requeue" /\ HasRoom(r)
    /\ queue' = [queue EXCEPT ![r] = Append(@, worker[r].task)]
    /\ worker' = [worker EXCEPT ![r] = IdleWorker]
    /\ UNCHANGED <<dbVars, zkVars, replicaVars, type, child, request>>

WorkerStep(r) ==
    \/ Dequeue(r)
    \/ RunOther(r)
    \/ ChangeTypeSame(r) \/ ChangeTypeCreate(r) \/ ChangeTypeThrows(r)
    \/ ChangeTypeEnqueueDelete(r) \/ ChangeTypeAssign(r)
    \/ DeleteNode(r) \/ DeleteNodeThrows(r) \/ DeleteNodeRequeue(r)
    \/ DeleteNodeFails(r) \/ LogError(r)

CreateStep(r, k) ==
    \/ CreateAdmit(r, k) \/ CreateInsert(r, k) \/ CreateReject(r, k)
    \/ CreateDecide(r, k) \/ CreateEnqueue(r, k)

LifeStep(r) ==
    \/ InitializeReadMaxId(r) \/ InitializeRegister(r) \/ Crash(r)
    \/ \E s \in 1 .. MaxSessions : SessionExpires(r, s)

Next ==
    \/ \E r \in Replicas : LifeStep(r) \/ WorkerStep(r) \/ OtherEnqueue(r)
    \/ \E r \in Replicas, k \in Slots : CreateStep(r, k)
    \/ DeleteRows

Spec == Init /\ [][Next]_vars

\* The consumer loop always goes on (TaskQueuingService.cs:55), writers waiting
\* for room get it in turn (WriteAsync), and a node that a task keeps trying to
\* delete is deleted once ZooKeeper answers.
Fairness ==
    /\ \A r \in Replicas : WF_vars(WorkerStep(r)) /\ SF_vars(DeleteNode(r))
    /\ \A r \in Replicas, k \in Slots : SF_vars(CreateEnqueue(r, k))

FairSpec == Spec /\ Fairness

-------------------------------------------------------------------------------
(* What the frontends read from the nodes (Shared ShardService.UpdateShards) *)

Published(t) == \E n \in nodes : n.type = t

OfferedToNewUsers ==
    Published("ReadWrite") /\ ~Published("ReadOnly") /\ ~Published("WriteUrlsOnly")

OfferedForNewUrls ==
    (Published("ReadWrite") \/ Published("WriteUrlsOnly")) /\ ~Published("ReadOnly")

-------------------------------------------------------------------------------
(* Properties *)

\* Every variable has its type, in every state a step can reach.
TypeOK ==
    /\ lastId \in Nat /\ maxRow \in Nat
    /\ nodes \subseteq Node /\ nextNode \in Nat /\ since \in [Replicas -> Nat]
    /\ status \in [Replicas -> {"down", "booting", "ready"}]
    /\ session \in [Replicas -> Nat]
    /\ type \in [Replicas -> ShardType]
    /\ child \in [Replicas -> Nat]
    /\ request \in [Replicas \X Slots -> Request]
    /\ queue \in [Replicas -> Seq(Task)]
    /\ worker \in [Replicas -> Worker]

\* ChangeType has made the new node and not yet assigned _type.
Changing(r) == worker[r].pc \in {"enqueueDelete", "assignType"}

\* The type the replica's own node advertises: the new one as soon as the node
\* is made, although _type follows only after the delete is queued.
Advertised(r) ==
    IF Changing(r) THEN worker[r].task.to ELSE type[r]

\* Unless its ZooKeeper session has expired meanwhile, a serving replica has its own
\* node, of the type it advertises, in ZooKeeper: ChangeType makes the new node before
\* the old one goes, and no late, repeated or foreign delete task ever removes the
\* current one.
ReadyReplicaIsPublished ==
    \A r \in Replicas : status[r] = "ready" /\ child[r] >= since[r] =>
        OwnNode(r, child[r], Advertised(r)) \in nodes

\* The session that made the nodes of the replica's present type has not expired.
Unexpired(r) ==
    child[r] >= since[r] /\ (Changing(r) => worker[r].oldPath >= since[r])

\* While the nodes offer the shard to new users (for new links), no serving replica
\* whose session has not expired has given that up: old nodes that linger, stray nodes
\* and nodes of dead sessions never make frontends send what it would refuse.
OfferedIsAccepted ==
    \A r \in Replicas : status[r] = "ready" /\ Unexpired(r) =>
        /\ OfferedToNewUsers => type[r] = "ReadWrite"
        /\ OfferedForNewUrls => type[r] # "ReadOnly"

\* The consumer waits for room in the queue only it can empty.
Wedged(r) == worker[r].pc \in {"enqueueDelete", "requeue"} /\ ~HasRoom(r)

\* A replica whose consumer enqueues into its own full queue never runs
\* another task and never applies its pending type, until it is restarted.
WedgedForGood ==
    [][\A r \in Replicas : Wedged(r) =>
          \/ status'[r] = "down"
          \/ Wedged(r)' /\ queue'[r] = queue[r] /\ type'[r] = type[r]]_vars

\* A run of a replica that left ReadWrite never takes new users again, however
\* late the tasks of overtaken Create calls are executed.
NeverBackToReadWrite ==
    [][\A r \in Replicas :
          status[r] = "ready" /\ status'[r] = "ready" /\ type'[r] = "ReadWrite"
             => type[r] = "ReadWrite"]_vars

\* Every row the shard inserts has an index in the shard's own range, so that
\* its short id is no other shard's (README.md:74).
IdsStayInRange == \A c \in Replicas \X Slots : request[c].id < RangeSize

\* The tasks a replica still has to run, the one it is running included.
Held(r) ==
    Range(queue[r])
      \union (IF worker[r].pc \in {"run", "requeue"} THEN {worker[r].task} ELSE {})

PendingDelete(r, p) ==
    \/ \E t \in Held(r) : t.op = "deleteNode" /\ t.path = p
    \/ worker[r].pc = "enqueueDelete" /\ worker[r].oldPath = p

\* Bound: a node is made per start of a replica and per task to change type.
Paths == 1 .. MaxId + MaxSessions * Cardinality(Replicas)

\* A node a replica set out to delete is deleted, however often ZooKeeper answers with
\* a KeeperException, unless the replica wedges or goes down, or another exception ends
\* the task.
OldNodesGo ==
    \A r \in Replicas : \A p \in Paths :
        PendingDelete(r, p) ~>
            \/ \A n \in nodes : n.seq # p
            \/ worker[r].pc = "failed" /\ worker[r].task.path = p
            \/ Wedged(r)
            \/ status[r] = "down"

\* With a ZooKeeper that answers, the type a Create call asked for is in force
\* at some later time, whatever other tasks and Create calls come between.
WantedTypeIsApplied ==
    \A r \in Replicas, k \in Slots : \A t \in ShardType :
        request[<<r, k>>].pc = "enqueue" /\ request[<<r, k>>].want = t ~>
            type[r] = t \/ Wedged(r) \/ status[r] = "down"

-------------------------------------------------------------------------------
(* The inductive invariant behind ReadyReplicaIsPublished and OfferedIsAccepted *)

OnlyReadyWork ==
    \A r \in Replicas : status[r] # "ready" => worker[r].pc = "idle"

ServingTypes ==
    /\ \A r \in Replicas : status[r] # "down" => type[r] # "Uninitialized"
    /\ \A c \in Replicas \X Slots :
          request[c].pc = "enqueue" => request[c].want \in {"ReadOnly", "WriteUrlsOnly"}
    /\ \A r \in Replicas : \A t \in Held(r) :
          t.op = "changeType" => t.to \in {"ReadOnly", "WriteUrlsOnly"}
    /\ \A r \in Replicas :
          Changing(r) => worker[r].task.to \in {"ReadOnly", "WriteUrlsOnly"}

SinceIsPast == \A r \in Replicas : since[r] <= nextNode

ChildrenDistinct ==
    \A r \in Replicas : status[r] = "ready" =>
        /\ child[r] < nextNode
        /\ \A q \in Replicas : status[q] = "ready" /\ child[q] = child[r] => q = r

PendingIsOld ==
    \A r \in Replicas : \A p \in Nat : PendingDelete(r, p) =>
        /\ p < nextNode
        /\ \A q \in Replicas : status[q] = "ready" => child[q] # p
        /\ \A q \in Replicas : PendingDelete(q, p) => q = r

OldNodeStays ==
    \A r \in Replicas : Changing(r) =>
        /\ PendingDelete(r, worker[r].oldPath)
        /\ worker[r].oldPath >= since[r] => OwnNode(r, worker[r].oldPath, type[r]) \in nodes

IInv ==
    /\ TypeOK /\ OnlyReadyWork /\ ServingTypes /\ SinceIsPast
    /\ ChildrenDistinct /\ PendingIsOld /\ OldNodeStays
    /\ ReadyReplicaIsPublished

-------------------------------------------------------------------------------
(* The inductive invariant behind IdsStayInRange, when nothing fails *)

\* Where Create calls and the tasks they leave are: the slots, the queue, the consumer.
Places == Cardinality(Slots) + Capacity + 1

Admitted(r) == {k \in Slots : request[<<r, k>>].pc = "admitted"}

\* Calls with a row past the last threshold, which are sure to ask for a change.
Past(r) ==
    {k \in Slots : request[<<r, k>>].pc = "inserted" /\ request[<<r, k>>].id >= ThresholdForNewUrls}

Waiting(r, t) ==
    {k \in Slots : request[<<r, k>>].pc = "enqueue" /\ request[<<r, k>>].want = t}

IsChange(task, t) == task.op = "changeType" /\ task.to = t

Queued(s, t) == {i \in DOMAIN s : IsChange(s[i], t)}

AtWork(w, t) ==
    IF w.pc \in {"run", "enqueueDelete", "assignType"} /\ IsChange(w.task, t) THEN 1 ELSE 0

\* The changes to type t that are still to be applied.
Changes(r, t) ==
    Cardinality(Waiting(r, t)) + Cardinality(Queued(queue[r], t)) + AtWork(worker[r], t)

\* The rows r can still insert past the threshold in its present run.  ReadWrite ends
\* before the places are full; each change to WriteUrlsOnly that was asked for by then
\* can bring a shard that is ReadOnly back, until the places are full again.
Room(r) ==
    IF status[r] = "down" THEN 0
    ELSE CASE type[r] = "ReadWrite" ->
                Places * Places + Places - Cardinality(Past(r))
                  - Changes(r, "WriteUrlsOnly") - Changes(r, "ReadOnly")
           [] type[r] = "WriteUrlsOnly" ->
                Changes(r, "WriteUrlsOnly") * Places + Places - Cardinality(Past(r))
                  - Changes(r, "ReadOnly")
           [] OTHER -> Changes(r, "WriteUrlsOnly") * Places + Cardinality(Admitted(r))

\* The most a run can insert past the threshold.
RunRoom == Places * Places + Places

Allowance(r) == Room(r) + (MaxSessions - session[r]) * RunRoom

\* One element for each row that can still be inserted.
Allowances == {a \in Replicas \X (1 .. MaxSessions * RunRoom) : a[2] <= Allowance(a[1])}

Overshoot == Cardinality(Replicas) * (MaxSessions * RunRoom)

OnlyReadyServe ==
    \A r \in Replicas : status[r] # "ready" =>
        queue[r] = <<>> /\ \A k \in Slots : request[<<r, k>>] = NoRequest

SessionsCounted ==
    \A r \in Replicas :
        session[r] <= MaxSessions /\ (status[r] # "down" => session[r] >= 1)

QueuesFit == \A r \in Replicas : Len(queue[r]) <= Capacity

WorkIsOfItsKind ==
    \A r \in Replicas :
        /\ Changing(r) => worker[r].task.op = "changeType"
        /\ worker[r].pc \in {"requeue", "failed"} => worker[r].task.op = "deleteNode"

IdsAreDrawn == \A c \in Replicas \X Slots : request[c].id <= lastId

InsertsAreAllowed ==
    lastId >= ThresholdForNewUrls - 1 =>
        lastId + Cardinality(Allowances) <= ThresholdForNewUrls - 1 + Overshoot

RangeInv ==
    /\ OnlyReadyServe /\ SessionsCounted /\ QueuesFit /\ WorkIsOfItsKind
    /\ IdsAreDrawn /\ InsertsAreAllowed
===============================================================================

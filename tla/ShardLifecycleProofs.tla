------------------------- MODULE ShardLifecycleProofs -------------------------
(***************************************************************************)
(* Proofs about ShardLifecycle: the type invariant, the inductive          *)
(* invariant IInv, and from it that a serving replica is published and     *)
(* that what the shard offers is what every serving replica accepts, until *)
(* its ZooKeeper session expires.                                          *)
(* Last, by counting the calls and tasks of a replica: without failures a  *)
(* shard inserts boundedly many rows past its threshold.                   *)
(***************************************************************************)
EXTENDS ShardLifecycle, FiniteSetTheorems, TLAPS

-------------------------------------------------------------------------------
(* Types *)

LEMMA TaskTypes ==
    /\ \A t \in ShardType : ChangeTypeTask(t) \in Task
    /\ \A p \in Nat : DeleteTask(p) \in Task
    /\ OtherTask \in Task
    /\ NoRequest \in Request
    /\ IdleWorker \in Worker
BY DEF ChangeTypeTask, DeleteTask, OtherTask, NoRequest, IdleWorker,
       Task, Request, Worker, ShardType

LEMMA TypeForMaxIdType == \A m \in Nat : TypeForMaxId(m) \in ShardType \ {"Uninitialized"}
BY ShardAssumption DEF TypeForMaxId, ShardType

LEMMA ChangeForType ==
    ASSUME NEW id, NEW t
    PROVE  ChangeFor(id, t) \subseteq {"ReadOnly", "WriteUrlsOnly"}
BY DEF ChangeFor

LEMMA LifeStepType ==
    ASSUME TypeOK, NEW r \in Replicas, LifeStep(r)
    PROVE  TypeOK'
<1>1. CASE InitializeReadMaxId(r)
  <2>1. TypeForMaxId(maxRow) \in ShardType
    BY TypeForMaxIdType DEF TypeOK
  <2>2. QED
    BY <1>1, <2>1 DEF TypeOK, InitializeReadMaxId, dbVars, zkVars
<1>2. CASE InitializeRegister(r)
  BY <1>2 DEF TypeOK, InitializeRegister, CreateChildEphemeral, NewNode, OwnNode, Node, dbVars
<1>3. CASE Crash(r)
  BY <1>3, TaskTypes DEF TypeOK, Crash, dbVars, zkVars, ShardType
<1>4. ASSUME NEW s \in 1 .. MaxSessions, SessionExpires(r, s)
      PROVE  TypeOK'
  <2>1. since' \in [Replicas -> Nat]
    BY <1>4 DEF TypeOK, SessionExpires
  <2>2. QED
    BY <1>4, <2>1 DEF TypeOK, SessionExpires, dbVars, replicaVars
<1>5. QED
  BY <1>1, <1>2, <1>3, <1>4 DEF LifeStep

LEMMA CreateStepType ==
    ASSUME TypeOK, NEW r \in Replicas, NEW k \in Slots, CreateStep(r, k)
    PROVE  TypeOK'
<1> DEFINE c == <<r, k>>
<1>0. c \in Replicas \X Slots /\ request[c] \in Request /\ NoRequest \in Request
  BY TaskTypes DEF TypeOK
<1>1. CASE CreateAdmit(r, k)
  BY <1>0, <1>1 DEF TypeOK, CreateAdmit, Request, dbVars, zkVars, replicaVars
<1>2. CASE CreateInsert(r, k)
  <2>1. lastId' \in Nat /\ maxRow' \in Nat
    BY <1>2 DEF TypeOK, CreateInsert
  <2>2. [request[c] EXCEPT !.pc = "inserted", !.id = lastId + 1] \in Request
    BY <1>0, <1>2, <2>1 DEF CreateInsert, Request
  <2>3. request' \in [Replicas \X Slots -> Request]
    BY <1>0, <1>2, <2>2 DEF TypeOK, CreateInsert
  <2>4. QED
    BY <1>2, <2>1, <2>3 DEF TypeOK, CreateInsert, zkVars, replicaVars
<1>3. CASE CreateReject(r, k)
  BY <1>0, <1>3 DEF TypeOK, CreateReject, zkVars, replicaVars
<1>4. CASE CreateDecide(r, k)
  <2>1. ASSUME NEW t, t \in ChangeFor(request[c].id, type[r])
        PROVE  [request[c] EXCEPT !.pc = "enqueue", !.want = t] \in Request
    <3>1. t \in ShardType
      BY <2>1, ChangeForType DEF ShardType
    <3>2. QED
      BY <1>0, <3>1 DEF Request
  <2>2. \/ request' = [request EXCEPT ![c] = NoRequest]
        \/ \E t \in ChangeFor(request[c].id, type[r]) :
             request' = [request EXCEPT ![c] = [@ EXCEPT !.pc = "enqueue", !.want = t]]
    BY <1>4 DEF CreateDecide
  <2>3. request' \in [Replicas \X Slots -> Request]
    <3>1. request \in [Replicas \X Slots -> Request]
      BY DEF TypeOK
    <3>2. CASE request' = [request EXCEPT ![c] = NoRequest]
      BY <1>0, <3>1, <3>2
    <3>3. ASSUME NEW t, t \in ChangeFor(request[c].id, type[r]),
                 request' = [request EXCEPT ![c] = [@ EXCEPT !.pc = "enqueue", !.want = t]]
          PROVE  request' \in [Replicas \X Slots -> Request]
      <4>1. [request[c] EXCEPT !.pc = "enqueue", !.want = t] \in Request
        BY <2>1, <3>3
      <4>2. QED
        BY <1>0, <3>1, <3>3, <4>1
    <3>4. QED
      BY <2>2, <3>2, <3>3
  <2>4. QED
    BY <1>4, <2>3 DEF TypeOK, CreateDecide, dbVars, zkVars, replicaVars
<1>5. CASE CreateEnqueue(r, k)
  <2>1. ChangeTypeTask(request[c].want) \in Task
    BY <1>0, TaskTypes DEF Request
  <2>2. queue' \in [Replicas -> Seq(Task)]
    BY <1>5, <2>1 DEF TypeOK, CreateEnqueue
  <2>3. QED
    BY <1>0, <1>5, <2>2 DEF TypeOK, CreateEnqueue, dbVars, zkVars, replicaVars
<1>6. QED
  BY <1>1, <1>2, <1>3, <1>4, <1>5 DEF CreateStep

LEMMA WorkerStepType ==
    ASSUME TypeOK, NEW r \in Replicas, WorkerStep(r)
    PROVE  TypeOK'
<1>0. worker[r] \in Worker /\ queue[r] \in Seq(Task) /\ IdleWorker \in Worker
  BY TaskTypes DEF TypeOK
<1>1. CASE Dequeue(r)
  <2>1. Head(queue[r]) \in Task /\ Tail(queue[r]) \in Seq(Task)
    BY <1>0, <1>1 DEF Dequeue
  <2>2. QED
    BY <1>1, <2>1 DEF TypeOK, Dequeue, Worker, dbVars, zkVars, replicaVars
<1>2. CASE RunOther(r) \/ ChangeTypeSame(r)
  BY <1>0, <1>2 DEF TypeOK, RunOther, ChangeTypeSame, dbVars, zkVars, replicaVars
<1>3. CASE ChangeTypeCreate(r)
  <2>1. NewNode(r, worker[r].task.to) \in Node
    BY <1>0 DEF TypeOK, NewNode, OwnNode, Node, Worker, Task
  <2>2. nodes' \subseteq Node /\ nextNode' \in Nat /\ child' \in [Replicas -> Nat]
    BY <1>3, <2>1 DEF TypeOK, ChangeTypeCreate, CreateChildEphemeral
  <2>3. worker' \in [Replicas -> Worker]
    BY <1>0, <1>3 DEF TypeOK, ChangeTypeCreate, Worker
  <2>4. QED
    BY <1>3, <2>2, <2>3 DEF TypeOK, ChangeTypeCreate, CreateChildEphemeral, dbVars, replicaVars
<1>4. CASE ChangeTypeThrows(r)
  <2>1. NewNode(r, worker[r].task.to) \in Node
    BY <1>0 DEF TypeOK, NewNode, OwnNode, Node, Worker, Task
  <2>2. nodes' \subseteq Node /\ nextNode' \in Nat /\ since' = since
    BY <1>4, <2>1 DEF TypeOK, ChangeTypeThrows, zkVars
  <2>3. QED
    BY <1>0, <1>4, <2>2 DEF TypeOK, ChangeTypeThrows, dbVars, replicaVars
<1>5. CASE ChangeTypeEnqueueDelete(r)
  <2>1. DeleteTask(worker[r].oldPath) \in Task
    BY <1>0, TaskTypes DEF Worker
  <2>2. queue' \in [Replicas -> Seq(Task)]
    BY <1>5, <2>1 DEF TypeOK, ChangeTypeEnqueueDelete
  <2>3. worker' \in [Replicas -> Worker]
    BY <1>0, <1>5 DEF TypeOK, ChangeTypeEnqueueDelete, Worker
  <2>4. QED
    BY <1>5, <2>2, <2>3 DEF TypeOK, ChangeTypeEnqueueDelete, dbVars, zkVars, replicaVars
<1>6. CASE ChangeTypeAssign(r)
  BY <1>0, <1>6 DEF TypeOK, ChangeTypeAssign, Worker, Task, dbVars, zkVars, replicaVars
<1>7. CASE DeleteNode(r)
  BY <1>0, <1>7 DEF TypeOK, DeleteNode, Without, dbVars, replicaVars
<1>8. CASE DeleteNodeThrows(r)
  <2>1. worker' \in [Replicas -> Worker]
    BY <1>0, <1>8 DEF TypeOK, DeleteNodeThrows, Worker
  <2>2. QED
    BY <1>8, <2>1 DEF TypeOK, DeleteNodeThrows, Without, dbVars, replicaVars
<1>9. CASE DeleteNodeRequeue(r)
  <2>1. queue' \in [Replicas -> Seq(Task)]
    BY <1>0, <1>9 DEF TypeOK, DeleteNodeRequeue, Worker
  <2>2. QED
    BY <1>0, <1>9, <2>1 DEF TypeOK, DeleteNodeRequeue, dbVars, zkVars, replicaVars
<1>10. CASE DeleteNodeFails(r)
  <2>1. worker' \in [Replicas -> Worker]
    BY <1>0, <1>10 DEF TypeOK, DeleteNodeFails, Worker
  <2>2. QED
    BY <1>10, <2>1 DEF TypeOK, DeleteNodeFails, Without, dbVars, replicaVars
<1>11. CASE LogError(r)
  BY <1>0, <1>11 DEF TypeOK, LogError, dbVars, zkVars, replicaVars
<1>12. QED
  BY <1>1, <1>2, <1>3, <1>4, <1>5, <1>6, <1>7, <1>8, <1>9, <1>10, <1>11 DEF WorkerStep

LEMMA OtherStepType ==
    ASSUME TypeOK, DeleteRows \/ (\E r \in Replicas : OtherEnqueue(r))
    PROVE  TypeOK'
<1>1. CASE DeleteRows
  BY <1>1 DEF TypeOK, DeleteRows, zkVars, replicaVars
<1>2. ASSUME NEW r \in Replicas, OtherEnqueue(r) PROVE TypeOK'
  <2>1. queue' \in [Replicas -> Seq(Task)]
    BY <1>2, TaskTypes DEF TypeOK, OtherEnqueue
  <2>2. QED
    BY <1>2, <2>1 DEF TypeOK, OtherEnqueue, dbVars, zkVars, replicaVars
<1>3. QED
  BY <1>1, <1>2

\* Every reachable state is well typed, for any number of replicas and slots
\* and any thresholds.
THEOREM TypeCorrect == Spec => []TypeOK
<1>1. Init => TypeOK
  <2> SUFFICES ASSUME Init PROVE TypeOK
    OBVIOUS
  <2>1. <<>> \in Seq(Task)
    OBVIOUS
  <2>2. QED
    BY <2>1, TaskTypes DEF Init, TypeOK, ShardType
<1>2. TypeOK /\ [Next]_vars => TypeOK'
  <2> SUFFICES ASSUME TypeOK, [Next]_vars PROVE TypeOK'
    OBVIOUS
  <2>1. CASE UNCHANGED vars
    BY <2>1 DEF TypeOK, vars, dbVars, zkVars, replicaVars
  <2>2. QED
    BY <2>1, LifeStepType, CreateStepType, WorkerStepType, OtherStepType DEF Next
<1>3. QED
  BY <1>1, <1>2, PTL DEF Spec

-------------------------------------------------------------------------------
(* How one step changes what a replica keeps *)

\* Any action of replica q.
ReplicaStep(q) ==
    \/ LifeStep(q) \/ WorkerStep(q) \/ OtherEnqueue(q)
    \/ \E k \in Slots : CreateStep(q, k)

LEMMA NextIsReplicaStep ==
    ASSUME [Next]_vars
    PROVE  \/ \E q \in Replicas : ReplicaStep(q)
           \/ UNCHANGED <<zkVars, replicaVars, type, child, request, queue, worker>>
BY DEF Next, ReplicaStep, DeleteRows, vars

\* A replica's step leaves the other replicas' memory alone.
LEMMA OtherReplicaUnchanged ==
    ASSUME TypeOK, NEW q \in Replicas, ReplicaStep(q),
           NEW r \in Replicas, r # q
    PROVE  /\ status'[r] = status[r] /\ session'[r] = session[r]
           /\ type'[r] = type[r] /\ child'[r] = child[r]
           /\ queue'[r] = queue[r] /\ worker'[r] = worker[r]
<1>1. CASE LifeStep(q)
  BY <1>1 DEF LifeStep, InitializeReadMaxId, InitializeRegister, CreateChildEphemeral,
     Crash, SessionExpires, TypeOK, replicaVars
<1>2. CASE WorkerStep(q)
  BY <1>2 DEF WorkerStep, Dequeue, RunOther, ChangeTypeSame, ChangeTypeCreate,
     CreateChildEphemeral, ChangeTypeThrows, ChangeTypeEnqueueDelete, ChangeTypeAssign,
     DeleteNode, DeleteNodeThrows, DeleteNodeRequeue, DeleteNodeFails, LogError, TypeOK, replicaVars
<1>3. CASE OtherEnqueue(q)
  BY <1>3 DEF OtherEnqueue, TypeOK, replicaVars
<1>4. ASSUME NEW k \in Slots, CreateStep(q, k)
      PROVE  /\ UNCHANGED <<status, session, type, child, worker>>
             /\ queue'[r] = queue[r]
  BY <1>4 DEF CreateStep, CreateAdmit, CreateInsert, CreateReject, CreateDecide,
     CreateEnqueue, TypeOK, replicaVars
<1>5. QED
  BY <1>1, <1>2, <1>3, <1>4 DEF ReplicaStep

LEMMA AppendElements ==
    ASSUME NEW s \in Seq(Task), NEW e \in Task
    PROVE  Range(Append(s, e)) = Range(s) \union {e}
<1>1. DOMAIN Append(s, e) = 1 .. Len(s) + 1 /\ DOMAIN s = 1 .. Len(s) /\ Len(s) \in Nat
  OBVIOUS
<1>2. \A i \in 1 .. Len(s) : Append(s, e)[i] = s[i]
  OBVIOUS
<1>3. Append(s, e)[Len(s) + 1] = e
  OBVIOUS
<1>4. QED
  BY <1>1, <1>2, <1>3 DEF Range

LEMMA TailElements ==
    ASSUME NEW s \in Seq(Task), s # <<>>
    PROVE  /\ Range(Tail(s)) \subseteq Range(s)
           /\ Head(s) \in Range(s)
<1>1. DOMAIN s = 1 .. Len(s) /\ Len(s) \in Nat \ {0} /\ Head(s) = s[1]
  OBVIOUS
<1>2. DOMAIN Tail(s) = 1 .. Len(s) - 1 /\ \A i \in 1 .. Len(s) - 1 : Tail(s)[i] = s[i + 1]
  OBVIOUS
<1>3. QED
  BY <1>1, <1>2 DEF Range

\* A task a replica holds after a step was held before, or is the one that the
\* step enqueued.
LEMMA HeldStep ==
    ASSUME TypeOK, [Next]_vars, NEW r \in Replicas, NEW t, t \in Held(r)'
    PROVE  \/ t \in Held(r)
           \/ t = OtherTask
           \/ \E k \in Slots : /\ request[<<r, k>>].pc = "enqueue"
                               /\ t = ChangeTypeTask(request[<<r, k>>].want)
           \/ worker[r].pc = "enqueueDelete" /\ t = DeleteTask(worker[r].oldPath)
<1> USE DEF Held
<1>0. /\ queue \in [Replicas -> Seq(Task)] /\ worker \in [Replicas -> Worker]
      /\ request \in [Replicas \X Slots -> Request]
  BY DEF TypeOK
<1>1. CASE queue'[r] = queue[r] /\ worker'[r] = worker[r]
  BY <1>1
<1>2. CASE LifeStep(r)
  <2>1. CASE Crash(r)
    <3>1. queue'[r] = <<>> /\ worker'[r].pc = "idle"
      BY <1>0, <2>1 DEF Crash, IdleWorker
    <3>2. Range(<<>>) = {}
      BY DEF Range
    <3>3. QED
      BY <3>1, <3>2
  <2>2. CASE ~Crash(r)
    BY <1>1, <1>2, <2>2 DEF LifeStep, InitializeReadMaxId, InitializeRegister, SessionExpires
  <2>3. QED
    BY <2>1, <2>2
<1>3. CASE OtherEnqueue(r)
  <2>1. queue'[r] = Append(queue[r], OtherTask) /\ worker' = worker
    BY <1>0, <1>3 DEF OtherEnqueue
  <2>2. QED
    BY <1>0, <2>1, AppendElements, TaskTypes
<1>4. ASSUME NEW k \in Slots, CreateEnqueue(r, k)
      PROVE  t \in Held(r) \/ t = ChangeTypeTask(request[<<r, k>>].want)
  <2> DEFINE e == ChangeTypeTask(request[<<r, k>>].want)
  <2>1. queue'[r] = Append(queue[r], e) /\ worker' = worker
    BY <1>0, <1>4 DEF CreateEnqueue
  <2>2. e \in Task
    BY <1>0, TaskTypes DEF Request
  <2>3. Range(queue'[r]) = Range(queue[r]) \union {e}
    BY <1>0, <2>1, <2>2, AppendElements
  <2>4. QED
    BY <2>1, <2>3
<1>5. CASE ChangeTypeEnqueueDelete(r)
  <2> DEFINE e == DeleteTask(worker[r].oldPath)
  <2>1. queue'[r] = Append(queue[r], e) /\ worker'[r].pc = "assignType"
    BY <1>0, <1>5 DEF ChangeTypeEnqueueDelete, Worker
  <2>2. e \in Task
    BY <1>0, TaskTypes DEF Worker
  <2>3. QED
    BY <1>0, <1>5, <2>1, <2>2, AppendElements DEF ChangeTypeEnqueueDelete
<1>6. CASE DeleteNodeRequeue(r)
  <2>1. queue'[r] = Append(queue[r], worker[r].task) /\ worker'[r] = IdleWorker
    BY <1>0, <1>6 DEF DeleteNodeRequeue
  <2>2. worker[r].task \in Task
    BY <1>0 DEF Worker
  <2>3. QED
    BY <1>0, <1>6, <2>1, <2>2, AppendElements DEF DeleteNodeRequeue, IdleWorker
<1>7. CASE Dequeue(r)
  <2>1. queue'[r] = Tail(queue[r]) /\ worker'[r].task = Head(queue[r]) /\ queue[r] # <<>>
    BY <1>0, <1>7 DEF Dequeue
  <2>2. QED
    <3>1. worker'[r].task \in Range(queue[r])
      BY <1>0, <2>1, TailElements
    <3>2. Range(queue'[r]) \subseteq Range(queue[r])
      BY <1>0, <2>1, TailElements
    <3>3. QED
      BY <3>1, <3>2
<1>8. CASE \/ RunOther(r) \/ ChangeTypeSame(r) \/ ChangeTypeCreate(r) \/ ChangeTypeThrows(r)
           \/ ChangeTypeAssign(r) \/ DeleteNode(r) \/ LogError(r)
  <2>1. queue'[r] = queue[r]
    BY <1>8 DEF RunOther, ChangeTypeSame, ChangeTypeCreate, ChangeTypeThrows,
       ChangeTypeAssign, DeleteNode, LogError
  <2>2. \/ worker' = [worker EXCEPT ![r] = IdleWorker]
        \/ worker' = [worker EXCEPT ![r] = [@ EXCEPT !.pc = "enqueueDelete", !.oldPath = child[r]]]
    BY <1>8 DEF RunOther, ChangeTypeSame, ChangeTypeCreate, ChangeTypeThrows,
       ChangeTypeAssign, DeleteNode, LogError
  <2>3. worker'[r].pc \in {"idle", "enqueueDelete"}
    <3>1. CASE worker' = [worker EXCEPT ![r] = IdleWorker]
      BY <1>0, <3>1 DEF IdleWorker
    <3>2. CASE worker' = [worker EXCEPT ![r] = [@ EXCEPT !.pc = "enqueueDelete", !.oldPath = child[r]]]
      BY <1>0, <3>2 DEF Worker
    <3>3. QED
      BY <2>2, <3>1, <3>2
  <2>4. QED
    BY <2>1, <2>3
<1>9. CASE DeleteNodeThrows(r) \/ DeleteNodeFails(r)
  <2>1. queue'[r] = queue[r] /\ worker'[r].task = worker[r].task /\ worker[r].pc = "run"
    BY <1>0, <1>9 DEF DeleteNodeThrows, DeleteNodeFails, Running, Worker
  <2>2. QED
    BY <2>1
<1>10. ASSUME NEW k \in Slots, CreateStep(r, k), ~CreateEnqueue(r, k)
       PROVE  queue'[r] = queue[r] /\ worker'[r] = worker[r]
  BY <1>10 DEF CreateStep, CreateAdmit, CreateInsert, CreateReject, CreateDecide
<1>11. CASE ReplicaStep(r)
  <2>1. CASE \E k \in Slots : CreateStep(r, k)
    <3>1. PICK k \in Slots : CreateStep(r, k)
      BY <2>1
    <3>2. CASE CreateEnqueue(r, k)
      BY <1>4, <3>2 DEF CreateEnqueue
    <3>3. CASE ~CreateEnqueue(r, k)
      BY <1>1, <1>10, <3>1, <3>3
    <3>4. QED
      BY <3>2, <3>3
  <2>2. CASE LifeStep(r) \/ WorkerStep(r) \/ OtherEnqueue(r)
    BY <1>2, <1>3, <1>5, <1>6, <1>7, <1>8, <1>9, <2>2 DEF WorkerStep
  <2>3. QED
    BY <1>11, <2>1, <2>2 DEF ReplicaStep
<1>12. CASE \E q \in Replicas : q # r /\ ReplicaStep(q)
  BY <1>1, <1>12, OtherReplicaUnchanged
<1>13. QED
  BY <1>1, <1>11, <1>12, NextIsReplicaStep

\* ChangeType's first step, seen from outside.
LEMMA ChangeTypeCreateStep ==
    ASSUME TypeOK, OnlyReadyWork, NEW r \in Replicas, ChangeTypeCreate(r)
    PROVE  /\ status[r] = "ready" /\ UNCHANGED <<status, session, type, queue>>
           /\ ~Changing(r) /\ Changing(r)'
           /\ worker'[r] = [worker[r] EXCEPT !.pc = "enqueueDelete", !.oldPath = child[r]]
           /\ child'[r] = nextNode /\ nextNode' = nextNode + 1 /\ since' = since
           /\ nodes' = nodes \union {NewNode(r, worker[r].task.to)}
<1>1. worker \in [Replicas -> Worker] /\ child \in [Replicas -> Nat]
  BY DEF TypeOK
<1>2. worker[r].pc = "run"
  BY DEF ChangeTypeCreate, Running
<1>3. worker'[r] = [worker[r] EXCEPT !.pc = "enqueueDelete", !.oldPath = child[r]]
  BY <1>1 DEF ChangeTypeCreate
<1>4. worker'[r].pc = "enqueueDelete"
  BY <1>1, <1>3 DEF Worker
<1>5. status[r] = "ready"
  BY <1>2 DEF OnlyReadyWork
<1>6. QED
  BY <1>1, <1>2, <1>3, <1>4, <1>5
     DEF ChangeTypeCreate, CreateChildEphemeral, Changing, replicaVars

\* A delete becomes pending only when ChangeType replaces the node.
LEMMA PendingStep ==
    ASSUME TypeOK, [Next]_vars, NEW r \in Replicas, NEW p, PendingDelete(r, p)'
    PROVE  PendingDelete(r, p) \/ (ChangeTypeCreate(r) /\ p = child[r])
<1>0. worker \in [Replicas -> Worker]
  BY DEF TypeOK
<1>1. CASE \E t \in Held(r)' : t.op = "deleteNode" /\ t.path = p
  <2>1. PICK t : t \in Held(r)' /\ t.op = "deleteNode" /\ t.path = p
    BY <1>1
  <2>2. \/ t \in Held(r)
        \/ worker[r].pc = "enqueueDelete" /\ t = DeleteTask(worker[r].oldPath)
    <3>1. OtherTask.op # "deleteNode" /\ \A y : ChangeTypeTask(y).op # "deleteNode"
      BY DEF OtherTask, ChangeTypeTask
    <3>2. QED
      BY <2>1, <3>1, HeldStep
  <2>3. QED
    BY <2>1, <2>2 DEF PendingDelete, DeleteTask
<1>2. CASE worker'[r].pc = "enqueueDelete" /\ worker'[r].oldPath = p
  <2>1. CASE worker'[r] = worker[r]
    BY <1>2, <2>1 DEF PendingDelete
  <2>2. CASE ReplicaStep(r) /\ worker'[r] # worker[r]
    <3>1. ~LifeStep(r)
      BY <1>0, <1>2, <2>2 DEF LifeStep, InitializeReadMaxId, InitializeRegister, Crash,
         SessionExpires, IdleWorker
    <3>2. ~OtherEnqueue(r) /\ \A k \in Slots : ~CreateStep(r, k)
      BY <2>2 DEF OtherEnqueue, CreateStep, CreateAdmit, CreateInsert, CreateReject,
         CreateDecide, CreateEnqueue
    <3>3. WorkerStep(r)
      BY <2>2, <3>1, <3>2 DEF ReplicaStep
    <3>4. ChangeTypeCreate(r)
      <4>1. ~Dequeue(r)
        BY <1>0, <1>2 DEF Dequeue
      <4>2. ~(RunOther(r) \/ ChangeTypeSame(r) \/ ChangeTypeThrows(r) \/ ChangeTypeAssign(r)
              \/ DeleteNode(r) \/ DeleteNodeRequeue(r) \/ LogError(r))
        BY <1>0, <1>2 DEF RunOther, ChangeTypeSame, ChangeTypeThrows, ChangeTypeAssign,
           DeleteNode, DeleteNodeRequeue, LogError, IdleWorker
      <4>3. ~(ChangeTypeEnqueueDelete(r) \/ DeleteNodeThrows(r) \/ DeleteNodeFails(r))
        BY <1>0, <1>2 DEF ChangeTypeEnqueueDelete, DeleteNodeThrows, DeleteNodeFails, Worker
      <4>4. QED
        BY <3>3, <4>1, <4>2, <4>3 DEF WorkerStep
    <3>5. worker'[r].oldPath = child[r]
      BY <1>0, <3>4 DEF ChangeTypeCreate, Worker
    <3>6. QED
      BY <1>2, <3>4, <3>5
  <2>3. QED
    BY <2>1, <2>2, NextIsReplicaStep, OtherReplicaUnchanged
<1>3. QED
  BY <1>1, <1>2 DEF PendingDelete

\* A replica that serves after a step served before with the same node, or the
\* step made it a new one.
LEMMA ChildStep ==
    ASSUME TypeOK, OnlyReadyWork, [Next]_vars, NEW r \in Replicas, status'[r] = "ready"
    PROVE  \/ status[r] = "ready" /\ child'[r] = child[r] /\ ~ChangeTypeCreate(r)
           \/ /\ InitializeRegister(r) \/ ChangeTypeCreate(r)
              /\ child'[r] = nextNode /\ nextNode' = nextNode + 1
              /\ \A q \in Replicas : q # r => child'[q] = child[q] /\ status'[q] = status[q]
<1>0. /\ status \in [Replicas -> {"down", "booting", "ready"}]
      /\ child \in [Replicas -> Nat] /\ nextNode \in Nat
  BY DEF TypeOK
<1>1. CASE InitializeRegister(r)
  BY <1>0, <1>1 DEF InitializeRegister, CreateChildEphemeral
<1>2. CASE ChangeTypeCreate(r)
  BY <1>0, <1>2 DEF ChangeTypeCreate, CreateChildEphemeral, replicaVars
<1>3. CASE ReplicaStep(r) /\ ~InitializeRegister(r) /\ ~ChangeTypeCreate(r)
  <2>1. CASE LifeStep(r)
    BY <1>0, <1>3, <2>1 DEF LifeStep, InitializeReadMaxId, Crash, SessionExpires, replicaVars
  <2>2. CASE WorkerStep(r)
    BY <1>3, <2>2 DEF WorkerStep, Dequeue, RunOther, ChangeTypeSame, ChangeTypeThrows,
       ChangeTypeEnqueueDelete, ChangeTypeAssign, DeleteNode, DeleteNodeThrows,
       DeleteNodeRequeue, DeleteNodeFails, LogError, replicaVars
  <2>3. CASE OtherEnqueue(r) \/ \E k \in Slots : CreateStep(r, k)
    BY <1>3, <2>3 DEF OtherEnqueue, CreateStep, CreateAdmit, CreateInsert, CreateReject,
       CreateDecide, CreateEnqueue, replicaVars
  <2>4. QED
    BY <1>3, <2>1, <2>2, <2>3 DEF ReplicaStep
<1>4. CASE child'[r] = child[r] /\ status'[r] = status[r] /\ ~ChangeTypeCreate(r)
  BY <1>4
<1>5. ASSUME NEW q \in Replicas, q # r, ReplicaStep(q)
      PROVE  child'[r] = child[r] /\ status'[r] = status[r] /\ ~ChangeTypeCreate(r)
  <2>1. child'[r] = child[r] /\ status'[r] = status[r] /\ worker'[r] = worker[r]
    BY <1>5, OtherReplicaUnchanged
  <2>2. ~ChangeTypeCreate(r)
    BY <2>1, ChangeTypeCreateStep DEF Changing
  <2>3. QED
    BY <2>1, <2>2
<1>6. CASE UNCHANGED <<zkVars, replicaVars, type, child, request, queue, worker>>
  <2>1. ~ChangeTypeCreate(r)
    BY <1>6, ChangeTypeCreateStep DEF Changing
  <2>2. QED
    BY <1>6, <2>1 DEF replicaVars
<1>7. QED
  BY <1>1, <1>2, <1>3, <1>4, <1>5, <1>6, NextIsReplicaStep

LEMMA NextNodeStep ==
    ASSUME TypeOK, [Next]_vars
    PROVE  nextNode' \in Nat /\ nextNode' >= nextNode
<1>1. CASE nextNode' = nextNode \/ nextNode' = nextNode + 1
  BY <1>1 DEF TypeOK
<1>2. ASSUME NEW q \in Replicas, ReplicaStep(q)
      PROVE  nextNode' = nextNode \/ nextNode' = nextNode + 1
  <2>1. CASE LifeStep(q)
    BY <2>1 DEF LifeStep, InitializeReadMaxId, InitializeRegister, CreateChildEphemeral,
       Crash, SessionExpires, zkVars
  <2>2. CASE WorkerStep(q)
    BY <2>2 DEF WorkerStep, Dequeue, RunOther, ChangeTypeSame, ChangeTypeCreate,
       CreateChildEphemeral, ChangeTypeThrows, ChangeTypeEnqueueDelete, ChangeTypeAssign,
       DeleteNode, DeleteNodeThrows, DeleteNodeRequeue, DeleteNodeFails, LogError, zkVars
  <2>3. CASE OtherEnqueue(q) \/ \E k \in Slots : CreateStep(q, k)
    BY <2>3 DEF OtherEnqueue, CreateStep, CreateAdmit, CreateInsert, CreateReject,
       CreateDecide, CreateEnqueue, zkVars
  <2>4. QED
    BY <1>2, <2>1, <2>2, <2>3 DEF ReplicaStep
<1>3. QED
  BY <1>1, <1>2, NextIsReplicaStep DEF zkVars

\* A live replica's session that expires makes every node so far an old one.
LEMMA SinceStep ==
    ASSUME TypeOK, SinceIsPast, [Next]_vars, NEW r \in Replicas
    PROVE  /\ since'[r] \in Nat /\ since'[r] >= since[r] /\ since'[r] <= nextNode
<1>0. since \in [Replicas -> Nat] /\ nextNode \in Nat /\ since[r] <= nextNode
  BY DEF TypeOK, SinceIsPast
<1>1. CASE since'[r] = since[r] \/ since'[r] = nextNode
  BY <1>0, <1>1
<1>2. ASSUME NEW q \in Replicas, ReplicaStep(q)
      PROVE  since'[r] = since[r] \/ since'[r] = nextNode
  <2>1. CASE LifeStep(q)
    BY <1>0, <2>1 DEF LifeStep, InitializeReadMaxId, InitializeRegister, CreateChildEphemeral,
       Crash, SessionExpires, zkVars
  <2>2. CASE WorkerStep(q)
    BY <2>2 DEF WorkerStep, Dequeue, RunOther, ChangeTypeSame, ChangeTypeCreate,
       CreateChildEphemeral, ChangeTypeThrows, ChangeTypeEnqueueDelete, ChangeTypeAssign,
       DeleteNode, DeleteNodeThrows, DeleteNodeRequeue, DeleteNodeFails, LogError, zkVars
  <2>3. CASE OtherEnqueue(q) \/ \E k \in Slots : CreateStep(q, k)
    BY <2>3 DEF OtherEnqueue, CreateStep, CreateAdmit, CreateInsert, CreateReject,
       CreateDecide, CreateEnqueue, zkVars
  <2>4. QED
    BY <1>2, <2>1, <2>2, <2>3 DEF ReplicaStep
<1>3. QED
  BY <1>1, <1>2, NextIsReplicaStep DEF zkVars

\* A node disappears only by a delete task some replica is running, or because its
\* session is over: that of a run that has ended, or a live replica's.
LEMMA NodesStep ==
    ASSUME TypeOK, [Next]_vars, NEW n \in nodes
    PROVE  \/ n \in nodes'
           \/ status[n.owner] # "ready" \/ n.session # session[n.owner]
           \/ since'[n.owner] = nextNode
           \/ \E q \in Replicas : worker[q].pc = "run" /\ PendingDelete(q, n.seq)
<1>0. nodes \subseteq Node /\ since \in [Replicas -> Nat]
  BY DEF TypeOK
<1>1. ASSUME NEW q \in Replicas, ReplicaStep(q), n \notin nodes'
      PROVE  \/ status[n.owner] # "ready" \/ n.session # session[n.owner]
             \/ since'[n.owner] = nextNode
             \/ worker[q].pc = "run" /\ PendingDelete(q, n.seq)
  <2>1. CASE LifeStep(q)
    BY <1>0, <1>1, <2>1 DEF LifeStep, InitializeReadMaxId, InitializeRegister,
       CreateChildEphemeral, Crash, SessionExpires, zkVars
  <2>2. CASE DeleteNode(q) \/ DeleteNodeThrows(q) \/ DeleteNodeFails(q)
    <3>1. Running(q, "deleteNode") /\ n.seq = worker[q].task.path
      BY <1>1, <2>2 DEF DeleteNode, DeleteNodeThrows, DeleteNodeFails, Without
    <3>2. worker[q].pc = "run" /\ worker[q].task \in Held(q) /\ worker[q].task.op = "deleteNode"
      BY <3>1 DEF Running, Held
    <3>3. QED
      BY <3>1, <3>2 DEF PendingDelete
  <2>3. CASE WorkerStep(q) /\ ~DeleteNode(q) /\ ~DeleteNodeThrows(q) /\ ~DeleteNodeFails(q)
    BY <1>1, <2>3 DEF WorkerStep, Dequeue, RunOther, ChangeTypeSame, ChangeTypeCreate,
       CreateChildEphemeral, ChangeTypeThrows, ChangeTypeEnqueueDelete, ChangeTypeAssign,
       DeleteNodeRequeue, LogError, zkVars
  <2>4. CASE OtherEnqueue(q) \/ \E k \in Slots : CreateStep(q, k)
    BY <1>1, <2>4 DEF OtherEnqueue, CreateStep, CreateAdmit, CreateInsert, CreateReject,
       CreateDecide, CreateEnqueue, zkVars
  <2>5. QED
    BY <1>1, <2>1, <2>2, <2>3, <2>4 DEF ReplicaStep
<1>2. QED
  BY <1>1, NextIsReplicaStep DEF zkVars

-------------------------------------------------------------------------------
(* The conjuncts of the inductive invariant *)

LEMMA OnlyReadyWorkStep ==
    ASSUME TypeOK, OnlyReadyWork, [Next]_vars
    PROVE  OnlyReadyWork'
<1> SUFFICES ASSUME NEW r \in Replicas, status'[r] # "ready"
             PROVE  worker'[r].pc = "idle"
  BY DEF OnlyReadyWork
<1>0. /\ worker \in [Replicas -> Worker]
      /\ status \in [Replicas -> {"down", "booting", "ready"}]
  BY DEF TypeOK
<1>1. CASE status'[r] = status[r] /\ worker'[r] = worker[r]
  BY <1>1 DEF OnlyReadyWork
<1>2. CASE LifeStep(r)
  BY <1>0, <1>2 DEF LifeStep, InitializeReadMaxId, InitializeRegister, Crash, SessionExpires,
     replicaVars, OnlyReadyWork, IdleWorker
<1>3. CASE WorkerStep(r)
  <2>1. status[r] = "ready"
    BY <1>3 DEF WorkerStep, Dequeue, RunOther, ChangeTypeSame, ChangeTypeCreate,
       ChangeTypeThrows, ChangeTypeEnqueueDelete, ChangeTypeAssign, DeleteNode,
       DeleteNodeThrows, DeleteNodeRequeue, DeleteNodeFails, LogError, Running, OnlyReadyWork
  <2>2. status' = status
    BY <1>3 DEF WorkerStep, Dequeue, RunOther, ChangeTypeSame, ChangeTypeCreate,
       ChangeTypeThrows, ChangeTypeEnqueueDelete, ChangeTypeAssign, DeleteNode,
       DeleteNodeThrows, DeleteNodeRequeue, DeleteNodeFails, LogError, replicaVars
  <2>3. QED
    BY <2>1, <2>2
<1>4. CASE OtherEnqueue(r) \/ \E k \in Slots : CreateStep(r, k)
  BY <1>1, <1>4 DEF OtherEnqueue, CreateStep, CreateAdmit, CreateInsert, CreateReject,
     CreateDecide, CreateEnqueue, replicaVars
<1>5. QED
  BY <1>1, <1>2, <1>3, <1>4, NextIsReplicaStep, OtherReplicaUnchanged DEF ReplicaStep, replicaVars

LEMMA SinceIsPastStep ==
    ASSUME TypeOK, SinceIsPast, [Next]_vars
    PROVE  SinceIsPast'
<1> SUFFICES ASSUME NEW r \in Replicas
             PROVE  since'[r] <= nextNode'
  BY DEF SinceIsPast
<1>1. since'[r] \in Nat /\ since'[r] <= nextNode /\ nextNode \in Nat
  BY SinceStep DEF TypeOK
<1>2. QED
  BY <1>1, NextNodeStep

LEMMA ChildrenDistinctStep ==
    ASSUME TypeOK, OnlyReadyWork, ChildrenDistinct, [Next]_vars
    PROVE  ChildrenDistinct'
<1> SUFFICES ASSUME NEW r \in Replicas, status'[r] = "ready"
             PROVE  /\ child'[r] < nextNode'
                    /\ \A q \in Replicas :
                          status'[q] = "ready" /\ child'[q] = child'[r] => q = r
  BY DEF ChildrenDistinct
<1>0. child \in [Replicas -> Nat] /\ nextNode \in Nat
  BY DEF TypeOK
<1>1. child'[r] < nextNode'
  <2>1. CASE status[r] = "ready" /\ child'[r] = child[r]
    BY <1>0, <2>1, NextNodeStep DEF ChildrenDistinct
  <2>2. CASE child'[r] = nextNode /\ nextNode' = nextNode + 1
    BY <1>0, <2>2
  <2>3. QED
    BY <2>1, <2>2, ChildStep
<1>2. ASSUME NEW q \in Replicas, status'[q] = "ready", child'[q] = child'[r]
      PROVE  q = r
  <2> SUFFICES ASSUME q # r PROVE FALSE
    OBVIOUS
  <2>1. ASSUME NEW x \in Replicas, NEW y \in Replicas, x # y,
               status'[x] = "ready", status'[y] = "ready", child'[x] = child'[y],
               child'[x] = nextNode,
               \A z \in Replicas : z # x => child'[z] = child[z] /\ status'[z] = status[z]
        PROVE  FALSE
    <3>1. child'[y] = child[y] /\ status[y] = "ready"
      BY <2>1
    <3>2. child[y] < nextNode
      BY <3>1 DEF ChildrenDistinct
    <3>3. child[y] = nextNode
      BY <2>1, <3>1
    <3>4. QED
      BY <1>0, <3>2, <3>3
  <2>2. ~(/\ child'[r] = nextNode
          /\ \A z \in Replicas : z # r => child'[z] = child[z] /\ status'[z] = status[z])
    BY <1>2, <2>1
  <2>3. ~(/\ child'[q] = nextNode
          /\ \A z \in Replicas : z # q => child'[z] = child[z] /\ status'[z] = status[z])
    BY <1>2, <2>1
  <2>4. CASE /\ status[r] = "ready" /\ child'[r] = child[r]
             /\ status[q] = "ready" /\ child'[q] = child[q]
    BY <1>2, <2>4 DEF ChildrenDistinct
  <2>5. /\ status[r] = "ready" /\ child'[r] = child[r]
        /\ status[q] = "ready" /\ child'[q] = child[q]
    BY <1>2, <2>2, <2>3, ChildStep
  <2>6. QED
    BY <2>4, <2>5
<1>3. QED
  BY <1>1, <1>2

LEMMA PendingIsOldStep ==
    ASSUME TypeOK, OnlyReadyWork, ChildrenDistinct, PendingIsOld, [Next]_vars
    PROVE  PendingIsOld'
<1> SUFFICES ASSUME NEW r \in Replicas, NEW p \in Nat, PendingDelete(r, p)'
             PROVE  /\ p < nextNode'
                    /\ \A q \in Replicas : status'[q] = "ready" => child'[q] # p
                    /\ \A q \in Replicas : PendingDelete(q, p)' => q = r
  BY DEF PendingIsOld
<1>0. child \in [Replicas -> Nat] /\ nextNode \in Nat
  BY DEF TypeOK
<1>1. p < nextNode
  <2>1. CASE PendingDelete(r, p)
    BY <2>1 DEF PendingIsOld
  <2>2. CASE ChangeTypeCreate(r) /\ p = child[r]
    BY <2>2, ChangeTypeCreateStep DEF ChildrenDistinct
  <2>3. QED
    BY <2>1, <2>2, PendingStep
<1>2. ASSUME NEW q \in Replicas, status'[q] = "ready"
      PROVE  child'[q] # p
  <2>1. CASE child'[q] = nextNode
    BY <1>0, <1>1, <2>1
  <2>2. CASE status[q] = "ready" /\ child'[q] = child[q] /\ ~ChangeTypeCreate(q)
    <3>1. CASE PendingDelete(r, p)
      BY <2>2, <3>1 DEF PendingIsOld
    <3>2. CASE ChangeTypeCreate(r) /\ p = child[r]
      BY <2>2, <3>2, ChangeTypeCreateStep DEF ChildrenDistinct
    <3>3. QED
      BY <3>1, <3>2, PendingStep
  <2>3. QED
    BY <1>2, <2>1, <2>2, ChildStep
<1>3. ASSUME NEW q \in Replicas, PendingDelete(q, p)'
      PROVE  q = r
  <2>1. ASSUME NEW x \in Replicas, NEW y \in Replicas,
               PendingDelete(x, p), ChangeTypeCreate(y), p = child[y]
        PROVE  FALSE
    BY <2>1, ChangeTypeCreateStep DEF PendingIsOld
  <2>2. CASE PendingDelete(r, p) /\ PendingDelete(q, p)
    BY <2>2 DEF PendingIsOld
  <2>3. CASE ChangeTypeCreate(r) /\ p = child[r] /\ ChangeTypeCreate(q) /\ p = child[q]
    BY <2>3, ChangeTypeCreateStep DEF ChildrenDistinct
  <2>4. QED
    BY <1>3, <2>1, <2>2, <2>3, PendingStep
<1>4. QED
  BY <1>0, <1>1, <1>2, <1>3, NextNodeStep

\* What can happen to the worker and the type while ChangeType is under way.
LEMMA ChangingStep ==
    ASSUME TypeOK, OnlyReadyWork, [Next]_vars, NEW r \in Replicas, Changing(r)'
    PROVE  \/ ChangeTypeCreate(r)
           \/ /\ Changing(r) /\ type'[r] = type[r] /\ session'[r] = session[r]
              /\ status[r] = "ready"
              /\ worker'[r].oldPath = worker[r].oldPath /\ worker'[r].task = worker[r].task
              /\ PendingDelete(r, worker[r].oldPath) => PendingDelete(r, worker[r].oldPath)'
<1>0. /\ worker \in [Replicas -> Worker] /\ queue \in [Replicas -> Seq(Task)]
      /\ request \in [Replicas \X Slots -> Request]
  BY DEF TypeOK
<1>1. CASE /\ type'[r] = type[r] /\ session'[r] = session[r]
           /\ queue'[r] = queue[r] /\ worker'[r] = worker[r]
  BY <1>1 DEF Changing, PendingDelete, Held, OnlyReadyWork
<1>2. CASE LifeStep(r)
  <2>1. CASE Crash(r)
    BY <1>0, <2>1 DEF Crash, Changing, IdleWorker
  <2>2. CASE InitializeReadMaxId(r) \/ InitializeRegister(r)
    BY <2>2 DEF InitializeReadMaxId, InitializeRegister, Changing, OnlyReadyWork
  <2>3. CASE ~Crash(r) /\ ~InitializeReadMaxId(r) /\ ~InitializeRegister(r)
    BY <1>1, <1>2, <2>3 DEF LifeStep, SessionExpires, replicaVars
  <2>4. QED
    BY <2>1, <2>2, <2>3
<1>3. CASE ChangeTypeEnqueueDelete(r)
  <2> DEFINE e == DeleteTask(worker[r].oldPath)
  <2>1. queue'[r] = Append(queue[r], e) /\ worker'[r] = [worker[r] EXCEPT !.pc = "assignType"]
    BY <1>0, <1>3 DEF ChangeTypeEnqueueDelete
  <2>2. e \in Task
    BY <1>0, TaskTypes DEF Worker
  <2>3. e \in Range(queue'[r])
    BY <1>0, <2>1, <2>2, AppendElements
  <2>4. PendingDelete(r, worker[r].oldPath)'
    <3>1. e \in Held(r)'
      BY <2>3 DEF Held
    <3>2. worker'[r].oldPath = worker[r].oldPath
      BY <1>0, <2>1 DEF Worker
    <3>3. QED
      BY <3>1, <3>2 DEF PendingDelete, DeleteTask
  <2>5. worker'[r].oldPath = worker[r].oldPath /\ worker'[r].task = worker[r].task
    BY <1>0, <2>1 DEF Worker
  <2>6. QED
    BY <1>3, <2>4, <2>5 DEF ChangeTypeEnqueueDelete, Changing, OnlyReadyWork, replicaVars
<1>4. CASE WorkerStep(r) /\ ~ChangeTypeCreate(r) /\ ~ChangeTypeEnqueueDelete(r)
  <2>1. ~Changing(r)'
    <3>1. ~Dequeue(r) \/ worker'[r].pc = "run"
      BY <1>0 DEF Dequeue
    <3>2. RunOther(r) \/ ChangeTypeSame(r) \/ ChangeTypeThrows(r) \/ ChangeTypeAssign(r)
          \/ DeleteNode(r) \/ DeleteNodeRequeue(r) \/ LogError(r) => worker'[r] = IdleWorker
      BY <1>0 DEF RunOther, ChangeTypeSame, ChangeTypeThrows, ChangeTypeAssign, DeleteNode,
         DeleteNodeRequeue, LogError
    <3>3. /\ DeleteNodeThrows(r) => worker'[r].pc = "requeue"
          /\ DeleteNodeFails(r) => worker'[r].pc = "failed"
      <4>1. worker[r] \in Worker
        BY <1>0
      <4>2. /\ DeleteNodeThrows(r) => worker'[r] = [worker[r] EXCEPT !.pc = "requeue"]
            /\ DeleteNodeFails(r) => worker'[r] = [worker[r] EXCEPT !.pc = "failed"]
        BY <1>0 DEF DeleteNodeThrows, DeleteNodeFails
      <4>3. QED
        BY <4>1, <4>2 DEF Worker
    <3>4. QED
      BY <1>4, <3>1, <3>2, <3>3 DEF WorkerStep, Changing, IdleWorker
  <2>2. QED
    BY <2>1
<1>5. ASSUME NEW e \in Task, queue'[r] = Append(queue[r], e), worker'[r] = worker[r],
             type'[r] = type[r], session'[r] = session[r]
      PROVE  /\ Changing(r) /\ status[r] = "ready"
             /\ PendingDelete(r, worker[r].oldPath) => PendingDelete(r, worker[r].oldPath)'
  <2>1. Range(queue[r]) \subseteq Range(queue'[r])
    BY <1>0, <1>5, AppendElements
  <2>2. Held(r) \subseteq Held(r)'
    BY <1>5, <2>1 DEF Held
  <2>3. QED
    BY <1>5, <2>2 DEF PendingDelete, Changing, OnlyReadyWork
<1>6. CASE OtherEnqueue(r)
  <2>1. queue'[r] = Append(queue[r], OtherTask) /\ UNCHANGED <<type, session, worker>>
    BY <1>0, <1>6 DEF OtherEnqueue, replicaVars
  <2>2. QED
    BY <1>5, <2>1, TaskTypes
<1>7. ASSUME NEW k \in Slots, CreateStep(r, k)
      PROVE  /\ UNCHANGED <<type, session, worker>>
             /\ \/ queue'[r] = queue[r]
                \/ \E e \in Task : queue'[r] = Append(queue[r], e)
  <2>1. UNCHANGED <<type, session, worker>>
    BY <1>7 DEF CreateStep, CreateAdmit, CreateInsert, CreateReject, CreateDecide,
       CreateEnqueue, replicaVars
  <2>2. CASE CreateEnqueue(r, k)
    <3>1. ChangeTypeTask(request[<<r, k>>].want) \in Task
      BY <1>0, TaskTypes DEF Request
    <3>2. queue'[r] = Append(queue[r], ChangeTypeTask(request[<<r, k>>].want))
      BY <1>0, <2>2 DEF CreateEnqueue
    <3>3. QED
      BY <2>1, <3>1, <3>2
  <2>3. CASE ~CreateEnqueue(r, k)
    BY <1>7, <2>1, <2>3 DEF CreateStep, CreateAdmit, CreateInsert, CreateReject, CreateDecide
  <2>4. QED
    BY <2>2, <2>3
<1>8. CASE \E k \in Slots : CreateStep(r, k)
  BY <1>1, <1>5, <1>7, <1>8
<1>9. CASE ReplicaStep(r)
  BY <1>2, <1>3, <1>4, <1>6, <1>8, <1>9 DEF ReplicaStep
<1>10. QED
  BY <1>1, <1>9, NextIsReplicaStep, OtherReplicaUnchanged DEF replicaVars

\* A node of its running owner's present session that the owner has not set out to
\* delete, or is only about to, is still there after a step.
LEMMA OwnNodeSurvives ==
    ASSUME TypeOK, OnlyReadyWork, PendingIsOld, [Next]_vars, NEW r \in Replicas,
           status[r] = "ready", NEW p \in Nat, NEW t, OwnNode(r, p, t) \in nodes,
           p < nextNode, p >= since'[r],
           worker[r].pc # "run" \/ ~PendingDelete(r, p),
           \A q \in Replicas : PendingDelete(q, p) => q = r
    PROVE  OwnNode(r, p, t) \in nodes'
<1> DEFINE n == OwnNode(r, p, t)
<1>1. n.owner = r /\ n.session = session[r] /\ n.seq = p
  BY DEF OwnNode
<1>2. ~(\/ status[n.owner] # "ready" \/ n.session # session[n.owner]
        \/ since'[n.owner] = nextNode)
  BY <1>1 DEF TypeOK
<1>3. ~\E q \in Replicas : worker[q].pc = "run" /\ PendingDelete(q, n.seq)
  BY <1>1
<1>4. QED
  BY <1>2, <1>3, NodesStep

LEMMA OldNodeStaysStep ==
    ASSUME IInv, [Next]_vars
    PROVE  OldNodeStays'
<1> USE DEF IInv
<1> SUFFICES ASSUME NEW r \in Replicas, Changing(r)'
             PROVE  /\ PendingDelete(r, worker[r].oldPath)'
                    /\ worker'[r].oldPath >= since'[r] =>
                         (OwnNode(r, worker[r].oldPath, type[r]) \in nodes)'
  BY DEF OldNodeStays
<1>0. /\ worker \in [Replicas -> Worker] /\ child \in [Replicas -> Nat]
      /\ worker[r].oldPath \in Nat /\ since[r] \in Nat
  BY DEF TypeOK, Worker
<1>1. CASE ChangeTypeCreate(r)
  <2>1. worker'[r].pc = "enqueueDelete" /\ worker'[r].oldPath = child[r]
    <3>1. worker[r] \in Worker
      BY <1>0
    <3>2. worker'[r] = [worker[r] EXCEPT !.pc = "enqueueDelete", !.oldPath = child[r]]
      BY <1>1, ChangeTypeCreateStep
    <3>3. QED
      BY <3>1, <3>2 DEF Worker
  <2>2. child[r] >= since[r] => OwnNode(r, child[r], type[r]) \in nodes
    BY <1>1, ChangeTypeCreateStep DEF ReadyReplicaIsPublished, Advertised
  <2>3. child[r] >= since'[r] => OwnNode(r, child[r], type[r]) \in nodes'
    BY <1>1, <2>2, ChangeTypeCreateStep
  <2>4. type'[r] = type[r] /\ session'[r] = session[r]
    BY <1>1, ChangeTypeCreateStep
  <2>5. QED
    BY <2>1, <2>3, <2>4 DEF PendingDelete, OwnNode
<1>2. CASE ~ChangeTypeCreate(r)
  <2>1. /\ Changing(r) /\ type'[r] = type[r] /\ session'[r] = session[r]
        /\ status[r] = "ready"
        /\ worker'[r].oldPath = worker[r].oldPath
        /\ PendingDelete(r, worker[r].oldPath) => PendingDelete(r, worker[r].oldPath)'
    BY <1>2, ChangingStep
  <2>2. /\ PendingDelete(r, worker[r].oldPath)
        /\ worker[r].oldPath >= since[r] => OwnNode(r, worker[r].oldPath, type[r]) \in nodes
    BY <2>1 DEF OldNodeStays
  <2>3. worker[r].pc # "run"
    BY <2>1 DEF Changing
  <2>4. /\ worker[r].oldPath < nextNode
        /\ \A q \in Replicas : PendingDelete(q, worker[r].oldPath) => q = r
    BY <1>0, <2>2 DEF PendingIsOld
  <2>5. worker[r].oldPath >= since'[r] => OwnNode(r, worker[r].oldPath, type[r]) \in nodes'
    <3>1. worker[r].oldPath >= since'[r] => worker[r].oldPath >= since[r]
      BY <1>0, SinceStep
    <3>2. QED
      BY <1>0, <2>1, <2>2, <2>3, <2>4, <3>1, OwnNodeSurvives
  <2>6. QED
    BY <2>1, <2>2, <2>5 DEF OwnNode
<1>3. QED
  BY <1>1, <1>2

\* What a serving replica advertises changes only when it makes a new node.
LEMMA AdvertisedStep ==
    ASSUME TypeOK, OnlyReadyWork, [Next]_vars, NEW r \in Replicas,
           status[r] = "ready", status'[r] = "ready", ~ChangeTypeCreate(r)
    PROVE  Advertised(r)' = Advertised(r) /\ session'[r] = session[r]
<1>0. /\ worker \in [Replicas -> Worker] /\ type \in [Replicas -> ShardType]
      /\ status \in [Replicas -> {"down", "booting", "ready"}]
  BY DEF TypeOK
<1>1. CASE type'[r] = type[r] /\ session'[r] = session[r] /\ worker'[r] = worker[r]
  BY <1>1 DEF Advertised, Changing
<1>2. CASE LifeStep(r)
  <2>1. ~Crash(r) /\ ~InitializeReadMaxId(r) /\ ~InitializeRegister(r)
    BY <1>0 DEF Crash, InitializeReadMaxId, InitializeRegister
  <2>2. QED
    BY <1>1, <1>2, <2>1 DEF LifeStep, SessionExpires, replicaVars
<1>3. CASE ChangeTypeAssign(r)
  BY <1>0, <1>3 DEF ChangeTypeAssign, Advertised, Changing, IdleWorker, replicaVars
<1>4. CASE ChangeTypeEnqueueDelete(r)
  <2>1. worker[r] \in Worker /\ worker'[r] = [worker[r] EXCEPT !.pc = "assignType"]
    BY <1>0, <1>4 DEF ChangeTypeEnqueueDelete
  <2>2. worker'[r].pc = "assignType" /\ worker'[r].task = worker[r].task
    BY <2>1 DEF Worker
  <2>3. QED
    BY <1>4, <2>2 DEF ChangeTypeEnqueueDelete, Advertised, Changing, replicaVars
<1>5. CASE /\ WorkerStep(r)
           /\ ~ChangeTypeAssign(r) /\ ~ChangeTypeEnqueueDelete(r)
  <2>1. ~Changing(r)
    BY <1>5 DEF WorkerStep, Dequeue, RunOther, ChangeTypeSame, ChangeTypeCreate, ChangeTypeThrows,
       DeleteNode, DeleteNodeThrows, DeleteNodeRequeue, DeleteNodeFails, LogError, Running, Changing
  <2>2. UNCHANGED <<type, session>>
    BY <1>5 DEF WorkerStep, Dequeue, RunOther, ChangeTypeSame, ChangeTypeCreate, ChangeTypeThrows,
       DeleteNode, DeleteNodeThrows, DeleteNodeRequeue, DeleteNodeFails, LogError, replicaVars
  <2>3. ~Changing(r)'
    BY <1>5, <2>1, ChangingStep
  <2>4. QED
    BY <2>1, <2>2, <2>3 DEF Advertised
<1>6. CASE OtherEnqueue(r) \/ \E k \in Slots : CreateStep(r, k)
  BY <1>1, <1>6 DEF OtherEnqueue, CreateStep, CreateAdmit, CreateInsert, CreateReject,
     CreateDecide, CreateEnqueue, replicaVars
<1>7. CASE ReplicaStep(r)
  BY <1>2, <1>3, <1>4, <1>5, <1>6, <1>7 DEF ReplicaStep
<1>8. QED
  BY <1>1, <1>7, NextIsReplicaStep, OtherReplicaUnchanged DEF replicaVars

LEMMA ReadyReplicaIsPublishedStep ==
    ASSUME IInv, [Next]_vars
    PROVE  ReadyReplicaIsPublished'
<1> USE DEF IInv
<1> SUFFICES ASSUME NEW r \in Replicas, status'[r] = "ready", child'[r] >= since'[r]
             PROVE  (OwnNode(r, child[r], Advertised(r)) \in nodes)'
  BY DEF ReadyReplicaIsPublished
<1>0. /\ worker \in [Replicas -> Worker] /\ child \in [Replicas -> Nat] /\ child[r] \in Nat
      /\ since[r] \in Nat
  BY DEF TypeOK
<1>1. CASE status[r] = "ready" /\ child'[r] = child[r] /\ ~ChangeTypeCreate(r)
  <2>1. OwnNode(r, child[r], Advertised(r)) \in nodes
    <3>1. child[r] >= since[r]
      BY <1>0, <1>1, SinceStep
    <3>2. QED
      BY <1>1, <3>1 DEF ReadyReplicaIsPublished
  <2>2. child[r] < nextNode /\ \A q \in Replicas : ~PendingDelete(q, child[r])
    BY <1>0, <1>1 DEF PendingIsOld, ChildrenDistinct
  <2>3. OwnNode(r, child[r], Advertised(r)) \in nodes'
    BY <1>0, <1>1, <2>1, <2>2, OwnNodeSurvives
  <2>4. Advertised(r)' = Advertised(r) /\ session'[r] = session[r]
    BY <1>1, AdvertisedStep
  <2>5. QED
    BY <1>1, <2>3, <2>4 DEF OwnNode
<1>2. CASE InitializeRegister(r) /\ child'[r] = nextNode
  <2>1. worker[r].pc = "idle" /\ worker' = worker /\ type' = type /\ session' = session
    BY <1>2 DEF InitializeRegister, OnlyReadyWork
  <2>2. Advertised(r)' = type[r]
    BY <2>1 DEF Advertised, Changing
  <2>3. OwnNode(r, nextNode, type[r]) \in nodes'
    BY <1>2 DEF InitializeRegister, CreateChildEphemeral, NewNode
  <2>4. QED
    BY <1>2, <2>1, <2>2, <2>3 DEF OwnNode
<1>3. CASE ChangeTypeCreate(r) /\ child'[r] = nextNode
  <2>1. /\ Changing(r)' /\ session' = session
        /\ worker'[r] = [worker[r] EXCEPT !.pc = "enqueueDelete", !.oldPath = child[r]]
        /\ nodes' = nodes \union {NewNode(r, worker[r].task.to)}
    BY <1>3, ChangeTypeCreateStep
  <2>2. worker'[r].task = worker[r].task
    BY <1>0, <2>1 DEF Worker
  <2>3. Advertised(r)' = worker[r].task.to
    BY <2>1, <2>2 DEF Advertised
  <2>4. QED
    BY <1>3, <2>1, <2>3 DEF NewNode, OwnNode
<1>4. QED
  BY <1>1, <1>2, <1>3, ChildStep

LEMMA ServingTypesStep ==
    ASSUME TypeOK, OnlyReadyWork, ServingTypes, [Next]_vars
    PROVE  ServingTypes'
<1> DEFINE Target == {"ReadOnly", "WriteUrlsOnly"}
<1>0. /\ worker \in [Replicas -> Worker] /\ type \in [Replicas -> ShardType]
      /\ request \in [Replicas \X Slots -> Request] /\ maxRow \in Nat
      /\ status \in [Replicas -> {"down", "booting", "ready"}]
  BY DEF TypeOK
<1>1. ASSUME NEW r \in Replicas, NEW t, t \in Held(r)', t.op = "changeType"
      PROVE  t.to \in Target
  <2>1. \A p : DeleteTask(p).op # "changeType"
    BY DEF DeleteTask
  <2>2. OtherTask.op # "changeType"
    BY DEF OtherTask
  <2>3. CASE t \in Held(r)
    BY <1>1, <2>3 DEF ServingTypes
  <2>4. ASSUME NEW k \in Slots, request[<<r, k>>].pc = "enqueue",
               t = ChangeTypeTask(request[<<r, k>>].want)
        PROVE  t.to \in Target
    BY <2>4 DEF ServingTypes, ChangeTypeTask
  <2>5. QED
    BY <1>1, <2>1, <2>2, <2>3, <2>4, HeldStep
<1>2. ASSUME NEW r \in Replicas, Changing(r)'
      PROVE  worker'[r].task.to \in Target
  <2>1. CASE ChangeTypeCreate(r)
    <3>1. worker[r].task \in Held(r) /\ worker[r].task.op = "changeType"
      BY <2>1 DEF ChangeTypeCreate, Running, Held
    <3>2. worker'[r].task = worker[r].task
      BY <1>0, <2>1 DEF ChangeTypeCreate, Worker
    <3>3. QED
      BY <3>1, <3>2 DEF ServingTypes
  <2>2. CASE Changing(r) /\ worker'[r].task = worker[r].task
    BY <2>2 DEF ServingTypes
  <2>3. QED
    BY <1>2, <2>1, <2>2, ChangingStep
<1>3. ASSUME NEW r \in Replicas, status'[r] # "down"
      PROVE  type'[r] # "Uninitialized"
  <2>1. CASE status'[r] = status[r] /\ type'[r] = type[r]
    BY <1>3, <2>1 DEF ServingTypes
  <2>2. CASE InitializeReadMaxId(r)
    BY <1>0, <2>2, TypeForMaxIdType DEF InitializeReadMaxId
  <2>3. CASE LifeStep(r) /\ ~InitializeReadMaxId(r)
    <3>1. CASE Crash(r)
      BY <1>0, <1>3, <3>1 DEF Crash
    <3>2. CASE InitializeRegister(r)
      BY <1>0, <3>2 DEF InitializeRegister, ServingTypes
    <3>3. CASE ~Crash(r) /\ ~InitializeRegister(r)
      BY <2>1, <2>3, <3>3 DEF LifeStep, SessionExpires, replicaVars
    <3>4. QED
      BY <3>1, <3>2, <3>3
  <2>4. CASE ChangeTypeAssign(r)
    BY <1>0, <2>4 DEF ChangeTypeAssign, ServingTypes, Changing
  <2>5. CASE WorkerStep(r) /\ ~ChangeTypeAssign(r)
    BY <2>1, <2>5 DEF WorkerStep, Dequeue, RunOther, ChangeTypeSame, ChangeTypeCreate,
       ChangeTypeThrows, ChangeTypeEnqueueDelete, DeleteNode, DeleteNodeThrows,
       DeleteNodeRequeue, DeleteNodeFails, LogError, replicaVars
  <2>6. CASE OtherEnqueue(r) \/ \E k \in Slots : CreateStep(r, k)
    BY <2>1, <2>6 DEF OtherEnqueue, CreateStep, CreateAdmit, CreateInsert, CreateReject,
       CreateDecide, CreateEnqueue, replicaVars
  <2>7. QED
    BY <2>1, <2>2, <2>3, <2>4, <2>5, <2>6, NextIsReplicaStep, OtherReplicaUnchanged
       DEF ReplicaStep, replicaVars
<1>4. ASSUME NEW c \in Replicas \X Slots, request'[c].pc = "enqueue"
      PROVE  request'[c].want \in Target
  <2>1. CASE request'[c] = request[c]
    BY <1>4, <2>1 DEF ServingTypes
  <2>2. CASE request'[c] = NoRequest
    BY <1>4, <2>2 DEF NoRequest
  <2>3. ASSUME NEW r \in Replicas, NEW k \in Slots, CreateStep(r, k)
        PROVE  request'[c].want \in Target
    <3>1. CASE c # <<r, k>> \/ CreateReject(r, k) \/ CreateEnqueue(r, k)
      BY <1>0, <2>1, <2>2, <2>3, <3>1 DEF CreateStep, CreateAdmit, CreateInsert,
         CreateReject, CreateDecide, CreateEnqueue
    <3>2. CASE c = <<r, k>> /\ CreateAdmit(r, k)
      <4>1. request'[c] = [request[c] EXCEPT !.pc = "admitted"]
        BY <1>0, <3>2 DEF CreateAdmit
      <4>2. request'[c].pc = "admitted"
        BY <1>0, <4>1 DEF Request
      <4>3. QED
        BY <1>4, <4>2
    <3>3. CASE c = <<r, k>> /\ CreateInsert(r, k)
      <4>1. request'[c] = [request[c] EXCEPT !.pc = "inserted", !.id = lastId + 1]
        BY <1>0, <3>3 DEF CreateInsert
      <4>2. request'[c].pc = "inserted"
        BY <1>0, <4>1 DEF Request
      <4>3. QED
        BY <1>4, <4>2
    <3>4. CASE c = <<r, k>> /\ CreateDecide(r, k)
      <4>1. \/ request' = [request EXCEPT ![c] = NoRequest]
            \/ \E t \in ChangeFor(request[c].id, type[r]) :
                 request' = [request EXCEPT ![c] = [@ EXCEPT !.pc = "enqueue", !.want = t]]
        BY <3>4 DEF CreateDecide
      <4>2. CASE request' = [request EXCEPT ![c] = NoRequest]
        BY <1>0, <2>2, <4>2
      <4>3. ASSUME NEW t, t \in ChangeFor(request[c].id, type[r]),
                   request' = [request EXCEPT ![c] = [@ EXCEPT !.pc = "enqueue", !.want = t]]
            PROVE  request'[c].want \in Target
        <5>1. request'[c] = [request[c] EXCEPT !.pc = "enqueue", !.want = t]
          BY <1>0, <4>3
        <5>2. request'[c].want = t
          BY <1>0, <5>1 DEF Request
        <5>3. QED
          BY <4>3, <5>2, ChangeForType
      <4>4. QED
        BY <4>1, <4>2, <4>3
    <3>5. QED
      BY <2>3, <3>1, <3>2, <3>3, <3>4 DEF CreateStep
  <2>4. ASSUME NEW r \in Replicas, LifeStep(r) \/ WorkerStep(r) \/ OtherEnqueue(r)
        PROVE  request'[c] = request[c] \/ request'[c] = NoRequest
    <3>1. CASE Crash(r)
      BY <1>0, <3>1 DEF Crash
    <3>2. CASE LifeStep(r) /\ ~Crash(r)
      BY <3>2 DEF LifeStep, InitializeReadMaxId, InitializeRegister, SessionExpires
    <3>3. CASE WorkerStep(r)
      BY <3>3 DEF WorkerStep, Dequeue, RunOther, ChangeTypeSame, ChangeTypeCreate,
         ChangeTypeThrows, ChangeTypeEnqueueDelete, ChangeTypeAssign, DeleteNode,
         DeleteNodeThrows, DeleteNodeRequeue, DeleteNodeFails, LogError
    <3>4. CASE OtherEnqueue(r)
      BY <3>4 DEF OtherEnqueue
    <3>5. QED
      BY <2>4, <3>1, <3>2, <3>3, <3>4
  <2>5. QED
    BY <2>1, <2>2, <2>3, <2>4, NextIsReplicaStep DEF ReplicaStep
<1>5. QED
  BY <1>1, <1>2, <1>3, <1>4 DEF ServingTypes

-------------------------------------------------------------------------------
(* The theorems *)

LEMMA InitIInv == Init => IInv
<1> SUFFICES ASSUME Init PROVE IInv
  OBVIOUS
<1>1. TypeOK
  <2>1. <<>> \in Seq(Task)
    OBVIOUS
  <2>2. QED
    BY <2>1, TaskTypes DEF Init, TypeOK, ShardType
<1>2. \A r \in Replicas : status[r] = "down" /\ worker[r].pc = "idle"
  BY DEF Init, IdleWorker
<1>3. \A r \in Replicas : Held(r) = {}
  <2>1. Range(<<>>) = {}
    BY DEF Range
  <2>2. QED
    BY <1>2, <2>1 DEF Init, Held
<1>4. \A c \in Replicas \X Slots : request[c].pc = "idle"
  BY DEF Init, NoRequest
<1>5. SinceIsPast
  BY DEF Init, SinceIsPast
<1>6. QED
  BY <1>1, <1>2, <1>3, <1>4, <1>5 DEF IInv, OnlyReadyWork, ServingTypes, ChildrenDistinct,
     PendingIsOld, OldNodeStays, ReadyReplicaIsPublished, PendingDelete, Changing

LEMMA NextIInv == IInv /\ [Next]_vars => IInv'
<1> SUFFICES ASSUME IInv, [Next]_vars PROVE IInv'
  OBVIOUS
<1>1. TypeOK'
  <2>1. CASE UNCHANGED vars
    BY <2>1 DEF IInv, TypeOK, vars, dbVars, zkVars, replicaVars
  <2>2. QED
    BY <2>1, LifeStepType, CreateStepType, WorkerStepType, OtherStepType DEF IInv, Next
<1>2. QED
  BY <1>1, OnlyReadyWorkStep, ServingTypesStep, SinceIsPastStep, ChildrenDistinctStep,
     PendingIsOldStep, OldNodeStaysStep, ReadyReplicaIsPublishedStep DEF IInv

\* The inductive invariant holds of every reachable state.
THEOREM InductiveInvariant == Spec => []IInv
BY InitIInv, NextIInv, PTL DEF Spec

\* As long as the ZooKeeper session that made it lasts, a serving replica's own node is
\* in ZooKeeper, whatever crashes, ZooKeeper errors, late deletes and expiries of other
\* sessions come between.  After an expiry nothing in the code makes the node again
\* before the next change of type or restart.
THEOREM ServingReplicasArePublished == Spec => []ReadyReplicaIsPublished
<1>1. IInv => ReadyReplicaIsPublished
  BY DEF IInv
<1>2. QED
  BY <1>1, InductiveInvariant, PTL

\* A shard that its nodes offer for new users or new links is one where every serving
\* replica accepts them, but for those whose session has expired since they published
\* their type.
THEOREM OfferedShardsAccept == Spec => []OfferedIsAccepted
<1>1. IInv => OfferedIsAccepted
  <2> SUFFICES ASSUME IInv, NEW r \in Replicas, status[r] = "ready", Unexpired(r)
               PROVE  /\ OfferedToNewUsers => type[r] = "ReadWrite"
                      /\ OfferedForNewUrls => type[r] # "ReadOnly"
    BY DEF OfferedIsAccepted
  <2>1. type[r] \in {"ReadOnly", "ReadWrite", "WriteUrlsOnly"}
    BY DEF IInv, TypeOK, ServingTypes, ShardType
  <2>2. Published(Advertised(r))
    BY DEF IInv, ReadyReplicaIsPublished, Published, OwnNode, Unexpired
  <2>3. CASE Changing(r)
    <3>1. Advertised(r) \in {"ReadOnly", "WriteUrlsOnly"}
      BY <2>3 DEF Advertised, IInv, ServingTypes
    <3>2. Published(type[r])
      BY <2>3 DEF IInv, OldNodeStays, Published, OwnNode, Unexpired
    <3>3. QED
      BY <2>1, <2>2, <3>1, <3>2 DEF OfferedToNewUsers, OfferedForNewUrls
  <2>4. CASE ~Changing(r)
    BY <2>1, <2>2, <2>4 DEF Advertised, OfferedToNewUsers, OfferedForNewUrls
  <2>5. QED
    BY <2>3, <2>4
<1>2. QED
  BY <1>1, InductiveInvariant, PTL

\* A run of a replica that left ReadWrite does not return to it: no task asks
\* for ReadWrite, so only a restart can choose it.
THEOREM ReadWriteIsNeverRegained == Spec => NeverBackToReadWrite
<1>1. IInv /\ [Next]_vars =>
        \A r \in Replicas : status[r] = "ready" /\ status'[r] = "ready" /\ type'[r] = "ReadWrite"
           => type[r] = "ReadWrite"
  <2> SUFFICES ASSUME IInv, [Next]_vars, NEW r \in Replicas,
                      status[r] = "ready", status'[r] = "ready", type'[r] = "ReadWrite"
               PROVE  type[r] = "ReadWrite"
    OBVIOUS
  <2>1. /\ type \in [Replicas -> ShardType]
        /\ status \in [Replicas -> {"down", "booting", "ready"}]
    BY DEF IInv, TypeOK
  <2>2. CASE type'[r] = type[r]
    BY <2>2
  <2>3. CASE LifeStep(r)
    BY <2>1, <2>3 DEF LifeStep, InitializeReadMaxId, InitializeRegister, Crash, SessionExpires
  <2>4. CASE WorkerStep(r)
    <3>1. ~ChangeTypeAssign(r)
      BY <2>1 DEF ChangeTypeAssign, IInv, ServingTypes, Changing
    <3>2. QED
      BY <2>4, <3>1 DEF WorkerStep, Dequeue, RunOther, ChangeTypeSame, ChangeTypeCreate,
         ChangeTypeThrows, ChangeTypeEnqueueDelete, DeleteNode, DeleteNodeThrows,
         DeleteNodeRequeue, DeleteNodeFails, LogError
  <2>5. CASE OtherEnqueue(r) \/ \E k \in Slots : CreateStep(r, k)
    BY <2>5 DEF OtherEnqueue, CreateStep, CreateAdmit, CreateInsert, CreateReject,
       CreateDecide, CreateEnqueue
  <2>6. QED
    BY <2>2, <2>3, <2>4, <2>5, NextIsReplicaStep, OtherReplicaUnchanged DEF IInv, ReplicaStep
<1>2. QED
  BY <1>1, InductiveInvariant, PTL DEF Spec, NeverBackToReadWrite

\* A replica whose consumer waits for room in its own full queue runs no other
\* task and keeps its type until the process ends.
THEOREM WedgeIsPermanent == Spec => WedgedForGood
<1>1. IInv /\ [Next]_vars =>
        \A r \in Replicas : Wedged(r) =>
          \/ status'[r] = "down"
          \/ Wedged(r)' /\ queue'[r] = queue[r] /\ type'[r] = type[r]
  <2> SUFFICES ASSUME IInv, [Next]_vars, NEW r \in Replicas, Wedged(r)
               PROVE  \/ status'[r] = "down"
                      \/ Wedged(r)' /\ queue'[r] = queue[r] /\ type'[r] = type[r]
    OBVIOUS
  <2>1. /\ status \in [Replicas -> {"down", "booting", "ready"}]
        /\ status[r] = "ready" /\ ~HasRoom(r)
        /\ worker[r].pc \in {"enqueueDelete", "requeue"}
    BY DEF IInv, TypeOK, OnlyReadyWork, Wedged
  <2>2. CASE worker'[r] = worker[r] /\ queue'[r] = queue[r] /\ type'[r] = type[r]
    BY <2>2 DEF Wedged, HasRoom
  <2>3. CASE LifeStep(r)
    <3>1. CASE Crash(r)
      BY <2>1, <3>1 DEF Crash
    <3>2. CASE ~Crash(r)
      BY <2>1, <2>2, <2>3, <3>2 DEF LifeStep, InitializeReadMaxId, InitializeRegister,
         SessionExpires
    <3>3. QED
      BY <3>1, <3>2
  <2>4. ~WorkerStep(r) /\ ~OtherEnqueue(r)
    BY <2>1 DEF WorkerStep, Dequeue, RunOther, ChangeTypeSame, ChangeTypeCreate,
       ChangeTypeThrows, ChangeTypeEnqueueDelete, ChangeTypeAssign, DeleteNode,
       DeleteNodeThrows, DeleteNodeRequeue, DeleteNodeFails, LogError, Running, OtherEnqueue
  <2>5. CASE \E k \in Slots : CreateStep(r, k)
    BY <2>1, <2>2, <2>5 DEF CreateStep, CreateAdmit, CreateInsert, CreateReject,
       CreateDecide, CreateEnqueue
  <2>6. QED
    BY <2>2, <2>3, <2>4, <2>5, NextIsReplicaStep, OtherReplicaUnchanged DEF IInv, ReplicaStep
<1>2. QED
  BY <1>1, InductiveInvariant, PTL DEF Spec, WedgedForGood
-------------------------------------------------------------------------------
(* Ids past the threshold: counting *)

LEMMA Products ==
    ASSUME NEW m \in Nat
    PROVE  /\ \A a \in Nat : a * m \in Nat /\ (a + 1) * m = a * m + m
           /\ \A a, b \in Nat : a <= b => a * m <= b * m
<1>1. \A a \in Nat : a * m \in Nat /\ (a + 1) * m = a * m + m
  OBVIOUS
<1>2. \A a, b \in Nat : a <= b => a * m <= b * m
  <2> SUFFICES ASSUME NEW a \in Nat, NEW b \in Nat, a <= b PROVE a * m <= b * m
    OBVIOUS
  <2>1. b - a \in Nat /\ (b - a) * m \in Nat /\ b * m = a * m + (b - a) * m
    OBVIOUS
  <2>2. a * m \in Nat /\ b * m \in Nat
    OBVIOUS
  <2>3. QED
    BY <2>1, <2>2
<1>3. QED
  BY <1>1, <1>2

LEMMA PlaceCount ==
    ASSUME IsFiniteSet(Slots)
    PROVE  /\ Cardinality(Slots) \in Nat /\ Places \in Nat \ {0}
           /\ Places = Cardinality(Slots) + Capacity + 1
           /\ RunRoom \in Nat /\ MaxSessions * RunRoom \in Nat
<1>1. Cardinality(Slots) \in Nat
  BY FS_CardinalityType
<1>2. Places \in Nat \ {0} /\ Places = Cardinality(Slots) + Capacity + 1
  BY <1>1, ShardAssumption DEF Places
<1>3. RunRoom \in Nat
  BY <1>2, Products DEF RunRoom
<1>4. MaxSessions * RunRoom \in Nat
  BY <1>3, Products, ShardAssumption
<1>5. QED
  BY <1>1, <1>2, <1>3, <1>4

\* Two sets that differ in one element at most.
LEMMA OneElement ==
    ASSUME NEW S, NEW T, NEW k, IsFiniteSet(S), T \ {k} = S \ {k}
    PROVE  /\ IsFiniteSet(T) /\ Cardinality(S) \in Nat /\ Cardinality(T) \in Nat
           /\ k \in S /\ k \notin T => Cardinality(T) = Cardinality(S) - 1
           /\ k \notin S /\ k \in T => Cardinality(T) = Cardinality(S) + 1
           /\ (k \in S <=> k \in T) => Cardinality(T) = Cardinality(S)
<1>1. IsFiniteSet(S \ {k}) /\ Cardinality(S) \in Nat
  BY FS_RemoveElement, FS_CardinalityType
<1>2. T = IF k \in T THEN (S \ {k}) \union {k} ELSE S \ {k}
  OBVIOUS
<1>3. IsFiniteSet(T)
  <2>1. IsFiniteSet((S \ {k}) \union {k})
    BY <1>1, FS_AddElement
  <2>2. QED
    BY <1>1, <1>2, <2>1
<1>4. CASE k \in S /\ k \notin T
  BY <1>2, <1>3, <1>4, FS_RemoveElement, FS_CardinalityType
<1>5. CASE k \notin S /\ k \in T
  <2>1. T = S \union {k}
    BY <1>2, <1>5
  <2>2. QED
    BY <1>1, <1>3, <1>5, <2>1, FS_AddElement, FS_CardinalityType
<1>6. CASE k \in S <=> k \in T
  <2>1. T = S
    BY <1>2, <1>6
  <2>2. QED
    BY <1>1, <1>3, <1>6, <2>1
<1>7. QED
  BY <1>4, <1>5, <1>6

LEMMA DisjointSets ==
    ASSUME NEW U, IsFiniteSet(U), NEW S \in SUBSET U, NEW T \in SUBSET U, S \intersect T = {}
    PROVE  /\ IsFiniteSet(S) /\ IsFiniteSet(T)
           /\ Cardinality(S) \in Nat /\ Cardinality(T) \in Nat
           /\ Cardinality(S \union T) = Cardinality(S) + Cardinality(T)
           /\ Cardinality(S) + Cardinality(T) <= Cardinality(U) /\ Cardinality(U) \in Nat
<1>1. IsFiniteSet(S) /\ IsFiniteSet(T) /\ IsFiniteSet(S \union T)
  BY FS_Subset
<1>2. Cardinality(S \union T) <= Cardinality(U)
  BY FS_Subset
<1>3. Cardinality(S \union T) = Cardinality(S) + Cardinality(T) - Cardinality(S \intersect T)
  BY <1>1, FS_Union
<1>4. Cardinality(S \intersect T) = 0
  BY FS_EmptySet
<1>5. Cardinality(S) \in Nat /\ Cardinality(T) \in Nat /\ Cardinality(U) \in Nat
  BY <1>1, FS_CardinalityType
<1>6. QED
  BY <1>1, <1>2, <1>3, <1>4, <1>5

\* The calls of a replica are in one of these sets at most.
LEMMA CallCounts ==
    ASSUME IsFiniteSet(Slots), NEW r \in Replicas
    PROVE  /\ IsFiniteSet(Admitted(r)) /\ IsFiniteSet(Past(r))
           /\ \A t : IsFiniteSet(Waiting(r, t)) /\ Cardinality(Waiting(r, t)) \in Nat
           /\ Cardinality(Admitted(r)) \in Nat /\ Cardinality(Past(r)) \in Nat
           /\ Cardinality(Admitted(r)) + Cardinality(Past(r))
                + Cardinality(Waiting(r, "WriteUrlsOnly")) + Cardinality(Waiting(r, "ReadOnly"))
                <= Cardinality(Slots)
<1> DEFINE A == Admitted(r)
           P == Past(r)
           W == Waiting(r, "WriteUrlsOnly")
           R == Waiting(r, "ReadOnly")
<1>1. A \in SUBSET Slots /\ P \in SUBSET Slots /\ W \in SUBSET Slots /\ R \in SUBSET Slots
  BY DEF Admitted, Past, Waiting
<1>2. A \intersect P = {} /\ W \intersect R = {} /\ (A \union P) \intersect (W \union R) = {}
  BY DEF Admitted, Past, Waiting
<1>3. ASSUME NEW t PROVE IsFiniteSet(Waiting(r, t)) /\ Cardinality(Waiting(r, t)) \in Nat
  <2>1. Waiting(r, t) \in SUBSET Slots
    BY DEF Waiting
  <2>2. QED
    BY <2>1, FS_Subset, FS_CardinalityType
<1> HIDE DEF A, P, W, R
<1>4. /\ IsFiniteSet(A) /\ IsFiniteSet(P) /\ Cardinality(A) \in Nat /\ Cardinality(P) \in Nat
      /\ Cardinality(A \union P) = Cardinality(A) + Cardinality(P)
  BY <1>1, <1>2, DisjointSets
<1>w. W \intersect R = {}
  BY <1>2
<1>5. /\ IsFiniteSet(W) /\ IsFiniteSet(R) /\ Cardinality(W) \in Nat /\ Cardinality(R) \in Nat
      /\ Cardinality(W \union R) = Cardinality(W) + Cardinality(R)
  BY <1>1, <1>w, DisjointSets
<1>6. A \union P \in SUBSET Slots /\ W \union R \in SUBSET Slots
  BY <1>1
<1>7. Cardinality(A \union P) + Cardinality(W \union R) <= Cardinality(Slots)
  BY <1>2, <1>6, DisjointSets
<1>8. Cardinality(A) + Cardinality(P) + Cardinality(W) + Cardinality(R) <= Cardinality(Slots)
  BY <1>4, <1>5, <1>7, FS_CardinalityType
<1>9. QED
  BY <1>3, <1>4, <1>8 DEF A, P, W, R

LEMMA IntervalCount ==
    ASSUME NEW n \in Nat
    PROVE  IsFiniteSet(1 .. n) /\ Cardinality(1 .. n) = n
  BY FS_Interval

LEMMA QueuedType ==
    ASSUME NEW s \in Seq(Task), NEW t
    PROVE  /\ Queued(s, t) \in SUBSET (1 .. Len(s)) /\ IsFiniteSet(1 .. Len(s))
           /\ IsFiniteSet(Queued(s, t)) /\ Cardinality(Queued(s, t)) \in Nat
<1>1. Queued(s, t) \in SUBSET (1 .. Len(s)) /\ Len(s) \in Nat
  BY DEF Queued
<1>2. IsFiniteSet(1 .. Len(s))
  BY <1>1, IntervalCount
<1>3. QED
  BY <1>1, <1>2, FS_Subset, FS_CardinalityType

LEMMA QueuedCount ==
    ASSUME NEW s \in Seq(Task)
    PROVE  Cardinality(Queued(s, "WriteUrlsOnly")) + Cardinality(Queued(s, "ReadOnly")) <= Len(s)
<1>1. Queued(s, "WriteUrlsOnly") \intersect Queued(s, "ReadOnly") = {}
  BY DEF Queued, IsChange
<1>2. Cardinality(1 .. Len(s)) = Len(s)
  <2>1. Len(s) \in Nat
    OBVIOUS
  <2>2. QED
    BY <2>1, IntervalCount
<1>3. /\ Queued(s, "WriteUrlsOnly") \in SUBSET (1 .. Len(s)) /\ IsFiniteSet(1 .. Len(s))
      /\ Queued(s, "ReadOnly") \in SUBSET (1 .. Len(s))
  BY QueuedType
<1> DEFINE W == Queued(s, "WriteUrlsOnly")
           R == Queued(s, "ReadOnly")
           U == 1 .. Len(s)
<1>4. IsFiniteSet(U) /\ W \in SUBSET U /\ R \in SUBSET U /\ W \intersect R = {}
  BY <1>1, <1>3
<1> HIDE DEF W, R, U
<1>5. Cardinality(W) + Cardinality(R) <= Cardinality(U)
  BY <1>4, DisjointSets
<1>6. QED
  BY <1>2, <1>5 DEF W, R, U

LEMMA QueuedEmpty == \A t : Cardinality(Queued(<<>>, t)) = 0
<1>1. \A t : Queued(<<>>, t) = {}
  BY DEF Queued
<1>2. QED
  BY <1>1, FS_EmptySet

LEMMA QueuedAppend ==
    ASSUME NEW s \in Seq(Task), NEW e \in Task, NEW t
    PROVE  Cardinality(Queued(Append(s, e), t))
             = Cardinality(Queued(s, t)) + (IF IsChange(e, t) THEN 1 ELSE 0)
<1> DEFINE n == Len(s) + 1
<1>1. /\ DOMAIN Append(s, e) = 1 .. n /\ DOMAIN s = 1 .. Len(s) /\ Len(s) \in Nat
      /\ \A i \in 1 .. Len(s) : Append(s, e)[i] = s[i]
      /\ Append(s, e)[n] = e
  OBVIOUS
<1>2. n \notin Queued(s, t)
  BY <1>1 DEF Queued
<1>3. n \in Queued(Append(s, e), t) <=> IsChange(e, t)
  BY <1>1 DEF Queued
<1>4. Queued(Append(s, e), t) \ {n} = Queued(s, t) \ {n}
  BY <1>1 DEF Queued
<1> HIDE DEF n
<1>5. QED
  BY <1>2, <1>3, <1>4, OneElement, QueuedType

LEMMA QueuedTail ==
    ASSUME NEW s \in Seq(Task), s # <<>>, NEW t
    PROVE  Cardinality(Queued(s, t))
             = Cardinality(Queued(Tail(s), t)) + (IF IsChange(Head(s), t) THEN 1 ELSE 0)
<1> DEFINE S == Queued(Tail(s), t)
           T == Queued(s, t) \ {1}
           f == [i \in S |-> i + 1]
<1>1. /\ DOMAIN s = 1 .. Len(s) /\ Len(s) \in Nat \ {0} /\ Head(s) = s[1]
      /\ DOMAIN Tail(s) = 1 .. Len(s) - 1 /\ \A i \in 1 .. Len(s) - 1 : Tail(s)[i] = s[i + 1]
  OBVIOUS
<1>2. \A i \in S : i \in Nat /\ i + 1 \in T
  BY <1>1 DEF Queued
<1>3. \A j \in T : j - 1 \in S /\ (j - 1) + 1 = j
  BY <1>1 DEF Queued
<1>4. f \in [S -> T]
  BY <1>2
<1>5. \A i, j \in S : f[i] = f[j] => i = j
  BY <1>2
<1>6. \A j \in T : \E i \in S : f[i] = j
  BY <1>3
<1>7. f \in Bijection(S, T)
  BY <1>4, <1>5, <1>6 DEF Bijection, Injection, Surjection, IsInjective
<1>8. ExistsBijection(S, T)
  BY <1>7 DEF ExistsBijection
<1>9. IsFiniteSet(S) /\ Cardinality(S) \in Nat
  <2>1. Tail(s) \in Seq(Task)
    OBVIOUS
  <2>2. QED
    BY <2>1, QueuedType
<1>10. Cardinality(T) = Cardinality(S)
  BY <1>8, <1>9, FS_Bijection
<1>11. 1 \in Queued(s, t) <=> IsChange(Head(s), t)
  BY <1>1 DEF Queued
<1>12. IsFiniteSet(Queued(s, t)) /\ Cardinality(Queued(s, t)) \in Nat
  BY QueuedType
<1>13. Cardinality(T) = IF 1 \in Queued(s, t) THEN Cardinality(Queued(s, t)) - 1
                        ELSE Cardinality(Queued(s, t))
  BY <1>12, FS_RemoveElement
<1> HIDE DEF f, S, T
<1>14. Cardinality(Queued(s, t)) = Cardinality(S) + (IF IsChange(Head(s), t) THEN 1 ELSE 0)
  BY <1>9, <1>10, <1>11, <1>12, <1>13
<1>15. QED
  BY <1>14 DEF S

-------------------------------------------------------------------------------
(* Ids past the threshold: what a replica can still insert *)

\* Room(r) from its counts: changes to WriteUrlsOnly and to ReadOnly, calls past the
\* threshold, calls admitted.
Rooms(s, t, w, c, p, a) ==
    IF s = "down" THEN 0
    ELSE CASE t = "ReadWrite" -> Places * Places + Places - p - w - c
           [] t = "WriteUrlsOnly" -> w * Places + Places - p - c
           [] OTHER -> w * Places + a

LEMMA RoomIs ==
    ASSUME NEW r \in Replicas
    PROVE  /\ Room(r) = Rooms(status[r], type[r], Changes(r, "WriteUrlsOnly"),
                              Changes(r, "ReadOnly"), Cardinality(Past(r)),
                              Cardinality(Admitted(r)))
           /\ Room(r)' = Rooms(status'[r], type'[r], Changes(r, "WriteUrlsOnly")',
                               Changes(r, "ReadOnly")', Cardinality(Past(r)'),
                               Cardinality(Admitted(r)'))
BY DEF Room, Rooms

LEMMA ChangesAre ==
    ASSUME NEW r \in Replicas, NEW t
    PROVE  Changes(r, t) = Cardinality(Waiting(r, t)) + Cardinality(Queued(queue[r], t))
                             + AtWork(worker[r], t)
BY DEF Changes

\* Calls and changes have a place each.
LEMMA PlacesSuffice ==
    ASSUME TypeOK, QueuesFit, IsFiniteSet(Slots), NEW r \in Replicas
    PROVE  /\ Changes(r, "WriteUrlsOnly") \in Nat /\ Changes(r, "ReadOnly") \in Nat
           /\ Cardinality(Admitted(r)) \in Nat /\ Cardinality(Past(r)) \in Nat
           /\ Changes(r, "WriteUrlsOnly") + Changes(r, "ReadOnly")
                + Cardinality(Past(r)) + Cardinality(Admitted(r)) <= Places
<1>1. queue[r] \in Seq(Task) /\ Len(queue[r]) <= Capacity /\ Len(queue[r]) \in Nat
  BY DEF TypeOK, QueuesFit
<1>2. /\ \A t : AtWork(worker[r], t) \in {0, 1}
      /\ AtWork(worker[r], "WriteUrlsOnly") + AtWork(worker[r], "ReadOnly") <= 1
  BY DEF AtWork, IsChange
<1>3. /\ Cardinality(Queued(queue[r], "WriteUrlsOnly")) \in Nat
      /\ Cardinality(Queued(queue[r], "ReadOnly")) \in Nat
      /\ Cardinality(Queued(queue[r], "WriteUrlsOnly"))
           + Cardinality(Queued(queue[r], "ReadOnly")) <= Len(queue[r])
  BY <1>1, QueuedType, QueuedCount
<1>4. Capacity \in Nat
  BY ShardAssumption
<1> DEFINE A == Cardinality(Admitted(r))
           P == Cardinality(Past(r))
           W == Cardinality(Waiting(r, "WriteUrlsOnly"))
           R == Cardinality(Waiting(r, "ReadOnly"))
           N == Cardinality(Slots)
           QW == Cardinality(Queued(queue[r], "WriteUrlsOnly"))
           QR == Cardinality(Queued(queue[r], "ReadOnly"))
           AW == AtWork(worker[r], "WriteUrlsOnly")
           AR == AtWork(worker[r], "ReadOnly")
<1>5. A \in Nat /\ P \in Nat /\ W \in Nat /\ R \in Nat /\ N \in Nat
      /\ A + P + W + R <= N /\ Places = N + Capacity + 1
  BY CallCounts, PlaceCount
<1>6. Changes(r, "WriteUrlsOnly") = W + QW + AW /\ Changes(r, "ReadOnly") = R + QR + AR
  BY ChangesAre
<1>q. QW \in Nat /\ QR \in Nat /\ AW \in Nat /\ AR \in Nat
      /\ AW + AR <= 1 /\ QW + QR <= Capacity
  BY <1>1, <1>2, <1>3, <1>4
<1> HIDE DEF A, P, W, R, N, QW, QR, AW, AR
<1>7. /\ Changes(r, "WriteUrlsOnly") \in Nat /\ Changes(r, "ReadOnly") \in Nat
      /\ Changes(r, "WriteUrlsOnly") + Changes(r, "ReadOnly") + P + A <= Places
  BY <1>4, <1>5, <1>6, <1>q
<1>8. QED
  BY <1>5, <1>7 DEF A, P

LEMMA RoomsBound ==
    ASSUME IsFiniteSet(Slots), NEW s, NEW t, NEW w \in Nat, NEW c \in Nat, NEW p \in Nat,
           NEW a \in Nat, w + c + p + a <= Places
    PROVE  /\ Rooms(s, t, w, c, p, a) \in Nat /\ Rooms(s, t, w, c, p, a) <= RunRoom
           /\ s # "down" /\ a >= 1 => Rooms(s, t, w, c, p, a) >= 1
<1>1. Places \in Nat
  BY PlaceCount
<1>2. w <= Places /\ w * Places \in Nat /\ w * Places <= Places * Places
      /\ Places * Places \in Nat
  BY <1>1, Products
<1> DEFINE x == w * Places
           y == Places * Places
<1>3. x \in Nat /\ y \in Nat /\ x <= y /\ RunRoom = y + Places
  BY <1>2 DEF RunRoom
<1> HIDE DEF x, y
<1>4. Rooms(s, t, w, c, p, a) =
        IF s = "down" THEN 0
        ELSE CASE t = "ReadWrite" -> y + Places - p - w - c
               [] t = "WriteUrlsOnly" -> x + Places - p - c
               [] OTHER -> x + a
  BY DEF Rooms, x, y
<1>5. CASE s = "down"
  BY <1>1, <1>3, <1>4, <1>5
<1>6. CASE s # "down" /\ t = "ReadWrite"
  BY <1>1, <1>3, <1>4, <1>6
<1>7. CASE s # "down" /\ t = "WriteUrlsOnly"
  BY <1>1, <1>3, <1>4, <1>7
<1>8. CASE s # "down" /\ t # "ReadWrite" /\ t # "WriteUrlsOnly"
  BY <1>1, <1>3, <1>4, <1>8
<1>9. QED
  BY <1>5, <1>6, <1>7, <1>8

LEMMA RoomBounds ==
    ASSUME TypeOK, QueuesFit, IsFiniteSet(Slots), NEW r \in Replicas
    PROVE  /\ Room(r) \in Nat /\ Room(r) <= RunRoom
           /\ status[r] # "down" /\ Cardinality(Admitted(r)) >= 1 => Room(r) >= 1
BY PlacesSuffice, RoomsBound, RoomIs

\* The room of a run shrinks by d when its type stays.
LEMMA RoomsFall ==
    ASSUME IsFiniteSet(Slots), NEW s, NEW t, NEW d \in {0, 1},
           NEW w \in Nat, NEW c \in Nat, NEW p \in Nat, NEW a \in Nat,
           NEW w1 \in Nat, NEW c1 \in Nat, NEW p1 \in Nat, NEW a1 \in Nat, s # "down",
           t = "ReadWrite" => p1 + w1 + c1 >= p + w + c + d,
           t # "ReadWrite" => w1 <= w,
           t = "WriteUrlsOnly" => p1 + c1 >= p + c + d,
           t \notin {"ReadWrite", "WriteUrlsOnly"} => a1 <= a - d
    PROVE  Rooms(s, t, w1, c1, p1, a1) <= Rooms(s, t, w, c, p, a) - d
<1>1. Places \in Nat
  BY PlaceCount
<1>2. w * Places \in Nat /\ w1 * Places \in Nat /\ Places * Places \in Nat
      /\ (w1 <= w => w1 * Places <= w * Places)
  BY <1>1, Products
<1> DEFINE x == w * Places
           x1 == w1 * Places
           y == Places * Places
<1>3. x \in Nat /\ x1 \in Nat /\ y \in Nat /\ (w1 <= w => x1 <= x)
  BY <1>2
<1> HIDE DEF x, x1, y
<1>4. CASE t = "ReadWrite"
  <2>1. /\ Rooms(s, t, w1, c1, p1, a1) = y + Places - p1 - w1 - c1
        /\ Rooms(s, t, w, c, p, a) = y + Places - p - w - c
    BY <1>4 DEF Rooms, y
  <2>2. QED
    BY <1>1, <1>3, <1>4, <2>1
<1>5. CASE t = "WriteUrlsOnly"
  <2>1. /\ Rooms(s, t, w1, c1, p1, a1) = x1 + Places - p1 - c1
        /\ Rooms(s, t, w, c, p, a) = x + Places - p - c
    BY <1>5 DEF Rooms, x, x1
  <2>2. QED
    BY <1>1, <1>3, <1>5, <2>1
<1>6. CASE t \notin {"ReadWrite", "WriteUrlsOnly"}
  <2>1. /\ Rooms(s, t, w1, c1, p1, a1) = x1 + a1
        /\ Rooms(s, t, w, c, p, a) = x + a
    BY <1>6 DEF Rooms, x, x1
  <2>2. QED
    BY <1>1, <1>3, <1>6, <2>1
<1>7. QED
  BY <1>4, <1>5, <1>6

\* It does not grow when a change is applied.
LEMMA RoomsChange ==
    ASSUME IsFiniteSet(Slots), NEW s, NEW t, NEW w \in Nat, NEW c \in Nat, NEW p \in Nat,
           NEW a \in Nat, w + c + p + a <= Places, s # "down"
    PROVE  /\ w >= 1 => Rooms(s, "WriteUrlsOnly", w - 1, c, p, a) <= Rooms(s, t, w, c, p, a)
           /\ c >= 1 => Rooms(s, "ReadOnly", w, c - 1, p, a) <= Rooms(s, t, w, c, p, a)
<1>1. Places \in Nat
  BY PlaceCount
<1>2. w * Places \in Nat /\ w * Places <= Places * Places /\ Places * Places \in Nat
      /\ (w >= 1 => (w - 1) * Places = w * Places - Places)
  <2>1. w <= Places /\ (w >= 1 => w - 1 \in Nat /\ (w - 1) + 1 = w)
    BY <1>1
  <2>2. w >= 1 => w * Places = (w - 1) * Places + Places /\ (w - 1) * Places \in Nat
    BY <1>1, <2>1, Products
  <2>3. w * Places \in Nat /\ w * Places <= Places * Places /\ Places * Places \in Nat
    BY <1>1, <2>1, Products
  <2>4. QED
    BY <1>1, <2>2, <2>3
<1> DEFINE x == w * Places
           y == Places * Places
           x1 == (w - 1) * Places
<1>3. x \in Nat /\ y \in Nat /\ x <= y /\ (w >= 1 => x1 = x - Places)
  BY <1>2
<1> HIDE DEF x, y, x1
<1>4. /\ t = "ReadWrite" => Rooms(s, t, w, c, p, a) = y + Places - p - w - c
      /\ t = "WriteUrlsOnly" => Rooms(s, t, w, c, p, a) = x + Places - p - c
      /\ t \notin {"ReadWrite", "WriteUrlsOnly"} => Rooms(s, t, w, c, p, a) = x + a
      /\ Rooms(s, "WriteUrlsOnly", w - 1, c, p, a) = x1 + Places - p - c
      /\ Rooms(s, "ReadOnly", w, c - 1, p, a) = x + a
  BY DEF Rooms, x, y, x1
<1>5. QED
  BY <1>1, <1>3, <1>4

\* 1 when a call counts as admitted, past the threshold, or waiting to ask for type t.
AdmittedOne(q) == IF q.pc = "admitted" THEN 1 ELSE 0
PastOne(q) == IF q.pc = "inserted" /\ q.id >= ThresholdForNewUrls THEN 1 ELSE 0
WaitingOne(q, t) == IF q.pc = "enqueue" /\ q.want = t THEN 1 ELSE 0

\* How the counts of a replica's calls change with one of them.
LEMMA CallCountsStep ==
    ASSUME TypeOK, IsFiniteSet(Slots), NEW r \in Replicas, NEW k \in Slots, NEW new,
           request' = [request EXCEPT ![<<r, k>>] = new]
    PROVE  /\ Cardinality(Admitted(r)')
                = Cardinality(Admitted(r)) - AdmittedOne(request[<<r, k>>]) + AdmittedOne(new)
           /\ Cardinality(Past(r)')
                = Cardinality(Past(r)) - PastOne(request[<<r, k>>]) + PastOne(new)
           /\ \A t : Cardinality(Waiting(r, t)')
                       = Cardinality(Waiting(r, t)) - WaitingOne(request[<<r, k>>], t)
                           + WaitingOne(new, t)
           /\ Cardinality(Admitted(r)') \in Nat /\ Cardinality(Past(r)') \in Nat
           /\ \A t : Cardinality(Waiting(r, t)') \in Nat
<1> DEFINE old == request[<<r, k>>]
<1>1. /\ request'[<<r, k>>] = new
      /\ \A j \in Slots : j # k => request'[<<r, j>>] = request[<<r, j>>]
  BY DEF TypeOK
<1>2. /\ Admitted(r)' \ {k} = Admitted(r) \ {k}
      /\ k \in Admitted(r)' <=> new.pc = "admitted"
      /\ k \in Admitted(r) <=> old.pc = "admitted"
  BY <1>1 DEF Admitted
<1>3. /\ Past(r)' \ {k} = Past(r) \ {k}
      /\ k \in Past(r)' <=> new.pc = "inserted" /\ new.id >= ThresholdForNewUrls
      /\ k \in Past(r) <=> old.pc = "inserted" /\ old.id >= ThresholdForNewUrls
  BY <1>1 DEF Past
<1>4. ASSUME NEW t
      PROVE  /\ Waiting(r, t)' \ {k} = Waiting(r, t) \ {k}
             /\ k \in Waiting(r, t)' <=> new.pc = "enqueue" /\ new.want = t
             /\ k \in Waiting(r, t) <=> old.pc = "enqueue" /\ old.want = t
  BY <1>1 DEF Waiting
<1> HIDE DEF old
<1>5. /\ IsFiniteSet(Admitted(r)) /\ IsFiniteSet(Past(r))
      /\ \A t : IsFiniteSet(Waiting(r, t))
  BY CallCounts
<1>6. /\ Cardinality(Admitted(r)')
           = Cardinality(Admitted(r)) - AdmittedOne(old) + AdmittedOne(new)
      /\ Cardinality(Admitted(r)') \in Nat
  <2> DEFINE S == Admitted(r)
             T == Admitted(r)'
  <2>1. IsFiniteSet(S) /\ T \ {k} = S \ {k}
    BY <1>2, <1>5
  <2> HIDE DEF S, T
  <2>2. /\ Cardinality(S) \in Nat /\ Cardinality(T) \in Nat
        /\ k \in S /\ k \notin T => Cardinality(T) = Cardinality(S) - 1
        /\ k \notin S /\ k \in T => Cardinality(T) = Cardinality(S) + 1
        /\ (k \in S <=> k \in T) => Cardinality(T) = Cardinality(S)
    BY <2>1, OneElement
  <2>3. /\ AdmittedOne(old) = IF k \in S THEN 1 ELSE 0
        /\ AdmittedOne(new) = IF k \in T THEN 1 ELSE 0
    BY <1>2 DEF AdmittedOne, S, T
  <2>4. Cardinality(T) = Cardinality(S) - AdmittedOne(old) + AdmittedOne(new)
    BY <2>2, <2>3
  <2>5. QED
    BY <2>2, <2>4 DEF S, T
<1>7. /\ Cardinality(Past(r)') = Cardinality(Past(r)) - PastOne(old) + PastOne(new)
      /\ Cardinality(Past(r)') \in Nat
  <2> DEFINE S == Past(r)
             T == Past(r)'
  <2>1. IsFiniteSet(S) /\ T \ {k} = S \ {k}
    BY <1>3, <1>5
  <2> HIDE DEF S, T
  <2>2. /\ Cardinality(S) \in Nat /\ Cardinality(T) \in Nat
        /\ k \in S /\ k \notin T => Cardinality(T) = Cardinality(S) - 1
        /\ k \notin S /\ k \in T => Cardinality(T) = Cardinality(S) + 1
        /\ (k \in S <=> k \in T) => Cardinality(T) = Cardinality(S)
    BY <2>1, OneElement
  <2>3. /\ PastOne(old) = IF k \in S THEN 1 ELSE 0
        /\ PastOne(new) = IF k \in T THEN 1 ELSE 0
    BY <1>3 DEF PastOne, S, T
  <2>4. Cardinality(T) = Cardinality(S) - PastOne(old) + PastOne(new)
    BY <2>2, <2>3
  <2>5. QED
    BY <2>2, <2>4 DEF S, T
<1>8. ASSUME NEW t
      PROVE  /\ Cardinality(Waiting(r, t)')
                  = Cardinality(Waiting(r, t)) - WaitingOne(old, t) + WaitingOne(new, t)
             /\ Cardinality(Waiting(r, t)') \in Nat
  <2> DEFINE S == Waiting(r, t)
             T == Waiting(r, t)'
  <2>1. IsFiniteSet(S) /\ T \ {k} = S \ {k}
    BY <1>4, <1>5
  <2> HIDE DEF S, T
  <2>2. /\ Cardinality(S) \in Nat /\ Cardinality(T) \in Nat
        /\ k \in S /\ k \notin T => Cardinality(T) = Cardinality(S) - 1
        /\ k \notin S /\ k \in T => Cardinality(T) = Cardinality(S) + 1
        /\ (k \in S <=> k \in T) => Cardinality(T) = Cardinality(S)
    BY <2>1, OneElement
  <2>3. /\ WaitingOne(old, t) = IF k \in S THEN 1 ELSE 0
        /\ WaitingOne(new, t) = IF k \in T THEN 1 ELSE 0
    BY <1>4 DEF WaitingOne, S, T
  <2>4. Cardinality(T) = Cardinality(S) - WaitingOne(old, t) + WaitingOne(new, t)
    BY <2>2, <2>3
  <2>5. QED
    BY <2>2, <2>4 DEF S, T
<1>9. QED
  BY <1>6, <1>7, <1>8 DEF old

\* What Room(r) depends on.
LEMMA RoomStays ==
    ASSUME NEW r \in Replicas, status'[r] = status[r], type'[r] = type[r],
           \A k \in Slots : request'[<<r, k>>] = request[<<r, k>>],
           \A t \in {"WriteUrlsOnly", "ReadOnly"} :
              Cardinality(Queued(queue[r], t)') + AtWork(worker[r], t)'
                = Cardinality(Queued(queue[r], t)) + AtWork(worker[r], t),
           \A t \in {"WriteUrlsOnly", "ReadOnly"} :
              /\ Cardinality(Queued(queue[r], t)) \in Nat /\ AtWork(worker[r], t) \in Nat
              /\ Cardinality(Queued(queue[r], t)') \in Nat /\ AtWork(worker[r], t)' \in Nat,
           IsFiniteSet(Slots)
    PROVE  Room(r)' = Room(r)
<1>1. Admitted(r)' = Admitted(r) /\ Past(r)' = Past(r)
  BY DEF Admitted, Past
<1>2. \A t : Waiting(r, t)' = Waiting(r, t)
  BY DEF Waiting
<1>3. \A t : Cardinality(Waiting(r, t)) \in Nat
  BY CallCounts
<1>4. ASSUME NEW t \in {"WriteUrlsOnly", "ReadOnly"} PROVE Changes(r, t)' = Changes(r, t)
  BY <1>2, <1>3, <1>4 DEF Changes
<1>5. QED
  BY <1>1, <1>4 DEF Room

\* The room after a step of a call: the changes in queue and at work are d more.
LEMMA CallRoom ==
    ASSUME TypeOK, QueuesFit, IsFiniteSet(Slots), NEW r \in Replicas, NEW k \in Slots,
           NEW new, request' = [request EXCEPT ![<<r, k>>] = new],
           status'[r] = status[r], type'[r] = type[r], worker'[r] = worker[r],
           NEW qw \in {0, 1}, NEW qc \in {0, 1},
           Cardinality(Queued(queue'[r], "WriteUrlsOnly"))
             = Cardinality(Queued(queue[r], "WriteUrlsOnly")) + qw,
           Cardinality(Queued(queue'[r], "ReadOnly"))
             = Cardinality(Queued(queue[r], "ReadOnly")) + qc
    PROVE  /\ Changes(r, "WriteUrlsOnly")' = Changes(r, "WriteUrlsOnly") + qw
                - WaitingOne(request[<<r, k>>], "WriteUrlsOnly")
                + WaitingOne(new, "WriteUrlsOnly")
           /\ Changes(r, "ReadOnly")' = Changes(r, "ReadOnly") + qc
                - WaitingOne(request[<<r, k>>], "ReadOnly")
                + WaitingOne(new, "ReadOnly")
           /\ Changes(r, "WriteUrlsOnly")' \in Nat /\ Changes(r, "ReadOnly")' \in Nat
<1> DEFINE W == Cardinality(Waiting(r, "WriteUrlsOnly"))
           R == Cardinality(Waiting(r, "ReadOnly"))
           W1 == Cardinality(Waiting(r, "WriteUrlsOnly")')
           R1 == Cardinality(Waiting(r, "ReadOnly")')
           QW == Cardinality(Queued(queue[r], "WriteUrlsOnly"))
           QR == Cardinality(Queued(queue[r], "ReadOnly"))
           AW == AtWork(worker[r], "WriteUrlsOnly")
           AR == AtWork(worker[r], "ReadOnly")
           old == request[<<r, k>>]
<1>a. /\ \A t : Cardinality(Waiting(r, t)')
                  = Cardinality(Waiting(r, t)) - WaitingOne(old, t) + WaitingOne(new, t)
      /\ \A t : Cardinality(Waiting(r, t)') \in Nat
  BY CallCountsStep
<1>1. /\ W1 = W - WaitingOne(old, "WriteUrlsOnly") + WaitingOne(new, "WriteUrlsOnly")
      /\ R1 = R - WaitingOne(old, "ReadOnly") + WaitingOne(new, "ReadOnly")
      /\ W1 \in Nat /\ R1 \in Nat
  BY <1>a
<1>0. /\ WaitingOne(old, "WriteUrlsOnly") \in {0, 1} /\ WaitingOne(old, "ReadOnly") \in {0, 1}
      /\ WaitingOne(new, "WriteUrlsOnly") \in {0, 1} /\ WaitingOne(new, "ReadOnly") \in {0, 1}
  BY DEF WaitingOne
<1>2. W \in Nat /\ R \in Nat
  BY CallCounts
<1>3. QW \in Nat /\ QR \in Nat /\ AW \in Nat /\ AR \in Nat
  BY QueuedType DEF TypeOK, AtWork
<1>4. /\ Changes(r, "WriteUrlsOnly") = W + QW + AW /\ Changes(r, "ReadOnly") = R + QR + AR
      /\ Changes(r, "WriteUrlsOnly")' = W1 + (QW + qw) + AW
      /\ Changes(r, "ReadOnly")' = R1 + (QR + qc) + AR
  BY DEF Changes
<1> HIDE DEF W, R, W1, R1, QW, QR, AW, AR, old
<1>5. /\ Changes(r, "WriteUrlsOnly")' = Changes(r, "WriteUrlsOnly") + qw
           - WaitingOne(old, "WriteUrlsOnly") + WaitingOne(new, "WriteUrlsOnly")
      /\ Changes(r, "ReadOnly")' = Changes(r, "ReadOnly") + qc
           - WaitingOne(old, "ReadOnly") + WaitingOne(new, "ReadOnly")
      /\ Changes(r, "WriteUrlsOnly")' \in Nat /\ Changes(r, "ReadOnly")' \in Nat
  BY <1>0, <1>1, <1>2, <1>3, <1>4
<1>6. QED
  BY <1>5 DEF old

\* A call that goes on takes room only by inserting past the threshold, and then one.
LEMMA CreateRoom ==
    ASSUME IInv, OnlyReadyServe, QueuesFit, IsFiniteSet(Slots), ~InsertFaults,
           NEW r \in Replicas, NEW k \in Slots, CreateStep(r, k)
    PROVE  /\ Room(r)' <= Room(r)
           /\ lastId' # lastId =>
                /\ CreateInsert(r, k) /\ k \in Admitted(r) /\ status[r] # "down"
                /\ lastId' = lastId + 1
                /\ lastId >= ThresholdForNewUrls - 1 => Room(r)' <= Room(r) - 1
<1> DEFINE q == request[<<r, k>>]
           w == Changes(r, "WriteUrlsOnly")
           c == Changes(r, "ReadOnly")
           p == Cardinality(Past(r))
           a == Cardinality(Admitted(r))
           w1 == Changes(r, "WriteUrlsOnly")'
           c1 == Changes(r, "ReadOnly")'
           p1 == Cardinality(Past(r)')
           a1 == Cardinality(Admitted(r)')
<1>t. /\ q \in Request /\ queue[r] \in Seq(Task) /\ lastId \in Nat
      /\ request \in [Replicas \X Slots -> Request] /\ queue \in [Replicas -> Seq(Task)]
  BY DEF IInv, TypeOK
<1>T. TypeOK
  BY DEF IInv
<1>u. UNCHANGED <<status, type, worker>>
  BY DEF CreateStep, CreateAdmit, CreateInsert, CreateReject, CreateDecide, CreateEnqueue,
         replicaVars
<1>s. status[r] = "ready"
  <2>1. q.pc # "idle" \/ status[r] = "ready"
    BY DEF CreateStep, CreateAdmit, CreateInsert, CreateReject, CreateDecide, CreateEnqueue
  <2>2. QED
    BY <2>1 DEF OnlyReadyServe, NoRequest
<1>y. type[r] \in {"ReadWrite", "WriteUrlsOnly", "ReadOnly"}
  BY <1>s DEF IInv, TypeOK, ShardType, ServingTypes
<1>n. w \in Nat /\ c \in Nat /\ p \in Nat /\ a \in Nat
  BY <1>T, PlacesSuffice
<1>m. k \in Admitted(r) <=> q.pc = "admitted"
  BY DEF Admitted
<1>r. /\ Room(r) = Rooms(status[r], type[r], w, c, p, a)
      /\ Room(r)' = Rooms(status[r], type[r], w1, c1, p1, a1)
  BY <1>u, RoomIs
<1>h. ThresholdForNewUsers \in Nat /\ ThresholdForNewUrls \in Nat
      /\ ThresholdForNewUsers < ThresholdForNewUrls
  BY ShardAssumption
\* The counts after a step that leaves the queue alone.
<1> DEFINE CallsNow(new) ==
             /\ p1 \in Nat /\ a1 \in Nat
             /\ a1 = a - AdmittedOne(q) + AdmittedOne(new)
             /\ p1 = p - PastOne(q) + PastOne(new)
           ChangesNow(new) ==
             /\ w1 \in Nat /\ c1 \in Nat
             /\ w1 = w - WaitingOne(q, "WriteUrlsOnly") + WaitingOne(new, "WriteUrlsOnly")
             /\ c1 = c - WaitingOne(q, "ReadOnly") + WaitingOne(new, "ReadOnly")
<1>c. ASSUME NEW new, request' = [request EXCEPT ![<<r, k>>] = new]
      PROVE  CallsNow(new)
  BY <1>c, <1>T, CallCountsStep
<1>d. ASSUME NEW new, request' = [request EXCEPT ![<<r, k>>] = new], queue'[r] = queue[r]
      PROVE  ChangesNow(new)
  <2>1. /\ Cardinality(Queued(queue'[r], "WriteUrlsOnly"))
             = Cardinality(Queued(queue[r], "WriteUrlsOnly")) + 0
        /\ Cardinality(Queued(queue'[r], "ReadOnly"))
             = Cardinality(Queued(queue[r], "ReadOnly")) + 0
    BY <1>d, <1>t, QueuedType
  <2>2. /\ w1 \in Nat /\ c1 \in Nat
        /\ w1 = w + 0 - WaitingOne(q, "WriteUrlsOnly") + WaitingOne(new, "WriteUrlsOnly")
        /\ c1 = c + 0 - WaitingOne(q, "ReadOnly") + WaitingOne(new, "ReadOnly")
    BY <1>d, <1>T, <1>u, <2>1, CallRoom
  <2> HIDE DEF w, c, w1, c1, q
  <2>3. /\ WaitingOne(q, "WriteUrlsOnly") \in {0, 1} /\ WaitingOne(q, "ReadOnly") \in {0, 1}
        /\ WaitingOne(new, "WriteUrlsOnly") \in {0, 1} /\ WaitingOne(new, "ReadOnly") \in {0, 1}
    BY DEF WaitingOne
  <2>4. /\ w1 = w - WaitingOne(q, "WriteUrlsOnly") + WaitingOne(new, "WriteUrlsOnly")
        /\ c1 = c - WaitingOne(q, "ReadOnly") + WaitingOne(new, "ReadOnly")
    BY <1>n, <2>2, <2>3
  <2>5. QED
    BY <2>2, <2>4
<1> HIDE DEF w, c, p, a, w1, c1, p1, a1, CallsNow, ChangesNow
<1>f. ASSUME NEW d \in {0, 1}, w1 \in Nat, c1 \in Nat, p1 \in Nat, a1 \in Nat,
             type[r] = "ReadWrite" => p1 + w1 + c1 >= p + w + c + d,
             type[r] # "ReadWrite" => w1 <= w,
             type[r] = "WriteUrlsOnly" => p1 + c1 >= p + c + d,
             type[r] = "ReadOnly" => a1 <= a - d
      PROVE  Room(r)' <= Room(r) - d
  <2>1. Rooms(status[r], type[r], w1, c1, p1, a1) <= Rooms(status[r], type[r], w, c, p, a) - d
    <3>1. status[r] # "down"
      BY <1>s
    <3>2. type[r] \notin {"ReadWrite", "WriteUrlsOnly"} => a1 <= a - d
      BY <1>f, <1>y
    <3>3. QED
      BY <1>f, <1>n, <3>1, <3>2, RoomsFall
  <2>2. QED
    BY <1>r, <2>1
<1>N. Room(r) \in Nat
  BY <1>T, RoomBounds
<1>1. CASE CreateAdmit(r, k)
  <2> DEFINE new == [q EXCEPT !.pc = "admitted"]
  <2>1. /\ request' = [request EXCEPT ![<<r, k>>] = new]
        /\ queue'[r] = queue[r] /\ q.pc = "idle" /\ type[r] # "ReadOnly" /\ lastId' = lastId
    BY <1>1, <1>t DEF CreateAdmit, dbVars
  <2>2. new.pc = "admitted"
    BY <1>t DEF Request
  <2> HIDE DEF new
  <2>3. w1 = w /\ c1 = c /\ p1 = p /\ a1 = a + 1
    <3>1. CallsNow(new) /\ ChangesNow(new)
      BY <1>c, <1>d, <2>1, Zenon
    <3> HIDE DEF q
    <3>2. QED
      BY <1>n, <2>1, <2>2, <3>1 DEF CallsNow, ChangesNow, AdmittedOne, PastOne, WaitingOne
  <2>4. Room(r)' <= Room(r) - 0
    BY <1>f, <1>n, <2>1, <2>3
  <2>5. QED
    BY <1>N, <2>1, <2>4
<1>2. CASE CreateInsert(r, k)
  <2> DEFINE new == [q EXCEPT !.pc = "inserted", !.id = lastId + 1]
  <2>1. /\ request' = [request EXCEPT ![<<r, k>>] = new]
        /\ queue'[r] = queue[r] /\ q.pc = "admitted" /\ lastId' = lastId + 1
    BY <1>2, <1>t DEF CreateInsert
  <2>2. new.pc = "inserted" /\ new.id = lastId + 1
    BY <1>t DEF Request
  <2> HIDE DEF new
  <2>3. /\ w1 = w /\ c1 = c /\ a1 = a - 1 /\ p1 \in Nat /\ a1 \in Nat
        /\ p1 = p + (IF lastId + 1 >= ThresholdForNewUrls THEN 1 ELSE 0)
    <3>1. CallsNow(new) /\ ChangesNow(new)
      BY <1>c, <1>d, <2>1, Zenon
    <3> HIDE DEF q
    <3>2. QED
      BY <1>n, <2>1, <2>2, <3>1 DEF CallsNow, ChangesNow, AdmittedOne, PastOne, WaitingOne
  <2>4. Room(r)' <= Room(r) - 0
    BY <1>f, <1>n, <2>3
  <2>5. lastId >= ThresholdForNewUrls - 1 => Room(r)' <= Room(r) - 1
    <3>1. lastId >= ThresholdForNewUrls - 1 => p1 = p + 1
      BY <1>t, <1>h, <2>3
    <3>2. QED
      BY <1>f, <1>n, <2>3, <3>1
  <2>6. k \in Admitted(r) /\ status[r] # "down"
    BY <1>m, <1>s, <2>1
  <2>7. QED
    BY <1>2, <1>N, <2>1, <2>4, <2>5, <2>6
<1>3. CASE CreateReject(r, k)
  <2>1. /\ request' = [request EXCEPT ![<<r, k>>] = NoRequest]
        /\ queue'[r] = queue[r] /\ q.pc = "admitted" /\ lastId' = lastId
    BY <1>3, <1>t DEF CreateReject
  <2>2. NoRequest.pc = "idle"
    BY DEF NoRequest
  <2>3. w1 = w /\ c1 = c /\ p1 = p /\ a1 = a - 1 /\ a1 \in Nat
    <3>1. CallsNow(NoRequest) /\ ChangesNow(NoRequest)
      BY <1>c, <1>d, <2>1, Zenon
    <3> HIDE DEF q
    <3>2. QED
      BY <1>n, <2>1, <2>2, <3>1 DEF CallsNow, ChangesNow, AdmittedOne, PastOne, WaitingOne
  <2>4. Room(r)' <= Room(r) - 0
    BY <1>f, <1>n, <2>3
  <2>5. QED
    BY <1>N, <2>1, <2>4
<1>4. CASE CreateDecide(r, k)
  <2>1. q.pc = "inserted" /\ queue'[r] = queue[r] /\ lastId' = lastId
    BY <1>4 DEF CreateDecide, dbVars
  <2>2. CASE /\ ChangeFor(q.id, type[r]) = {}
             /\ request' = [request EXCEPT ![<<r, k>>] = NoRequest]
    <3>1. ~(q.id >= ThresholdForNewUrls)
      <4> DEFINE i == q.id
      <4>1. i \in Nat
        BY <1>t DEF Request
      <4>2. ChangeFor(i, type[r]) = {}
        BY <2>2
      <4> HIDE DEF i
      <4>3. ASSUME i >= ThresholdForNewUrls PROVE \E t : t \in ChangeFor(i, type[r])
        <5>1. i >= ThresholdForNewUsers
          BY <1>h, <4>1, <4>3
        <5>2. type[r] = "ReadWrite" => ChangeFor(i, type[r]) = {"WriteUrlsOnly"}
          BY <5>1 DEF ChangeFor
        <5>3. type[r] # "ReadWrite" => ChangeFor(i, type[r]) = {"ReadOnly"}
          BY <4>3 DEF ChangeFor
        <5>4. QED
          BY <5>2, <5>3
      <4>4. QED
        BY <4>2, <4>3 DEF i
    <3>2. NoRequest.pc = "idle"
      BY DEF NoRequest
    <3>3. w1 = w /\ c1 = c /\ p1 = p /\ a1 = a
      <4>1. CallsNow(NoRequest) /\ ChangesNow(NoRequest)
        BY <1>c, <1>d, <2>1, <2>2, Zenon
      <4> HIDE DEF q
      <4>2. QED
        BY <1>n, <2>1, <3>1, <3>2, <4>1 DEF CallsNow, ChangesNow, AdmittedOne, PastOne, WaitingOne
    <3>4. Room(r)' <= Room(r) - 0
      BY <1>f, <1>n, <3>3
    <3>5. QED
      BY <1>N, <2>1, <3>4
  <2>3. ASSUME NEW t \in ChangeFor(q.id, type[r]),
               request' = [request EXCEPT ![<<r, k>>] = [q EXCEPT !.pc = "enqueue", !.want = t]]
        PROVE  Room(r)' <= Room(r)
    <3> DEFINE new == [q EXCEPT !.pc = "enqueue", !.want = t]
    <3>1. new.pc = "enqueue" /\ new.want = t
      BY <1>t DEF Request
    <3>2. request' = [request EXCEPT ![<<r, k>>] = new]
      BY <2>3
    <3> HIDE DEF new
    <3>3. /\ type[r] = "ReadWrite" => t = "WriteUrlsOnly"
          /\ type[r] # "ReadWrite" => t = "ReadOnly" /\ q.id >= ThresholdForNewUrls
      BY <1>h, <1>y DEF ChangeFor
    <3>4. /\ p1 \in Nat /\ a1 = a /\ p1 >= p - 1 /\ w1 \in Nat /\ c1 \in Nat
          /\ w1 = w + (IF t = "WriteUrlsOnly" THEN 1 ELSE 0)
          /\ c1 = c + (IF t = "ReadOnly" THEN 1 ELSE 0)
      <4>1. CallsNow(new) /\ ChangesNow(new)
        BY <1>c, <1>d, <2>1, <3>2, Zenon
      <4> HIDE DEF q
      <4>2. QED
        BY <1>n, <2>1, <3>1, <4>1 DEF CallsNow, ChangesNow, AdmittedOne, PastOne, WaitingOne
    <3>5. Room(r)' <= Room(r) - 0
      BY <1>f, <1>n, <3>3, <3>4
    <3>6. QED
      BY <1>N, <3>5
  <2>4. QED
    BY <1>4, <2>1, <2>2, <2>3 DEF CreateDecide
<1>5. CASE CreateEnqueue(r, k)
  <2>1. /\ request' = [request EXCEPT ![<<r, k>>] = NoRequest] /\ q.pc = "enqueue"
        /\ queue'[r] = Append(queue[r], ChangeTypeTask(q.want)) /\ lastId' = lastId
    BY <1>5, <1>t DEF CreateEnqueue, dbVars
  <2>2. NoRequest.pc = "idle"
    BY DEF NoRequest
  <2>3. q.want \in {"ReadOnly", "WriteUrlsOnly"}
    BY <2>1 DEF IInv, ServingTypes
  <2> DEFINE e == ChangeTypeTask(q.want)
             qw == IF q.want = "WriteUrlsOnly" THEN 1 ELSE 0
             qc == IF q.want = "ReadOnly" THEN 1 ELSE 0
  <2>4. e \in Task /\ \A t : IsChange(e, t) <=> q.want = t
    BY <1>t, TaskTypes DEF ChangeTypeTask, IsChange, Request
  <2>5. /\ Cardinality(Queued(queue'[r], "WriteUrlsOnly"))
             = Cardinality(Queued(queue[r], "WriteUrlsOnly")) + qw
        /\ Cardinality(Queued(queue'[r], "ReadOnly"))
             = Cardinality(Queued(queue[r], "ReadOnly")) + qc
    BY <1>t, <2>1, <2>4, QueuedAppend
  <2>6. qw \in {0, 1} /\ qc \in {0, 1}
    OBVIOUS
  <2> HIDE DEF qw, qc, e
  <2>7. /\ w1 \in Nat /\ c1 \in Nat
        /\ w1 = w + qw - WaitingOne(q, "WriteUrlsOnly") + WaitingOne(NoRequest, "WriteUrlsOnly")
        /\ c1 = c + qc - WaitingOne(q, "ReadOnly") + WaitingOne(NoRequest, "ReadOnly")
    BY <1>T, <1>u, <2>1, <2>5, <2>6, CallRoom DEF w, c, w1, c1
  <2>8. w1 = w /\ c1 = c /\ p1 = p /\ a1 = a
    <3>1. /\ WaitingOne(q, "WriteUrlsOnly") = qw /\ WaitingOne(q, "ReadOnly") = qc
          /\ \A t : WaitingOne(NoRequest, t) = 0
      BY <2>1, <2>2 DEF WaitingOne, qw, qc
    <3>2. w1 = w /\ c1 = c
      BY <1>n, <2>6, <2>7, <3>1
    <3>3. p1 = p /\ a1 = a
      <4>1. CallsNow(NoRequest)
        BY <1>c, <2>1, Zenon
      <4> HIDE DEF q
      <4>2. QED
        BY <1>n, <2>1, <2>2, <4>1 DEF CallsNow, AdmittedOne, PastOne
    <3>4. QED
      BY <3>2, <3>3
  <2>9. Room(r)' <= Room(r) - 0
    BY <1>f, <1>n, <2>8
  <2>10. QED
    BY <1>N, <2>1, <2>9
<1>6. QED
  BY <1>1, <1>2, <1>3, <1>4, <1>5 DEF CreateStep

LEMMA WorkTypes ==
    ASSUME TypeOK, NEW r \in Replicas, NEW t
    PROVE  /\ AtWork(worker[r], t) \in {0, 1} /\ AtWork(worker'[r], t) \in {0, 1}
           /\ Cardinality(Queued(queue[r], t)) \in Nat
<1>1. queue[r] \in Seq(Task)
  BY DEF TypeOK
<1>2. QED
  BY <1>1, QueuedType DEF AtWork

\* A step of the consumer that keeps the type and the number of changes to apply.
LEMMA WorkRoomStays ==
    ASSUME TypeOK, IsFiniteSet(Slots), NEW r \in Replicas,
           status' = status, request' = request, type' = type,
           \A t : AtWork(worker'[r], t) + Cardinality(Queued(queue'[r], t))
                    = AtWork(worker[r], t) + Cardinality(Queued(queue[r], t)),
           \A t : Cardinality(Queued(queue'[r], t)) \in Nat
    PROVE  Room(r)' = Room(r)
<1>1. ASSUME NEW t
      PROVE  /\ Cardinality(Queued(queue[r], t)') = Cardinality(Queued(queue'[r], t))
             /\ AtWork(worker[r], t)' = AtWork(worker'[r], t)
             /\ Cardinality(Queued(queue[r], t)') \in Nat /\ AtWork(worker[r], t)' \in Nat
             /\ Cardinality(Queued(queue[r], t)) \in Nat /\ AtWork(worker[r], t) \in Nat
             /\ Cardinality(Queued(queue[r], t)') + AtWork(worker[r], t)'
                  = Cardinality(Queued(queue[r], t)) + AtWork(worker[r], t)
  <2>1. /\ Cardinality(Queued(queue[r], t)') = Cardinality(Queued(queue'[r], t))
        /\ AtWork(worker[r], t)' = AtWork(worker'[r], t)
    OBVIOUS
  <2>2. QED
    BY <2>1, WorkTypes
<1>2. QED
  BY <1>1, RoomStays

\* No step of the consumer gives its replica more room.
LEMMA WorkerRoom ==
    ASSUME IInv, WorkIsOfItsKind, QueuesFit, IsFiniteSet(Slots), ~ZooKeeperFaults,
           NEW r \in Replicas, WorkerStep(r)
    PROVE  Room(r)' <= Room(r)
<1> DEFINE v == worker[r]
           s == queue[r]
<1>T. TypeOK
  BY DEF IInv
<1>t. /\ s \in Seq(Task) /\ v \in Worker /\ worker \in [Replicas -> Worker]
      /\ queue \in [Replicas -> Seq(Task)] /\ type \in [Replicas -> ShardType]
  BY <1>T DEF TypeOK
<1>u. status' = status /\ request' = request
  BY DEF WorkerStep, Dequeue, RunOther, ChangeTypeSame, ChangeTypeCreate, ChangeTypeThrows,
     ChangeTypeEnqueueDelete, ChangeTypeAssign, DeleteNode, DeleteNodeThrows,
     DeleteNodeRequeue, DeleteNodeFails, LogError, replicaVars
<1>N. Room(r) \in Nat
  BY <1>T, RoomBounds
<1>q. \A t : Cardinality(Queued(s, t)) \in Nat
  BY <1>t, QueuedType
<1>i. \A t : AtWork(IdleWorker, t) = 0
  BY DEF AtWork, IdleWorker
<1>f. ASSUME Room(r)' = Room(r) PROVE Room(r)' <= Room(r)
  BY <1>f, <1>N
<1>1. CASE Dequeue(r)
  <2>1. /\ s # <<>> /\ v.pc = "idle" /\ type' = type /\ queue'[r] = Tail(s)
        /\ worker'[r] = [pc |-> "run", task |-> Head(s), oldPath |-> 0]
    BY <1>1, <1>t DEF Dequeue
  <2>2. ASSUME NEW t
        PROVE  /\ AtWork(worker'[r], t) = IF IsChange(Head(s), t) THEN 1 ELSE 0
               /\ AtWork(v, t) = 0
    BY <2>1 DEF AtWork
  <2> HIDE DEF v, s
  <2>3. ASSUME NEW t
        PROVE  /\ Cardinality(Queued(s, t))
                    = Cardinality(Queued(Tail(s), t)) + (IF IsChange(Head(s), t) THEN 1 ELSE 0)
               /\ Cardinality(Queued(Tail(s), t)) \in Nat
    <3>1. s \in Seq(Task) /\ s # <<>>
      BY <1>t, <2>1
    <3>2. Tail(s) \in Seq(Task)
      BY <3>1
    <3>3. Cardinality(Queued(Tail(s), t)) \in Nat
      BY <3>2, QueuedType
    <3>4. QED
      BY <3>1, <3>3, QueuedTail
  <2>4. ASSUME NEW t
        PROVE  /\ AtWork(worker'[r], t) + Cardinality(Queued(queue'[r], t))
                    = AtWork(v, t) + Cardinality(Queued(s, t))
               /\ Cardinality(Queued(queue'[r], t)) \in Nat
    <3>1. queue'[r] = Tail(s)
      BY <2>1
    <3>2. QED
      BY <2>2, <2>3, <3>1
  <2>5. QED
    BY <1>T, <1>u, <1>f, <2>1, <2>4, WorkRoomStays DEF v, s
<1>2. CASE RunOther(r) \/ DeleteNode(r) \/ LogError(r)
  <2>1. /\ type' = type /\ queue'[r] = s /\ worker'[r] = IdleWorker
        /\ v.task.op # "changeType"
    BY <1>2, <1>t DEF RunOther, DeleteNode, LogError, Running, WorkIsOfItsKind
  <2>2. \A t : AtWork(v, t) = 0
    BY <2>1 DEF AtWork, IsChange
  <2>3. \A t : AtWork(worker'[r], t) + Cardinality(Queued(queue'[r], t))
                 = AtWork(v, t) + Cardinality(Queued(s, t))
    BY <1>i, <2>1, <2>2
  <2>4. \A t : Cardinality(Queued(queue'[r], t)) \in Nat
    BY <1>q, <2>1
  <2>5. QED
    BY <1>T, <1>u, <1>f, <2>1, <2>3, <2>4, WorkRoomStays
<1>3. CASE ChangeTypeCreate(r)
  <2>1. /\ type' = type /\ queue'[r] = s /\ v.pc = "run"
        /\ worker'[r] = [v EXCEPT !.pc = "enqueueDelete", !.oldPath = child[r]]
    BY <1>3, <1>t DEF ChangeTypeCreate, Running
  <2>2. worker'[r].pc = "enqueueDelete" /\ worker'[r].task = v.task
    BY <1>t, <2>1 DEF Worker
  <2>3. \A t : AtWork(worker'[r], t) = AtWork(v, t)
    BY <2>1, <2>2 DEF AtWork
  <2>4. \A t : AtWork(worker'[r], t) + Cardinality(Queued(queue'[r], t))
                 = AtWork(v, t) + Cardinality(Queued(s, t))
    BY <2>1, <2>3
  <2>5. \A t : Cardinality(Queued(queue'[r], t)) \in Nat
    BY <1>q, <2>1
  <2>6. QED
    BY <1>T, <1>u, <1>f, <2>1, <2>4, <2>5, WorkRoomStays
<1>4. CASE ChangeTypeEnqueueDelete(r)
  <2> DEFINE e == DeleteTask(v.oldPath)
  <2>1. /\ type' = type /\ queue'[r] = Append(s, e) /\ v.pc = "enqueueDelete"
        /\ worker'[r] = [v EXCEPT !.pc = "assignType"]
    BY <1>4, <1>t DEF ChangeTypeEnqueueDelete
  <2>2. worker'[r].pc = "assignType" /\ worker'[r].task = v.task
    BY <1>t, <2>1 DEF Worker
  <2>3. \A t : AtWork(worker'[r], t) = AtWork(v, t)
    BY <2>1, <2>2 DEF AtWork
  <2>4. e \in Task /\ \A t : ~IsChange(e, t)
    BY <1>t, TaskTypes DEF IsChange, DeleteTask, Worker
  <2> HIDE DEF e
  <2>5. ASSUME NEW t
        PROVE  Cardinality(Queued(queue'[r], t)) = Cardinality(Queued(s, t))
    <3>1. Cardinality(Queued(Append(s, e), t)) = Cardinality(Queued(s, t)) + 0
      BY <1>t, <2>4, QueuedAppend
    <3>2. QED
      BY <1>q, <2>1, <3>1
  <2>6. \A t : AtWork(worker'[r], t) + Cardinality(Queued(queue'[r], t))
                 = AtWork(v, t) + Cardinality(Queued(s, t))
    BY <2>3, <2>5
  <2>7. \A t : Cardinality(Queued(queue'[r], t)) \in Nat
    BY <1>q, <2>5
  <2>8. QED
    BY <1>T, <1>u, <1>f, <2>1, <2>6, <2>7, WorkRoomStays
<1>5. CASE DeleteNodeRequeue(r)
  <2> DEFINE e == v.task
  <2>1. /\ type' = type /\ queue'[r] = Append(s, e) /\ v.pc = "requeue"
        /\ worker'[r] = IdleWorker
    BY <1>5, <1>t DEF DeleteNodeRequeue
  <2>2. e.op = "deleteNode"
    BY <2>1 DEF WorkIsOfItsKind
  <2>3. \A t : AtWork(worker'[r], t) = AtWork(v, t)
    BY <1>i, <2>1 DEF AtWork
  <2>4. e \in Task /\ \A t : ~IsChange(e, t)
    BY <1>t, <2>2 DEF IsChange, Worker
  <2> HIDE DEF e
  <2>5. ASSUME NEW t
        PROVE  Cardinality(Queued(queue'[r], t)) = Cardinality(Queued(s, t))
    <3>1. Cardinality(Queued(Append(s, e), t)) = Cardinality(Queued(s, t)) + 0
      BY <1>t, <2>4, QueuedAppend
    <3>2. QED
      BY <1>q, <2>1, <3>1
  <2>6. \A t : AtWork(worker'[r], t) + Cardinality(Queued(queue'[r], t))
                 = AtWork(v, t) + Cardinality(Queued(s, t))
    BY <2>3, <2>5
  <2>7. \A t : Cardinality(Queued(queue'[r], t)) \in Nat
    BY <1>q, <2>5
  <2>8. QED
    BY <1>T, <1>u, <1>f, <2>1, <2>6, <2>7, WorkRoomStays
\* The change at work is applied or found in force: one change less to apply.
<1> DEFINE w == Changes(r, "WriteUrlsOnly")
           c == Changes(r, "ReadOnly")
           p == Cardinality(Past(r))
           a == Cardinality(Admitted(r))
           to == v.task.to
<1>n. w \in Nat /\ c \in Nat /\ p \in Nat /\ a \in Nat /\ w + c + p + a <= Places
  BY <1>T, PlacesSuffice
<1>d. ASSUME v.pc \in {"run", "assignType"}, v.task.op = "changeType",
             to \in {"ReadOnly", "WriteUrlsOnly"}, worker'[r] = IdleWorker, queue'[r] = s
      PROVE  /\ to = "WriteUrlsOnly" => w >= 1
             /\ to = "ReadOnly" => c >= 1
             /\ Changes(r, "WriteUrlsOnly")' = w - (IF to = "WriteUrlsOnly" THEN 1 ELSE 0)
             /\ Changes(r, "ReadOnly")' = c - (IF to = "ReadOnly" THEN 1 ELSE 0)
             /\ Room(r)' = Rooms(status[r], type'[r], w - (IF to = "WriteUrlsOnly" THEN 1 ELSE 0),
                                 c - (IF to = "ReadOnly" THEN 1 ELSE 0), p, a)
  <2>1. Admitted(r)' = Admitted(r) /\ Past(r)' = Past(r)
    BY <1>u DEF Admitted, Past
  <2>2. ASSUME NEW t
        PROVE  /\ Changes(r, t) = Cardinality(Waiting(r, t)) + Cardinality(Queued(s, t))
                                    + (IF to = t THEN 1 ELSE 0)
               /\ Changes(r, t)' = Cardinality(Waiting(r, t)) + Cardinality(Queued(s, t)) + 0
               /\ Cardinality(Waiting(r, t)) \in Nat /\ Cardinality(Queued(s, t)) \in Nat
    <3>1. AtWork(v, t) = IF to = t THEN 1 ELSE 0
      BY <1>d DEF AtWork, IsChange
    <3>2. Waiting(r, t)' = Waiting(r, t)
      BY <1>u DEF Waiting
    <3>3. AtWork(worker'[r], t) = 0
      BY <1>d, <1>i
    <3>4. Cardinality(Waiting(r, t)) \in Nat
      BY CallCounts
    <3>5. Changes(r, t)' = Cardinality(Waiting(r, t)') + Cardinality(Queued(queue'[r], t))
                             + AtWork(worker'[r], t)
      BY DEF Changes
    <3>6. Changes(r, t) = Cardinality(Waiting(r, t)) + Cardinality(Queued(s, t)) + AtWork(v, t)
      BY DEF Changes
    <3>7. QED
      BY <1>d, <1>q, <3>1, <3>2, <3>3, <3>4, <3>5, <3>6
  <2>3. ASSUME NEW t
        PROVE  /\ Changes(r, t)' = Changes(r, t) - (IF to = t THEN 1 ELSE 0)
               /\ to = t => Changes(r, t) >= 1
    BY <2>2
  <2>4. /\ Changes(r, "WriteUrlsOnly")' = w - (IF to = "WriteUrlsOnly" THEN 1 ELSE 0)
        /\ Changes(r, "ReadOnly")' = c - (IF to = "ReadOnly" THEN 1 ELSE 0)
        /\ to = "WriteUrlsOnly" => w >= 1
        /\ to = "ReadOnly" => c >= 1
    BY <2>3
  <2>5. Room(r)' = Rooms(status'[r], type'[r], Changes(r, "WriteUrlsOnly")',
                         Changes(r, "ReadOnly")', Cardinality(Past(r)'),
                         Cardinality(Admitted(r)'))
    BY RoomIs
  <2> HIDE DEF to, w, c
  <2>6. QED
    BY <1>u, <2>1, <2>4, <2>5
<1>r. Room(r) = Rooms(status[r], type[r], w, c, p, a)
  BY RoomIs
<1>s. status[r] # "down" \/ v.pc = "idle"
  BY DEF IInv, OnlyReadyWork
<1>6. CASE ChangeTypeSame(r)
  <2>1. /\ type'[r] = type[r] /\ queue'[r] = s /\ worker'[r] = IdleWorker /\ v.pc = "run"
        /\ v.task.op = "changeType" /\ to = type[r]
    BY <1>6, <1>t DEF ChangeTypeSame, Running
  <2>2. v.task \in Held(r)
    BY <2>1 DEF Held
  <2>3. to \in {"ReadOnly", "WriteUrlsOnly"}
    BY <2>1, <2>2 DEF IInv, ServingTypes
  <2>4. v.pc \in {"run", "assignType"} /\ status[r] # "down"
    BY <1>s, <2>1
  <2> DEFINE dw == IF to = "WriteUrlsOnly" THEN 1 ELSE 0
             dc == IF to = "ReadOnly" THEN 1 ELSE 0
  <2>5. /\ Room(r)' = Rooms(status[r], type[r], w - dw, c - dc, p, a)
        /\ to = "WriteUrlsOnly" => w >= 1 /\ dw = 1 /\ dc = 0
        /\ to = "ReadOnly" => c >= 1 /\ dw = 0 /\ dc = 1
    BY <1>d, <2>1, <2>3, <2>4
  <2> HIDE DEF w, c, p, a, to, dw, dc, v, s
  <2>6. /\ w - dw \in Nat /\ c - dc \in Nat /\ w - dw <= w
        /\ to = "WriteUrlsOnly" => c - dc = c
    BY <1>n, <2>3, <2>5
  <2>7. Rooms(status[r], type[r], w - dw, c - dc, p, a)
          <= Rooms(status[r], type[r], w, c, p, a) - 0
    <3>1. /\ type[r] = "ReadWrite" => p + (w - dw) + (c - dc) >= p + w + c + 0
          /\ type[r] # "ReadWrite" => w - dw <= w
          /\ type[r] = "WriteUrlsOnly" => p + (c - dc) >= p + c + 0
          /\ type[r] \notin {"ReadWrite", "WriteUrlsOnly"} => a <= a - 0
      BY <1>n, <2>1, <2>3, <2>6
    <3> DEFINE w1 == w - dw
               c1 == c - dc
    <3> HIDE DEF w1, c1
    <3>2. w1 \in Nat /\ c1 \in Nat
      BY <2>6 DEF w1, c1
    <3>3. /\ type[r] = "ReadWrite" => p + w1 + c1 >= p + w + c + 0
          /\ type[r] # "ReadWrite" => w1 <= w
          /\ type[r] = "WriteUrlsOnly" => p + c1 >= p + c + 0
          /\ type[r] \notin {"ReadWrite", "WriteUrlsOnly"} => a <= a - 0
      BY <3>1 DEF w1, c1
    <3>4. Rooms(status[r], type[r], w1, c1, p, a) <= Rooms(status[r], type[r], w, c, p, a) - 0
      BY <1>n, <2>4, <3>2, <3>3, RoomsFall
    <3>5. QED
      BY <3>4 DEF w1, c1
  <2>8. QED
    BY <1>N, <1>r, <2>5, <2>7
<1>7. CASE ChangeTypeAssign(r)
  <2>1. /\ type'[r] = to /\ queue'[r] = s /\ worker'[r] = IdleWorker /\ v.pc = "assignType"
    BY <1>7, <1>t DEF ChangeTypeAssign
  <2>2. Changing(r)
    BY <2>1 DEF Changing
  <2>3. v.task.op = "changeType" /\ to \in {"ReadOnly", "WriteUrlsOnly"}
    BY <2>2 DEF IInv, ServingTypes, WorkIsOfItsKind
  <2>4. v.pc \in {"run", "assignType"} /\ status[r] # "down"
    BY <1>s, <2>1
  <2> DEFINE dw == IF to = "WriteUrlsOnly" THEN 1 ELSE 0
             dc == IF to = "ReadOnly" THEN 1 ELSE 0
  <2>5. /\ Room(r)' = Rooms(status[r], to, w - dw, c - dc, p, a)
        /\ to = "WriteUrlsOnly" => w >= 1 /\ dw = 1 /\ dc = 0
        /\ to = "ReadOnly" => c >= 1 /\ dw = 0 /\ dc = 1
    BY <1>d, <2>1, <2>3, <2>4
  <2> HIDE DEF w, c, p, a, to, dw, dc, v, s
  <2>6. /\ w >= 1 => Rooms(status[r], "WriteUrlsOnly", w - 1, c, p, a)
                       <= Rooms(status[r], type[r], w, c, p, a)
        /\ c >= 1 => Rooms(status[r], "ReadOnly", w, c - 1, p, a)
                       <= Rooms(status[r], type[r], w, c, p, a)
    BY <1>n, <2>4, RoomsChange
  <2>7. CASE to = "WriteUrlsOnly"
    <3>1. w - dw = w - 1 /\ c - dc = c
      BY <1>n, <2>5, <2>7
    <3>2. QED
      BY <1>r, <2>5, <2>6, <2>7, <3>1
  <2>8. CASE to = "ReadOnly"
    <3>1. w - dw = w /\ c - dc = c - 1
      BY <1>n, <2>5, <2>8
    <3>2. QED
      BY <1>r, <2>5, <2>6, <2>8, <3>1
  <2>9. QED
    BY <2>3, <2>7, <2>8
<1>8. QED
  BY <1>1, <1>2, <1>3, <1>4, <1>5, <1>6, <1>7
     DEF WorkerStep, ChangeTypeThrows, DeleteNodeThrows, DeleteNodeFails

-------------------------------------------------------------------------------
(* Ids past the threshold: the parts of RangeInv that need no counting *)

LEMMA OtherCallsUnchanged ==
    ASSUME TypeOK, NEW q \in Replicas, ReplicaStep(q),
           NEW r \in Replicas, r # q, NEW k \in Slots
    PROVE  request'[<<r, k>>] = request[<<r, k>>]
<1>1. CASE LifeStep(q)
  BY <1>1 DEF LifeStep, InitializeReadMaxId, InitializeRegister, Crash, SessionExpires
<1>2. CASE WorkerStep(q)
  BY <1>2 DEF WorkerStep, Dequeue, RunOther, ChangeTypeSame, ChangeTypeCreate,
     ChangeTypeThrows, ChangeTypeEnqueueDelete, ChangeTypeAssign,
     DeleteNode, DeleteNodeThrows, DeleteNodeRequeue, DeleteNodeFails, LogError
<1>3. CASE OtherEnqueue(q)
  BY <1>3 DEF OtherEnqueue
<1>4. ASSUME NEW j \in Slots, CreateStep(q, j)
      PROVE  request'[<<r, k>>] = request[<<r, k>>]
  <2>1. <<r, k>> # <<q, j>> /\ <<r, k>> \in Replicas \X Slots
    OBVIOUS
  <2>2. \E new : request' = [request EXCEPT ![<<q, j>>] = new]
    BY <1>4 DEF CreateStep, CreateAdmit, CreateInsert, CreateReject, CreateDecide,
       CreateEnqueue, TypeOK
  <2>3. QED
    BY <2>1, <2>2 DEF TypeOK
<1>5. QED
  BY <1>1, <1>2, <1>3, <1>4 DEF ReplicaStep

\* A step of a replica that is not ready touches neither its queue nor its calls,
\* unless it empties them.
LEMMA OnlyReadyServeStep ==
    ASSUME IInv, OnlyReadyServe, [Next]_vars
    PROVE  OnlyReadyServe'
<1> SUFFICES ASSUME NEW r \in Replicas, status'[r] # "ready"
             PROVE  /\ queue'[r] = <<>>
                    /\ \A k \in Slots : request'[<<r, k>>] = NoRequest
  BY DEF OnlyReadyServe
<1>t. TypeOK
  BY DEF IInv
<1>0. /\ status \in [Replicas -> {"down", "booting", "ready"}]
      /\ request \in [Replicas \X Slots -> Request] /\ queue \in [Replicas -> Seq(Task)]
  BY <1>t DEF TypeOK
<1>s. status[r] # "ready" => /\ queue[r] = <<>> /\ worker[r].pc = "idle"
                             /\ \A k \in Slots : request[<<r, k>>] = NoRequest
  BY DEF OnlyReadyServe, IInv, OnlyReadyWork
<1>k. \A k \in Slots : <<r, k>> \in Replicas \X Slots /\ <<r, k>>[1] = r
  OBVIOUS
<1>1. CASE /\ status'[r] = status[r] /\ queue'[r] = queue[r]
           /\ \A k \in Slots : request'[<<r, k>>] = request[<<r, k>>]
  BY <1>1, <1>s
<1>2. CASE LifeStep(r)
  <2>1. CASE Crash(r)
    BY <1>0, <1>k, <2>1 DEF Crash
  <2>2. CASE InitializeReadMaxId(r)
    BY <1>s, <2>2 DEF InitializeReadMaxId
  <2>3. CASE InitializeRegister(r)
    BY <1>0, <2>3 DEF InitializeRegister
  <2>4. CASE \E s \in 1 .. MaxSessions : SessionExpires(r, s)
    BY <1>1, <2>4 DEF SessionExpires, replicaVars
  <2>5. QED
    BY <1>2, <2>1, <2>2, <2>3, <2>4 DEF LifeStep
<1>3. CASE WorkerStep(r)
  <2>1. status' = status /\ request' = request
    BY <1>3 DEF WorkerStep, Dequeue, RunOther, ChangeTypeSame, ChangeTypeCreate,
       ChangeTypeThrows, ChangeTypeEnqueueDelete, ChangeTypeAssign, DeleteNode,
       DeleteNodeThrows, DeleteNodeRequeue, DeleteNodeFails, LogError, replicaVars
  <2>2. worker[r].pc # "idle" \/ status[r] = "ready"
    BY <1>3 DEF WorkerStep, Dequeue, RunOther, ChangeTypeSame, ChangeTypeCreate,
       ChangeTypeThrows, ChangeTypeEnqueueDelete, ChangeTypeAssign, DeleteNode,
       DeleteNodeThrows, DeleteNodeRequeue, DeleteNodeFails, LogError, Running
  <2>3. QED
    BY <1>s, <2>1, <2>2
<1>4. CASE OtherEnqueue(r)
  BY <1>4 DEF OtherEnqueue, replicaVars
<1>5. ASSUME NEW k \in Slots, CreateStep(r, k) PROVE FALSE
  <2>1. status' = status
    BY <1>5 DEF CreateStep, CreateAdmit, CreateInsert, CreateReject, CreateDecide,
       CreateEnqueue, replicaVars
  <2>2. request[<<r, k>>].pc # "idle" \/ status[r] = "ready"
    BY <1>5 DEF CreateStep, CreateAdmit, CreateInsert, CreateReject, CreateDecide,
       CreateEnqueue
  <2>3. NoRequest.pc = "idle"
    BY DEF NoRequest
  <2>4. QED
    BY <1>s, <2>1, <2>2, <2>3
<1>6. ASSUME NEW q \in Replicas, ReplicaStep(q), q # r
      PROVE  /\ status'[r] = status[r] /\ queue'[r] = queue[r]
             /\ \A k \in Slots : request'[<<r, k>>] = request[<<r, k>>]
  BY <1>6, <1>t, OtherReplicaUnchanged, OtherCallsUnchanged
<1>7. CASE ReplicaStep(r)
  BY <1>2, <1>3, <1>4, <1>5, <1>7 DEF ReplicaStep
<1>8. QED
  BY <1>1, <1>6, <1>7, NextIsReplicaStep DEF replicaVars

LEMMA SessionsCountedStep ==
    ASSUME TypeOK, SessionsCounted, [Next]_vars
    PROVE  SessionsCounted'
<1> SUFFICES ASSUME NEW r \in Replicas
             PROVE  /\ session'[r] <= MaxSessions
                    /\ status'[r] # "down" => session'[r] >= 1
  BY DEF SessionsCounted
<1>0. /\ status \in [Replicas -> {"down", "booting", "ready"}]
      /\ session \in [Replicas -> Nat] /\ MaxSessions \in Nat
  BY ShardAssumption DEF TypeOK
<1>s. session[r] <= MaxSessions /\ (status[r] # "down" => session[r] >= 1)
  BY DEF SessionsCounted
<1>1. CASE status'[r] = status[r] /\ session'[r] = session[r]
  BY <1>1, <1>s
<1>2. CASE InitializeReadMaxId(r)
  <2>1. session[r] < MaxSessions /\ session'[r] = session[r] + 1
    BY <1>0, <1>2 DEF InitializeReadMaxId
  <2>2. QED
    BY <1>0, <2>1
<1>3. CASE InitializeRegister(r) \/ Crash(r)
  BY <1>0, <1>3, <1>s DEF InitializeRegister, Crash
<1>4. CASE ReplicaStep(r) /\ ~InitializeReadMaxId(r) /\ ~InitializeRegister(r) /\ ~Crash(r)
  <2>1. UNCHANGED <<status, session>>
    BY <1>4 DEF ReplicaStep, LifeStep, SessionExpires, OtherEnqueue,
       WorkerStep, Dequeue, RunOther, ChangeTypeSame, ChangeTypeCreate,
       ChangeTypeThrows, ChangeTypeEnqueueDelete, ChangeTypeAssign, DeleteNode,
       DeleteNodeThrows, DeleteNodeRequeue, DeleteNodeFails, LogError,
       CreateStep, CreateAdmit, CreateInsert,
       CreateReject, CreateDecide, CreateEnqueue, replicaVars
  <2>2. QED
    BY <1>1, <2>1
<1>5. QED
  BY <1>1, <1>2, <1>3, <1>4, NextIsReplicaStep, OtherReplicaUnchanged DEF replicaVars

\* Every writer waits for room.
LEMMA QueuesFitStep ==
    ASSUME TypeOK, QueuesFit, [Next]_vars
    PROVE  QueuesFit'
<1> SUFFICES ASSUME NEW r \in Replicas PROVE Len(queue'[r]) <= Capacity
  BY DEF QueuesFit
<1>0. /\ queue \in [Replicas -> Seq(Task)] /\ queue[r] \in Seq(Task) /\ Capacity \in Nat
      /\ Len(queue[r]) <= Capacity /\ Len(queue[r]) \in Nat
  BY ShardAssumption DEF TypeOK, QueuesFit
<1>1. CASE queue'[r] = queue[r]
  BY <1>0, <1>1
<1>2. CASE queue[r] # <<>> /\ queue'[r] = Tail(queue[r])
  BY <1>0, <1>2
<1>3. ASSUME NEW e, HasRoom(r), queue'[r] = Append(queue[r], e)
      PROVE  Len(queue'[r]) <= Capacity
  <2>1. Len(Append(queue[r], e)) = Len(queue[r]) + 1
    BY <1>0
  <2>2. QED
    BY <1>0, <1>3, <2>1 DEF HasRoom
<1>4. CASE LifeStep(r)
  <2>1. queue'[r] = queue[r] \/ queue'[r] = <<>>
    BY <1>0, <1>4 DEF LifeStep, InitializeReadMaxId, InitializeRegister, Crash, SessionExpires
  <2>2. CASE queue'[r] = <<>>
    BY <1>0, <2>2
  <2>3. QED
    BY <1>1, <2>1, <2>2
<1>5. CASE WorkerStep(r)
  <2>1. \/ queue'[r] = queue[r]
        \/ queue[r] # <<>> /\ queue'[r] = Tail(queue[r])
        \/ HasRoom(r) /\ \E e : queue'[r] = Append(queue[r], e)
    BY <1>0, <1>5 DEF WorkerStep, Dequeue, RunOther, ChangeTypeSame, ChangeTypeCreate,
       ChangeTypeThrows, ChangeTypeEnqueueDelete, ChangeTypeAssign, DeleteNode,
       DeleteNodeThrows, DeleteNodeRequeue, DeleteNodeFails, LogError
  <2>2. QED
    BY <1>1, <1>2, <1>3, <2>1
<1>6. CASE OtherEnqueue(r)
  <2>1. HasRoom(r) /\ queue'[r] = Append(queue[r], OtherTask)
    BY <1>0, <1>6 DEF OtherEnqueue
  <2>2. QED
    BY <1>3, <2>1
<1>7. ASSUME NEW k \in Slots, CreateStep(r, k) PROVE Len(queue'[r]) <= Capacity
  <2>1. \/ queue'[r] = queue[r]
        \/ HasRoom(r) /\ \E e : queue'[r] = Append(queue[r], e)
    BY <1>0, <1>7 DEF CreateStep, CreateAdmit, CreateInsert, CreateReject, CreateDecide,
       CreateEnqueue
  <2>2. QED
    BY <1>1, <1>3, <2>1
<1>8. CASE ReplicaStep(r)
  BY <1>4, <1>5, <1>6, <1>7, <1>8 DEF ReplicaStep
<1>9. QED
  BY <1>1, <1>8, NextIsReplicaStep, OtherReplicaUnchanged

LEMMA WorkIsOfItsKindStep ==
    ASSUME TypeOK, WorkIsOfItsKind, [Next]_vars
    PROVE  WorkIsOfItsKind'
<1> SUFFICES ASSUME NEW r \in Replicas
             PROVE  /\ Changing(r)' => worker'[r].task.op = "changeType"
                    /\ worker'[r].pc \in {"requeue", "failed"} => worker'[r].task.op = "deleteNode"
  BY DEF WorkIsOfItsKind
<1>0. worker \in [Replicas -> Worker] /\ worker[r] \in Worker
  BY DEF TypeOK
<1>s. /\ worker[r].pc \in {"enqueueDelete", "assignType"} => worker[r].task.op = "changeType"
      /\ worker[r].pc \in {"requeue", "failed"} => worker[r].task.op = "deleteNode"
  BY DEF WorkIsOfItsKind, Changing
<1>1. CASE worker'[r] = worker[r]
  BY <1>1, <1>s DEF Changing
<1>2. CASE worker'[r].pc \in {"idle", "run"}
  BY <1>2 DEF Changing
<1>3. CASE ChangeTypeCreate(r)
  <2>1. /\ worker[r].task.op = "changeType"
        /\ worker'[r] = [worker[r] EXCEPT !.pc = "enqueueDelete", !.oldPath = child[r]]
    BY <1>0, <1>3 DEF ChangeTypeCreate, Running
  <2>2. worker'[r].task = worker[r].task /\ worker'[r].pc = "enqueueDelete"
    BY <1>0, <2>1 DEF Worker
  <2>3. QED
    BY <2>1, <2>2
<1>4. CASE ChangeTypeEnqueueDelete(r)
  <2>1. /\ worker[r].pc = "enqueueDelete"
        /\ worker'[r] = [worker[r] EXCEPT !.pc = "assignType"]
    BY <1>0, <1>4 DEF ChangeTypeEnqueueDelete
  <2>2. worker'[r].task = worker[r].task /\ worker'[r].pc = "assignType"
    BY <1>0, <2>1 DEF Worker
  <2>3. QED
    BY <1>s, <2>1, <2>2
<1>5. CASE DeleteNodeThrows(r) \/ DeleteNodeFails(r)
  <2>1. /\ worker[r].task.op = "deleteNode"
        /\ \/ worker'[r] = [worker[r] EXCEPT !.pc = "requeue"]
           \/ worker'[r] = [worker[r] EXCEPT !.pc = "failed"]
    BY <1>0, <1>5 DEF DeleteNodeThrows, DeleteNodeFails, Running
  <2>2. worker'[r].task = worker[r].task /\ worker'[r].pc \in {"requeue", "failed"}
    BY <1>0, <2>1 DEF Worker
  <2>3. QED
    BY <2>1, <2>2 DEF Changing
<1>6. CASE WorkerStep(r)
  <2>1. \/ ChangeTypeCreate(r) \/ ChangeTypeEnqueueDelete(r) \/ DeleteNodeThrows(r)
        \/ DeleteNodeFails(r)
        \/ worker'[r] = IdleWorker
        \/ worker'[r] = [pc |-> "run", task |-> Head(queue[r]), oldPath |-> 0]
    BY <1>0, <1>6 DEF WorkerStep, Dequeue, RunOther, ChangeTypeSame, ChangeTypeThrows,
       ChangeTypeAssign, DeleteNode, DeleteNodeRequeue, LogError
  <2>2. QED
    BY <1>2, <1>3, <1>4, <1>5, <2>1 DEF IdleWorker
<1>7. CASE LifeStep(r)
  <2>1. worker'[r] = worker[r] \/ worker'[r] = IdleWorker
    BY <1>0, <1>7 DEF LifeStep, InitializeReadMaxId, InitializeRegister, Crash, SessionExpires
  <2>2. QED
    BY <1>1, <1>2, <2>1 DEF IdleWorker
<1>8. CASE OtherEnqueue(r) \/ \E k \in Slots : CreateStep(r, k)
  BY <1>1, <1>8 DEF OtherEnqueue, CreateStep, CreateAdmit, CreateInsert, CreateReject,
     CreateDecide, CreateEnqueue
<1>9. CASE ReplicaStep(r)
  BY <1>6, <1>7, <1>8, <1>9 DEF ReplicaStep
<1>10. QED
  BY <1>1, <1>9, NextIsReplicaStep, OtherReplicaUnchanged

\* The database's sequence only grows, and a call's id came from it.
LEMMA IdsAreDrawnStep ==
    ASSUME TypeOK, IdsAreDrawn, [Next]_vars
    PROVE  IdsAreDrawn'
<1> SUFFICES ASSUME NEW c \in Replicas \X Slots PROVE request'[c].id <= lastId'
  BY DEF IdsAreDrawn
<1>0. /\ request \in [Replicas \X Slots -> Request] /\ request[c] \in Request
      /\ request[c].id \in Nat /\ lastId \in Nat /\ request[c].id <= lastId
      /\ NoRequest.id = 0
  BY DEF TypeOK, IdsAreDrawn, Request, NoRequest
<1>1. ASSUME lastId' \in {lastId, lastId + 1},
             request'[c].id = request[c].id \/ request'[c] = NoRequest
      PROVE  request'[c].id <= lastId'
  <2>1. lastId' \in Nat /\ lastId <= lastId'
    BY <1>0, <1>1
  <2>2. QED
    BY <1>0, <1>1, <2>1
<1>2. ASSUME NEW r \in Replicas, LifeStep(r) \/ WorkerStep(r) \/ OtherEnqueue(r)
      PROVE  /\ lastId' = lastId
             /\ request'[c].id = request[c].id \/ request'[c] = NoRequest
  <2>1. CASE LifeStep(r)
    BY <1>0, <2>1 DEF LifeStep, InitializeReadMaxId, InitializeRegister, Crash, SessionExpires,
       dbVars
  <2>2. CASE WorkerStep(r)
    BY <2>2 DEF WorkerStep, Dequeue, RunOther, ChangeTypeSame, ChangeTypeCreate,
       ChangeTypeThrows, ChangeTypeEnqueueDelete, ChangeTypeAssign, DeleteNode,
       DeleteNodeThrows, DeleteNodeRequeue, DeleteNodeFails, LogError, dbVars
  <2>3. CASE OtherEnqueue(r)
    BY <2>3 DEF OtherEnqueue, dbVars
  <2>4. QED
    BY <1>2, <2>1, <2>2, <2>3
<1>3. ASSUME NEW r \in Replicas, NEW k \in Slots, CreateStep(r, k)
      PROVE  request'[c].id <= lastId'
  <2> DEFINE q == request[<<r, k>>]
  <2>0. q \in Request /\ <<r, k>> \in Replicas \X Slots
    BY <1>0
  <2>1. CASE c # <<r, k>>
    <3>1. request'[c] = request[c] /\ lastId' \in {lastId, lastId + 1}
      BY <1>0, <1>3, <2>1 DEF CreateStep, CreateAdmit, CreateInsert, CreateReject, CreateDecide,
         CreateEnqueue, dbVars
    <3>2. QED
      BY <1>1, <3>1
  <2>2. CASE c = <<r, k>> /\ CreateAdmit(r, k)
    <3>1. request'[c] = [q EXCEPT !.pc = "admitted"] /\ lastId' = lastId
      BY <1>0, <2>2 DEF CreateAdmit, dbVars
    <3>2. request'[c].id = request[c].id
      BY <2>0, <2>2, <3>1 DEF Request
    <3>3. QED
      BY <1>1, <3>1, <3>2
  <2>3. CASE c = <<r, k>> /\ CreateInsert(r, k)
    <3>1. request'[c] = [q EXCEPT !.pc = "inserted", !.id = lastId + 1] /\ lastId' = lastId + 1
      BY <1>0, <2>3 DEF CreateInsert
    <3>2. request'[c].id = lastId + 1
      BY <2>0, <2>3, <3>1 DEF Request
    <3>3. QED
      BY <1>0, <3>1, <3>2
  <2>4. CASE c = <<r, k>> /\ (CreateReject(r, k) \/ CreateEnqueue(r, k))
    <3>1. request'[c] = NoRequest /\ lastId' \in {lastId, lastId + 1}
      BY <1>0, <2>4 DEF CreateReject, CreateEnqueue, dbVars
    <3>2. QED
      BY <1>1, <3>1
  <2>5. CASE c = <<r, k>> /\ CreateDecide(r, k)
    <3>1. lastId' = lastId
      BY <2>5 DEF CreateDecide, dbVars
    <3>2. \/ request'[c] = NoRequest
          \/ \E t : request'[c] = [q EXCEPT !.pc = "enqueue", !.want = t]
      BY <1>0, <2>5 DEF CreateDecide
    <3>3. ASSUME NEW t, request'[c] = [q EXCEPT !.pc = "enqueue", !.want = t]
          PROVE  request'[c].id = request[c].id
      BY <2>0, <2>5, <3>3 DEF Request
    <3>4. QED
      BY <1>1, <3>1, <3>2, <3>3
  <2>6. QED
    BY <1>3, <2>1, <2>2, <2>3, <2>4, <2>5 DEF CreateStep
<1>4. CASE UNCHANGED vars \/ DeleteRows
  <2>1. lastId' = lastId /\ request' = request
    BY <1>4 DEF vars, dbVars, DeleteRows
  <2>2. QED
    BY <1>1, <2>1
<1>5. QED
  BY <1>1, <1>2, <1>3, <1>4 DEF Next

-------------------------------------------------------------------------------
(* Ids past the threshold: what the whole shard can still insert *)

LEMMA AllowanceBounds ==
    ASSUME TypeOK, QueuesFit, SessionsCounted, IsFiniteSet(Slots), NEW r \in Replicas
    PROVE  Allowance(r) \in Nat /\ Allowance(r) <= MaxSessions * RunRoom
<1>1. /\ Room(r) \in Nat /\ Room(r) <= RunRoom /\ (status[r] = "down" => Room(r) = 0)
      /\ RunRoom \in Nat /\ MaxSessions \in Nat /\ session[r] \in Nat
  <2>1. Room(r) \in Nat /\ Room(r) <= RunRoom /\ RunRoom \in Nat
    BY RoomBounds, PlaceCount
  <2>2. status[r] = "down" => Room(r) = 0
    BY DEF Room
  <2>3. QED
    BY <2>1, <2>2, ShardAssumption DEF TypeOK
<1>2. session[r] <= MaxSessions /\ (status[r] # "down" => session[r] >= 1)
  BY DEF SessionsCounted
<1> DEFINE n == MaxSessions - session[r]
<1>3. n \in Nat /\ n <= MaxSessions /\ (status[r] # "down" => n + 1 <= MaxSessions)
  BY <1>1, <1>2
<1>a. Allowance(r) = Room(r) + n * RunRoom
  BY DEF Allowance
<1> HIDE DEF n
<1>4. /\ n * RunRoom \in Nat /\ n * RunRoom <= MaxSessions * RunRoom
      /\ MaxSessions * RunRoom \in Nat
      /\ status[r] # "down" => n * RunRoom + RunRoom <= MaxSessions * RunRoom
  <2>1. /\ \A x \in Nat : x * RunRoom \in Nat /\ (x + 1) * RunRoom = x * RunRoom + RunRoom
        /\ \A x, y \in Nat : x <= y => x * RunRoom <= y * RunRoom
    BY <1>1, Products
  <2>2. status[r] # "down" => (n + 1) * RunRoom <= MaxSessions * RunRoom
    BY <1>1, <1>3, <2>1
  <2>3. QED
    BY <1>1, <1>3, <2>1, <2>2
<1> DEFINE x == n * RunRoom
           y == MaxSessions * RunRoom
<1>5. /\ x \in Nat /\ y \in Nat /\ x <= y /\ (status[r] # "down" => x + RunRoom <= y)
      /\ Allowance(r) = Room(r) + x
  BY <1>4, <1>a
<1> HIDE DEF x, y
<1>6. Allowance(r) \in Nat /\ Allowance(r) <= y
  BY <1>1, <1>5
<1>7. QED
  BY <1>6 DEF y

LEMMA NewRoomType ==
    ASSUME TypeOK', IsFiniteSet(Slots), NEW r \in Replicas
    PROVE  Room(r)' \in Int
<1>1. queue'[r] \in Seq(Task)
  BY DEF TypeOK
<1>2. ASSUME NEW t PROVE Changes(r, t)' \in Nat
  <2>1. Waiting(r, t)' \in SUBSET Slots
    BY DEF Waiting
  <2>2. Cardinality(Waiting(r, t)') \in Nat
    BY <2>1, FS_Subset, FS_CardinalityType
  <2>3. Cardinality(Queued(queue'[r], t)) \in Nat
    BY <1>1, QueuedType
  <2>4. AtWork(worker'[r], t) \in {0, 1}
    BY DEF AtWork
  <2>5. Changes(r, t)' = Cardinality(Waiting(r, t)') + Cardinality(Queued(queue'[r], t))
                           + AtWork(worker'[r], t)
    BY DEF Changes
  <2>6. QED
    BY <2>2, <2>3, <2>4, <2>5
<1>3. Admitted(r)' \in SUBSET Slots /\ Past(r)' \in SUBSET Slots
  BY DEF Admitted, Past
<1>4. Cardinality(Admitted(r)') \in Nat /\ Cardinality(Past(r)') \in Nat
  BY <1>3, FS_Subset, FS_CardinalityType
<1> DEFINE w == Changes(r, "WriteUrlsOnly")'
           c == Changes(r, "ReadOnly")'
           p == Cardinality(Past(r)')
           a == Cardinality(Admitted(r)')
<1>5. w \in Nat /\ c \in Nat /\ p \in Nat /\ a \in Nat
  BY <1>2, <1>4
<1>6. Room(r)' = Rooms(status'[r], type'[r], w, c, p, a)
  BY RoomIs
<1> HIDE DEF w, c, p, a
<1>7. Places * Places \in Nat /\ Places \in Nat /\ w * Places \in Nat
  BY <1>5, PlaceCount, Products
<1> DEFINE x == w * Places
           y == Places * Places
<1>8. x \in Nat /\ y \in Nat
  BY <1>7
<1>9. Rooms(status'[r], type'[r], w, c, p, a)
        \in {0, y + Places - p - w - c, x + Places - p - c, x + a}
  BY DEF Rooms, x, y
<1> HIDE DEF x, y
<1>10. QED
  BY <1>5, <1>6, <1>7, <1>8, <1>9

\* A start takes what one run can insert out of the sessions that are left.
LEMMA LifeAllowance ==
    ASSUME IInv, RangeInv, TypeOK', IsFiniteSet(Slots), NEW r \in Replicas, LifeStep(r)
    PROVE  Allowance(r)' <= Allowance(r)
<1>0. /\ TypeOK /\ QueuesFit /\ SessionsCounted /\ OnlyReadyServe
      /\ status \in [Replicas -> {"down", "booting", "ready"}]
      /\ session \in [Replicas -> Nat] /\ type \in [Replicas -> ShardType]
      /\ queue \in [Replicas -> Seq(Task)] /\ worker \in [Replicas -> Worker]
  BY DEF IInv, RangeInv, TypeOK
<1>1. /\ Room(r) \in Nat /\ Room(r)' \in Int /\ RunRoom \in Nat
      /\ MaxSessions \in Nat /\ session[r] \in Nat
  BY <1>0, RoomBounds, NewRoomType, PlaceCount, ShardAssumption
<1>2. /\ session[r] <= MaxSessions /\ MaxSessions - session[r] \in Nat
      /\ (MaxSessions - session[r]) * RunRoom \in Nat
  <2>1. session[r] <= MaxSessions /\ MaxSessions - session[r] \in Nat
    BY <1>0, <1>1 DEF SessionsCounted
  <2>2. QED
    BY <1>1, <2>1, Products
<1>3. CASE session'[r] = session[r] /\ Room(r)' <= Room(r)
  <2> DEFINE x == (MaxSessions - session[r]) * RunRoom
  <2>1. Allowance(r) = Room(r) + x /\ Allowance(r)' = Room(r)' + x /\ x \in Nat
    BY <1>2, <1>3 DEF Allowance
  <2> HIDE DEF x
  <2>2. QED
    BY <1>1, <1>3, <2>1
<1>n. ASSUME UNCHANGED <<request, queue, worker>>
      PROVE  /\ Room(r)' = Rooms(status'[r], type'[r], Changes(r, "WriteUrlsOnly"),
                                 Changes(r, "ReadOnly"), Cardinality(Past(r)),
                                 Cardinality(Admitted(r)))
             /\ Room(r) = Rooms(status[r], type[r], Changes(r, "WriteUrlsOnly"),
                                Changes(r, "ReadOnly"), Cardinality(Past(r)),
                                Cardinality(Admitted(r)))
  <2>1. \A t : Changes(r, t)' = Changes(r, t)
    BY <1>n DEF Changes, Waiting
  <2>2. Past(r)' = Past(r) /\ Admitted(r)' = Admitted(r)
    BY <1>n DEF Past, Admitted
  <2>3. QED
    BY <2>1, <2>2, RoomIs
<1>4. CASE InitializeReadMaxId(r)
  <2>1. /\ status[r] = "down" /\ session'[r] = session[r] + 1 /\ session[r] < MaxSessions
        /\ UNCHANGED <<request, queue, worker>>
    BY <1>0, <1>4 DEF InitializeReadMaxId
  <2>2. Room(r)' <= RunRoom
    <3>1. /\ Changes(r, "WriteUrlsOnly") \in Nat /\ Changes(r, "ReadOnly") \in Nat
          /\ Cardinality(Past(r)) \in Nat /\ Cardinality(Admitted(r)) \in Nat
          /\ Changes(r, "WriteUrlsOnly") + Changes(r, "ReadOnly")
               + Cardinality(Past(r)) + Cardinality(Admitted(r)) <= Places
      BY <1>0, PlacesSuffice
    <3>2. Room(r)' = Rooms(status'[r], type'[r], Changes(r, "WriteUrlsOnly"),
                           Changes(r, "ReadOnly"), Cardinality(Past(r)),
                           Cardinality(Admitted(r)))
      BY <1>n, <2>1
    <3>3. QED
      BY <3>1, <3>2, RoomsBound
  <2>3. Room(r) = 0
    BY <2>1 DEF Room
  <2> DEFINE n == MaxSessions - (session[r] + 1)
             x == n * RunRoom
  <2>4. n \in Nat /\ n + 1 = MaxSessions - session[r]
    BY <1>1, <2>1
  <2> HIDE DEF n
  <2>5. n * RunRoom \in Nat /\ (n + 1) * RunRoom = n * RunRoom + RunRoom
    BY <1>1, <2>4, Products
  <2>6. x \in Nat /\ Allowance(r) = 0 + (x + RunRoom) /\ Allowance(r)' = Room(r)' + x
    <3>1. Allowance(r) = 0 + (n + 1) * RunRoom
      BY <2>3, <2>4 DEF Allowance
    <3>2. Allowance(r)' = Room(r)' + n * RunRoom
      BY <2>1 DEF Allowance, n
    <3>3. QED
      BY <2>5, <3>1, <3>2
  <2> HIDE DEF x
  <2>7. QED
    BY <1>1, <2>2, <2>6
<1>5. CASE InitializeRegister(r)
  <2>1. /\ status[r] = "booting" /\ status'[r] = "ready" /\ session' = session /\ type' = type
        /\ UNCHANGED <<request, queue, worker>>
    BY <1>0, <1>5 DEF InitializeRegister
  <2>2. Room(r)' = Room(r)
    <3>1. \A t, w, c, p, a : Rooms("ready", t, w, c, p, a) = Rooms("booting", t, w, c, p, a)
      BY DEF Rooms
    <3>2. QED
      BY <1>n, <2>1, <3>1
  <2>3. QED
    BY <1>1, <1>3, <2>1, <2>2
<1>6. CASE Crash(r)
  <2>1. session' = session /\ status'[r] = "down"
    BY <1>0, <1>6 DEF Crash
  <2>2. Room(r)' = 0
    BY <2>1 DEF Room
  <2>3. QED
    BY <1>1, <1>3, <2>1, <2>2
<1>7. CASE \E s \in 1 .. MaxSessions : SessionExpires(r, s)
  <2>1. UNCHANGED <<status, session, type, request, queue, worker>>
    BY <1>7 DEF SessionExpires, replicaVars
  <2>2. Room(r)' = Room(r)
    BY <1>n, <2>1
  <2>3. QED
    BY <1>1, <1>3, <2>1, <2>2
<1>8. QED
  BY <1>4, <1>5, <1>6, <1>7 DEF LifeStep

\* What a replica can still insert never grows, by its own steps or by another's; an
\* id past the threshold comes out of it.
LEMMA RoomStep ==
    ASSUME IInv, RangeInv, [Next]_vars, IsFiniteSet(Slots), ~ZooKeeperFaults, ~InsertFaults,
           NEW r \in Replicas, ~LifeStep(r)
    PROVE  Room(r)' <= Room(r) /\ session'[r] = session[r]
<1>0. /\ TypeOK /\ QueuesFit /\ OnlyReadyServe /\ WorkIsOfItsKind
      /\ queue \in [Replicas -> Seq(Task)] /\ worker \in [Replicas -> Worker]
  BY DEF IInv, RangeInv, TypeOK
<1>1. Room(r) \in Nat
  BY <1>0, RoomBounds
<1>2. ASSUME status'[r] = status[r], type'[r] = type[r], worker'[r] = worker[r],
             \A k \in Slots : request'[<<r, k>>] = request[<<r, k>>],
             \A t : Cardinality(Queued(queue'[r], t)) = Cardinality(Queued(queue[r], t))
      PROVE  Room(r)' <= Room(r)
  <2>1. \A t : AtWork(worker'[r], t) = AtWork(worker[r], t)
    BY <1>2
  <2>2. ASSUME NEW t
        PROVE  /\ Cardinality(Queued(queue[r], t)') = Cardinality(Queued(queue[r], t))
               /\ AtWork(worker[r], t)' = AtWork(worker[r], t)
               /\ Cardinality(Queued(queue[r], t)) \in Nat /\ AtWork(worker[r], t) \in Nat
    <3>1. Cardinality(Queued(queue[r], t)') = Cardinality(Queued(queue'[r], t))
      OBVIOUS
    <3>2. AtWork(worker[r], t)' = AtWork(worker'[r], t)
      OBVIOUS
    <3>3. QED
      BY <1>0, <1>2, <2>1, <3>1, <3>2, WorkTypes
  <2>3. \A t \in {"WriteUrlsOnly", "ReadOnly"} :
          /\ Cardinality(Queued(queue[r], t)') + AtWork(worker[r], t)'
               = Cardinality(Queued(queue[r], t)) + AtWork(worker[r], t)
          /\ Cardinality(Queued(queue[r], t)) \in Nat /\ AtWork(worker[r], t) \in Nat
          /\ Cardinality(Queued(queue[r], t)') \in Nat /\ AtWork(worker[r], t)' \in Nat
    BY <2>2
  <2>4. Room(r)' = Room(r)
    BY <1>2, <2>3, RoomStays
  <2>5. QED
    BY <1>1, <2>4
<1>3. CASE WorkerStep(r)
  <2>1. session' = session
    BY <1>3 DEF WorkerStep, Dequeue, RunOther, ChangeTypeSame, ChangeTypeCreate,
       ChangeTypeThrows, ChangeTypeEnqueueDelete, ChangeTypeAssign, DeleteNode,
       DeleteNodeThrows, DeleteNodeRequeue, DeleteNodeFails, LogError, replicaVars
  <2>2. QED
    BY <1>0, <1>3, <2>1, WorkerRoom
<1>4. CASE OtherEnqueue(r)
  <2>1. /\ UNCHANGED <<status, session, type, request, worker>>
        /\ queue'[r] = Append(queue[r], OtherTask)
    BY <1>0, <1>4 DEF OtherEnqueue, replicaVars
  <2>2. ASSUME NEW t
        PROVE  Cardinality(Queued(queue'[r], t)) = Cardinality(Queued(queue[r], t))
    <3>1. ~IsChange(OtherTask, t) /\ OtherTask \in Task /\ queue[r] \in Seq(Task)
      BY <1>0, TaskTypes DEF IsChange, OtherTask
    <3>2. Cardinality(Queued(Append(queue[r], OtherTask), t))
            = Cardinality(Queued(queue[r], t)) + 0
      BY <3>1, QueuedAppend
    <3>3. Cardinality(Queued(queue[r], t)) \in Nat
      BY <3>1, QueuedType
    <3>4. QED
      BY <2>1, <3>2, <3>3
  <2>3. QED
    BY <1>2, <2>1, <2>2
<1>5. ASSUME NEW k \in Slots, CreateStep(r, k)
      PROVE  Room(r)' <= Room(r) /\ session'[r] = session[r]
  <2>1. session' = session
    BY <1>5 DEF CreateStep, CreateAdmit, CreateInsert, CreateReject, CreateDecide,
       CreateEnqueue, replicaVars
  <2>2. QED
    BY <1>0, <1>5, <2>1, CreateRoom
<1>6. ASSUME NEW q \in Replicas, ReplicaStep(q), q # r
      PROVE  Room(r)' <= Room(r) /\ session'[r] = session[r]
  <2>1. /\ status'[r] = status[r] /\ type'[r] = type[r] /\ worker'[r] = worker[r]
        /\ queue'[r] = queue[r] /\ session'[r] = session[r]
        /\ \A k \in Slots : request'[<<r, k>>] = request[<<r, k>>]
    BY <1>0, <1>6, OtherReplicaUnchanged, OtherCallsUnchanged
  <2>2. QED
    BY <1>2, <2>1
<1>7. CASE UNCHANGED <<zkVars, replicaVars, type, child, request, queue, worker>>
  BY <1>2, <1>7 DEF replicaVars
<1>8. QED
  BY <1>3, <1>4, <1>5, <1>6, <1>7, NextIsReplicaStep DEF ReplicaStep

LEMMA AllowanceStep ==
    ASSUME IInv, IInv', RangeInv, [Next]_vars, IsFiniteSet(Slots), ~ZooKeeperFaults,
           ~InsertFaults, NEW r \in Replicas
    PROVE  Allowance(r)' \in Int /\ Allowance(r)' <= Allowance(r)
<1>0. /\ TypeOK /\ TypeOK' /\ QueuesFit /\ SessionsCounted
      /\ session[r] \in Nat /\ session'[r] \in Nat /\ MaxSessions \in Nat
  BY ShardAssumption DEF IInv, RangeInv, TypeOK
<1>1. Room(r) \in Nat /\ Room(r)' \in Int /\ RunRoom \in Nat
  BY <1>0, RoomBounds, NewRoomType, PlaceCount
<1>2. Allowance(r)' \in Int
  <2>1. MaxSessions - session'[r] \in Int
    BY <1>0
  <2>2. (MaxSessions - session'[r]) * RunRoom \in Int
    BY <1>1, <2>1
  <2>3. Allowance(r)' = Room(r)' + (MaxSessions - session'[r]) * RunRoom
    BY DEF Allowance
  <2>4. QED
    BY <1>1, <2>2, <2>3
<1>3. CASE LifeStep(r)
  BY <1>0, <1>2, <1>3, LifeAllowance
<1>4. CASE ~LifeStep(r)
  <2> DEFINE x == (MaxSessions - session[r]) * RunRoom
  <2>1. Room(r)' <= Room(r) /\ session'[r] = session[r]
    BY <1>4, RoomStep
  <2>2. x \in Int /\ Allowance(r) = Room(r) + x /\ Allowance(r)' = Room(r)' + x
    BY <1>0, <1>1, <2>1 DEF Allowance
  <2> HIDE DEF x
  <2>3. QED
    BY <1>1, <1>2, <2>1, <2>2
<1>5. QED
  BY <1>3, <1>4

\* An id drawn from the sequence is a row's, of a replica that had room for it.
LEMMA InsertStep ==
    ASSUME IInv, IInv', RangeInv, [Next]_vars, IsFiniteSet(Slots), ~ZooKeeperFaults,
           ~InsertFaults, lastId' # lastId
    PROVE  /\ lastId' = lastId + 1
           /\ lastId >= ThresholdForNewUrls - 1 =>
                \E r \in Replicas : Allowance(r) >= 1 /\ Allowance(r)' <= Allowance(r) - 1
<1>0. /\ TypeOK /\ TypeOK' /\ QueuesFit /\ SessionsCounted /\ OnlyReadyServe /\ lastId \in Nat
      /\ session \in [Replicas -> Nat] /\ MaxSessions \in Nat
  BY ShardAssumption DEF IInv, RangeInv, TypeOK
<1>1. ASSUME NEW r \in Replicas, LifeStep(r) \/ WorkerStep(r) \/ OtherEnqueue(r) PROVE FALSE
  BY <1>1 DEF LifeStep, InitializeReadMaxId, InitializeRegister, Crash, SessionExpires,
     WorkerStep, Dequeue, RunOther, ChangeTypeSame, ChangeTypeCreate, ChangeTypeThrows,
     ChangeTypeEnqueueDelete, ChangeTypeAssign, DeleteNode, DeleteNodeThrows,
     DeleteNodeRequeue, DeleteNodeFails, LogError, OtherEnqueue, dbVars
<1>2. ~UNCHANGED vars /\ ~DeleteRows
  BY DEF vars, dbVars, DeleteRows
<1>3. PICK r \in Replicas, k \in Slots : CreateStep(r, k)
  BY <1>1, <1>2 DEF Next
<1>4. /\ CreateInsert(r, k) /\ k \in Admitted(r) /\ status[r] # "down"
      /\ lastId' = lastId + 1
      /\ lastId >= ThresholdForNewUrls - 1 => Room(r)' <= Room(r) - 1
  BY <1>0, <1>3, CreateRoom
<1>5. /\ Room(r) \in Nat /\ Room(r)' \in Int /\ RunRoom \in Nat
      /\ session'[r] = session[r] /\ session[r] \in Nat
  BY <1>0, <1>4, RoomBounds, NewRoomType, PlaceCount DEF CreateInsert, replicaVars
<1>6. Room(r) >= 1
  <2>1. IsFiniteSet(Admitted(r)) /\ Cardinality(Admitted(r)) \in Nat
    BY CallCounts
  <2>2. Cardinality(Admitted(r)) # 0
    BY <1>4, <2>1, FS_EmptySet
  <2>3. Cardinality(Admitted(r)) >= 1
    BY <2>1, <2>2
  <2>4. QED
    BY <1>0, <1>4, <2>3, RoomBounds
<1>7. lastId >= ThresholdForNewUrls - 1 =>
        Allowance(r) >= 1 /\ Allowance(r)' <= Allowance(r) - 1
  <2> DEFINE n == MaxSessions - session[r]
             x == n * RunRoom
  <2>1. n \in Nat
    BY <1>0, <1>5 DEF SessionsCounted
  <2>2. x \in Nat
    BY <1>5, <2>1, Products
  <2>3. Allowance(r) = Room(r) + x /\ Allowance(r)' = Room(r)' + x
    BY <1>5 DEF Allowance
  <2> HIDE DEF n, x
  <2>4. QED
    BY <1>4, <1>5, <1>6, <2>2, <2>3
<1>8. QED
  BY <1>4, <1>7

\* There are as many allowances as Overshoot at most.
LEMMA OvershootBounds ==
    ASSUME IsFiniteSet(Replicas), IsFiniteSet(Slots),
           NEW S \in SUBSET (Replicas \X (1 .. MaxSessions * RunRoom))
    PROVE  /\ IsFiniteSet(S) /\ Cardinality(S) \in Nat
           /\ Cardinality(S) <= Overshoot /\ Overshoot \in Nat
<1> DEFINE n == MaxSessions * RunRoom
           U == Replicas \X (1 .. n)
<1>1. n \in Nat
  BY PlaceCount
<1>2. S \in SUBSET U /\ Overshoot = Cardinality(Replicas) * n
  BY DEF Overshoot
<1> HIDE DEF n
<1>3. IsFiniteSet(1 .. n) /\ Cardinality(1 .. n) = n
  BY <1>1, IntervalCount
<1>4. IsFiniteSet(U) /\ Cardinality(U) = Cardinality(Replicas) * n
  BY <1>3, FS_Product
<1> HIDE DEF U
<1>5. /\ IsFiniteSet(S) /\ Cardinality(S) <= Cardinality(U)
      /\ Cardinality(S) \in Nat /\ Cardinality(U) \in Nat
  BY <1>2, <1>4, FS_Subset, FS_CardinalityType
<1>6. QED
  BY <1>2, <1>4, <1>5

LEMMA InsertsAreAllowedStep ==
    ASSUME IInv, IInv', RangeInv, [Next]_vars, IsFiniteSet(Replicas), IsFiniteSet(Slots),
           ~ZooKeeperFaults, ~InsertFaults
    PROVE  InsertsAreAllowed'
<1> DEFINE A == Allowances
           B == Allowances'
           T == ThresholdForNewUrls - 1
<1>0. /\ TypeOK /\ QueuesFit /\ SessionsCounted /\ lastId \in Nat /\ lastId' \in Nat
      /\ T \in Nat
      /\ lastId >= T => lastId + Cardinality(A) <= T + Overshoot
  BY ShardAssumption DEF IInv, RangeInv, TypeOK, InsertsAreAllowed
<1>1. \A r \in Replicas : /\ Allowance(r) \in Nat /\ Allowance(r) <= MaxSessions * RunRoom
                          /\ Allowance(r)' \in Int /\ Allowance(r)' <= Allowance(r)
  BY <1>0, AllowanceBounds, AllowanceStep
<1>2. MaxSessions * RunRoom \in Nat
  BY PlaceCount
<1>3. /\ A \in SUBSET (Replicas \X (1 .. MaxSessions * RunRoom))
      /\ B \in SUBSET (Replicas \X (1 .. MaxSessions * RunRoom))
  BY DEF Allowances
<1>4. B \subseteq A
  <2> SUFFICES ASSUME NEW a \in Replicas \X (1 .. MaxSessions * RunRoom),
                      a[2] <= Allowance(a[1])'
               PROVE  a[2] <= Allowance(a[1])
    BY DEF Allowances
  <2>1. a[1] \in Replicas /\ a[2] \in Int
    BY <1>2
  <2>2. QED
    BY <1>1, <2>1
<1>5. ASSUME NEW r \in Replicas, Allowance(r) >= 1, Allowance(r)' <= Allowance(r) - 1
      PROVE  <<r, Allowance(r)>> \in A /\ <<r, Allowance(r)>> \notin B
  <2>1. Allowance(r) \in 1 .. MaxSessions * RunRoom
    BY <1>1, <1>2, <1>5
  <2>2. <<r, Allowance(r)>> \in A
    BY <1>1, <2>1 DEF Allowances
  <2>3. ~(Allowance(r) <= Allowance(r)')
    BY <1>1, <1>5
  <2>4. <<r, Allowance(r)>> \notin B
    BY <2>3 DEF Allowances
  <2>5. QED
    BY <2>2, <2>4
<1>6. /\ IsFiniteSet(A) /\ IsFiniteSet(B) /\ Cardinality(A) \in Nat /\ Cardinality(B) \in Nat
      /\ Cardinality(A) <= Overshoot /\ Cardinality(B) <= Overshoot /\ Overshoot \in Nat
  BY <1>3, OvershootBounds
<1>g. InsertsAreAllowed' <=> (lastId' >= T => lastId' + Cardinality(B) <= T + Overshoot)
  BY DEF InsertsAreAllowed
<1> HIDE DEF A, B, T
<1>7. Cardinality(B) <= Cardinality(A)
  BY <1>4, <1>6, FS_Subset
<1>8. CASE lastId' = lastId
  <2>1. lastId' >= T => lastId' + Cardinality(B) <= T + Overshoot
    BY <1>0, <1>6, <1>7, <1>8
  <2>2. QED
    BY <1>g, <2>1
<1>9. CASE lastId' # lastId
  <2>1. /\ lastId' = lastId + 1
        /\ lastId >= T =>
             \E r \in Replicas : Allowance(r) >= 1 /\ Allowance(r)' <= Allowance(r) - 1
    BY <1>9, InsertStep DEF T
  <2>2. CASE lastId < T
    <3>1. lastId' >= T => lastId' + Cardinality(B) <= T + Overshoot
      BY <1>0, <1>6, <2>1, <2>2
    <3>2. QED
      BY <1>g, <3>1
  <2>3. CASE lastId >= T
    <3>1. PICK a : a \in A /\ a \notin B
      BY <1>5, <2>1, <2>3
    <3>2. B \subseteq A \ {a}
      BY <1>4, <3>1
    <3>3. IsFiniteSet(A \ {a}) /\ Cardinality(A \ {a}) = Cardinality(A) - 1
      BY <1>6, <3>1, FS_RemoveElement
    <3>4. Cardinality(B) <= Cardinality(A) - 1
      BY <3>2, <3>3, FS_Subset
    <3>5. lastId' >= T => lastId' + Cardinality(B) <= T + Overshoot
      BY <1>0, <1>6, <2>1, <2>3, <3>4
    <3>6. QED
      BY <1>g, <3>5
  <2>4. QED
    BY <1>0, <2>2, <2>3
<1>10. QED
  BY <1>8, <1>9

LEMMA InitRangeInv ==
    ASSUME IsFiniteSet(Replicas), IsFiniteSet(Slots), Init
    PROVE  RangeInv
<1>1. \A r \in Replicas : /\ queue[r] = <<>> /\ session[r] = 0 /\ status[r] = "down"
                          /\ worker[r] = IdleWorker
                          /\ \A k \in Slots : request[<<r, k>>] = NoRequest
  BY DEF Init
<1>2. OnlyReadyServe
  BY <1>1 DEF OnlyReadyServe
<1>3. SessionsCounted
  BY <1>1, ShardAssumption DEF SessionsCounted
<1>4. QueuesFit
  <2>1. Len(<<>>) = 0
    OBVIOUS
  <2>2. QED
    BY <1>1, <2>1, ShardAssumption DEF QueuesFit
<1>5. WorkIsOfItsKind
  BY <1>1 DEF WorkIsOfItsKind, Changing, IdleWorker
<1>6. IdsAreDrawn
  BY DEF Init, IdsAreDrawn, NoRequest
<1>7. InsertsAreAllowed
  <2>1. Allowances \in SUBSET (Replicas \X (1 .. MaxSessions * RunRoom))
    BY DEF Allowances
  <2>2. Cardinality(Allowances) <= Overshoot /\ Cardinality(Allowances) \in Nat
        /\ Overshoot \in Nat
    BY <2>1, OvershootBounds
  <2>3. lastId = 0 /\ ThresholdForNewUrls - 1 \in Nat
    BY ShardAssumption DEF Init
  <2>4. QED
    BY <2>2, <2>3 DEF InsertsAreAllowed
<1>8. QED
  BY <1>2, <1>3, <1>4, <1>5, <1>6, <1>7 DEF RangeInv

\* When neither ZooKeeper nor an INSERT fails, a shard inserts at most Overshoot rows
\* from the row at the threshold on, however its replicas' calls, tasks, crashes and
\* starts come between: with that much of the range kept free beyond the threshold,
\* every short id of the shard is its own.
THEOREM FailureFreeIdsStayInRange ==
    ASSUME IsFiniteSet(Replicas), IsFiniteSet(Slots), ~ZooKeeperFaults, ~InsertFaults,
           ThresholdForNewUrls - 1 + Overshoot < RangeSize
    PROVE  Spec => []IdsStayInRange
<1>1. Init => RangeInv
  BY InitRangeInv
<1>2. IInv /\ IInv' /\ RangeInv /\ [Next]_vars => RangeInv'
  <2> SUFFICES ASSUME IInv, IInv', RangeInv, [Next]_vars PROVE RangeInv'
    OBVIOUS
  <2>1. TypeOK /\ OnlyReadyServe /\ SessionsCounted /\ QueuesFit /\ WorkIsOfItsKind
        /\ IdsAreDrawn
    BY DEF IInv, RangeInv
  <2>2. QED
    BY <2>1, OnlyReadyServeStep, SessionsCountedStep, QueuesFitStep, WorkIsOfItsKindStep,
       IdsAreDrawnStep, InsertsAreAllowedStep DEF RangeInv
<1>3. IInv /\ RangeInv => IdsStayInRange
  <2> SUFFICES ASSUME IInv, RangeInv, NEW c \in Replicas \X Slots
               PROVE  request[c].id < RangeSize
    BY DEF IdsStayInRange
  <2>1. request[c].id \in Nat /\ lastId \in Nat /\ request[c].id <= lastId
    BY DEF IInv, TypeOK, RangeInv, IdsAreDrawn, Request
  <2>2. Allowances \in SUBSET (Replicas \X (1 .. MaxSessions * RunRoom))
    BY DEF Allowances
  <2>3. Cardinality(Allowances) \in Nat /\ Overshoot \in Nat
    BY <2>2, OvershootBounds
  <2>4. ThresholdForNewUrls - 1 \in Nat /\ RangeSize \in Nat
    BY ShardAssumption
  <2>5. lastId >= ThresholdForNewUrls - 1 =>
          lastId + Cardinality(Allowances) <= ThresholdForNewUrls - 1 + Overshoot
    BY DEF RangeInv, InsertsAreAllowed
  <2>6. QED
    BY <2>1, <2>3, <2>4, <2>5
<1>4. QED
  BY <1>1, <1>2, <1>3, InductiveInvariant, PTL DEF Spec

===============================================================================

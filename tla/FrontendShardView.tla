--------------------------- MODULE FrontendShardView ---------------------------
(***************************************************************************)
(* How a frontend follows the nodes that the shards' replicas publish in   *)
(* ZooKeeper.  At the start it subscribes to the children of the path,     *)
(* then reads them once and applies what it read; every later change       *)
(* reaches it through a watch.  From Shortener.Shared/Services/            *)
(* ShardService.cs and ZookeeperService.cs, and FrontendShared's           *)
(* StartupBackgroundService.                                               *)
(*                                                                         *)
(* A node is its shard and type: the replica's name and the sequence       *)
(* number in the node's path tell the view nothing.  The client library    *)
(* (Rabbit.Zookeeper) is modelled as ZookeeperService uses it: a watch     *)
(* fires once, its event reads the children and arms the watch again       *)
(* before the handler runs, and events are handled one by one.             *)
(***************************************************************************)
EXTENDS Naturals, Sequences

CONSTANTS
    Shards,     \* the shards, by the id in their nodes' names
    MaxChanges  \* bound: the changes of the nodes

ASSUME ViewAssumption == MaxChanges \in Nat

VARIABLES
    past,     \* the states of the nodes so far, the current one last
    watch,    \* whether the watch on the children is armed
    fired,    \* whether an event waits to be handled
    handler,  \* the handler of an event, and the state of the nodes it read
    startup,  \* ShardService.Initialize, and the states it read and ended in
    view,     \* the sets of ShardService
    viewAt    \* history: the index in past the view comes from

clientVars == <<watch, fired>>
viewVars == <<view, viewAt>>
vars == <<past, clientVars, handler, startup, viewVars>>

\* A replica always publishes one of these; ShardType.Uninitialized is the
\* type of a replica that has no node yet.
ShardType == {"ReadOnly", "ReadWrite", "WriteUrlsOnly"}
ChildNode == [shard: Shards, type: ShardType]

Now == Len(past)

Idle == [pc |-> "idle", at |-> 0]
NotStarted == [pc |-> "start", since |-> 0, at |-> 0, finishedAt |-> 0]
EmptyView == [onlineShards |-> {}, shardIdsForNewUsers |-> {}, shardIdsForNewUrls |-> {}]

Init ==
    /\ \E nodes \in SUBSET ChildNode : past = <<nodes>>
    /\ watch = FALSE /\ fired = FALSE
    /\ handler = Idle /\ startup = NotStarted
    /\ view = EmptyView /\ viewAt = 0

-------------------------------------------------------------------------------
(* The nodes, and ShardService.UpdateShards *)

\* Mutant: the children instead of their shards.
ShardsWith_Children(nodes, type) == {m \in nodes : m.type = type}

ShardsWith(nodes, type) == {n.shard : n \in {m \in nodes : m.type = type}}

\* Mutant: a shard with a read-only replica still takes new links.
UpdateShards_IgnoresReadOnly(nodes) ==
    [onlineShards |-> {n.shard : n \in nodes},
     shardIdsForNewUsers |-> ShardsWith(nodes, "ReadWrite")
         \ (ShardsWith(nodes, "ReadOnly") \union ShardsWith(nodes, "WriteUrlsOnly")),
     shardIdsForNewUrls |-> ShardsWith(nodes, "ReadWrite")
         \union ShardsWith(nodes, "WriteUrlsOnly")]

\* The new view: the sets are built from nothing, under the write lock.
UpdateShards(nodes) ==
    LET readWrite == ShardsWith(nodes, "ReadWrite") \ ShardsWith(nodes, "ReadOnly")
        writeUrlsOnly == ShardsWith(nodes, "WriteUrlsOnly") \ ShardsWith(nodes, "ReadOnly")
    IN [onlineShards |-> {n.shard : n \in nodes},
        shardIdsForNewUsers |-> readWrite \ ShardsWith(nodes, "WriteUrlsOnly"),
        shardIdsForNewUrls |-> readWrite \union writeUrlsOnly]

\* What the frontend's code asks of the view; GetShardIdForNewUser takes one of
\* these at random.
IsOnline(s) == s \in view.onlineShards
MayBeChosenForNewUser(s) == s \in view.shardIdsForNewUsers
CanShardCreateNewUrl(s) == s \in view.shardIdsForNewUrls

\* A replica creates a node or deletes one, or its session ends.
NodesChange(n) ==
    /\ Now <= MaxChanges
    /\ LET nodes == past[Now]
       IN past' = Append(past, IF n \in nodes THEN nodes \ {n} ELSE nodes \union {n})
    /\ watch' = FALSE /\ fired' = (fired \/ watch)
    /\ UNCHANGED <<handler, startup, viewVars>>

-------------------------------------------------------------------------------
(* ShardService.Initialize *)

\* OnChildrenChanged.
Subscribe ==
    /\ startup.pc = "start"
    /\ startup' = [startup EXCEPT !.pc = "subscribed", !.since = Now]
    /\ watch' = TRUE
    /\ UNCHANGED <<past, fired, handler, viewVars>>

\* Mutant: the children are read before the subscription.
GetChildren_First ==
    /\ startup.pc = "start"
    /\ startup' = [startup EXCEPT !.pc = "read", !.since = Now, !.at = Now]
    /\ UNCHANGED <<past, clientVars, handler, viewVars>>

\* The answer may be overtaken by an event on its way to UpdateShards.
GetChildren ==
    /\ startup.pc = "subscribed"
    /\ startup' = [startup EXCEPT !.pc = "read", !.at = Now]
    /\ UNCHANGED <<past, clientVars, handler, viewVars>>

InitializeUpdate ==
    /\ startup.pc = "read"
    /\ startup' = [startup EXCEPT !.pc = "done", !.finishedAt = Now]
    /\ view' = UpdateShards(past[startup.at]) /\ viewAt' = startup.at
    /\ UNCHANGED <<past, clientVars, handler>>

-------------------------------------------------------------------------------
(* The handler of ChildrenChanged events *)

\* Mutant: the event's handler does not arm the watch again.
HandleEvent_Once ==
    /\ fired /\ handler.pc = "idle"
    /\ handler' = [pc |-> "apply", at |-> Now]
    /\ fired' = FALSE
    /\ UNCHANGED <<past, watch, startup, viewVars>>

HandleEvent ==
    /\ fired /\ handler.pc = "idle"
    /\ handler' = [pc |-> "apply", at |-> Now]
    /\ fired' = FALSE /\ watch' = TRUE
    /\ UNCHANGED <<past, startup, viewVars>>

HandlerUpdate ==
    /\ handler.pc = "apply"
    /\ handler' = Idle
    /\ view' = UpdateShards(past[handler.at]) /\ viewAt' = handler.at
    /\ UNCHANGED <<past, clientVars, startup>>

\* The frontend stops at any point, or Initialize throws and stops it, and it is
\* started again.
Restart ==
    /\ startup.pc # "start"
    /\ watch' = FALSE /\ fired' = FALSE
    /\ handler' = Idle /\ startup' = NotStarted
    /\ view' = EmptyView /\ viewAt' = 0
    /\ UNCHANGED past

-------------------------------------------------------------------------------
Next ==
    \/ \E n \in ChildNode : NodesChange(n)
    \/ Subscribe \/ GetChildren \/ InitializeUpdate
    \/ HandleEvent \/ HandlerUpdate
    \/ Restart

\* What the process has begun it ends; nothing makes nodes change or processes
\* stop.
Fairness ==
    /\ WF_vars(GetChildren) /\ WF_vars(InitializeUpdate)
    /\ WF_vars(HandleEvent) /\ WF_vars(HandlerUpdate)

Spec == Init /\ [][Next]_vars /\ Fairness

-------------------------------------------------------------------------------
(* Properties *)

\* Types of all variables: what was read is a state the nodes have had.
TypeOK ==
    /\ past \in Seq(SUBSET ChildNode) /\ past # <<>>
    /\ watch \in BOOLEAN /\ fired \in BOOLEAN
    /\ handler \in [pc: {"idle", "apply"}, at: Nat]
    /\ handler.pc = "apply" => handler.at \in DOMAIN past
    /\ startup \in [pc: {"start", "subscribed", "read", "done"},
                    since: Nat, at: Nat, finishedAt: Nat]
    /\ startup.pc # "start" => startup.since \in DOMAIN past
    /\ startup.pc \in {"read", "done"} => startup.at \in DOMAIN past
    /\ view \in [onlineShards: SUBSET Shards, shardIdsForNewUsers: SUBSET Shards,
                 shardIdsForNewUrls: SUBSET Shards]
    /\ viewAt \in {0} \union DOMAIN past

\* Initialize subscribes before it reads, and each event's handler arms the
\* watch before it applies what it read: once Initialize has returned and a
\* change has followed, a view that is behind always has an event or a handler
\* on its way to renew it.
BehindIsBeingRenewed ==
    /\ startup.pc = "done" /\ viewAt < Now /\ Now > startup.finishedAt
    => fired \/ (handler.pc = "apply" /\ handler.at = Now)

\* Whether the last update that Initialize could have overtaken is applied.
Settled ==
    /\ startup.pc = "done"
    /\ ~(handler.pc = "apply" /\ handler.at < viewAt)

Directory == INSTANCE ShardDirectory WITH
    opened <- IF startup.pc = "start" THEN 0 ELSE startup.since,
    settled <- Settled,
    shown <- viewAt,
    answers <- [online   |-> {s \in Shards : IsOnline(s)},
                newUsers |-> {s \in Shards : MayBeChosenForNewUser(s)},
                newUrls  |-> {s \in Shards : CanShardCreateNewUrl(s)}]

\* The code that asks sees one state of the nodes since the subscription, offers
\* exactly the shards all of whose replicas accept, and is not taken back to an
\* older state once the updates of the start are over.
ImplementsDirectory == Directory!Spec

\* A change after Initialize has returned makes the view current in the end,
\* whatever came late before.
ViewCatchesUp ==
    startup.pc = "done" /\ Now > startup.finishedAt
        ~> viewAt = Now \/ startup.pc = "start"

\* Inductive invariant: beside the types, the view is that of the state it comes
\* from; nothing older than the subscription is on its way; a subscribed process
\* has the watch armed or its event waiting; and an armed watch means that the
\* handler has read the current state, unless Initialize wrote after it.
IInv ==
    /\ TypeOK
    /\ view = IF viewAt = 0 THEN EmptyView ELSE UpdateShards(past[viewAt])
    /\ startup.pc = "start" => ~watch /\ ~fired /\ handler = Idle /\ viewAt = 0
    /\ startup.pc # "start" => watch = ~fired
    /\ viewAt # 0 => viewAt >= startup.since
    /\ handler.pc = "apply" => handler.at >= startup.since
    /\ startup.pc \in {"read", "done"} => startup.at >= startup.since
    /\ startup.pc = "done" => viewAt # 0
    /\ watch /\ handler.pc = "apply" => handler.at = Now
    /\ startup.pc = "done" /\ watch /\ handler.pc = "idle" /\ Now > startup.finishedAt
       => viewAt = Now
===============================================================================

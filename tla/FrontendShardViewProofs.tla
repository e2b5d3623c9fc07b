------------------------ MODULE FrontendShardViewProofs ------------------------
(***************************************************************************)
(* For any set of shards and any number of changes: a view that is behind  *)
(* after Initialize has returned and a change has followed is always being *)
(* renewed, and what the frontend's code sees is what ShardDirectory       *)
(* promises.  IInv carries both; the refinement needs from it that the     *)
(* view is that of the state viewAt points to and that nothing older than  *)
(* the subscription is on its way.                                         *)
(***************************************************************************)
EXTENDS FrontendShardView, TLAPS

\* A change of the nodes adds a state and leaves the earlier ones as they were.
LEMMA ChangeAppends ==
    ASSUME TypeOK, NEW n \in ChildNode, NodesChange(n)
    PROVE  /\ past' \in Seq(SUBSET ChildNode) /\ past' # <<>>
           /\ Now \in Nat \ {0} /\ Now' = Now + 1
           /\ \A i \in DOMAIN past : i \in DOMAIN past' /\ past'[i] = past[i]
  <1> DEFINE nodes == past[Now]
             changed == IF n \in nodes THEN nodes \ {n} ELSE nodes \union {n}
  <1>1. past \in Seq(SUBSET ChildNode) /\ past # <<>> /\ Now \in Nat \ {0}
    BY DEF TypeOK, Now
  <1>2. nodes \in SUBSET ChildNode
    BY <1>1 DEF Now
  <1>3. changed \in SUBSET ChildNode
    BY <1>2
  <1>4. past' = Append(past, changed)
    BY DEF NodesChange
  <1> HIDE DEF changed
  <1> QED
    BY <1>1, <1>3, <1>4 DEF Now

LEMMA UpdateShardsType ==
    ASSUME NEW nodes \in SUBSET ChildNode
    PROVE  UpdateShards(nodes) \in [onlineShards: SUBSET Shards,
                shardIdsForNewUsers: SUBSET Shards, shardIdsForNewUrls: SUBSET Shards]
  <1>1. \A n \in nodes : n.shard \in Shards
    BY DEF ChildNode
  <1>2. {n.shard : n \in nodes} \in SUBSET Shards
    BY <1>1
  <1>3. \A type \in ShardType : ShardsWith(nodes, type) \in SUBSET Shards
    BY <1>1 DEF ShardsWith
  <1> QED
    BY <1>2, <1>3 DEF UpdateShards, ShardType

-------------------------------------------------------------------------------
(* The invariant *)

LEMMA InitInductive == Init => IInv
  <1> SUFFICES ASSUME Init PROVE IInv
    OBVIOUS
  <1>1. PICK nodes \in SUBSET ChildNode : past = <<nodes>>
    BY DEF Init
  <1>2. past \in Seq(SUBSET ChildNode) /\ past # <<>>
    BY <1>1
  <1>3. TypeOK
    BY <1>2 DEF Init, TypeOK, Idle, NotStarted, EmptyView
  <1> QED
    BY <1>3 DEF Init, IInv, Idle, NotStarted, EmptyView

LEMMA NodesChangeInductive ==
    ASSUME IInv, NEW n \in ChildNode, NodesChange(n)
    PROVE  IInv'
  <1>1. TypeOK
    BY DEF IInv
  <1>2. /\ past' \in Seq(SUBSET ChildNode) /\ past' # <<>>
        /\ Now \in Nat \ {0} /\ Now' = Now + 1
        /\ \A i \in DOMAIN past : i \in DOMAIN past' /\ past'[i] = past[i]
    BY <1>1, ChangeAppends
  <1>3. UNCHANGED <<handler, startup, view, viewAt>> /\ watch' = FALSE
        /\ fired' = (fired \/ watch)
    BY DEF NodesChange, viewVars
  <1>4. TypeOK'
    BY <1>1, <1>2, <1>3 DEF TypeOK
  <1>5. viewAt # 0 => viewAt \in DOMAIN past
    BY <1>1 DEF TypeOK
  <1>6. view' = IF viewAt' = 0 THEN EmptyView ELSE UpdateShards(past'[viewAt'])
    BY <1>2, <1>3, <1>5 DEF IInv
  <1> QED
    BY <1>1, <1>2, <1>3, <1>4, <1>6 DEF IInv, TypeOK

LEMMA StartupInductive ==
    ASSUME IInv, Subscribe \/ GetChildren
    PROVE  IInv'
  <1>1. /\ past' = past /\ Now' = Now /\ Now \in Nat \ {0} /\ Now \in DOMAIN past
        /\ UNCHANGED <<fired, handler, view, viewAt>>
        /\ startup.since \in Nat /\ startup.at \in Nat /\ startup.finishedAt \in Nat
    BY DEF IInv, TypeOK, Subscribe, GetChildren, clientVars, viewVars, Now
  <1>2. CASE Subscribe
    <2>1. /\ startup.pc = "start" /\ handler = Idle /\ viewAt = 0 /\ watch = FALSE
          /\ fired = FALSE /\ watch' = TRUE
          /\ startup' = [startup EXCEPT !.pc = "subscribed", !.since = Now]
      BY <1>2 DEF Subscribe, IInv, TypeOK
    <2>2. TypeOK'
      BY <1>1, <2>1 DEF IInv, TypeOK, Idle
    <2>3. startup'.pc = "subscribed"
      BY <2>1 DEF IInv, TypeOK
    <2> QED
      BY <1>1, <2>1, <2>2, <2>3 DEF IInv, Idle
  <1>3. CASE GetChildren
    <2>1. startup.since <= Now
      BY <1>3, <1>1 DEF IInv, TypeOK, GetChildren, Now
    <2>2. /\ startup.pc = "subscribed" /\ UNCHANGED watch
          /\ startup' = [startup EXCEPT !.pc = "read", !.at = Now]
      BY <1>3 DEF GetChildren, clientVars
    <2>3. TypeOK'
      BY <1>1, <2>2 DEF IInv, TypeOK
    <2>4. startup'.pc = "read" /\ startup'.since = startup.since /\ startup'.at = Now
      BY <2>2 DEF IInv, TypeOK
    <2> QED
      BY <1>1, <2>1, <2>2, <2>3, <2>4 DEF IInv
  <1> QED
    BY <1>2, <1>3

\* The two steps that call UpdateShards with a state read before.
LEMMA UpdateInductive ==
    ASSUME IInv, InitializeUpdate \/ HandlerUpdate
    PROVE  IInv'
  <1>0. /\ past' = past /\ Now' = Now /\ Now \in Nat \ {0} /\ UNCHANGED <<watch, fired>>
        /\ startup.since \in Nat /\ startup.at \in Nat /\ startup.finishedAt \in Nat
        /\ past \in Seq(SUBSET ChildNode)
    BY DEF IInv, TypeOK, InitializeUpdate, HandlerUpdate, clientVars, Now
  <1>1. CASE InitializeUpdate
    <2>1. startup.at \in DOMAIN past /\ startup.at # 0 /\ startup.at >= startup.since
      BY <1>0, <1>1 DEF IInv, TypeOK, InitializeUpdate
    <2>2. past[startup.at] \in SUBSET ChildNode
      BY <1>0, <2>1
    <2>3. view' = UpdateShards(past[startup.at]) /\ viewAt' = startup.at /\ handler' = handler
          /\ startup' = [startup EXCEPT !.pc = "done", !.finishedAt = Now]
      BY <1>1 DEF InitializeUpdate
    <2>4. TypeOK'
      BY <1>0, <1>1, <2>1, <2>2, <2>3, UpdateShardsType
         DEF IInv, TypeOK, InitializeUpdate
    <2> QED
      BY <1>0, <1>1, <2>1, <2>3, <2>4 DEF IInv, TypeOK, InitializeUpdate
  <1>2. CASE HandlerUpdate
    <2>1. handler.at \in DOMAIN past /\ handler.at # 0 /\ handler.at >= startup.since
      BY <1>0, <1>2 DEF IInv, TypeOK, HandlerUpdate
    <2>2. past[handler.at] \in SUBSET ChildNode
      BY <1>0, <2>1
    <2>3. view' = UpdateShards(past[handler.at]) /\ viewAt' = handler.at /\ handler' = Idle
          /\ startup' = startup
      BY <1>2 DEF HandlerUpdate
    <2>4. TypeOK'
      BY <1>0, <1>2, <2>1, <2>2, <2>3, UpdateShardsType
         DEF IInv, TypeOK, HandlerUpdate, Idle
    <2> QED
      BY <1>0, <1>2, <2>1, <2>3, <2>4 DEF IInv, TypeOK, HandlerUpdate, Idle
  <1> QED
    BY <1>1, <1>2

LEMMA HandleEventInductive ==
    ASSUME IInv, HandleEvent
    PROVE  IInv'
  <1>1. /\ past' = past /\ Now' = Now /\ Now \in Nat \ {0} /\ Now \in DOMAIN past
        /\ UNCHANGED <<startup, view, viewAt>> /\ watch' = TRUE /\ fired' = FALSE
        /\ handler' = [pc |-> "apply", at |-> Now]
    BY DEF IInv, TypeOK, HandleEvent, viewVars, Now
  <1>2. startup.pc # "start"
    BY DEF IInv, HandleEvent
  <1>3. startup.since <= Now
    BY <1>1, <1>2 DEF IInv, TypeOK, Now
  <1> QED
    BY <1>1, <1>2, <1>3 DEF IInv, TypeOK

LEMMA RestartInductive ==
    ASSUME IInv, Restart
    PROVE  IInv'
  <1>1. past' = past /\ Now' = Now
    BY DEF Restart, Now
  <1> QED
    BY <1>1 DEF IInv, TypeOK, Restart, Idle, NotStarted, EmptyView

LEMMA NextInductive == IInv /\ [Next]_vars => IInv'
  <1> SUFFICES ASSUME IInv, [Next]_vars PROVE IInv'
    OBVIOUS
  <1>1. ASSUME NEW n \in ChildNode, NodesChange(n) PROVE IInv'
    BY <1>1, NodesChangeInductive
  <1>2. CASE Subscribe \/ GetChildren
    BY <1>2, StartupInductive
  <1>3. CASE InitializeUpdate \/ HandlerUpdate
    BY <1>3, UpdateInductive
  <1>4. CASE HandleEvent
    BY <1>4, HandleEventInductive
  <1>5. CASE Restart
    BY <1>5, RestartInductive
  <1>6. CASE UNCHANGED vars
    BY <1>6 DEF IInv, TypeOK, vars, clientVars, viewVars, Now
  <1> QED
    BY <1>1, <1>2, <1>3, <1>4, <1>5, <1>6 DEF Next

\* IInv holds always: nothing older than the subscription is on its way, and a
\* watch that is armed saw the current state.
THEOREM InductiveInvariant == Spec => []IInv
  <1> QED
    BY InitInductive, NextInductive, PTL DEF Spec

\* Every reachable state of a frontend's view is well typed.
THEOREM TypeCorrect == Spec => []TypeOK
  <1>1. IInv => TypeOK
    BY DEF IInv
  <1> QED
    BY <1>1, InductiveInvariant, PTL

\* A frontend whose view is behind after a later change has a renewal under way,
\* whatever the order in which Initialize and the handlers ran.
THEOREM BehindViewsAreRenewed == Spec => []BehindIsBeingRenewed
  <1>1. ASSUME IInv, startup.pc = "done", viewAt < Now, Now > startup.finishedAt, ~fired
        PROVE  handler.pc = "apply" /\ handler.at = Now
    <2>1. watch /\ handler.pc \in {"idle", "apply"}
      BY <1>1 DEF IInv, TypeOK
    <2>2. viewAt # Now
      BY <1>1 DEF IInv, TypeOK, Now
    <2> QED
      BY <1>1, <2>1, <2>2 DEF IInv
  <1>2. IInv => BehindIsBeingRenewed
    BY <1>1 DEF BehindIsBeingRenewed
  <1> QED
    BY <1>2, InductiveInvariant, PTL

-------------------------------------------------------------------------------
(* The refinement *)

\* What the frontend's code is answered from a view.
AnswersFrom(v) ==
    [online   |-> {s \in Shards : s \in v.onlineShards},
     newUsers |-> {s \in Shards : s \in v.shardIdsForNewUsers},
     newUrls  |-> {s \in Shards : s \in v.shardIdsForNewUrls}]

\* UpdateShards, which sorts the shards into sets and subtracts them, offers the
\* shards all of whose replicas accept.
LEMMA UpdateShardsOffers ==
    ASSUME NEW nodes \in SUBSET ChildNode
    PROVE  AnswersFrom(UpdateShards(nodes)) = Directory!Offers(nodes)
  <1> DEFINE U == UpdateShards(nodes)
             O == Directory!Offers(nodes)
  <1>t. \A n \in nodes : n.shard \in Shards /\ n.type \in {"ReadOnly", "ReadWrite", "WriteUrlsOnly"}
    BY DEF ChildNode, ShardType
  <1>w. \A s, type : s \in ShardsWith(nodes, type) <=> \E n \in nodes : n.type = type /\ n.shard = s
    BY DEF ShardsWith
  <1>ro. \A s : s \in ShardsWith(nodes, "ReadOnly") <=> \E n \in nodes : n.type = "ReadOnly" /\ n.shard = s
    BY <1>w
  <1>rw. \A s : s \in ShardsWith(nodes, "ReadWrite") <=> \E n \in nodes : n.type = "ReadWrite" /\ n.shard = s
    BY <1>w
  <1>wu. \A s : s \in ShardsWith(nodes, "WriteUrlsOnly") <=> \E n \in nodes : n.type = "WriteUrlsOnly" /\ n.shard = s
    BY <1>w
  <1>1. {s \in Shards : s \in U.onlineShards} = O.online
    <2>1. \A s : s \in U.onlineShards <=> \E n \in nodes : n.shard = s
      BY DEF UpdateShards
    <2>2. \A s \in Shards : s \in O.online <=> \E n \in nodes : n.shard = s
      BY <1>t DEF Directory!Offers, Directory!AllOf, Directory!Published
    <2>3. O.online \subseteq Shards
      BY DEF Directory!Offers, Directory!AllOf
    <2> HIDE DEF U, O
    <2> QED
      BY <2>1, <2>2, <2>3
  <1>2. {s \in Shards : s \in U.shardIdsForNewUsers} = O.newUsers
    <2>1. \A s : s \in U.shardIdsForNewUsers <=>
                   /\ s \in ShardsWith(nodes, "ReadWrite")
                   /\ s \notin ShardsWith(nodes, "ReadOnly")
                   /\ s \notin ShardsWith(nodes, "WriteUrlsOnly")
      BY DEF UpdateShards
    <2>2. \A s \in Shards : s \in O.newUsers <=>
                   /\ \E n \in nodes : n.shard = s
                   /\ \A n \in nodes : n.shard = s => n.type = "ReadWrite"
      BY DEF Directory!Offers, Directory!AllOf
    <2>3. O.newUsers \subseteq Shards
      BY DEF Directory!Offers, Directory!AllOf
    <2> HIDE DEF U, O
    <2>4. \A s \in Shards : s \in U.shardIdsForNewUsers <=> s \in O.newUsers
      <3> SUFFICES ASSUME NEW s \in Shards
                   PROVE  s \in U.shardIdsForNewUsers <=> s \in O.newUsers
        OBVIOUS
      <3>1. (\A n \in nodes : n.shard = s => n.type = "ReadWrite")
              <=> s \notin ShardsWith(nodes, "ReadOnly") /\ s \notin ShardsWith(nodes, "WriteUrlsOnly")
        BY <1>t, <1>ro, <1>wu
      <3>2. s \in ShardsWith(nodes, "ReadWrite") => \E n \in nodes : n.shard = s
        BY <1>rw
      <3>3. (\E n \in nodes : n.shard = s) /\ (\A n \in nodes : n.shard = s => n.type = "ReadWrite")
              => s \in ShardsWith(nodes, "ReadWrite")
        BY <1>rw
      <3> QED
        BY <2>1, <2>2, <3>1, <3>2, <3>3
    <2> QED
      BY <2>3, <2>4
  <1>3. {s \in Shards : s \in U.shardIdsForNewUrls} = O.newUrls
    <2>1. \A s : s \in U.shardIdsForNewUrls <=>
                   /\ \/ s \in ShardsWith(nodes, "ReadWrite")
                      \/ s \in ShardsWith(nodes, "WriteUrlsOnly")
                   /\ s \notin ShardsWith(nodes, "ReadOnly")
      BY DEF UpdateShards
    <2>2. \A s \in Shards : s \in O.newUrls <=>
                   /\ \E n \in nodes : n.shard = s
                   /\ \A n \in nodes : n.shard = s => n.type \in {"ReadWrite", "WriteUrlsOnly"}
      BY DEF Directory!Offers, Directory!AllOf
    <2>3. O.newUrls \subseteq Shards
      BY DEF Directory!Offers, Directory!AllOf
    <2> HIDE DEF U, O
    <2>4. \A s \in Shards : s \in U.shardIdsForNewUrls <=> s \in O.newUrls
      <3> SUFFICES ASSUME NEW s \in Shards
                   PROVE  s \in U.shardIdsForNewUrls <=> s \in O.newUrls
        OBVIOUS
      <3> DEFINE writes == \/ s \in ShardsWith(nodes, "ReadWrite")
                           \/ s \in ShardsWith(nodes, "WriteUrlsOnly")
                 accept == \A n \in nodes : n.shard = s => n.type \in {"ReadWrite", "WriteUrlsOnly"}
      <3>1. accept <=> s \notin ShardsWith(nodes, "ReadOnly")
        BY <1>t, <1>ro
      <3>2. writes => \E n \in nodes : n.shard = s
        BY <1>rw, <1>wu
      <3>3. (\E n \in nodes : n.shard = s) /\ accept => writes
        BY <1>rw, <1>wu
      <3> QED
        BY <2>1, <2>2, <3>1, <3>2, <3>3
    <2> QED
      BY <2>3, <2>4
  <1>4. O = [online |-> O.online, newUsers |-> O.newUsers, newUrls |-> O.newUrls]
    BY DEF Directory!Offers
  <1> QED
    BY <1>1, <1>2, <1>3, <1>4 DEF AnswersFrom

\* Before anything is applied nothing is offered.
LEMMA EmptyViewOffers == AnswersFrom(EmptyView) = Directory!Nothing
  BY DEF AnswersFrom, EmptyView, Directory!Nothing, Directory!Offers, Directory!AllOf

LEMMA InitRefines == Init => Directory!Init
  <1> SUFFICES ASSUME Init PROVE Directory!Init
    OBVIOUS
  <1>1. \E nodes \in SUBSET Directory!Node : past = <<nodes>>
    BY DEF Init, ChildNode, ShardType, Directory!Node, Directory!Published
  <1>2. AnswersFrom(view) = Directory!Nothing
    BY EmptyViewOffers DEF Init
  <1> QED
    BY <1>1, <1>2 DEF Init, Directory!Init, AnswersFrom, Settled, NotStarted,
                      IsOnline, MayBeChosenForNewUser, CanShardCreateNewUrl

\* Applying a state that was read since the subscription is Show, or nothing when
\* that state is shown already.
LEMMA UpdateRefines ==
    ASSUME IInv, InitializeUpdate \/ HandlerUpdate
    PROVE  [Directory!Next]_(Directory!vars)
  <1>0. past' = past /\ past \in Seq(SUBSET ChildNode) /\ startup.since \in Nat \ {0}
        /\ startup.pc # "start" /\ startup'.pc # "start" /\ startup'.since = startup.since
    <2>1. past' = past /\ past \in Seq(SUBSET ChildNode) /\ startup.pc # "start"
      BY DEF InitializeUpdate, HandlerUpdate, IInv, TypeOK, Idle
    <2>2. startup.since \in Nat \ {0}
      BY <2>1 DEF IInv, TypeOK
    <2>3. startup'.pc # "start" /\ startup'.since = startup.since
      BY <2>1 DEF InitializeUpdate, HandlerUpdate, IInv, TypeOK
    <2> QED
      BY <2>1, <2>2, <2>3
  <1>1. CASE InitializeUpdate
    <2>1. /\ startup.at \in DOMAIN past /\ startup.at >= startup.since /\ ~Settled
          /\ viewAt' = startup.at /\ view' = UpdateShards(past[startup.at])
      BY <1>1 DEF InitializeUpdate, IInv, TypeOK, Settled
    <2>2. AnswersFrom(view') = Directory!Offers(past[startup.at])
      BY <1>0, <2>1, UpdateShardsOffers
    <2>3. Settled' \in {Settled, TRUE}
      BY <2>1 DEF Settled
    <2>4. Directory!Show(startup.at)
      BY <1>0, <2>1, <2>2, <2>3
         DEF Directory!Show, AnswersFrom, IsOnline, MayBeChosenForNewUser, CanShardCreateNewUrl
    <2> QED
      BY <2>1, <2>4 DEF Directory!Next
  <1>2. CASE HandlerUpdate
    <2>1. /\ handler.at \in DOMAIN past /\ handler.at >= startup.since /\ handler.at \in Nat
          /\ viewAt' = handler.at /\ view' = UpdateShards(past[handler.at])
          /\ handler'.pc = "idle" /\ startup' = startup /\ handler.pc = "apply" /\ viewAt \in Nat
      BY <1>2 DEF HandlerUpdate, IInv, TypeOK, Idle
    <2>2. AnswersFrom(view') = Directory!Offers(past[handler.at])
      BY <1>0, <2>1, UpdateShardsOffers
    <2>3. Settled' = (startup.pc = "done") /\ (Settled => Settled')
      BY <2>1 DEF Settled
    <2>4. CASE Settled => handler.at > viewAt
      <3>1. Settled' \in {Settled, TRUE}
        BY <2>1, <2>3 DEF Settled
      <3>2. Directory!Show(handler.at)
        BY <1>0, <2>1, <2>2, <2>4, <3>1
           DEF Directory!Show, AnswersFrom, IsOnline, MayBeChosenForNewUser, CanShardCreateNewUrl
      <3> QED
        BY <2>1, <3>2 DEF Directory!Next
    <2>5. CASE Settled /\ ~(handler.at > viewAt)
      <3>1. handler.at = viewAt /\ viewAt # 0
        BY <1>0, <2>1, <2>5 DEF Settled
      <3>2. view' = view /\ viewAt' = viewAt /\ Settled' = Settled
        BY <2>1, <2>3, <2>5, <3>1 DEF IInv, Settled
      <3> QED
        BY <1>0, <2>1, <3>2 DEF Directory!vars, IsOnline, MayBeChosenForNewUser, CanShardCreateNewUrl
    <2> QED
      BY <2>4, <2>5
  <1> QED
    BY <1>1, <1>2

LEMMA NextRefines == IInv /\ [Next]_vars => [Directory!Next]_(Directory!vars)
  <1> SUFFICES ASSUME IInv, [Next]_vars PROVE [Directory!Next]_(Directory!vars)
    OBVIOUS
  <1>1. ASSUME NEW n \in ChildNode, NodesChange(n) PROVE Directory!Next
    <2>1. UNCHANGED <<handler, startup, view, viewAt>> /\ n \in Directory!Node
      BY <1>1 DEF NodesChange, viewVars, ChildNode, ShardType, Directory!Node, Directory!Published
    <2>2. Len(past) <= MaxChanges
          /\ past' = Append(past, Directory!Toggled(n, past[Len(past)]))
      BY <1>1 DEF NodesChange, Now, Directory!Toggled
    <2>3. Directory!Change
      BY <2>1, <2>2 DEF Directory!Change, Settled, IsOnline, MayBeChosenForNewUser, CanShardCreateNewUrl
    <2> QED
      BY <2>3 DEF Directory!Next
  <1>2. CASE Subscribe
    <2>1. UNCHANGED <<past, handler, view, viewAt>> /\ startup.pc = "start"
          /\ startup'.pc = "subscribed" /\ startup'.since = Len(past)
      BY <1>2 DEF Subscribe, viewVars, IInv, TypeOK, Now
    <2>2. Directory!Open
      BY <2>1 DEF Directory!Open, Settled, IsOnline, MayBeChosenForNewUser, CanShardCreateNewUrl
    <2> QED
      BY <2>2 DEF Directory!Next
  <1>3. CASE GetChildren
    <2>1. UNCHANGED <<past, handler, view, viewAt>> /\ startup.pc = "subscribed"
          /\ startup'.pc = "read" /\ startup'.since = startup.since
      BY <1>3 DEF GetChildren, viewVars, IInv, TypeOK
    <2> QED
      BY <2>1 DEF Directory!vars, Settled, IsOnline, MayBeChosenForNewUser, CanShardCreateNewUrl
  <1>4. CASE InitializeUpdate \/ HandlerUpdate
    BY <1>4, UpdateRefines
  <1>5. CASE HandleEvent
    <2>1. /\ UNCHANGED <<past, startup, view, viewAt>> /\ handler.pc = "idle"
          /\ handler' = [pc |-> "apply", at |-> Now] /\ viewAt <= Now /\ viewAt \in Nat /\ Now \in Nat
      BY <1>5 DEF HandleEvent, viewVars, IInv, TypeOK, Now
    <2>2. Settled' = Settled
      BY <2>1 DEF Settled
    <2> QED
      BY <2>1, <2>2 DEF Directory!vars, IsOnline, MayBeChosenForNewUser, CanShardCreateNewUrl
  <1>6. CASE Restart
    <2>1. past' = past /\ startup'.pc = "start" /\ viewAt' = 0 /\ view' = EmptyView
      BY <1>6 DEF Restart, NotStarted
    <2>2. AnswersFrom(view') = Directory!Nothing
      BY <2>1, EmptyViewOffers
    <2>3. Directory!Close
      BY <2>1, <2>2 DEF Directory!Close, Settled, AnswersFrom,
                        IsOnline, MayBeChosenForNewUser, CanShardCreateNewUrl
    <2> QED
      BY <2>3 DEF Directory!Next
  <1>7. CASE UNCHANGED vars
    BY <1>7 DEF vars, viewVars, Directory!vars, Settled, IsOnline, MayBeChosenForNewUser,
                CanShardCreateNewUrl
  <1> QED
    BY <1>1, <1>2, <1>3, <1>4, <1>5, <1>6, <1>7 DEF Next

\* The frontend's view is a shard directory: its answers are those of a state the
\* nodes have had since the subscription, offer the shards all of whose replicas
\* accept, and once settled never go back.
THEOREM ViewIsDirectory == Spec => ImplementsDirectory
  <1>1. Spec => Init /\ [][Next]_vars
    BY DEF Spec
  <1> QED
    BY <1>1, InductiveInvariant, InitRefines, NextRefines, PTL
       DEF ImplementsDirectory, Directory!Spec
===============================================================================

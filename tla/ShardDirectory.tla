---------------------------- MODULE ShardDirectory -----------------------------
(***************************************************************************)
(* What a frontend's list of shards promises the code that asks it.  The   *)
(* replicas of the shards publish nodes; the directory answers from a      *)
(* state that the nodes have had since it was opened, and once it has      *)
(* settled it only moves forward.  How it learns of changes is not said.   *)
(* FrontendShardView implements it.                                        *)
(*                                                                         *)
(* What a state of the nodes offers is defined by what the backends take:  *)
(* UserService.Create refuses unless the replica is ReadWrite, and a       *)
(* ReadOnly replica refuses UrlService.Create.                             *)
(***************************************************************************)
EXTENDS Naturals, Sequences

CONSTANTS
    Shards,     \* the shards, by the id in their nodes' names
    MaxChanges  \* bound: the changes of the nodes

VARIABLES
    past,     \* the states of the nodes so far, the current one last
    opened,   \* the answers come from no older state than this; 0 when closed
    settled,  \* whether the directory moves forward only
    shown,    \* the index in past the answers come from, 0 before the first
    answers   \* the shards that are online, take new users and new links

vars == <<past, opened, settled, shown, answers>>

\* The types a replica publishes, and a node by its shard and type.
Published == {"ReadOnly", "ReadWrite", "WriteUrlsOnly"}
Node == [shard: Shards, type: Published]

\* The shards that have replicas, each of one of the types: any of them may be
\* sent the call, since the client balances over the shard's DNS name.
AllOf(nodes, types) ==
    {s \in Shards : /\ \E n \in nodes : n.shard = s
                    /\ \A n \in nodes : n.shard = s => n.type \in types}

Offers(nodes) ==
    [online   |-> AllOf(nodes, Published),
     newUsers |-> AllOf(nodes, {"ReadWrite"}),
     newUrls  |-> AllOf(nodes, {"ReadWrite", "WriteUrlsOnly"})]

Nothing == Offers({})

Toggled(n, nodes) == IF n \in nodes THEN nodes \ {n} ELSE nodes \union {n}

-------------------------------------------------------------------------------
Init ==
    /\ \E nodes \in SUBSET Node : past = <<nodes>>
    /\ opened = 0 /\ settled = FALSE
    /\ shown = 0 /\ answers = Nothing

\* A node is created or deleted.
Change ==
    /\ Len(past) <= MaxChanges
    /\ \E n \in Node : past' = Append(past, Toggled(n, past[Len(past)]))
    /\ UNCHANGED <<opened, settled, shown, answers>>

Open ==
    /\ opened = 0
    /\ opened' = Len(past)
    /\ UNCHANGED <<past, settled, shown, answers>>

Show(i) ==
    /\ opened # 0 /\ i >= opened
    /\ settled => i > shown
    /\ settled' \in {settled, TRUE}
    /\ shown' = i /\ answers' = Offers(past[i])
    /\ UNCHANGED <<past, opened>>

Close ==
    /\ opened' = 0 /\ settled' = FALSE
    /\ shown' = 0 /\ answers' = Nothing
    /\ UNCHANGED past

Next == Change \/ Open \/ (\E i \in DOMAIN past : Show(i)) \/ Close

Spec == Init /\ [][Next]_vars
===============================================================================

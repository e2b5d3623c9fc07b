---------------------------- MODULE CountAggregation ----------------------------
(***************************************************************************)
(* An administrator asks how many links each shard has to a domain: Admin  *)
(* publishes a request, the replicas of the shards consume it, and those   *)
(* that are masters put their shard's count into a hash of the cache, from *)
(* which Admin answers.  From Admin/Services/UrlService.cs and             *)
(* GrpcBackend/Consumers/GetUrlCountConsumer.cs and Program.cs.  External: *)
(* MassTransit, which gives the consumers of one name one queue however    *)
(* many processes they run in, delivers a message to one of them, again if *)
(* its process ends, and moves it to the error queue when Consume throws.  *)
(***************************************************************************)
EXTENDS Integers, FiniteSets

CONSTANTS
    Shards,      \* the shards
    Pods,        \* the replicas of each shard
    MaxRequests  \* bound: the requests

VARIABLES
    master,   \* the master of each shard, if there is one (Election)
    asked,    \* how many requests Admin has published
    queue,    \* the requests to be delivered, with the shards they can go to
    consumer, \* what each replica is doing with which request
    hash,     \* the shards that have an entry, their count, in the hash Url-Count
    answers,  \* history: the entries written, by request and shard
    again     \* history: the requests delivered again

vars == <<master, asked, queue, consumer, hash, answers, again>>

Replicas == Shards \X Pods
ShardOf(r) == r[1]

None == {}

Init ==
    /\ master = [s \in Shards |-> None]
    /\ asked = 0 /\ queue = {}
    /\ consumer = [r \in Replicas |-> None]
    /\ hash = {} /\ answers = {} /\ again = {}

-------------------------------------------------------------------------------
(* Admin *)

\* Mutant: each shard has a queue of its own.
Deliveries_EachShard(n) == {[request |-> n, to |-> {s}] : s \in Shards}

\* One queue, from which any replica takes the request.
Deliveries(n) == {[request |-> n, to |-> Shards]}

MakeCountAggregation ==
    /\ asked < MaxRequests /\ asked' = asked + 1
    /\ queue' = queue \union Deliveries(asked + 1)
    /\ UNCHANGED <<master, consumer, hash, answers, again>>

\* What an administrator sees; Admin's own view of the shards is never
\* initialized, so that OnlineShards adds none.
GetAggregatedCounts == hash

-------------------------------------------------------------------------------
(* GetUrlCountConsumer *)

Receive(r) ==
    /\ consumer[r] = None
    /\ \E m \in queue :
           /\ ShardOf(r) \in m.to
           /\ queue' = queue \ {m}
           /\ consumer' = [consumer EXCEPT ![r] = {[message |-> m, step |-> "received"]}]
    /\ UNCHANGED <<master, asked, hash, answers, again>>

Consuming(r, step) == \E c \in consumer[r] : c.step = step

Goes(r, step) == consumer' = [consumer EXCEPT ![r] = {[c EXCEPT !.step = step] : c \in @}]

\* IsMaster: a replica that is not lets the request be consumed all the same.
IsMaster(r) ==
    /\ Consuming(r, "received")
    /\ Goes(r, IF r \in master[ShardOf(r)] THEN "counting" ELSE "consumed")
    /\ UNCHANGED <<master, asked, queue, hash, answers, again>>

SetHash(r) ==
    /\ Consuming(r, "counting") /\ Goes(r, "consumed")
    /\ hash' = hash \union {ShardOf(r)}
    /\ answers' = answers \union
          {[request |-> c.message.request, shard |-> ShardOf(r)] : c \in consumer[r]}
    /\ UNCHANGED <<master, asked, queue, again>>

Acknowledge(r) ==
    /\ Consuming(r, "consumed")
    /\ consumer' = [consumer EXCEPT ![r] = None]
    /\ UNCHANGED <<master, asked, queue, hash, answers, again>>

\* ZooKeeper, Postgres or Redis fails: the request goes to the error queue.
ConsumeThrows(r) ==
    /\ Consuming(r, "received") \/ Consuming(r, "counting")
    /\ consumer' = [consumer EXCEPT ![r] = None]
    /\ UNCHANGED <<master, asked, queue, hash, answers, again>>

\* The replica stops: the request is delivered again.
ReplicaCrash(r) ==
    /\ consumer[r] # None
    /\ queue' = queue \union {c.message : c \in consumer[r]}
    /\ again' = again \union {c.message.request : c \in consumer[r]}
    /\ consumer' = [consumer EXCEPT ![r] = None]
    /\ UNCHANGED <<master, asked, hash, answers>>

\* Five minutes after the last entry was set.
HashExpires ==
    /\ hash # {} /\ hash' = {}
    /\ UNCHANGED <<master, asked, queue, consumer, answers, again>>

Elected(s) ==
    /\ \E p \in Pods : master' = [master EXCEPT ![s] = {<<s, p>>}]
    /\ UNCHANGED <<asked, queue, consumer, hash, answers, again>>

Resigned(s) ==
    /\ master' = [master EXCEPT ![s] = None]
    /\ UNCHANGED <<asked, queue, consumer, hash, answers, again>>

Next ==
    \/ MakeCountAggregation \/ HashExpires
    \/ \E r \in Replicas :
          \/ Receive(r) \/ IsMaster(r) \/ SetHash(r) \/ Acknowledge(r)
          \/ ConsumeThrows(r) \/ ReplicaCrash(r)
    \/ \E s \in Shards : Elected(s) \/ Resigned(s)

Spec == Init /\ [][Next]_vars

-------------------------------------------------------------------------------
(* Properties *)

Message == [request: 1 .. asked, to: SUBSET Shards]
Consumption == [message: Message, step: {"received", "counting", "consumed"}]

\* Every variable has its type.
TypeOK ==
    /\ master \in [Shards -> SUBSET Replicas] /\ asked \in 0 .. MaxRequests
    /\ queue \subseteq Message
    /\ consumer \in [Replicas -> SUBSET Consumption]
    /\ hash \subseteq Shards /\ answers \subseteq [request: 1 .. asked, shard: Shards]
    /\ again \subseteq 1 .. asked

\* What README.md:20 calls multicast reaches one shard: whoever is master meanwhile,
\* a request is answered by two shards only if it was delivered again, and else an
\* administrator sees at most as many counts as he has asked.
OneShardAnswers ==
    /\ \A a, b \in answers :
           a.request = b.request /\ a.request \notin again => a.shard = b.shard
    /\ again = {} => Cardinality(GetAggregatedCounts) <= asked
===============================================================================

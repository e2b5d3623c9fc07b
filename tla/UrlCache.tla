------------------------------- MODULE UrlCache -------------------------------
(***************************************************************************)
(* What Redis holds of one link while its row changes: the destination     *)
(* that Shortener.RedirectFrontend follows (Url-Mapping), the statistics   *)
(* that the other frontends show (Url-Stats) and the pages of its owner's  *)
(* links (the hash User:...).  A frontend reads the cache and asks a       *)
(* replica of the shard on a miss; the replica reads Postgres and leaves   *)
(* the fill, or the removals after a change, to its background queue.      *)
(*                                                                         *)
(* From GrpcBackend/Services/UrlService.cs, UserService.cs, BackendShared  *)
(* CacheUtils.cs, Shared CacheService.cs, RedirectFrontend                 *)
(* RedirectService.cs and FrontendShared UrlService.cs.  Of the row only   *)
(* the destination is kept; visits are the subject of VisitCounting.       *)
(***************************************************************************)
EXTENDS Integers, Sequences, FiniteSets, Functions

CONSTANTS
    Replicas,      \* the pods of the shard
    Slots,         \* the calls about this link one replica serves at once
    Capacity,      \* capacity of a replica's background task queue
    Destinations,  \* the destinations the link may have
    Pages,         \* the pages that would list the link
    Ttl,           \* lifetime of a cache key, in units of Elapse
    Faults,        \* whether replicas stop and cache operations throw
    UserDeletion,  \* whether the owner may be deleted
    MaxUpdates     \* bound: the times the destination is overwritten

Entries == {"mapping", "stats"} \union Pages

\* All pages of a user are fields of one Redis hash: they expire and are
\* removed together.
Groups == {"mapping", "stats", "pages"}
Group(e) == IF e \in Pages THEN "pages" ELSE e

NoRow == {"unborn", "deleted", "userDeleted"}
Data == Destinations \union {"none", "unlisted"}

ASSUME UrlCacheAssumption ==
    /\ Capacity \in Nat \ {0} /\ Ttl \in Nat \ {0} /\ MaxUpdates \in Nat
    /\ Faults \in BOOLEAN /\ UserDeletion \in BOOLEAN
    /\ Pages \intersect {"mapping", "stats", "pages"} = {}
    /\ Destinations \intersect ({"none", "unlisted"} \union NoRow) = {}

VARIABLES
    row,      \* the link's destination in Postgres, or why there is no row
    updates,  \* UPDATEs so far
    cache,    \* what each cache entry holds, "none" when it is absent
    left,     \* what is left of each key's lifetime
    call,     \* the call in each slot of each replica
    queue     \* BackgroundTaskQueue of each replica

dbVars == <<row, updates>>
cacheVars == <<cache, left>>
vars == <<dbVars, cacheVars, call, queue>>

Task == [op: {"set", "remove", "other"}, entry: Entries \union Groups, data: Data]
SetTask(e, d) == [op |-> "set", entry |-> e, data |-> d]
RemoveTask(g) == [op |-> "remove", entry |-> g, data |-> "none"]
OtherTask == [op |-> "other", entry |-> "mapping", data |-> "none"]

\* A call has missed in the cache (pc = "missed") or has the tasks in todo
\* still to enqueue before it returns (pc = "enqueue").
Call == [pc: {"idle", "missed", "enqueue"}, entry: Entries, todo: Seq(Task)]
NoCall == [pc |-> "idle", entry |-> "mapping", todo |-> <<>>]
Enqueueing(tasks) == [pc |-> "enqueue", entry |-> "mapping", todo |-> tasks]

Init ==
    /\ row = "unborn" /\ updates = 0
    /\ cache = [e \in Entries |-> "none"] /\ left = [g \in Groups |-> 0]
    /\ call = [c \in Replicas \X Slots |-> NoCall]
    /\ queue = [r \in Replicas |-> <<>>]

-------------------------------------------------------------------------------
(* Reading the link *)

\* A frontend finds nothing in the cache and calls the shard; a hit changes
\* nothing here, the lifetime of the key included.
CacheMiss(c, e) ==
    /\ call[c].pc = "idle" /\ cache[e] = "none"
    /\ call' = [call EXCEPT ![c] = [NoCall EXCEPT !.pc = "missed", !.entry = e]]
    /\ UNCHANGED <<dbVars, cacheVars, queue>>

\* Redirect also counts the visit, before it fills the cache.
Fill(e, d) == IF e = "mapping" THEN <<OtherTask, SetTask(e, d)>> ELSE <<SetTask(e, d)>>

\* What GetByUserId lists: the owner has other links as well, so that a page is
\* empty, and answered NotFound, only once the owner is deleted.
Listed == IF row \in Destinations THEN {row}
          ELSE IF row = "userDeleted" THEN {} ELSE {"unlisted"}

Found(e) == IF e \in Pages THEN Listed ELSE {row} \intersect Destinations

ReadRow(c) ==
    /\ call[c].pc = "missed"
    /\ \/ /\ Found(call[c].entry) = {}
          /\ call' = [call EXCEPT ![c] = NoCall]
       \/ \E d \in Found(call[c].entry) :
             call' = [call EXCEPT ![c] = Enqueueing(Fill(call[c].entry, d))]
    /\ UNCHANGED <<dbVars, cacheVars, queue>>

-------------------------------------------------------------------------------
(* Changing the link *)

\* Create enqueues nothing for the cache.
Create ==
    /\ row = "unborn"
    /\ row' \in Destinations
    /\ UNCHANGED <<updates, cacheVars, call, queue>>

\* Mutant: Update and Delete forget the pages of the owner.
Removals_NoPages == <<RemoveTask("mapping"), RemoveTask("stats")>>

Removals == <<RemoveTask("mapping"), RemoveTask("stats"), RemoveTask("pages")>>

\* Mutant: an upsert.
UpdateRow_Upsert(c) ==
    /\ call[c].pc = "idle" /\ updates < MaxUpdates
    /\ row' \in Destinations /\ updates' = updates + 1
    /\ call' = [call EXCEPT ![c] = Enqueueing(Removals)]
    /\ UNCHANGED <<cacheVars, queue>>

\* The three removals follow whether or not the UPDATE matched a row.
UpdateRow(c) ==
    /\ call[c].pc = "idle" /\ updates < MaxUpdates
    /\ row' \in IF row \in Destinations THEN Destinations ELSE {row}
    /\ updates' = updates + 1
    /\ call' = [call EXCEPT ![c] = Enqueueing(Removals)]
    /\ UNCHANGED <<cacheVars, queue>>

DeleteRow(c) ==
    /\ call[c].pc = "idle"
    /\ row' = IF row \in Destinations THEN "deleted" ELSE row
    /\ call' = [call EXCEPT ![c] = Enqueueing(Removals)]
    /\ UNCHANGED <<updates, cacheVars, queue>>

\* Update or Delete by somebody else: no row matches, and the pages removed are
\* the caller's own.
ForeignChange(c) ==
    /\ call[c].pc = "idle"
    /\ call' = [call EXCEPT ![c] =
                   Enqueueing(<<RemoveTask("mapping"), RemoveTask("stats"), OtherTask>>)]
    /\ UNCHANGED <<dbVars, cacheVars, queue>>

\* UserService.Delete: the rows go with their owner, nothing is enqueued.
DeleteUser ==
    /\ UserDeletion /\ row # "userDeleted"
    /\ row' = "userDeleted"
    /\ UNCHANGED <<updates, cacheVars, call, queue>>

-------------------------------------------------------------------------------
(* The queue and the cache *)

EnqueueNext(c) ==
    /\ call[c].pc = "enqueue" /\ Len(queue[c[1]]) < Capacity
    /\ queue' = [queue EXCEPT ![c[1]] = Append(@, Head(call[c].todo))]
    /\ call' = [call EXCEPT ![c] =
                   IF Len(@.todo) = 1 THEN NoCall ELSE Enqueueing(Tail(@.todo))]
    /\ UNCHANGED <<dbVars, cacheVars>>

\* Mutant: the value is written without a lifetime.
SetEntry_NoExpiry(e, d) ==
    /\ cache' = [cache EXCEPT ![e] = d]
    /\ left' = [left EXCEPT ![Group(e)] = 0]

\* Mutant: the lifetime is added to what is left of the old one.
SetEntry_Adds(e, d) ==
    /\ cache' = [cache EXCEPT ![e] = d]
    /\ left' = [left EXCEPT ![Group(e)] = @ + Ttl]

\* SetString and SetHash start the key's lifetime anew: filling one page
\* prolongs all of them.
SetEntry(e, d) ==
    /\ cache' = [cache EXCEPT ![e] = d]
    /\ left' = [left EXCEPT ![Group(e)] = Ttl]

RemoveGroup(g) ==
    /\ cache' = [e \in Entries |-> IF Group(e) = g THEN "none" ELSE cache[e]]
    /\ left' = [left EXCEPT ![g] = 0]

\* The consumer takes a task and runs it.
RunTask(r) ==
    /\ queue[r] # <<>>
    /\ queue' = [queue EXCEPT ![r] = Tail(@)]
    /\ LET t == Head(queue[r])
       IN  \/ t.op = "set" /\ SetEntry(t.entry, t.data)
           \/ t.op = "remove" /\ RemoveGroup(t.entry)
           \/ t.op = "other" /\ UNCHANGED cacheVars
    /\ UNCHANGED <<dbVars, call>>

\* Redis throws: the consumer logs it and the task is lost.
RunTaskThrows(r) ==
    /\ Faults /\ queue[r] # <<>>
    /\ queue' = [queue EXCEPT ![r] = Tail(@)]
    /\ UNCHANGED <<dbVars, cacheVars, call>>

\* The replica stops: its calls fail where they are and its queue is lost.
Crash(r) ==
    /\ Faults
    /\ queue' = [queue EXCEPT ![r] = <<>>]
    /\ call' = [c \in Replicas \X Slots |-> IF c[1] = r THEN NoCall ELSE call[c]]
    /\ UNCHANGED <<dbVars, cacheVars>>

Elapse(g) ==
    /\ left[g] > 0
    /\ \/ left[g] > 1 /\ left' = [left EXCEPT ![g] = @ - 1] /\ UNCHANGED cache
       \/ left[g] = 1 /\ RemoveGroup(g)
    /\ UNCHANGED <<dbVars, call, queue>>

CallStep(c) ==
    \/ \E e \in Entries : CacheMiss(c, e)
    \/ ReadRow(c)
    \/ UpdateRow(c) \/ DeleteRow(c) \/ ForeignChange(c)
    \/ EnqueueNext(c)

Next ==
    \/ Create \/ DeleteUser
    \/ \E c \in Replicas \X Slots : CallStep(c)
    \/ \E r \in Replicas : RunTask(r) \/ RunTaskThrows(r) \/ Crash(r)
    \/ \E g \in Groups : Elapse(g)

Spec == Init /\ [][Next]_vars

\* Keys of Redis expire.  Nothing is assumed of the calls and the queue, whose consumer
\* may wait for itself for good (module ShardLifecycle, WedgedForGood).
Fairness == \A g \in Groups : WF_vars(Elapse(g))

FairSpec == Spec /\ Fairness

-------------------------------------------------------------------------------
(* Properties *)

\* Every variable has its type.
TypeOK ==
    /\ row \in Destinations \union NoRow /\ updates \in Nat
    /\ cache \in [Entries -> Data] /\ left \in [Groups -> 0 .. Ttl]
    /\ call \in [Replicas \X Slots -> Call]
    /\ queue \in [Replicas -> Seq(Task)]

\* The cache shows a destination that the link no longer has.
Outdated(e) == cache[e] \in Destinations /\ cache[e] # row

\* The tasks that are queued or still to be enqueued by a call.
Pending ==
    (UNION {Range(queue[r]) : r \in Replicas})
      \union (UNION {Range(call[c].todo) : c \in Replicas \X Slots})

\* When one slot of one replica makes all calls about a link, nothing fails and the
\* user stays, an outdated entry is always about to be removed: the queue's order keeps
\* a fill from overtaking the removal that a later Update or Delete enqueued.  (A second
\* replica's queue keeps no such order, even if calls do not overlap.)
OutdatedIsBeingRemoved ==
    \A e \in Entries : Outdated(e) => RemoveTask(Group(e)) \in Pending

\* Some fill of e with a destination is under way.
FillPending(e) == \E t \in Pending : t.op = "set" /\ t.entry = e /\ t.data \in Destinations

Dead == row \in {"deleted", "userDeleted"}

\* Once the row is gone, an entry that does not show it and has no fill under
\* way never shows it again: whatever overlaps, stops or fails, the deleted
\* link does not come back.
GoneForGood ==
    [][\A e \in Entries :
          Dead /\ cache[e] \notin Destinations /\ ~FillPending(e)
             => (Dead /\ cache[e] \notin Destinations /\ ~FillPending(e))']_vars

\* When the row has stopped changing the cache comes to agree with it for good,
\* although fills may overtake removals and removals be lost: what is outdated
\* expires, and no fill read before the last change remains.
EventuallyCurrent == <>[](\A e \in Entries : ~Outdated(e))

\* The inductive invariant behind GoneForGood: a call returns with its last
\* task, so that one which still enqueues has a task left.
IInv ==
    /\ TypeOK
    /\ \A c \in Replicas \X Slots : call[c].pc = "enqueue" => call[c].todo # <<>>

\* The inductive invariant behind OutdatedIsBeingRemoved, while c makes the only
\* calls.  Its tasks, in the order in which they run:
Line(c) == queue[c[1]] \o call[c].todo

RemovedAfter(i, s, e) == \E j \in i + 1 .. Len(s) : s[j] = RemoveTask(Group(e))

OldFill(t, e, d) == t.op = "set" /\ t.entry = e /\ t.data \in Destinations \ {d}

\* An entry that is outdated, or will be by a fill, is removed later in the line.
Serial(c) ==
    /\ call[c].pc # "enqueue" => call[c].todo = <<>>
    /\ \A e \in Entries : Outdated(e) => RemovedAfter(0, Line(c), e)
    /\ \A e \in Entries, i \in 1 .. Len(Line(c)) :
          OldFill(Line(c)[i], e, row) => RemovedAfter(i, Line(c), e)

SerialInv == \A c \in Replicas \X Slots : Serial(c)
===============================================================================

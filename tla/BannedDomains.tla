----------------------------- MODULE BannedDomains -----------------------------
(***************************************************************************)
(* The list of banned domains.  Shortener.Admin keeps it in Postgres and   *)
(* caches single answers in Redis; every shard's Create and Update asks    *)
(* DomainService.IsBanned, which trusts a cached TRUE and otherwise calls  *)
(* an Admin replica.  From GrpcBackend/Services/DomainService.cs,          *)
(* UrlService.cs, Admin/Services/AdminService.cs, BannedDomainService.cs   *)
(* and Admin/Repositories/BannedDomainRepository.cs.                       *)
(*                                                                         *)
(* One domain is modelled, under the spellings by which an administrator   *)
(* may ban it.  A link's domain is Uri.Host, always the lower-case one.    *)
(***************************************************************************)
EXTENDS Integers, Sequences, FiniteSets

CONSTANTS
    Spellings,  \* the names, equal but for case, the domain may be banned by
    Host,       \* the one among them that Uri.Host returns
    Admins,     \* the replicas of Shortener.Admin
    Checks,     \* the Create and Update calls that may run at once, any shard's
    Capacity,   \* capacity of an Admin replica's background task queue
    Faults,     \* whether calls fail, replicas stop and cache operations throw
    MaxChanges  \* bound: the Ban and Unban requests

ASSUME BannedDomainsAssumption ==
    /\ Host \in Spellings
    /\ Capacity \in Nat \ {0} /\ MaxChanges \in Nat
    /\ Faults \in BOOLEAN

VARIABLES
    table,    \* the names in the table BannedDomain
    changes,  \* Ban and Unban requests so far
    cache,    \* what Redis holds under Domain:name, "none" when absent
    expires,  \* the keys of Redis that have a lifetime
    check,    \* the IsBanned question of each Create or Update call
    admin,    \* the name for which a Ban or Unban has yet to enqueue the removal
    queue     \* BackgroundTaskQueue of each Admin replica

dbVars == <<table, changes>>
cacheVars == <<cache, expires>>
vars == <<dbVars, cacheVars, check, admin, queue>>

Answer == {"banned", "allowed"}

Task == [op: {"set", "remove"}, name: Spellings, data: Answer \union {"none"}]
SetTask(n, a) == [op |-> "set", name |-> n, data |-> a]
RemoveTask(n) == [op |-> "remove", name |-> n, data |-> "none"]

\* A call asks ("asking"), has its answer read by an Admin replica that has yet
\* to enqueue the cache update ("read"), or has passed the check and inserts
\* its row ("passed").  throughout is for the properties: the names that were
\* banned all the time since the call began.
Check == [pc: {"idle", "asking", "read", "passed"}, at: Admins \union {"none"},
          answer: Answer, throughout: SUBSET Spellings]
NoCheck == [pc |-> "idle", at |-> "none", answer |-> "allowed", throughout |-> {}]

Init ==
    /\ table \in SUBSET Spellings /\ changes = 0
    /\ cache = [n \in Spellings |-> "none"] /\ expires = {}
    /\ check = [c \in Checks |-> NoCheck]
    /\ admin = [a \in Admins |-> "none"]
    /\ queue = [a \in Admins |-> <<>>]

-------------------------------------------------------------------------------
(* DomainService.IsBanned and the call it is part of *)

\* A banned domain rejects the call, which leaves no trace here.
Answered(answer, throughout) ==
    IF answer = "banned" THEN NoCheck
    ELSE [NoCheck EXCEPT !.pc = "passed", !.throughout = throughout]

\* Mutant: any cached answer is trusted.
TrustedAnswers_Any == Answer

\* cachedBanned.HasValue && cachedBanned.Value
TrustedAnswers == {"banned"}

CheckStart(c) ==
    /\ check[c].pc = "idle"
    /\ \/ /\ cache[Host] \in TrustedAnswers
          /\ check' = [check EXCEPT ![c] = Answered(cache[Host], table)]
       \/ /\ cache[Host] \notin TrustedAnswers
          /\ check' = [check EXCEPT ![c] = [NoCheck EXCEPT !.pc = "asking", !.throughout = table]]
    /\ UNCHANGED <<dbVars, cacheVars, admin, queue>>

\* AdminService.IsBanned reads the table at replica a.
AdminRead(c, a) ==
    /\ check[c].pc = "asking"
    /\ check' = [check EXCEPT ![c] =
          [@ EXCEPT !.pc = "read", !.at = a,
                    !.answer = IF Host \in table THEN "banned" ELSE "allowed"]]
    /\ UNCHANGED <<dbVars, cacheVars, admin, queue>>

HasRoom(a) == Len(queue[a]) < Capacity

\* It enqueues the cache update and replies.
AdminReply(c) ==
    /\ check[c].pc = "read"
    /\ HasRoom(check[c].at)
    /\ queue' = [queue EXCEPT ![check[c].at] = Append(@, SetTask(Host, check[c].answer))]
    /\ check' = [check EXCEPT ![c] = Answered(@.answer, @.throughout)]
    /\ UNCHANGED <<dbVars, cacheVars, admin>>

\* The row is inserted or updated, long after the check as it may be.
Accept(c) ==
    /\ check[c].pc = "passed"
    /\ check' = [check EXCEPT ![c] = NoCheck]
    /\ UNCHANGED <<dbVars, cacheVars, admin, queue>>

\* The call fails: the cache or the RPC throws, or its process stops.
CheckFails(c) ==
    /\ Faults /\ check[c].pc # "idle"
    /\ check' = [check EXCEPT ![c] = NoCheck]
    /\ UNCHANGED <<dbVars, cacheVars, admin, queue>>

-------------------------------------------------------------------------------
(* Ban, Unban and the Admin replicas' queues *)

\* The INSERT does nothing when the name is there; the removal follows anyway.
Ban(a, n) ==
    /\ admin[a] = "none" /\ changes < MaxChanges
    /\ table' = table \union {n} /\ changes' = changes + 1
    /\ admin' = [admin EXCEPT ![a] = n]
    /\ UNCHANGED <<cacheVars, check, queue>>

Unban(a, n) ==
    /\ admin[a] = "none" /\ changes < MaxChanges
    /\ table' = table \ {n} /\ changes' = changes + 1
    /\ admin' = [admin EXCEPT ![a] = n]
    /\ check' = [c \in Checks |-> [check[c] EXCEPT !.throughout = @ \ {n}]]
    /\ UNCHANGED <<cacheVars, queue>>

\* Mutant: the removal is enqueued again and again.
RemoveDomainInBackground_Repeats(a) ==
    /\ HasRoom(a)
    /\ queue' = [queue EXCEPT ![a] = Append(@, RemoveTask(admin[a]))]
    /\ admin' = [admin EXCEPT ![a] = "none"]
    /\ UNCHANGED <<dbVars, cacheVars, check>>

RemoveDomainInBackground(a) ==
    /\ admin[a] # "none" /\ HasRoom(a)
    /\ queue' = [queue EXCEPT ![a] = Append(@, RemoveTask(admin[a]))]
    /\ admin' = [admin EXCEPT ![a] = "none"]
    /\ UNCHANGED <<dbVars, cacheVars, check>>

\* Mutant: the answer is cached without a lifetime.
SetAnswer_NoExpiry(n, a) ==
    /\ cache' = [cache EXCEPT ![n] = a]
    /\ expires' = expires \ {n}

SetAnswer(n, a) ==
    /\ cache' = [cache EXCEPT ![n] = a]
    /\ expires' = expires \union {n}

Absent(n) ==
    /\ cache' = [cache EXCEPT ![n] = "none"]
    /\ expires' = expires \ {n}

RunTask(a) ==
    /\ queue[a] # <<>>
    /\ queue' = [queue EXCEPT ![a] = Tail(@)]
    /\ LET t == Head(queue[a])
       IN  \/ t.op = "set" /\ SetAnswer(t.name, t.data)
           \/ t.op = "remove" /\ Absent(t.name)
    /\ UNCHANGED <<dbVars, check, admin>>

\* Redis throws, the consumer logs it and the task is lost.
RunTaskThrows(a) ==
    /\ Faults /\ queue[a] # <<>>
    /\ queue' = [queue EXCEPT ![a] = Tail(@)]
    /\ UNCHANGED <<dbVars, cacheVars, check, admin>>

\* An Admin replica stops: its queue and the removal it had yet to enqueue are
\* lost; a backend it was answering asks again (RetryPolicy), or gives up.
AdminCrash(a) ==
    /\ Faults
    /\ queue' = [queue EXCEPT ![a] = <<>>]
    /\ admin' = [admin EXCEPT ![a] = "none"]
    /\ check' = [c \in Checks |->
                    IF check[c].pc = "read" /\ check[c].at = a
                    THEN [check[c] EXCEPT !.pc = "asking"] ELSE check[c]]
    /\ UNCHANGED <<dbVars, cacheVars>>

Expire(n) == n \in expires /\ Absent(n) /\ UNCHANGED <<dbVars, check, admin, queue>>

CheckStep(c) ==
    \/ CheckStart(c) \/ AdminReply(c) \/ Accept(c) \/ CheckFails(c)
    \/ \E a \in Admins : AdminRead(c, a)

AdminStep(a) ==
    \/ \E n \in Spellings : Ban(a, n) \/ Unban(a, n)
    \/ RemoveDomainInBackground(a)
    \/ RunTask(a) \/ RunTaskThrows(a) \/ AdminCrash(a)

Next ==
    \/ \E c \in Checks : CheckStep(c)
    \/ \E a \in Admins : AdminStep(a)
    \/ \E n \in Spellings : Expire(n)

Spec == Init /\ [][Next]_vars

\* Calls under way go on, writers waiting for room get it in turn, the consumer
\* loop runs, and lifetimes end.
Fairness ==
    /\ \A c \in Checks : WF_vars(\E a \in Admins : AdminRead(c, a)) /\ SF_vars(AdminReply(c))
    /\ \A a \in Admins : WF_vars(RunTask(a) \/ RunTaskThrows(a))
    /\ \A n \in Spellings : WF_vars(Expire(n))

FairSpec == Spec /\ Fairness

-------------------------------------------------------------------------------
(* Properties *)

\* Every variable has its type.
TypeOK ==
    /\ table \subseteq Spellings /\ changes \in Nat
    /\ cache \in [Spellings -> Answer \union {"none"}] /\ expires \subseteq Spellings
    /\ check \in [Checks -> Check]
    /\ admin \in [Admins -> Spellings \union {"none"}]
    /\ queue \in [Admins -> Seq(Task)]

\* A call never passes when the domain was banned all the time since it began:
\* no cached answer, late cache update, lost task or restart hides a ban from a
\* shard (README.md:53).
BannedIsRejected ==
    \A c \in Checks : check[c].pc = "passed" => Host \notin check[c].throughout

\* The same for a ban under any spelling of the domain (README.md:12).
BlacklistedIsRejected ==
    \A c \in Checks : check[c].pc = "passed" => check[c].throughout = {}

\* When the administrators have finished, the cache stops claiming a ban that
\* is not in the table, so that an unbanned domain is accepted again.
StaleBansEnd == <>[](cache[Host] = "banned" => Host \in table)

\* The inductive invariant behind BannedIsRejected.
IInv ==
    /\ TypeOK
    /\ \A c \in Checks :
          /\ check[c].throughout \subseteq table
          /\ check[c].pc = "read" /\ check[c].answer = "allowed"
                => Host \notin check[c].throughout
          /\ check[c].pc = "passed" => Host \notin check[c].throughout
===============================================================================

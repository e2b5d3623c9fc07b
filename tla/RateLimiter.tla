------------------------------- MODULE RateLimiter -------------------------------
(***************************************************************************)
(* The sliding windows that limit the requests of one client: each rule    *)
(* keeps a sorted set in Redis of the requests it let pass, by the second, *)
(* and a script decides on a request by all rules that apply to its path.  *)
(* From FrontendShared/Services/CacheService.cs (the script),              *)
(* RateLimiterService.cs and Middleware/HttpRateLimiter.cs.  Redis runs    *)
(* the script as one step; no two requests share a microsecond, so that    *)
(* each has a member of its own.                                           *)
(***************************************************************************)
EXTENDS Integers, Sequences, FiniteSetsExt, Functions

CONSTANTS
    Rules,          \* by MaxRequests, as OrderBy leaves them: records of the
                    \* paths a rule matches, its window in seconds and maxRequests
    TicksPerSecond, \* instants told apart within a second
    MaxTime         \* bound: the ticks

VARIABLES
    clock,   \* TIME, in ticks
    zset,    \* the sorted set of each rule: how many members have each score
    expires, \* the tick at which each set's key expires, 0 for none
    passed,  \* history: the requests that passed each rule, by tick
    limited  \* the rules that refused a request at this tick

vars == <<clock, zset, expires, passed, limited>>

RuleSet == DOMAIN Rules
Ticks == 0 .. MaxTime
Second(t) == t \div TicksPerSecond
Seconds == {Second(t) : t \in Ticks}

Paths == UNION {Rules[i].paths : i \in RuleSet}

NoScores == [s \in Seconds |-> 0]

Init ==
    /\ clock = 0
    /\ zset = [i \in RuleSet |-> NoScores] /\ expires = [i \in RuleSet |-> 0]
    /\ passed = [i \in RuleSet |-> [t \in Ticks |-> 0]]
    /\ limited = {}

SumOf(f, over) == SumFunctionOnSet(f, over)

\* GetApplicableRules
Applicable(path) == {i \in RuleSet : path \in Rules[i].paths}

\* ZREMRANGEBYSCORE from 0 to the current second less the window, both included.
Trimmed(i) ==
    [s \in Seconds |-> IF s <= Second(clock) - Rules[i].window THEN 0 ELSE zset[i][s]]

IsFull(i) == SumOf(Trimmed(i), Seconds) >= Rules[i].maxRequests

Full(path) == {i \in Applicable(path) : IsFull(i)}

\* Mutant: a rule counts the request before the later ones are looked at.
ZAddWhenLimited_Earlier(path) ==
    LET seen == {i \in Applicable(path) : i < Min(Full(path))}
    IN zset' = [i \in RuleSet |-> IF i \in seen
                   THEN [Trimmed(i) EXCEPT ![Second(clock)] = @ + 1] ELSE zset[i]]

\* The first full rule refuses, those up to it are trimmed and none counts the request.
ZAddWhenLimited(path) ==
    LET seen == {i \in Applicable(path) : i <= Min(Full(path))}
    IN zset' = [i \in RuleSet |-> IF i \in seen THEN Trimmed(i) ELSE zset[i]]

Limit(path) ==
    /\ Full(path) # {}
    /\ ZAddWhenLimited(path)
    /\ limited' = {Min(Full(path))}
    /\ UNCHANGED <<clock, expires, passed>>

\* Mutant: the key's life is not prolonged.
Expire_Once(i) == IF expires[i] = 0 THEN clock + Rules[i].window * TicksPerSecond ELSE expires[i]

\* EXPIRE, at every request that passes.
Expire(i) == clock + Rules[i].window * TicksPerSecond

\* All rules have room: each counts the request.
Pass(path) ==
    LET rules == Applicable(path)
    IN /\ Full(path) = {}
       /\ zset' = [i \in RuleSet |-> IF i \in rules
                      THEN [Trimmed(i) EXCEPT ![Second(clock)] = @ + 1] ELSE zset[i]]
       /\ expires' = [i \in RuleSet |-> IF i \in rules THEN Expire(i) ELSE expires[i]]
       /\ passed' = [i \in RuleSet |-> IF i \in rules
                        THEN [passed[i] EXCEPT ![clock] = @ + 1] ELSE passed[i]]
       /\ limited' = {}
       /\ UNCHANGED clock

\* Time passes, and keys expire with all their members.
Tick ==
    /\ clock < MaxTime /\ clock' = clock + 1
    /\ LET gone == {i \in RuleSet : expires[i] \in 1 .. clock + 1}
       IN /\ zset' = [i \in RuleSet |-> IF i \in gone THEN NoScores ELSE zset[i]]
          /\ expires' = [i \in RuleSet |-> IF i \in gone THEN 0 ELSE expires[i]]
    /\ limited' = {}
    /\ UNCHANGED passed

Next ==
    \/ Tick
    \/ \E path \in Paths : Limit(path) \/ Pass(path)

Spec == Init /\ [][Next]_vars

-------------------------------------------------------------------------------
(* Properties *)

\* Every variable has its type.
TypeOK ==
    /\ clock \in Ticks /\ zset \in [RuleSet -> [Seconds -> Nat]]
    /\ expires \in [RuleSet -> Nat] /\ passed \in [RuleSet -> [Ticks -> Nat]]
    /\ limited \subseteq RuleSet

\* The requests that passed a rule in the seconds of the window that ends with s.
PassedIn(i, s) ==
    SumOf(passed[i], {t \in Ticks : Second(t) > s - Rules[i].window /\ Second(t) <= s})

\* In no window of whole seconds do more requests pass a rule than it allows,
\* whatever other rules share its paths and whenever its key expires.  (In a window
\* that begins within a second it may be twice as many.)
NeverMoreThanMax ==
    \A i \in RuleSet, s \in Seconds : PassedIn(i, s) <= Rules[i].maxRequests

\* A request is refused only when the rule that refuses it really let its maximum
\* pass within its window: a client that goes on while refused, or that another
\* rule refuses, does not prolong the wait.
OnlyExcessIsLimited ==
    \A i \in limited : PassedIn(i, Second(clock)) >= Rules[i].maxRequests
===============================================================================

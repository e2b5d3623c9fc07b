------------------------------- MODULE MCServices -------------------------------
(***************************************************************************)
(* Model-checking instance of the parts that share no state with others    *)
(* and are small: a behaviour is one of a single part, all others stay in  *)
(* their initial states.  The variables of a part begin with its letter;   *)
(* those of Pagination, which this module extends, have their own names.   *)
(***************************************************************************)
EXTENDS Pagination, Sequences, FiniteSets

CONSTANTS
    \* VisitCounting
    VRedirects, VFrontends, VReplicas,
    \* ViewStats
    SVisits, SMaxVisits, SMaxRows,
    \* Election
    EReplicas, EMaxFaults,
    \* CountAggregation
    CShards, CPods, CMaxRequests,
    \* UrlBatch
    BLinks, BSpellings,
    \* RateLimiter
    RRules, RTicksPerSecond, RMaxTime,
    \* ShortIds
    INumerals, ILetters, IWidth, IRangeSize, IStarterRange,
    \* UnobtrusiveValidation
    UFields

\* There are finitely many pods, the rules of the rate limiter are as its
\* configuration has them, and short ids have two characters to tell numbers apart
\* and start past the first range.
ASSUME ServicesAssumption ==
    /\ IsFiniteSet(VReplicas)
    /\ DOMAIN RRules = 1 .. Len(RRules) /\ Len(RRules) \in Nat
    /\ \A i \in DOMAIN RRules : RRules[i].window \in Nat /\ RRules[i].maxRequests \in Nat
    /\ RTicksPerSecond \in Nat \ {0} /\ RMaxTime \in Nat
    /\ CMaxRequests \in Nat
    /\ INumerals \in Nat /\ ILetters \in Nat /\ INumerals + 2 * ILetters >= 2
    /\ IWidth \in Nat /\ IRangeSize \in Nat \ {0}
    /\ IStarterRange \in Nat /\ IStarterRange >= IRangeSize

VARIABLES
    part, \* the part that takes steps
    v_present, v_totalViews, v_visits, v_fresh, v_call, v_frontQueue, v_notifying,
    v_queue, v_worker, v_answered, v_missed,
    s_rows, s_log,
    e_up, e_connected, e_session, e_expired, e_events, e_pc, e_election, e_type,
    e_offers, e_sequence, e_listed, e_faults,
    h_startup, h_startupCompleted, h_noticed, h_loop, h_stopping, h_stopped, h_inline,
    h_exited,
    c_master, c_asked, c_queue, c_consumer, c_hash, c_answers, c_again,
    b_rows, b_cached, b_fills, b_alone, b_batch,
    r_clock, r_zset, r_expires, r_passed, r_limited,
    i_number,
    u_inPage, u_value, u_info, u_validators, u_removed, u_handlers, u_resetting,
    u_container, u_summary, u_outcome, u_threw

v_vars == <<v_present, v_totalViews, v_visits, v_fresh, v_call, v_frontQueue,
            v_notifying, v_queue, v_worker, v_answered, v_missed>>
s_vars == <<s_rows, s_log>>
e_vars == <<e_up, e_connected, e_session, e_expired, e_events, e_pc, e_election,
            e_type, e_offers, e_sequence, e_listed, e_faults>>
h_vars == <<h_startup, h_startupCompleted, h_noticed, h_loop, h_stopping,
            h_stopped, h_inline, h_exited>>
c_vars == <<c_master, c_asked, c_queue, c_consumer, c_hash, c_answers, c_again>>
b_vars == <<b_rows, b_cached, b_fills, b_alone, b_batch>>
r_vars == <<r_clock, r_zset, r_expires, r_passed, r_limited>>
i_vars == <<i_number>>
u_vars == <<u_inPage, u_value, u_info, u_validators, u_removed, u_handlers,
            u_resetting, u_container, u_summary, u_outcome, u_threw>>

V == INSTANCE VisitCounting WITH
    Redirects <- VRedirects, Frontends <- VFrontends, Replicas <- VReplicas,
    Capacity <- 1, MaxAttempts <- 2, Faults <- FALSE, Deletion <- FALSE,
    present <- v_present, totalViews <- v_totalViews, visits <- v_visits,
    fresh <- v_fresh, call <- v_call, frontQueue <- v_frontQueue,
    notifying <- v_notifying, queue <- v_queue, worker <- v_worker,
    answered <- v_answered, missed <- v_missed

Visitors == INSTANCE MCVisitors
Everybody == Visitors!Everybody

S == INSTANCE ViewStats WITH
    Visits <- SVisits, MaxVisits <- SMaxVisits, MaxRows <- SMaxRows,
    rows <- s_rows, log <- s_log

\* UserAgent.Parse, and the table of the library that parses agents (external): the types
\* platforms and browsers that have names in UrlService have those names.
ASSUME VisitsAreParsed ==
    \A v \in SVisits :
        /\ \A t \in DOMAIN S!Variants :
               v.agent.platform.type = t <=> v.agent.platform.name \in S!Variants[t]
        /\ v.agent.browser.type # S!None =>
               /\ v.agent.browser.type \in S!BrowserType
               /\ \A t \in DOMAIN S!BrowserName :
                      v.agent.browser.type = t <=> v.agent.browser.name = S!BrowserName[t]

E == INSTANCE Election WITH
    Replicas <- EReplicas, MaxFaults <- EMaxFaults,
    up <- e_up, connected <- e_connected, session <- e_session, expired <- e_expired,
    events <- e_events, pc <- e_pc, election <- e_election, type <- e_type,
    offers <- e_offers, sequence <- e_sequence, listed <- e_listed, faults <- e_faults

H == INSTANCE HostLifecycle WITH
    startup <- h_startup, startupCompleted <- h_startupCompleted,
    noticed <- h_noticed, loop <- h_loop, stopping <- h_stopping,
    stopped <- h_stopped, inline <- h_inline, exited <- h_exited

C == INSTANCE CountAggregation WITH
    Shards <- CShards, Pods <- CPods, MaxRequests <- CMaxRequests,
    master <- c_master, asked <- c_asked, queue <- c_queue, consumer <- c_consumer,
    hash <- c_hash, answers <- c_answers, again <- c_again

B == INSTANCE UrlBatch WITH
    Links <- BLinks, Spellings <- BSpellings,
    rows <- b_rows, cached <- b_cached, fills <- b_fills, alone <- b_alone,
    batch <- b_batch

\* Two rules that share a path, one with a window of a second, the other of two.
RateLimitRules ==
    <<[paths |-> {"a", "b"}, window |-> 1, maxRequests |-> 1],
      [paths |-> {"b", "c"}, window |-> 2, maxRequests |-> 2]>>

R == INSTANCE RateLimiter WITH
    Rules <- RRules, TicksPerSecond <- RTicksPerSecond, MaxTime <- RMaxTime,
    clock <- r_clock, zset <- r_zset, expires <- r_expires, passed <- r_passed,
    limited <- r_limited

I == INSTANCE ShortIds WITH
    Numerals <- INumerals, Letters <- ILetters, Width <- IWidth,
    RangeSize <- IRangeSize, StarterRange <- IStarterRange,
    number <- i_number

\* A text field with a length and a replaced message, and a checkbox, which
\* "required" does not apply to, with a range and a message that is not replaced.
FormFields ==
    [user |-> [type |-> "text", vals |-> [required |-> {}, length |-> {"min", "max"}],
               replace |-> "true"],
     agreed |-> [type |-> "checkbox", vals |-> [required |-> {}, range |-> {"min"}],
                 replace |-> "none"]]

U == INSTANCE UnobtrusiveValidation WITH
    Fields <- UFields, Values <- {{}, {"required"}, {"rangelength", "min"}},
    MaxForms <- 2,
    inPage <- u_inPage, value <- u_value, info <- u_info, validators <- u_validators,
    removed <- u_removed, handlers <- u_handlers, resetting <- u_resetting,
    container <- u_container, summary <- u_summary, outcome <- u_outcome, threw <- u_threw

-------------------------------------------------------------------------------
Parts == {"pages", "visits", "stats", "election", "host", "counts", "batch", "rates",
          "ids", "form"}

ServicesInit ==
    /\ part \in Parts
    /\ Init /\ V!Init /\ S!Init /\ E!Init /\ H!Init
    /\ C!Init /\ B!Init /\ R!Init /\ I!Init /\ U!Init

\* The part is p, and the others do not move.
Only(p) ==
    /\ part = p /\ UNCHANGED part
    /\ IF p = "pages" THEN TRUE ELSE UNCHANGED vars
    /\ IF p = "visits" THEN TRUE ELSE UNCHANGED v_vars
    /\ IF p = "stats" THEN TRUE ELSE UNCHANGED s_vars
    /\ IF p = "election" THEN TRUE ELSE UNCHANGED e_vars
    /\ IF p = "host" THEN TRUE ELSE UNCHANGED h_vars
    /\ IF p = "counts" THEN TRUE ELSE UNCHANGED c_vars
    /\ IF p = "batch" THEN TRUE ELSE UNCHANGED b_vars
    /\ IF p = "rates" THEN TRUE ELSE UNCHANGED r_vars
    /\ IF p = "ids" THEN TRUE ELSE UNCHANGED i_vars
    /\ IF p = "form" THEN TRUE ELSE UNCHANGED u_vars

ServicesNext ==
    \/ Only("pages") /\ Next
    \/ Only("visits") /\ V!Next
    \/ Only("stats") /\ S!Next
    \/ Only("election") /\ E!Next
    \/ Only("host") /\ H!Next
    \/ Only("counts") /\ C!Next
    \/ Only("batch") /\ B!Next
    \/ Only("rates") /\ R!Next
    \/ Only("ids") /\ I!Next
    \/ Only("form") /\ U!Next

servicesVars == <<part, vars, v_vars, s_vars, e_vars, h_vars, c_vars, b_vars, r_vars,
                  i_vars, u_vars>>

\* Fairness of the parts.  What is fair in VisitCounting is disabled in its initial
\* state; of the others it is only while they run.
ElectionRuns == part = "election"
HostRuns == part = "host"

ServicesSpec ==
    /\ ServicesInit /\ [][ServicesNext]_servicesVars
    /\ V!Fairness
    /\ \A r \in EReplicas :
           /\ WF_e_vars(ElectionRuns /\ E!ServiceStep(r))
           /\ WF_e_vars(ElectionRuns /\ E!GetChildren(r))
           /\ WF_e_vars(ElectionRuns /\ E!DetermineElectionStatus(r))
           /\ WF_e_vars(ElectionRuns /\ E!Reconnect(r))
           /\ WF_e_vars(ElectionRuns /\ E!Restart(r))
           /\ WF_e_vars(ElectionRuns /\ E!ExpireAbandoned(r))
    /\ WF_h_vars(HostRuns /\ H!CancelAsync)
    /\ \A l \in H!Loops : WF_h_vars(HostRuns /\ H!LoopStep(l))
    /\ WF_h_vars(HostRuns /\ H!StopAsync) /\ WF_h_vars(HostRuns /\ H!Exit)

-------------------------------------------------------------------------------
(* Properties: those of the parts, while they take steps *)

\* Every part's variables have their types.
PartsTypeOK ==
    CASE part = "pages" -> TypeOK
      [] part = "visits" -> V!TypeOK
      [] part = "stats" -> S!TypeOK
      [] part = "election" -> E!TypeOK
      [] part = "host" -> H!TypeOK
      [] part = "counts" -> C!TypeOK
      [] part = "batch" -> B!TypeOK
      [] part = "rates" -> R!TypeOK
      [] part = "ids" -> I!TypeOK
      [] part = "form" -> U!TypeOK

\* Figures are the counts of the visits (ViewStats).
FiguresAreTrue == part = "stats" => S!FiguresAreTrue

\* A visit shows at once in all figures (ViewStats).
VisitsShowAtOnce == [][part = "stats" => S!Shows]_s_vars

\* Each answered redirect is counted once in both tables (VisitCounting).
EveryVisitIsCounted == part = "visits" => V!EveryVisitIsCounted

\* Who was told it is elected is the master that IsMaster finds (Election).
ElectedIsMaster == part = "election" => E!ElectedIsMaster

\* All replicas are healthy and one is the master in the end (Election).
ElectionSettles == part = "election" => E!ElectionSettles

\* Loops go to work as soon as startup is complete (HostLifecycle).
ReadyIsNoticed == part = "host" => H!ReadyIsNoticed

\* A process that was ready stops with all services ended (HostLifecycle).
StopsOnceReady == part = "host" => H!StopsOnceReady

\* One delivery of a count request is answered by one shard (CountAggregation).
OneShardAnswers == part = "counts" => C!OneShardAnswers

\* Batches are answered of links that were asked for alone before (UrlBatch).
BatchesNeedSingleRequests == part = "batch" => B!BatchesNeedSingleRequests

\* No window lets more requests pass than its rule allows (RateLimiter).
NeverMoreThanMax == part = "rates" => R!NeverMoreThanMax

\* A rule refuses a request only for requests it let pass (RateLimiter).
OnlyExcessIsLimited == part = "rates" => R!OnlyExcessIsLimited

\* A short id is parsed to the link it was made for (ShortIds).
ShortIdsReadBack == part = "ids" => I!ShortIdsReadBack

\* Message containers show the last checks (UnobtrusiveValidation).
FieldsShowTheirLastCheck == part = "form" => U!FieldsShowTheirLastCheck
===============================================================================

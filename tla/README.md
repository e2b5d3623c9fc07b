# Formal models of the scalable URL shortener

TLA+ models of the C# services under `src/`, the TLC configurations that check
them on small instances, and proofs, checked by TLAPS, of the properties that
hold for any number of replicas and calls.

    tlc -config MCShardLifecycle_faults.cfg MCShardLifecycle     # one run
    tlapm ShardLifecycleProofs.tla                               # the proofs of a module

`PROJECT.json` lists the components, the runs, for each property a mutated
definition under which TLC finds that property violated, the source lines each
definition stands for, the hazards, and the theorems.

## 1. The system

A link is a row of the table `Urls` in the Postgres database of one *shard*. Its
public id joins the shard's number with the row's id. A shard is a set of
replicas of `Shortener.GrpcBackend` over one database. The frontends
(`RedirectFrontend`, `RestFrontend`, `GraphQLFrontend`) call shards over gRPC;
ZooKeeper tells them which shards exist and what those accept; Redis caches what
the shards answered. `Shortener.Admin` keeps the banned domains and gathers counts
over all shards through RabbitMQ. Each service pushes work it does not want to
wait for into a queue in memory.

### Inventory

| component | state | operations | who it works with | what is hard | correct when |
| --- | --- | --- | --- | --- | --- |
| **Shard life cycle**: `GrpcBackend/Services/ShardService.cs`, `UrlService.Create` | `_type`, `_shardChildPath`; the ids in Postgres; the ephemeral nodes `<shard>_<replica>_<type>_<number>` | `Initialize`, `ChangeType`, the delete task, `Create` with `ChangeShardTypeInBackground` | Postgres, ZooKeeper, the task queue | a change runs long after the id that called for it; ZooKeeper fails with or without effect; restarts; the consumer feeds its own queue | a serving replica whose session lives is published; what is offered is accepted; ids stay in the shard's range |
| **Background task queue**: `Shared/Services/TaskQueuingService.cs` | bounded channel (100), one consumer | `QueueBackgroundWorkItemAsync` (waits when full), `ExecuteAsync` (logs and drops what throws) | every handler | full queue, lost tasks, order between handlers | tasks of one replica run in order; producers wait |
| **ZooKeeper adapter**: `Shared/Services/ZookeeperService.cs` | connection, watches | create/delete nodes, watch handlers | shard life cycle, frontend view, election | lost replies, expired sessions, events against reads | (with its users) |
| **Caches of a link**: `UrlService`, `UserService`, `CacheUtils`, `CacheService`, `RedirectService` | `Url-Mapping`, `Url-Stats`, one hash of pages per user | read-through fills, removals after `Update` and `Delete`, expiry | Redis, Postgres, the task queue | a fill read before a change and written after the removal; a lost removal; a user's deletion removes nothing | outdated entries vanish; a deleted link stays gone |
| **Redirects and visits**: `RedirectService`, `UrlService.AddVisit`, `UrlRepository.IncrementVisit`, `VisitRepository` | `TotalViews`, hourly rows of `Visit` | redirect from cache or shard, `NotifyRedirect`, the visit task | two queues in a row, gRPC with retries, Postgres | retries of what was queued, tasks cut short, replicas racing for the hour's row, deletion | the two counts agree as far as they can |
| **Banned domains**: `DomainService`, `AdminService`, `BannedDomainService`, `BannedDomainRepository` | table `BannedDomain`, cached answers | `IsBanned`, `Ban`, `Unban` | Admin's queue, Redis, gRPC | stale answers and late cache updates in either direction | no ban is overlooked; an unban takes effect |
| **Frontend view of the shards**: `Shared/Services/ShardService.cs` | online shards and their types | `Initialize`, `UpdateShards`, watch handlers, `GetShardIdForNewUser` | ZooKeeper | a watch event between subscribing and applying the first answer | the view follows the nodes |
| **Short ids and cursors**: `UrlEncoder`, `ShortId`, `ShortIdUtils` | none | encode, parse | everything | widths, padding, cursors cut to milliseconds | round trips; ranges do not meet |
| **Pagination**: `UrlService.GetByUserId`, `UrlRepository.GetByUserId` | none | next and previous page | the cache of pages | the order's key changes with each visit; pages come ordered by id | walks end; what they skip is known |
| **View statistics**: `UrlService.Convert` and below | none | sums over hourly rows | visits | which rows fall into which figure | day, week, month and total agree |
| **Batches of links**: GraphQL `UrlDataLoader`, frontend `UrlService.GetByIds` | none | one look-up of several cache keys, a query that throws | Redis, the shard | some links cached and some not, deleted or repeated | a batch is answered |
| **Count aggregation**: `GetUrlCountConsumer`, Admin `UrlService` | a hash in Redis | publish, consume, set | RabbitMQ, election | consumers compete for one queue; redelivery | a request reaches whom it is for |
| **Election**: `BackendShared/Services/ElectionService.cs` | `_leaderElection`, `_electionType`, the offers in ZooKeeper | start, stop, restart, `IsMaster` | ZooKeeper | connections, sessions and offers lost between the steps | who is told so is master; one is in the end |
| **Rate limiter**: `RateLimiterService`, Lua script of `CacheService` | a sorted set per rule and client in Redis | take a permit | Redis | window boundaries, expiry, several rules | never more than the limit in a window, nor fewer |
| **Host life cycle**: `StartupHealthCheck`, `StartupBackgroundService`, the loops | `StartupCompleted`, its token | start, wait until ready, stop | the .NET host | startup completes, or the host stops, between test and delay | loops start at once; a stop ends them |
| **Form validation**: vendored `jquery.validate.unobtrusive.js` | data of the form, its validators, message containers | parse, check, submit, reset | `jquery.validate.js` | fields added later, validators made anew, resets without one | containers show the last check unless a reset threw |
| **Users, tokens, endpoints, telemetry, views** | users in Postgres | sign-up, sign-in, forwarding | | user deletion cascades to links | |

Between them: `Create` calls `DomainService.IsBanned`, inserts, and may queue a
`ChangeType`; `Redirect` queues a visit and a fill, in that order; `Update` and
`Delete` queue three removals; all of these pass through the *same* queue of a
replica. `ShardLifecycle` and `UrlCache` keep an `other` task for what they leave out,
`VisitCounting` the one neighbour that can stop the queue (`ChangeTypeWaits`).

`PROJECT.json` records each hazard at its line.

## 2. The modules

| module | models | extended by |
| --- | --- | --- |
| `ShardLifecycle` | one shard's replicas, their ids, nodes and type changes | `MCShardLifecycle`, `ShardLifecycleProofs` |
| `UrlCache` | what Redis holds of one link while its row changes | `MCUrlCache`, `UrlCacheProofs` |
| `BannedDomains` | one domain's ban, the cached answers, and the calls that ask | `MCBannedDomains`, `BannedDomainsProofs` |
| `VisitCounting` | the way of one link's visits into the two tables | `MCVisitCounting`, `VisitCountingProofs` |
| `ViewStats` | the columns of one link's hourly rows and the figures read from them | `MCViewStats` (visits: `MCVisitors`) |
| `ShardDirectory` | what a frontend's list of shards promises (abstract) | |
| `FrontendShardView` | how a frontend follows the nodes; implements `ShardDirectory` | `MCFrontendShardView`, `FrontendShardViewProofs` |
| `Pagination` | an owner's walk through the pages of links that change | `MCServices`, `PaginationProofs` (which `ServicesProofs` extends) |
| `UrlBatch` | several links asked for at once, some of them cached | `MCUrlBatch` |
| `CountAggregation` | a count request from Admin to the shards' replicas and back | |
| `Election` | the election of a master around lost connections and sessions | `ElectionProofs` |
| `RateLimiter` | the script that decides on a request by all rules for its path | |
| `HostLifecycle` | start and stop of a process with its hosted services | |
| `ShortIds` | the short ids and the way back | |
| `UnobtrusiveValidation` | validation of a form in the browser | |
| `MCServices` | instance of the ten small parts (below) | `ServicesProofs` |

The modules of the backend meet at the task queue, `ShardLifecycle` and
`FrontendShardView` at the nodes. None composes two others: each holds the part
of the neighbours it depends on as an action (`OtherEnqueue`, `DeleteUser`,
`DeleteRows`, a cache hit in `RedirectHit`, `NodesChange`, `Elected` and `Resigned` in
`CountAggregation`, `ChangeTypeWaits` in `VisitCounting`, `Fill` and `Expire` in
`UrlBatch`) that may happen whenever the module's own state allows it. Safety carries
over to the whole where the module has an action for everything its neighbours do to its
state; section 6 lists what none of them does. Liveness carries over as far as
the fairness does: a backend's queue can wedge (`WedgedForGood`), after which its tasks
for the cache and for visits do not run. `VisitCounting` has that case, and `UrlCache`
assumes nothing of its queues; the queue of `BannedDomains` is Admin's, which no type
change can block.

`MCServices` checks in one run the modules whose state no other module shares and
whose instances are small. It instantiates each with variables of its own, and `part`,
chosen once, says which of them takes steps: a behaviour is a behaviour of one part
while all others stay in their initial states. The state space is thus the sum and
not the product of theirs. Each property is the part's own under `part = ...`.
Fairness of a part is stated for its actions joined with `part = ...`, so that it
demands nothing of the others; the actions that are fair in `VisitCounting` are
disabled in its initial state and need no such conjunct.

What is a bound or an input of a part is a constant of `MCServices`, so that
`ServicesProofs` can prove the parts' properties of the same composition for all their
values.

### ShardLifecycle

State: `lastId` is Postgres' SERIAL sequence and `maxRow` is `MAX(Id)`, which
differ after deletions and failed inserts; `nodes` and `nextNode` are the
ephemeral children in ZooKeeper; per replica `type` (`_type`), `child`
(`_shardChildPath`, by sequence number), the `queue` and its consumer `worker`;
`since`, the first node its present ZooKeeper session can have made; per slot the
`request`, a `Create` call between two of its awaits.

| code | actions |
| --- | --- |
| `ShardService.Initialize` | `InitializeReadMaxId`, `InitializeRegister` |
| `UrlService.Create` | `CreateAdmit` (the type check), `CreateInsert` or `CreateReject`, `CreateDecide` (`ChangeShardTypeInBackground`), `CreateEnqueue` |
| `ShardService.ChangeType` | `ChangeTypeSame`, `ChangeTypeCreate` or `ChangeTypeThrows`, `ChangeTypeEnqueueDelete`, `ChangeTypeAssign` |
| its delete task | `DeleteNode`; `DeleteNodeThrows` and `DeleteNodeRequeue` for a `KeeperException`; `DeleteNodeFails` and `LogError` for any other exception, which the consumer catches (`TaskQueuingService.cs:70`) |
| the queue | `HasRoom`, `Dequeue`, `OtherEnqueue`, `RunOther` |
| environment | `Crash`, `SessionExpires`, `DeleteRows` |

Decisions. The replica gets calls only after `Initialize`, because the readiness
probe (`manifests/shortener-backend/templates/deployment.yaml:36`) gates them.
`_lock` is left out: only the single consumer runs `ChangeType`. The graceful stop is
`Crash` followed by `SessionExpires`. Under `ZooKeeperFaults` a *running* replica's
session may expire too: its nodes go, and nothing in `src/` makes them again, since
`Initialize` returns early (`ShardService.cs:57`), until the next change of type or a
restart. Whether the client library makes them anew is not modelled. When a create fails
it may have left a node nobody will delete (second disjunct of `ChangeTypeThrows`).

What is checked:
- `ReadyReplicaIsPublished`: the own node of a serving replica, of the type it
  advertises, is in ZooKeeper whatever tasks are late or repeated, unless the session
  that made it has expired.
- `OfferedIsAccepted`: what `Shared ShardService.UpdateShards` reads off the nodes
  (offered only when no node says otherwise) is never refused by a serving replica whose
  session has not expired (`Unexpired`). Without that condition it is false of several
  replicas: the node of a `ReadOnly` replica goes with its session, another's offers the
  shard, and Kubernetes may send the call to the first.
- `WedgedForGood`: once the consumer waits for room in its own full queue
  (`ShardService.cs:110`, `:139`) the replica runs no further task until restarted.
- `NeverBackToReadWrite`: within a run a late task never reopens a shard to users.
- `OldNodesGo`: a node that is to be deleted goes in the end, unless the replica stops or
  wedges, or an exception other than `KeeperException` drops its delete task.
- `WantedTypeIsApplied` (liveness) and `IdsStayInRange`.

Observed: tasks decided before a change was applied may run after it, so the type
can step from `ReadOnly` back to `WriteUrlsOnly`; the next `Create` asks for
`ReadOnly` again. `WantedTypeIsApplied` says each wanted type is in force at some
later time, not that it stays.

### UrlCache

State: the `row` (its destination, or why there is none), `cache` and `left`
(lifetime of each Redis key), the `call` in each slot of each replica and the
replicas' queues. Entries are the mapping, the statistics and the pages of the
owner; all pages are fields of *one* hash, so they share one lifetime and are
removed together (`Group`).

| code | actions |
| --- | --- |
| frontends' look-up, and `Redirect`, `GetById`, `GetByUserId` on a miss | `CacheMiss`, `ReadRow` (with `Fill`), `EnqueueNext` |
| `Update`, `Delete` | `UpdateRow`, `DeleteRow` (with `Removals`), `EnqueueNext`; by somebody else: `ForeignChange` |
| `Create`, `UserService.Delete` | `Create`, `DeleteUser` |
| consumer and `CacheService` | `RunTask` (`SetEntry`, `RemoveGroup`), `RunTaskThrows` |
| environment | `Elapse`, `Crash` |

The owner has other links, so a page without this link is not empty; `Create`
does not invalidate pages, so a page that does not yet list the link
(`"unlisted"`) is not counted as outdated. A hit never prolongs a lifetime, a fill
of one page prolongs all of them (`CacheService.cs:114-123`): with finitely many
pages everything still ends, with ever new cursors nothing bounds it.

Reads are taken to see what is committed, in this module and in `BannedDomains`: behind
Pgpool (`manifests/shortener-backend/templates/deployment.yaml:119`) a standby may lag, and
a fill read from one could bring back what was deleted, or `IsBanned` miss a ban.

- `OutdatedIsBeingRemoved`: while *one slot of one replica* makes all calls, nothing fails
  and the user stays, an entry that shows an old destination has its removal queued. Two
  replicas break it even if their calls do not overlap, as a reply does not wait for the
  queue, and `UserService.Delete` removes nothing; then only the next two hold.
- `GoneForGood`: with overlap, stops and lost tasks, a deleted link does not come
  back once no fill of it is under way.
- `EventuallyCurrent`: when the row stops changing, the cache agrees with it in the
  end although fills overtake removals and removals are lost, or are stuck in a queue
  whose consumer waits for itself.

### BannedDomains

State: `table`, the `cache` under `Domain:name` with the keys that expire, the
`check` of each call, the name an Admin replica has yet to enqueue (`admin`) and
its `queue`. `CheckStart`, `AdminRead` and `AdminReply` are
`DomainService.IsBanned` and `AdminService.IsBanned`; `Ban`, `Unban` and
`RemoveDomainInBackground` are the two requests; `AdminCrash` loses a queue and
makes the backend ask again (`RetryPolicy`). `throughout` is a history: the names
that have been banned ever since the call began.

- `BannedIsRejected`: no call passes if its domain was banned all along.
  `DomainService` trusts only a cached `true`, which is what the property rests on.
- `StaleBansEnd`: an answer cached before an `Unban` goes in the end.
- `BlacklistedIsRejected` is violated, see the findings.

### VisitCounting

State: `totalViews`, the rows of `Visit` (`visits`, of which `fresh` are younger
than an hour), the `call` made for each redirect, the frontends' queues, and at
each replica the number of visit tasks (they are alike) and the one that runs.
`RedirectHit` and `RedirectMiss` are the two branches of `RedirectService`;
`Receive`, `IncrementVisitInBackground` and `Reply` are `Redirect` and
`NotifyRedirect` at a replica; `AttemptFails` is the retry of `GrpcClientFactory`;
`IncrementVisit`, `GetLastHour`, `Insert` and `Update` are the statements of
`UrlService.AddVisit`. Inserting after the link is gone throws, because of the
foreign key. Reads go through Pgpool, which balances them over the standbys
(`README.md:29`): `GetLastHour` may find no row although there is one, also one that this
replica inserted itself (`missed` remembers that). `ChangeTypeWaits` is the wedge of
`ShardLifecycle`, of a queue filled with visits.

- `VisitsNeverExceedViews`: the hourly rows never total more than `TotalViews`.
- `OneRowPerReplicaAndHour`: replicas may race, but each inserts at most one row
  per hour and link, unless a lagging standby hid its own row from it.
- `EveryVisitIsCounted`: without faults each answered redirect counts once, unless a
  replica's consumer waits for itself for good.

With faults `TotalViews` may exceed the redirects, since a retry may queue a visit
twice, or fall short of them.

### ViewStats

State: the `rows` of `Visit` for one link, each with its age (`CreatedAt`), and
`log`, a history of which visit went into which row. `AddInserts` and `AddUpdates`
are `VisitRepository.Add`, with the columns by `Insert` and `Update`; `Elapse` is
time. `Figures(w)` is what `UrlService.Convert` and the operators below it, and the
merging `ViewStats` of `Shared/Entities/Url.cs`, make of the rows of a window: it
follows the code in taking the variants of a platform and the versions of a browser
out of the row's JSON, whatever is left going to `Other`. Ages are the days where
the code distinguishes (0 for "within the hour", then up to 1, 7, 30 and more).
JSON objects of counts are bags. Of the visits the run assumes (`VisitsAreParsed`) what
`UserAgent.Parse` and the parser library's table give: a platform or browser has the type
`UrlService` expects of its name.

- `FiguresAreTrue`: the figures of each window are the numbers of visits, counted
  from `log`, by platform, variant, browser, version, country and referrer.
- `VisitsShowAtOnce`: a visit raises the views of all four windows by one when it is
  stored (`Shows` of the module, under the run's `VisitsShowAtOnce`); time takes nothing
  out of the all-time figures.
- `StatisticsAreAvailable` is violated, see the findings.

Two disagreements are left out of `FiguresAreTrue`, which would fail on them:
`AddTypes` (`UrlService.cs:458`, `:463`) adds `visit.BrowserType` for robots and for
unknown agents; and the variants of `Other` may hold the names "Android" and "iOS",
which `Update` stores (`VisitRepository.cs:277`) and `Insert` does not (`:128`), so
that they can exceed its views.

### ShardDirectory and FrontendShardView

`ShardDirectory` says what the code of a frontend may rely on when it asks
`IsOnline`, `GetShardIdForNewUser` or `CanShardCreateNewUrl`: the answers are those
of one state (`shown`) that the nodes have had since the directory was opened, a
shard is offered exactly when every one of its replicas accepts the call (any of
them may get it), and once the directory has `settled` it only moves forward. `past`
is the history of the nodes, so that "a state they have had" can be said.

`FrontendShardView` is the code. `Subscribe`, `GetChildren` and `InitializeUpdate`
are the awaits of `ShardService.Initialize`; `NodesChange` makes the armed `watch`
fire; `HandleEvent` is the library reading the children for the event, and arming
the watch again, before it calls the handler, which applies them in
`HandlerUpdate`; `UpdateShards` sorts the nodes into sets and subtracts them;
`Restart` is a stop at any point, a throwing `Initialize` among them. A session lost
and found again, after which the library reads the children anew, is not modelled.
The status event that `UpdateShards` raises has no subscriber in the repository.

The two steps that apply what was read may be swapped: an event between
`GetChildren` and `InitializeUpdate` may be applied first, and then `Initialize`
overwrites it with the older answer (`ShardService.cs:94`). The view then stays
behind for as long as no node changes. This is why the properties ask for a change
after `Initialize` has returned.

- `BehindIsBeingRenewed`: after such a change, a view that is behind has an event
  waiting or a handler that holds the current state.
- `ViewCatchesUp`: and becomes current.
- `ImplementsDirectory`: every step is one of `ShardDirectory` or none. `settled` is
  mapped to "`Initialize` has returned, and no handler still holds a state older than
  the one shown", `opened` to the state at the subscription.

Of the deployment, `ShardLifecycle` shows the other half: that the replicas accept
what their nodes offer (`OfferedIsAccepted`). A frontend whose view is behind may
still ask a shard that has changed its type, and is refused.

### Pagination

State: the ticks of `NOW()`, `updatedAt` of the user's rows by id, and the `walk`: its
direction and page size, which cursor its owner `follows` (the last edge's or the one
of `pageInfo`), the `cursor`, and as histories the links `shown`, the times of the cursors
`used`, the links `skipped`, and those `disturbed` since the walk began. `Touch` is
`Update` or a visit. `GetByUserId` and `GetByUserIdLast` are the same handler with and
without a further page. A cursor keeps milliseconds of microseconds: `TicksPerMs`.

The query's `WHERE`, `ORDER BY UpdatedAt` and `LIMIT` choose the rows (`Rows`, one more
than the page). `Include(Visits)` then makes it a subquery whose result comes ordered by
`Id` (`UrlRepository.cs:157`), so that `Take` leaves out, and `urls.Last()` is, the row with
the highest `Id` (`IsLast`). A link can therefore be skipped, or shown on two pages.

- `OnlyTheHighestIdIsSkipped`: what a finished walk has not shown was such a row; a walk
  forward may also lack links that were disturbed, or that share the millisecond of a
  cursor. See the findings.
- `SkippedIsNeverShown`: forward, no later page shows a skipped link, even if it is
  visited then.
- `ForwardAdvances`: forward, each page leaves strictly fewer links behind its cursor, so
  that repeated links cannot keep a walk going. Backward this is false: with two links
  changed in one millisecond and pages of one, the cursor of the second precedes both,
  and the walk stays at the same page for good.

### UrlBatch

State: the `rows`, what is `cached`, the `fills` the backend has queued, the links the shard
answered for `alone`, and the `batch`. A batch of one goes to `GetByIdCached` and `GetById`;
of several to `GetByIdsCached`, one look-up of all keys, and, unless all are found, to
`GetByIds`, whose query throws for any ids. What is found goes by the canonical short
URL, so that the data loader has no answer for a link asked for by another spelling.

- `BatchesNeedSingleRequests`: a batch is answered only if each of its links was asked for
  alone before: no batch warms the cache for another.
- `BatchIsAnswered` is violated, see the findings.

### CountAggregation

State: each shard's `master`, the `queue` of RabbitMQ, what each replica's `consumer`
is doing, the `hash` in Redis. A message names the shards it can go to: one queue for
all replicas means all of them. Crashes deliver again, exceptions do not.
`OneShardAnswers` states what the code does, see the findings.

### Election

State per replica: whether it is `up` and `connected`, its `session`, whether that
`expired` unnoticed, the connection `events` to be handled, the step (`pc`) that holds
`_lock`, `_leaderElection` and its `type`; and the `offers`, ephemeral sequential nodes.
`HandleDisconnected` starts or stops an election, in the steps `CreateLeaderElection`,
`MakeOffer`, `GetChildren`, `DetermineElectionStatus` and `Stop`, between which the
connection may `Disconnect`, the session `Expire` and the process `Crash` or `Terminate`.
`OfferIsLost`: the node is made, its name never learned. What `LeaderElectionSupport`
does is external: it lists the offers (`listed`), when it made one and when its watch fires,
and then reads each. One that went in between makes it fail.

- `ElectedIsMaster`: a replica that was told it is elected, and has no event left to
  handle, is the one `IsMaster` finds.
- `ElectionSettles`: after the last fault exactly one replica is master in the end, and all
  are healthy but those that `HasFailed`, also when offers of lost sessions or lost
  answers are in the way.

A replica that `HasFailed` stays so: no event follows, `StartElection` returns early as
`_leaderElection` is set (`ElectionService.cs:125`), and its offer stays. It may even be the
master, for `IsMaster` asks only whose offer is the lowest. `IsHealthy` makes its readiness
probe fail and not its liveness probe, so that nothing restarts it; only another loss of
the connection makes it stop this election and start anew.

Not modelled: `IsMaster` reads `_leaderElection` twice without `_lock` and may throw
when it becomes null in between; its callers fail as when ZooKeeper does.

### RateLimiter

State: the `clock`, each rule's sorted set (`zset`, members by their second) and when
its key `expires`, and `passed`, a history. The script is one step: `Limit` trims the
sets up to the first full one, `Pass` counts the request in all. `Tick` lets keys expire.

- `NeverMoreThanMax`: no window of whole seconds lets more than its maximum pass. A
  window that begins within a second may see twice as many, since scores are seconds.
- `OnlyExcessIsLimited`: a rule refuses only when it let its maximum pass itself.

### HostLifecycle

State: where `StartupBackgroundService` and each `loop` are, `StartupCompleted` and its
token (`noticed`), and how far the host has `stopped` the services, last first.
`inline` holds a loop that runs within the host's call of `Cancel`, as continuations of
a token do. Admin is modelled, which has the most hosted services.

- `ReadyIsNoticed`: loops go to work when startup completes, without their timers of
  five minutes.
- `StopsOnceReady`: a process whose startup completed ends, without `ShutdownTimeout`.
  When startup fails the waiting loops never end, as `WaitUntilReady` tests
  `StartupCompleted` only; the process then ends by the timeout (`ExitGivesUp`).

### ShortIds

`Base10ToBase62` and `ParseId` as functions of a number of a smaller alphabet and
width; the only variable counts through all short ids there are.
`ShortIdsReadBack`: each is the short id of what it is parsed to, of no id of another
shard's range, and of the full width.

### UnobtrusiveValidation

The vendored script `jquery.validate.unobtrusive.js`, which connects pages to
`jquery.validate.js`. No page loads it yet: only `_ValidationScriptsPartial.cshtml`, which no
view includes, names it. State: which fields the page has and their values (the rules they
break), the form's data, its `validators` with the fields each has rules for, the
handlers, the message `container`s and the `summary`. Handlers run to their end, so an
action is an event with all its calls. Of `jquery.validate.js`, vendored too, there is what
the script relies on. A form keeps a validator that is there, with the rules of its making:
fields parsed later are not checked until both data are removed (`RemoveData`) and the
form is parsed anew. The handlers of older validators stay, but check by the rules of the
current data "validator".

- `FieldsShowTheirLastCheck`: containers show the outcome of their field's last check, and
  no error of a field that was not checked since the last reset, unless that reset `threw`: a
  form without a validator, or whose validator was removed, makes `onReset` throw before
  it clears anything (line 111), and what was shown stays.

## 3. The runs

| run | what it asks | bounds |
| --- | --- | --- |
| `shard_faults` | the safety, step and liveness properties of a replica under every fault | 1 replica, 2 `Create` slots, queue of 1, thresholds 2 and 3, 3 ids, 2 starts |
| `shard_reliable` | range and liveness when ZooKeeper answers | the same, thresholds 1 and 2, range 10, 12 ids, 1 start |
| `shard_outofrange` | violated: failed `INSERT`s carry ids out of the range | as before, with failing `INSERT`s |
| `cache_serial` | order of fills and removals when one slot makes all calls | 1 slot, queue of 3, 2 destinations, 2 pages, lifetime 2, 2 updates |
| `cache_races` | deleted links and convergence under overlap and faults | 2 slots, queue of 1, 2 destinations, 1 page, lifetime 1, 1 update |
| `banned_changes` | bans overlooked or kept | 2 calls, 2 Admin replicas, 2 spellings, queue of 1, 2 changes |
| `banned_spelling` | violated: a ban in capitals | 1 call, 1 Admin replica, 1 change |
| `visits_faults` | both counts and the hourly rows under faults | 2 redirects, 1 frontend, 2 replicas, queue of 1, 3 attempts |
| `frontend_view` | whether the view implements the directory and catches up | 2 shards, nodes of 3 types present or absent in any way at first, 2 changes |
| `stats_available` | violated: two robots in one hour | 7 kinds of visits, 3 visits, 2 rows |
| `batch_answered` | violated: a batch of links that exist | 3 links, 2 spellings |
| `services_parts` | the ten parts of `MCServices` | below |

| part of `services_parts` | bounds |
| --- | --- |
| pages | 3 links, 3 instants, 2 ticks per millisecond, pages of 1 and 2, both directions and cursors |
| visits | 3 redirects, 1 frontend, 2 replicas, no faults, queue of 1 |
| stats | 7 kinds of visits, 3 visits, 2 rows |
| election | 2 replicas, 2 faults |
| host | one process, no bound |
| counts | 2 shards of 1 replica, 2 requests |
| batch | 2 links, 2 spellings of each |
| rates | 7 instants of half a second, 2 rules with windows of 1 and 2 seconds that share a path |
| ids | base 4, 4 characters, ranges of 5, numbers from 12 on: all 256 short ids |
| form | 2 fields with 3 values, 2 validators |

Why these are enough. A queue of 1 (100 in the code) makes a full queue, the wait
for room and the wedge happen within a few steps; larger queues only postpone
them. Thresholds 2 and 3 (9.0 and 9.5 million) with two overlapping `Create` calls
let one id cross a threshold while the change for the other is queued, running or
lost; the third id crosses the second threshold. Two starts show a restart with the previous
session's nodes still there. One replica is enough for TLC because the proofs treat any
number of them; two replicas with one slot each were checked as well, in four million
states.
Two calls at one replica suffice for a fill to overtake a removal. Two
spellings and two Admin replicas give a late cache update of one replica against a
change at the other. Two redirects with three attempts over two replicas let both race for
the hour's row, one retry on top, and one replica insert twice. Three visits in two rows put two into one
`Insert`ed and `Update`d row, with equal or different keys, and merge it with another
row, in the same windows or others. Two changes of the nodes let one be overtaken by
`Initialize` and the other follow it, or come while a handler holds the first. Three
links and pages of one or two give a last page, a further page and a row left out; three instants of two to the
millisecond give two rows in one millisecond, at different or equal times. Two faults
let a session expire while the other replica's election is under way, or the same
election be interrupted twice; two replicas suffice for an offer that waits for another, or
that goes while the other reads it. Three faults were checked as well.
Two requests and two shards show one shard answering both or each one. Half seconds put
two requests into one second and the edge of a window between two seconds. Two validators
give one that checks fields the other has no rules for. Bounds are constants (`MaxId`,
`MaxSessions`, `MaxUpdates`, `MaxChanges`, `MaxTime`, `MaxLinks`, `MaxFaults`,
`MaxRequests`, `MaxForms`), each a conjunct of one guard.

`IdsStayInRange` depends on how many calls run at once: each may insert one more
row after the threshold is crossed and before the change is applied. The run's range
of 10 has room for that. `FailureFreeIdsStayInRange` proves it of every range with room
for `Overshoot` rows past the threshold, P² + P for each start of a replica, where P
counts the slots, the places of the queue and the consumer. That is sufficient and not
tight: for its small instance the run shows more than the theorem does. The code leaves
500,000 ids; with a queue of 100 and 100 calls at once P² + P is 40,602, enough for a
dozen starts of replicas past the threshold. The invariant of that proof (`RangeInv`)
was model-checked on the run's instance and on the one with two starts first.

`CHECK_DEADLOCK FALSE` is set where the bounded instance ends (ids, starts and
redirects run out, a process exits).

### Fairness

Only what the code goes on doing by itself is fair. The consumer is a loop that
catches whatever a task throws (`TaskQueuingService.cs:55-76`): weak fairness of
its steps. `WriteAsync` of a bounded channel serves waiting writers in turn:
strong fairness of enqueueing, because room appears and vanishes. In `UrlCache` neither is
assumed: keys end by themselves. Calls under way go on: weak fairness of their own steps. A delete that is tried again and again
meets a ZooKeeper that answers in the end: strong fairness of `DeleteNode`, the
assumption of `OldNodesGo`, which excepts tasks that are dropped. Lifetimes in Redis run out: weak fairness of `Elapse`
and `Expire`. A frontend finishes `Initialize` and handles the events it got: weak
fairness of those steps. In an election the service's steps and `LeaderElectionSupport`'s readings of the offers run,
clients reconnect, pods restart (Kubernetes does that) and ZooKeeper ends sessions that
processes have left. In a host what is ready to run runs: the loops, `CancelAsync`, and
the host's stop once begun; nothing is assumed of timers, of `Initialize` or of
`ShutdownTimeout`. New requests, changes, failures, crashes, restarts and session
expiry are never fair.

### Findings

- `shard_outofrange`. The thresholds are compared only with ids of inserted rows,
  but a failed `INSERT` draws a number too. Enough of them in a row carry the next
  row past both thresholds and out of the range that `README.md:74` promises. A
  lost type change (`ShardService.cs:109` throws, the consumer drops the task) can
  do the same, with one lost change per further `Create`.
- `banned_spelling`. `Ban` stores the name as it was typed and `Get` compares
  exactly, while `Create` asks for `Uri.Host`, which is lower case. A ban of
  `Example.com` rejects nothing, against `README.md:12`.

- `stats_available`. Versions of browsers that have no column of their own are
  collected by version alone (`UrlService.cs:567`), and `Dictionary.Add` throws on a
  repeated key. Two robots, whose version is "unknown", in one hour are enough; the
  row stays, so the statistics of the link, and every page with it, fail from then
  on, against `README.md:13`.

- `batch_answered`. `FromSqlRaw` gets the *list* of parameters as its one parameter
  (`UrlRepository.cs:103`), which Npgsql cannot write: the query throws, so a batch of
  several links fails unless all of them are in the cache, where only requests of single links
  have put them. Against `README.md:19`. (Two more faults lie behind it: `GetByIds` of
  the frontends removes cache keys from a list of ids, `UrlService.cs:114`, and would add what
  it found twice.)
- `OneShardAnswers` (in `services_parts`, which passes: the property says what the code
  does). The replicas of all shards consume one queue, so a count request that
  `README.md:20` calls multicast reaches one replica and is answered by its shard, or by
  none when it is no master.
- `OnlyTheHighestIdIsSkipped` (the same). As pages come ordered by `Id`, `Take` leaves out
  the link with the highest `Id` and not the last by `UpdatedAt`. Links 1, 2, 3 changed in
  this order and pages of two: the first page shows 1 and 2, and link 3, the latest, is on
  no page of the walk, whichever cursor is followed, while 1 is shown again. Against
  `README.md:14`.

## 4. The proofs

The theorems hold for every value of the constants the assumptions
`ShardAssumption`, `UrlCacheAssumption`, `BannedDomainsAssumption`,
`VisitCountingAssumption`, `PaginationAssumption`, `ViewAssumption`,
`ServicesAssumption` and `VisitsAreParsed` allow, which TLC evaluates in the runs; in
particular for any number of replicas, calls, links, visits and starts. What a theorem needs beyond them is in its `ASSUME`:
finite sets, no failures, one slot.

`ShardLifecycleProofs`.
- `TypeCorrect`: `TypeOK`, action by action.
- `InductiveInvariant`: `IInv`. `ReadyReplicaIsPublished` is not inductive: to see
  that no delete task removes a current node one needs `PendingIsOld` (a path that
  is to be deleted is older than the next node, current for nobody, and pending at
  one replica only) and `ChildrenDistinct`. To see that what is offered is accepted
  while a change is under way one needs `OldNodeStays`: between the creation of the
  new node and the assignment of `_type` the old node is there, since its delete is
  queued behind the running task. `ServingTypes` says that nothing ever asks for
  `ReadWrite`, `OnlyReadyWork` that only ready replicas run tasks. Most steps follow
  from one lemma, that a step of one replica leaves the others' state alone
  (`NextIsReplicaStep`, `OtherReplicaUnchanged`), and one on what a step does to the
  tasks a replica holds (`HeldStep`).
- `ServingReplicasArePublished`, `OfferedShardsAccept`: consequences of `IInv`, in which
  `since` tells the nodes of the present ZooKeeper session from older ones.
- `ReadWriteIsNeverRegained` and `WedgeIsPermanent`: action properties, the first
  from `ServingTypes`.
- `FailureFreeIdsStayInRange`: `IdsStayInRange`, for finitely many replicas and slots,
  when ZooKeeper and `INSERT` do not fail and the range has room for `Overshoot` rows
  past the threshold. (Replicas may still crash, and sessions expire; with failures the
  property is false, see the findings.) The argument counts. A call that inserts past the
  threshold becomes a change to `ReadOnly` and keeps a *place* until that is applied: its
  slot, a place in the queue, or the consumer (`PlacesSuffice`). So there is `Room` for as
  many rows as places before the type has changed, and each change to `WriteUrlsOnly` that
  was asked for by then can bring the shard back from `ReadOnly` once, which is why the
  places are squared. `Room` never grows within a run
  (`RoomStep`), an insert past the threshold takes one of it (`CreateRoom`), applying a
  change takes what its place was counted for (`WorkerRoom`), and a start pays with one of
  the remaining runs (`LifeAllowance`). `InsertsAreAllowed` sums this over the replicas, as
  the cardinality of one finite set (`Allowances`) instead of a sum; the other conjuncts of
  `RangeInv` say that only ready replicas hold calls and tasks, that queues fit, and that
  ids of calls were drawn.

`BannedDomainsProofs`.
- `TypeCorrect`, and `InductiveInvariant`: the names in a call's `throughout` are in
  the table, and an answer "allowed" that was read excludes the domain.
- `NoBanIsOverlooked`: `BannedIsRejected` follows. The argument never mentions what
  the cache holds, which is why losing, delaying or reordering cache updates cannot
  break it.

`UrlCacheProofs`.
- `TypeCorrect`, and `InductiveInvariant`: beside the types, a call that enqueues has
  a task left, without which `EnqueueNext` would put an arbitrary value in the queue.
- `DeletedLinksStayGone`: `GoneForGood`. While the row is gone a call reads no
  destination (`NothingFound`), so no step makes a fill with one (`NoNewFill`), and
  Redis gets destinations from fills only (`NoNewEntry`). Crashes and lost tasks only
  take tasks away.
- `SerialCallsOutdateNothing`: `OutdatedIsBeingRemoved`, for one slot of one replica,
  no faults, and a user who is not deleted. `Serial` looks at the *line* of tasks in the
  order they will run: the queue and what the call has yet to enqueue. An entry that is
  outdated, and a fill in the line with an old destination (`OldFill`), has a removal of
  its group behind it (`RemovedAfter`): it was read before the change, whose removals come
  last, since calls do not overlap.

`FrontendShardViewProofs`.
- `TypeCorrect`, and `InductiveInvariant`: the view is that of the state `viewAt`
  points to; nothing older than the subscription is on its way; once subscribed,
  either the watch is armed or its event waits; and when it is armed, the handler
  holds or has applied the current state, unless `Initialize` wrote after it.
- `BehindViewsAreRenewed`: the last clause, read the other way round.
- `ViewIsDirectory`: `Spec => ImplementsDirectory`, step by step (`InitRefines`,
  `NextRefines`). `UpdateShardsOffers` is the lemma on data: subtracting the sets of
  types offers exactly the shards all of whose replicas accept. Applying the state
  already shown is a stutter, any other application is `Show`.

`VisitCountingProofs`.
- `TypeCorrect`.
- `NoSecondRow`: `OneRowPerReplicaAndHour`, with the invariant that a replica about to
  insert has no fresh row or has missed it (`NoRowYet`): only its own consumer inserts for
  it, and that looked before. Rows age and go, but none becomes fresh again.
- `RowsWithinTotal`: `VisitsNeverExceedViews`. `TotalsInv` adds what is on its way:
  `TotalViews` is at least the sum of the rows and the tasks between the two increments
  (`Counting`), while the link is there. Sums over the rows are taken apart one element at a
  time (`SumElement`), their recursion by induction over the set of numbers for which the
  fact holds, since induction theorems with operators are out of reach.

`ElectionProofs`.
- `TypeCorrect`, and `InductiveInvariant`: `Inv`. A replica holds an election only while
  its client does (`Clients`), with an offer from the step on that makes it (`Elections`);
  no number is given twice (`Numbers`); the offer is in ZooKeeper as long as the session it
  was made in (`OwnOffer`); nothing is below that of a replica that was told it is elected,
  now or later, for numbers only grow (`Lowest`); an election of another session is being
  stopped, or an event that was not handled yet will stop it (`OtherSessionStops`).
  Whoever has listed the offers and not read them yet holds an offer of its own (`Elections`).
- `ElectedAreMasters`: `ElectedIsMaster`.

`ServicesProofs`, about `MCServices`: while a part runs its steps keep its invariant, while
another runs its variables do not change.
- `PartsAreTyped`: the type invariants of all ten parts.
- `ElectedAreMasters`, from `ElectionProofs`.
- `RatesAreLimited`, `RefusalsAreDue`: `NeverMoreThanMax` and `OnlyExcessIsLimited`. For
  the seconds of a rule's window its set has as many members as requests passed
  (`SetsAreLive`), and no key expires before the window of a request that passed is over
  (`KeysOutlive`), so that expiry forgets nothing that still counts.
- `VisitsRaiseAllFigures`: `VisitsShowAtOnce`, from `StatsInv`: the row that takes a visit
  is of the last hour, hence in every window; time moves rows out of the others only.
- `FiguresStayTrue`: `FiguresAreTrue`, from `FiguresInv`: each column of a row
  (`RowIsTrue`) counts the visits the log says the row took (`Took`), because a new row is
  a blank one that was raised (`Blank`, `RowRaised`). What is folded from the rows is
  then a matter of data. A sum over rows of what each took is the number of visits of all
  (`SumOfGroups`, `RowsTogether`). The fold of the rows' bags, a recursive function, is the
  bag `Together` (`MergedIsTogether`). A type's keys in a row are those of its visits
  (`KeysOfType`), since what other types take out of the row's JSON is not theirs
  (`VisitsAreParsed`).
- `RequestsReachOneShard`: `OneShardAnswers`. A request is with one replica at a time
  (`OneAtATime`) and answered by one shard per delivery (`DeliveredOnce`, `AnsweredOnce`).
- `BatchesOfKnownLinks`: `BatchesNeedSingleRequests`: what is cached, or about to be, the
  shard has answered for alone.
- `ChecksAreShown`: `FieldsShowTheirLastCheck`, action by action over the script's events.
- `IdsReadBack`: `ShortIdsReadBack`, for any alphabet of two or more characters, width and
  range size. The recursive functions of `Digits` and of the fold that reads a short id
  are shown to exist (`DigitsOfNumbers`, `ReadingsExist`); the digits of a number, with any
  zeros before them, read back as the number (`DigitsReadBack`), and a number at or after
  `StarterRange` is in one range, since ranges are next to each other (`NextMultiples`).

`PaginationProofs`.
- `TypeCorrect`, and `InductiveInvariant`, which divides the links. The rows shown and
  skipped are links that were there (`OnlyLinksAreKnown`), cursors are of the past
  (`CursorIsOld`). Forward, what was skipped is behind the walk, unshown (`SkippedIsPast`),
  and what is not to come (`ToCome`, what the next query would find) was shown, skipped or
  disturbed or is of a cursor's millisecond (`MissedIsKnown`); backward it was shown or
  skipped (`NothingIsMissed`). A change moves a row ahead: away from a walk
  forward, before one backward (`ChangedKeeps`). The lemmas on a query rest on the rank
  of a row, the number of rows before it, which the order increases (`RankIncreases`): the
  rows of a page come before all the rest (`RestIsBehind`), and the last page has all that
  is left (`LastPageIsAll`).
- `OnlyHighestSkipped`, `SkippedStaysHidden` and `WalksForwardAdvance`: the three properties
  of walks, from that invariant. The last says that the cursor of a page forward, whichever
  is followed, lies strictly behind the one before.

Only model-checked: liveness (`OldNodesGo`, `WantedTypeIsApplied`,
`EventuallyCurrent`, `StaleBansEnd`, `EveryVisitIsCounted`, `ViewCatchesUp`,
`ElectionSettles`, `ReadyIsNoticed`, `StopsOnceReady`), which is beyond the prover.
Every invariant of the passing runs is proved.

## 5. Plan

Modelled, in the order of importance: `ShardLifecycle`, `UrlCache`, `BannedDomains`,
`VisitCounting`, `ShardDirectory` with `FrontendShardView`, `ViewStats`,
`CountAggregation`, `Pagination`, `ShortIds`, `RateLimiter`, `Election`,
`HostLifecycle`, `UrlBatch`, `UnobtrusiveValidation`. With proofs: all but `HostLifecycle`,
whose types only are proved.

Left:
1. The second row that a retried `Create` makes, in `ShardLifecycle`.
2. A composition of `UrlCache` and `Pagination`, for pages of which some are cached and
   some fresh.

## 6. Not modelled

- Password hashing, JWT, GeoIP and user-agent parsing, telemetry, configuration,
  error texts: library calls or wording.
- REST and GraphQL endpoints and views: they validate, forward and keep nothing.
- Vendored browser libraries (jQuery, `jquery.validate.js`, Bootstrap) and generated
  code. `jquery.validate.unobtrusive.js` is modelled; `js/site.js` holds comments only.
- Domains of links (`DomainRepository.GetOrAdd`): one statement under a unique index, of
  which one may fail when two come at once, before anything is changed.
- Postgres, Redis, ZooKeeper, RabbitMQ and the .NET channel appear as the code uses
  them: single statements are atomic, a connection may fail before or after the
  effect.

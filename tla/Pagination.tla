------------------------------- MODULE Pagination -------------------------------
(***************************************************************************)
(* The pages of a user's links, by the time of their last change, and an   *)
(* owner's walk through them while links are visited, changed, created and *)
(* deleted.  From GrpcBackend/Services/UrlService.cs (GetByUserId),        *)
(* Repositories/UrlRepository.cs and Shared/Utils/ShortIdUtils.cs          *)
(* (cursors).  Pages that the frontend takes from its cache are UrlCache's *)
(* matter: here each page is the shard's answer.                           *)
(***************************************************************************)
EXTENDS Integers, FiniteSets

CONSTANTS
    Sizes,      \* page sizes asked for
    TicksPerMs, \* Postgres keeps microseconds, cursors milliseconds
    MaxTime,    \* bound: the ticks
    MaxLinks    \* bound: the links

ASSUME PaginationAssumption ==
    /\ Sizes \subseteq Nat \ {0} /\ TicksPerMs \in Nat \ {0}
    /\ MaxTime \in Nat /\ MaxLinks \in Nat

VARIABLES
    now,       \* NOW()
    updatedAt, \* UpdatedAt of the user's rows in Url, by Id
    lastId,    \* the last Id given
    walk       \* the owner's way through the pages

vars == <<now, updatedAt, lastId, walk>>

NoCursor == [id |-> 0, at |-> 0]

\* first and after walk forward, from the latest link; last and before backward.
\* To go on the owner takes the cursor of the last edge, or the one of pageInfo.
Walks == [forward: BOOLEAN, size: Sizes, follows: {"edges", "pageInfo"}]

Init ==
    /\ now = 0 /\ updatedAt = <<>> /\ lastId = 0
    /\ walk = [state |-> "none"]

-------------------------------------------------------------------------------
(* The rows *)

Links == DOMAIN updatedAt

Tick ==
    /\ now < MaxTime /\ now' = now + 1
    /\ UNCHANGED <<updatedAt, lastId, walk>>

Changed(i) == updatedAt' = [j \in Links \union {i} |-> IF j = i THEN now ELSE updatedAt[j]]

\* A walk that goes on remembers which links did not stay as they were.
Disturbs(i) ==
    /\ walk.state # "done"
    /\ walk' = IF walk.state = "none" THEN walk ELSE [walk EXCEPT !.disturbed = @ \union {i}]

Create ==
    /\ lastId < MaxLinks
    /\ lastId' = lastId + 1 /\ Changed(lastId + 1) /\ Disturbs(lastId + 1)
    /\ UNCHANGED now

\* Update and IncrementVisit set UpdatedAt to NOW().
Touch(i) ==
    /\ Changed(i) /\ Disturbs(i)
    /\ UNCHANGED <<now, lastId>>

Delete(i) ==
    /\ updatedAt' = [j \in Links \ {i} |-> updatedAt[j]]
    /\ Disturbs(i)
    /\ UNCHANGED <<now, lastId>>

-------------------------------------------------------------------------------
(* GetByUserId *)

Key(i) == [id |-> i, at |-> updatedAt[i]]

Less(k, l) == k.at < l.at \/ (k.at = l.at /\ k.id < l.id)

\* Mutants: whole seconds; milliseconds rounded up.
CreateCursor_Seconds(i) == [id |-> i, at |-> updatedAt[i] - (updatedAt[i] % (2 * TicksPerMs))]
CreateCursor_Up(i) == [id |-> i, at |-> updatedAt[i] + ((-updatedAt[i]) % TicksPerMs)]

\* Milliseconds: the rest of the time is lost.
CreateCursor(i) == [id |-> i, at |-> updatedAt[i] - (updatedAt[i] % TicksPerMs)]

\* Mutant: a link at the cursor itself is found again.
IsAfter_OrAt(forward, k, l) == IF forward THEN ~Less(l, k) ELSE ~Less(k, l)

\* In the order of the walk, k comes after l.
IsAfter(forward, k, l) == IF forward THEN Less(k, l) ELSE Less(l, k)

\* WHERE: what the query finds behind the cursor.
Found(w) == {i \in Links : w.cursor = NoCursor \/ IsAfter(w.forward, Key(i), w.cursor)}

\* ORDER BY and LIMIT of the query: the first n of them.
FirstOf(w, n) ==
    {i \in Found(w) :
        Cardinality({j \in Found(w) : IsAfter(w.forward, Key(i), Key(j))}) < n}

\* One more than asked for, to know whether there are more.
Rows(w) == FirstOf(w, w.size + 1)

HasMore(w) == Rows(w) # FirstOf(w, w.size)

\* Include(Visits) makes the query an inner one whose rows are joined and ordered by
\* Id: the last of a list of rows is the one with the highest Id.
IsLast(i, rows) == i \in rows /\ \A j \in rows : j <= i

StartWalk(w) ==
    /\ walk.state = "none"
    /\ walk' = [state |-> "walking", forward |-> w.forward, size |-> w.size,
                follows |-> w.follows, cursor |-> NoCursor,
                shown |-> {}, used |-> {}, skipped |-> {}, disturbed |-> {}]
    /\ UNCHANGED <<now, updatedAt, lastId>>

\* A full page: Take leaves out the last of the rows, whose cursor pageInfo has.  A
\* link is skipped that is left out unseen and does not lie behind the cursor used.
GetByUserId ==
    /\ walk.state = "walking" /\ HasMore(walk)
    /\ \E last, i \in Rows(walk) :
           /\ IsLast(last, Rows(walk))
           /\ \/ walk.follows = "edges" /\ IsLast(i, Rows(walk) \ {last})
              \/ walk.follows = "pageInfo" /\ i = last
           /\ walk' = [walk EXCEPT
                  !.cursor = CreateCursor(i),
                  !.shown = @ \union (Rows(walk) \ {last}),
                  !.used = @ \union {CreateCursor(i).at},
                  !.skipped = @ \union
                      {j \in {last} \ walk.shown :
                          ~IsAfter(walk.forward, Key(j), CreateCursor(i))}]
    /\ UNCHANGED <<now, updatedAt, lastId>>

\* The last page; with no rows at all the answer is NotFound.
GetByUserIdLast ==
    /\ walk.state = "walking" /\ ~HasMore(walk)
    /\ walk' = [walk EXCEPT !.state = "done", !.shown = @ \union Rows(walk)]
    /\ UNCHANGED <<now, updatedAt, lastId>>

Next ==
    \/ Tick \/ Create
    \/ \E i \in Links : Touch(i) \/ Delete(i)
    \/ \E w \in Walks : StartWalk(w)
    \/ GetByUserId \/ GetByUserIdLast

Spec == Init /\ [][Next]_vars

-------------------------------------------------------------------------------
(* Properties *)

Key_ == [id: 1 .. MaxLinks, at: 0 .. MaxTime]

\* Every variable has its type.
TypeOK ==
    /\ now \in 0 .. MaxTime /\ lastId \in 0 .. MaxLinks
    /\ Links \subseteq 1 .. lastId /\ \A i \in Links : updatedAt[i] \in 0 .. now
    /\ walk = [state |-> "none"] \/ walk \in
           [state: {"walking", "done"}, forward: BOOLEAN, size: Sizes,
            follows: {"edges", "pageInfo"}, cursor: Key_ \union {NoCursor},
            shown: SUBSET (1 .. MaxLinks), used: SUBSET (0 .. MaxTime),
            skipped: SUBSET (1 .. MaxLinks), disturbed: SUBSET (1 .. MaxLinks)]

\* What a walk that is over has not shown was skipped as the highest Id of the rows of
\* a page, whatever was visited, changed, created or deleted on the way; a walk forward
\* also misses links that did not stay as they were, and those changed in the same
\* millisecond as one whose cursor was used.
OnlyTheHighestIdIsSkipped ==
    walk.state = "done" =>
        \A i \in Links \ (walk.shown \union walk.skipped) :
            /\ walk.forward
            /\ \/ i \in walk.disturbed
               \/ \E t \in walk.used : t \div TicksPerMs = updatedAt[i] \div TicksPerMs

\* A link that a walk forward has skipped is not shown by any later page of it, even
\* if it is visited or changed then.
SkippedIsNeverShown ==
    walk.state # "none" /\ walk.forward => walk.skipped \intersect walk.shown = {}

\* Every page of a walk forward leaves fewer links for the next, although links are
\* shown again: the walk ends when no links are added.  (Walking backward, the first
\* rows behind a cursor can be those before it.)
ForwardAdvances ==
    [][GetByUserId /\ walk.forward =>
          /\ Found(walk)' \subseteq Found(walk) /\ Found(walk)' # Found(walk)]_vars
===============================================================================

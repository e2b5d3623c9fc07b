---------------------------- MODULE PaginationProofs ----------------------------
(***************************************************************************)
(* What a walk through the pages does not show was the highest Id of the   *)
(* rows of a page, which a walk forward never shows later; and a walk      *)
(* forward gets on: for any number of links, page size and resolution of   *)
(* cursors, whatever is visited, changed, created or deleted meanwhile.    *)
(***************************************************************************)
EXTENDS Pagination, FiniteSetTheorems, WellFoundedInduction, TLAPS

-------------------------------------------------------------------------------
(* Types *)

NoWalk == [state |-> "none"]

Cursor == Key_ \union {NoCursor}

Walk == [state: {"walking", "done"}, forward: BOOLEAN, size: Sizes,
         follows: {"edges", "pageInfo"}, cursor: Cursor,
         shown: SUBSET (1 .. MaxLinks), used: SUBSET (0 .. MaxTime),
         skipped: SUBSET (1 .. MaxLinks), disturbed: SUBSET (1 .. MaxLinks)]

\* What the steps do to a walk.
LEMMA WalkSteps ==
    ASSUME NEW w \in Walk
    PROVE  /\ \A i \in 1 .. MaxLinks :
                  /\ [w EXCEPT !.disturbed = @ \union {i}] \in Walk
                  /\ [w EXCEPT !.disturbed = @ \union {i}] # NoWalk
           /\ \A s \in SUBSET (1 .. MaxLinks) :
                  [w EXCEPT !.state = "done", !.shown = s] \in Walk
           /\ \A c \in Cursor, s \in SUBSET (1 .. MaxLinks),
                 u \in SUBSET (0 .. MaxTime), k \in SUBSET (1 .. MaxLinks) :
                  [w EXCEPT !.cursor = c, !.shown = s, !.used = u, !.skipped = k] \in Walk
<1>1. ASSUME NEW i \in 1 .. MaxLinks
      PROVE  /\ [w EXCEPT !.disturbed = @ \union {i}] \in Walk
             /\ [w EXCEPT !.disturbed = @ \union {i}] # NoWalk
  BY <1>1 DEF Walk, NoWalk
<1>2. ASSUME NEW s \in SUBSET (1 .. MaxLinks)
      PROVE  [w EXCEPT !.state = "done", !.shown = s] \in Walk
  BY <1>2 DEF Walk
<1>3. ASSUME NEW c \in Cursor, NEW s \in SUBSET (1 .. MaxLinks),
             NEW u \in SUBSET (0 .. MaxTime), NEW k \in SUBSET (1 .. MaxLinks)
      PROVE  [w EXCEPT !.cursor = c, !.shown = s, !.used = u, !.skipped = k] \in Walk
  BY <1>3 DEF Walk
<1>4. QED
  BY <1>1, <1>2, <1>3

\* A cursor is not later than the row it is made of, and of the same millisecond.
LEMMA CursorOfRow ==
    ASSUME TypeOK, NEW i \in Links
    PROVE  /\ CreateCursor(i) \in Key_ /\ CreateCursor(i).id = i
           /\ CreateCursor(i).at \in 0 .. updatedAt[i]
           /\ CreateCursor(i).at \div TicksPerMs = updatedAt[i] \div TicksPerMs
<1> DEFINE at == updatedAt[i]
<1>1. at \in Nat /\ at <= now /\ now \in Nat /\ now <= MaxTime /\ i \in 1 .. MaxLinks
  BY PaginationAssumption DEF TypeOK
<1>2. TicksPerMs \in Nat \ {0}
  BY PaginationAssumption
<1>3. at % TicksPerMs \in 0 .. at
  BY <1>1, <1>2
<1>4. (at - (at % TicksPerMs)) \div TicksPerMs = at \div TicksPerMs
  BY <1>1, <1>2
<1>5. QED
  BY <1>1, <1>3, <1>4, PaginationAssumption DEF CreateCursor, Key_

\* Division is monotone.
LEMMA Between ==
    ASSUME NEW n \in Nat \ {0}, NEW a \in Nat, NEW b \in Nat, NEW c \in Nat,
           a <= b, b <= c, a \div n = c \div n
    PROVE  b \div n = a \div n
OBVIOUS

LEMMA InitType == Init => TypeOK
BY PaginationAssumption DEF Init, TypeOK, Links

\* The walk after a page that has a next one: i is the row of the cursor, last the
\* row that is left out.
LEMMA PageStep ==
    ASSUME TypeOK, walk \in Walk, NEW last, NEW i \in Rows(walk),
           walk' = [walk EXCEPT
               !.cursor = CreateCursor(i),
               !.shown = @ \union (Rows(walk) \ {last}),
               !.used = @ \union {CreateCursor(i).at},
               !.skipped = @ \union
                   {j \in {last} \ walk.shown :
                       ~IsAfter(walk.forward, Key(j), CreateCursor(i))}],
           last \in Rows(walk)
    PROVE  /\ walk' \in Walk /\ walk'.cursor = CreateCursor(i)
           /\ walk'.shown = walk.shown \union (Rows(walk) \ {last})
           /\ walk'.used = walk.used \union {CreateCursor(i).at}
           /\ walk'.skipped = walk.skipped \union
                  {j \in {last} \ walk.shown :
                      ~IsAfter(walk.forward, Key(j), CreateCursor(i))}
           /\ walk'.state = walk.state /\ walk'.forward = walk.forward
           /\ walk'.disturbed = walk.disturbed
<1> DEFINE shown == walk.shown \union (Rows(walk) \ {last})
           used == walk.used \union {CreateCursor(i).at}
           skipped == walk.skipped \union
                          {j \in {last} \ walk.shown :
                              ~IsAfter(walk.forward, Key(j), CreateCursor(i))}
<1>1. Rows(walk) \subseteq Links /\ Links \subseteq 1 .. MaxLinks
  BY PaginationAssumption DEF Rows, FirstOf, Found, TypeOK
<1>2. CreateCursor(i) \in Cursor /\ CreateCursor(i).at \in 0 .. MaxTime
  <2>1. i \in Links
    BY <1>1
  <2>2. CreateCursor(i) \in Key_
    BY <2>1, CursorOfRow
  <2>3. QED
    BY <2>2 DEF Cursor, Key_
<1>3. /\ walk.shown \in SUBSET (1 .. MaxLinks) /\ walk.used \in SUBSET (0 .. MaxTime)
      /\ walk.skipped \in SUBSET (1 .. MaxLinks)
  BY DEF Walk
<1>4. /\ shown \in SUBSET (1 .. MaxLinks) /\ used \in SUBSET (0 .. MaxTime)
      /\ skipped \in SUBSET (1 .. MaxLinks)
  BY <1>1, <1>2, <1>3
<1>5. walk' = [walk EXCEPT !.cursor = CreateCursor(i), !.shown = shown, !.used = used,
                           !.skipped = skipped]
  OBVIOUS
<1> HIDE DEF shown, used, skipped
<1>6. walk' \in Walk
  <2>1. [walk EXCEPT !.cursor = CreateCursor(i), !.shown = shown, !.used = used,
                     !.skipped = skipped] \in Walk
    BY <1>2, <1>4, WalkSteps, Zenon
  <2>2. QED
    BY <1>5, <2>1, Zenon
<1>7. /\ walk'.cursor = CreateCursor(i) /\ walk'.shown = shown /\ walk'.used = used
      /\ walk'.skipped = skipped /\ walk'.state = walk.state
      /\ walk'.forward = walk.forward /\ walk'.disturbed = walk.disturbed
  BY <1>5 DEF Walk
<1>8. QED
  BY <1>6, <1>7 DEF shown, used, skipped

\* The walk after the last page.
LEMMA LastStep ==
    ASSUME TypeOK, walk \in Walk, GetByUserIdLast
    PROVE  /\ walk' \in Walk /\ walk'.state = "done"
           /\ walk'.shown = walk.shown \union Rows(walk)
           /\ walk'.cursor = walk.cursor /\ walk'.used = walk.used
           /\ walk'.skipped = walk.skipped /\ walk'.forward = walk.forward
           /\ walk'.disturbed = walk.disturbed
<1> DEFINE shown == walk.shown \union Rows(walk)
<1>1. Rows(walk) \subseteq Links /\ Links \subseteq 1 .. MaxLinks
  BY PaginationAssumption DEF Rows, FirstOf, Found, TypeOK
<1>2. walk.shown \in SUBSET (1 .. MaxLinks)
  BY DEF Walk
<1>3. shown \in SUBSET (1 .. MaxLinks)
  BY <1>1, <1>2
<1>4. walk' = [walk EXCEPT !.state = "done", !.shown = shown]
  BY DEF GetByUserIdLast
<1> HIDE DEF shown
<1>5. walk' \in Walk
  BY <1>3, <1>4, WalkSteps
<1>6. QED
  BY <1>4, <1>5 DEF Walk, shown

LEMMA NextType == TypeOK /\ [Next]_vars => TypeOK'
<1> SUFFICES ASSUME TypeOK, [Next]_vars PROVE TypeOK'
  OBVIOUS
<1>1. walk = NoWalk \/ walk \in Walk
  BY DEF TypeOK, NoWalk, Walk, Cursor
<1>2. /\ now \in 0 .. MaxTime /\ lastId \in 0 .. MaxLinks
      /\ Links \subseteq 1 .. lastId /\ \A i \in Links : updatedAt[i] \in 0 .. now
      /\ MaxTime \in Nat /\ MaxLinks \in Nat
  BY PaginationAssumption DEF TypeOK
<1> DEFINE RowsOK == /\ now' \in 0 .. MaxTime /\ lastId' \in 0 .. MaxLinks
                     /\ Links' \subseteq 1 .. lastId'
                     /\ \A i \in Links' : updatedAt'[i] \in 0 .. now'
           WalkOK == walk' = NoWalk \/ walk' \in Walk
<1>3. RowsOK /\ WalkOK => TypeOK'
  BY DEF TypeOK, NoWalk, Walk, Cursor
<1>4. ASSUME UNCHANGED <<now, updatedAt, lastId>> PROVE RowsOK
  BY <1>2, <1>4 DEF Links
<1>5. ASSUME NEW i \in 1 .. MaxLinks, Disturbs(i) PROVE WalkOK
  <2>1. CASE walk = NoWalk
    BY <1>5, <2>1 DEF Disturbs, NoWalk
  <2>2. CASE walk \in Walk
    BY <1>5, <2>2, WalkSteps DEF Disturbs, Walk
  <2>3. QED
    BY <1>1, <2>1, <2>2
<1>6. ASSUME Tick PROVE TypeOK'
  BY <1>1, <1>2, <1>3, <1>6 DEF Tick, Links
<1>7. ASSUME Create PROVE TypeOK'
  <2>1. RowsOK
    BY <1>2, <1>7 DEF Create, Changed, Links
  <2>2. WalkOK
    BY <1>2, <1>5, <1>7 DEF Create
  <2>3. QED
    BY <1>3, <2>1, <2>2
<1>8. ASSUME NEW i \in Links, Touch(i) PROVE TypeOK'
  <2>1. RowsOK
    BY <1>2, <1>8 DEF Touch, Changed, Links
  <2>2. WalkOK
    BY <1>2, <1>5, <1>8 DEF Touch
  <2>3. QED
    BY <1>3, <2>1, <2>2
<1>9. ASSUME NEW i \in Links, Delete(i) PROVE TypeOK'
  <2>1. RowsOK
    BY <1>2, <1>9 DEF Delete, Links
  <2>2. WalkOK
    BY <1>2, <1>5, <1>9 DEF Delete
  <2>3. QED
    BY <1>3, <2>1, <2>2
<1>10. ASSUME NEW w \in Walks, StartWalk(w) PROVE TypeOK'
  <2>1. w.forward \in BOOLEAN /\ w.size \in Sizes /\ w.follows \in {"edges", "pageInfo"}
    BY DEF Walks
  <2>2. walk' \in Walk
    BY <1>10, <2>1 DEF StartWalk, Walk, Cursor
  <2>3. QED
    BY <1>3, <1>4, <1>10, <2>2 DEF StartWalk
<1>11. ASSUME GetByUserId PROVE TypeOK'
  <2>1. walk \in Walk
    BY <1>1, <1>11 DEF GetByUserId, NoWalk
  <2>2. walk' \in Walk
    BY <1>11, <2>1, PageStep DEF GetByUserId
  <2>3. QED
    BY <1>3, <1>4, <1>11, <2>2 DEF GetByUserId
<1>12. ASSUME GetByUserIdLast PROVE TypeOK'
  <2>1. walk \in Walk
    BY <1>1, <1>12 DEF GetByUserIdLast, NoWalk
  <2>2. QED
    BY <1>3, <1>4, <1>12, <2>1, LastStep DEF GetByUserIdLast
<1>13. ASSUME UNCHANGED vars PROVE TypeOK'
  BY <1>1, <1>3, <1>4, <1>13 DEF vars
<1>14. QED
  BY <1>6, <1>7, <1>8, <1>9, <1>10, <1>11, <1>12, <1>13 DEF Next

\* Every reachable state of the rows and the walk through them is well typed.
THEOREM TypeCorrect == Spec => []TypeOK
BY InitType, NextType, PTL DEF Spec

-------------------------------------------------------------------------------
(* The order of the rows and their ranks in it *)

Before(w, i, j) == IsAfter(w.forward, Key(j), Key(i))

\* How many of the rows found come before one of them.
Rank(w, i) == Cardinality({j \in Found(w) : IsAfter(w.forward, Key(i), Key(j))})

LEMMA TotalOrder ==
    ASSUME TypeOK, NEW w \in Walk, NEW i \in Links, NEW j \in Links
    PROVE  /\ ~Before(w, i, i)
           /\ i # j => Before(w, i, j) \/ Before(w, j, i)
           /\ \A k \in Links : Before(w, i, j) /\ Before(w, j, k) => Before(w, i, k)
<1>1. /\ now \in 0 .. MaxTime /\ lastId \in 0 .. MaxLinks
      /\ Links \subseteq 1 .. lastId /\ \A k \in Links : updatedAt[k] \in 0 .. now
  BY DEF TypeOK
<1>2. \A k \in Links : k \in Int /\ updatedAt[k] \in Int
  BY <1>1, PaginationAssumption
<1>3. QED
  BY <1>2 DEF Before, IsAfter, Less, Key

LEMMA FoundIsFinite ==
    ASSUME TypeOK, NEW w
    PROVE  Found(w) \subseteq Links /\ IsFiniteSet(Found(w))
<1>1. lastId \in Int /\ Links \in SUBSET (1 .. lastId)
  BY PaginationAssumption DEF TypeOK
<1>2. IsFiniteSet(1 .. lastId)
  BY <1>1, FS_Interval
<1>3. IsFiniteSet(Links)
  BY <1>1, <1>2, FS_Subset
<1>4. Found(w) \in SUBSET Links
  BY DEF Found
<1>5. QED
  BY <1>3, <1>4, FS_Subset

LEMMA RankIncreases ==
    ASSUME TypeOK, NEW w \in Walk, NEW i \in Found(w)
    PROVE  /\ Rank(w, i) \in Nat
           /\ \A j \in Found(w) : Before(w, i, j) => Rank(w, i) < Rank(w, j)
<1> DEFINE front(j) == {k \in Found(w) : IsAfter(w.forward, Key(j), Key(k))}
<1>1. \A j \in Found(w) : IsFiniteSet(front(j)) /\ Rank(w, j) = Cardinality(front(j))
  BY FoundIsFinite, FS_Subset DEF Rank
<1>2. \A j \in Found(w) : Rank(w, j) \in Nat
  BY <1>1, FS_CardinalityType
<1>3. ASSUME NEW j \in Found(w), Before(w, i, j) PROVE Rank(w, i) < Rank(w, j)
  <2>1. \A k \in Found(w) : k \in front(i) => k \in front(j)
    BY <1>3, TotalOrder, FoundIsFinite DEF Before
  <2>2. i \in front(j) /\ i \notin front(i)
    BY <1>3, TotalOrder, FoundIsFinite DEF Before
  <2>3. front(i) \in SUBSET front(j) /\ front(i) # front(j)
    BY <2>1, <2>2
  <2>4. Cardinality(front(i)) <= Cardinality(front(j))
    BY <1>1, <2>3, FS_Subset
  <2>5. Cardinality(front(i)) # Cardinality(front(j))
    BY <1>1, <2>3, FS_Subset
  <2>6. QED
    BY <1>1, <1>2, <2>4, <2>5
<1>4. QED
  BY <1>2, <1>3

\* What is found and not among the first rows comes after all of them.
LEMMA RestIsBehind ==
    ASSUME TypeOK, NEW w \in Walk, NEW n \in Nat
    PROVE  /\ FirstOf(w, n) = {i \in Found(w) : Rank(w, i) < n}
           /\ FirstOf(w, n) \subseteq FirstOf(w, n + 1)
           /\ \A i \in FirstOf(w, n), j \in Found(w) \ FirstOf(w, n) : Before(w, i, j)
<1>1. FirstOf(w, n) = {i \in Found(w) : Rank(w, i) < n}
  BY DEF FirstOf, Rank
<1>2. FirstOf(w, n + 1) = {i \in Found(w) : Rank(w, i) < n + 1}
  BY DEF FirstOf, Rank
<1>3. FirstOf(w, n) \subseteq FirstOf(w, n + 1)
  BY <1>1, <1>2, RankIncreases
<1>4. ASSUME NEW i \in FirstOf(w, n), NEW j \in Found(w) \ FirstOf(w, n)
      PROVE  Before(w, i, j)
  <2>1. i \in Found(w) /\ Rank(w, i) < n /\ ~(Rank(w, j) < n)
    BY <1>1, <1>4
  <2>2. ~Before(w, j, i)
    BY <2>1, RankIncreases
  <2>3. QED
    BY <2>1, <2>2, TotalOrder, FoundIsFinite
<1>5. QED
  BY <1>1, <1>3, <1>4

\* When there is no row beyond a page it has all that was found: otherwise the
\* first of the rest would be that row, for a page of n has n rows at most.
LEMMA LastPageIsAll ==
    ASSUME TypeOK, NEW w \in Walk, NEW n \in Nat, FirstOf(w, n + 1) = FirstOf(w, n)
    PROVE  FirstOf(w, n) = Found(w)
<1> DEFINE page == FirstOf(w, n)
           rest == Found(w) \ page
           ranks == {Rank(w, i) : i \in rest}
<1>1. page \subseteq Found(w)
  BY DEF FirstOf
<1>2. SUFFICES ASSUME rest # {} PROVE FALSE
  BY <1>1
<1>3. ranks \subseteq Nat /\ ranks # {}
  BY <1>2, RankIncreases
<1>4. PICK r \in ranks : \A q \in ranks : ~(<<q, r>> \in OpToRel(<, Nat))
  BY <1>3, WFMin, NatLessThanWellFounded, Zenon
<1>5. PICK i \in rest : r = Rank(w, i)
  BY <1>4
<1>6. \A j \in rest : ~(Rank(w, j) < Rank(w, i))
  <2>1. \A q \in ranks : ~(q < r)
    BY <1>3, <1>4 DEF OpToRel
  <2>2. QED
    BY <1>5, <2>1
<1> DEFINE front == {j \in Found(w) : IsAfter(w.forward, Key(i), Key(j))}
<1>7. front \in SUBSET page
  <2>1. \A j \in front : j \in Found(w) /\ Rank(w, j) < Rank(w, i)
    BY <1>5, RankIncreases DEF Before
  <2>2. QED
    BY <1>6, <2>1
<1>8. IsFiniteSet(page) /\ IsFiniteSet(0 .. n - 1) /\ Cardinality(0 .. n - 1) = n
  <2>1. page \in SUBSET Found(w) /\ IsFiniteSet(Found(w))
    BY <1>1, FoundIsFinite
  <2>2. IsFiniteSet(page)
    BY <2>1, FS_Subset
  <2>3. IsFiniteSet(0 .. n - 1) /\ Cardinality(0 .. n - 1) = n
    <3>1. 0 \in Int /\ n - 1 \in Int
      OBVIOUS
    <3>2. /\ IsFiniteSet(0 .. n - 1)
          /\ Cardinality(0 .. n - 1) = IF 0 > n - 1 THEN 0 ELSE (n - 1) - 0 + 1
      BY <3>1, FS_Interval
    <3>3. QED
      BY <3>2
  <2>4. QED
    BY <2>2, <2>3
<1>9. Cardinality(page) <= n
  <2> DEFINE f == [j \in page |-> Rank(w, j)]
  <2>1. \A j \in page : Rank(w, j) \in 0 .. n - 1
    BY <1>1, RankIncreases, RestIsBehind
  <2>2. \A j, k \in page : Rank(w, j) = Rank(w, k) => j = k
    BY <1>1, RankIncreases, TotalOrder, FoundIsFinite
  <2>3. f \in Injection(page, 0 .. n - 1)
    BY <2>1, <2>2 DEF Injection, IsInjective
  <2>4. QED
    BY <1>8, <2>3, FS_Injection
<1>10. Cardinality(front) <= Cardinality(page) /\ Cardinality(front) \in Nat /\ Cardinality(page) \in Nat
  BY <1>7, <1>8, FS_Subset, FS_CardinalityType
<1>11. Rank(w, i) < n + 1
  BY <1>9, <1>10 DEF Rank
<1>12. i \in FirstOf(w, n + 1)
  BY <1>5, <1>11, RestIsBehind
<1>13. QED
  BY <1>5, <1>12

-------------------------------------------------------------------------------
(* The rows of a page and what their cursors find next *)

LEMMA SizeType ==
    ASSUME NEW w \in Walk
    PROVE  w.size \in Nat /\ w.size + 1 \in Nat
<1>1. w.size \in Sizes
  BY DEF Walk
<1>2. \A n \in Sizes : n \in Nat
  BY PaginationAssumption
<1>3. QED
  BY <1>1, <1>2

\* What a page has no row of lies behind all its rows.
LEMMA RowsAreFirst ==
    ASSUME TypeOK, walk \in Walk
    PROVE  /\ Rows(walk) \subseteq Found(walk) /\ Found(walk) \subseteq Links
           /\ Links \subseteq 1 .. MaxLinks
           /\ \A i \in Rows(walk), j \in Found(walk) \ Rows(walk) : Before(walk, i, j)
           /\ ~HasMore(walk) => Rows(walk) = Found(walk)
<1>1. walk.size \in Nat /\ walk.size + 1 \in Nat
  BY SizeType
<1>2. \A i \in Rows(walk), j \in Found(walk) \ Rows(walk) : Before(walk, i, j)
  BY <1>1, RestIsBehind DEF Rows
<1>3. ~HasMore(walk) => Rows(walk) = Found(walk)
  BY <1>1, LastPageIsAll DEF HasMore, Rows
<1>4. QED
  BY <1>2, <1>3, PaginationAssumption DEF Rows, FirstOf, Found, TypeOK

LEMMA FoundMeans ==
    ASSUME NEW w, NEW i
    PROVE  i \in Found(w) <=>
               /\ i \in Links
               /\ \/ w.cursor = NoCursor
                  \/ IF w.forward
                     THEN \/ updatedAt[i] < w.cursor.at
                          \/ updatedAt[i] = w.cursor.at /\ i < w.cursor.id
                     ELSE \/ w.cursor.at < updatedAt[i]
                          \/ w.cursor.at = updatedAt[i] /\ w.cursor.id < i
BY DEF Found, IsAfter, Less, Key

LEMMA FoundMeansNext ==
    ASSUME NEW i
    PROVE  i \in Found(walk)' <=>
               /\ i \in Links'
               /\ \/ walk'.cursor = NoCursor
                  \/ IF walk'.forward
                     THEN \/ updatedAt'[i] < walk'.cursor.at
                          \/ updatedAt'[i] = walk'.cursor.at /\ i < walk'.cursor.id
                     ELSE \/ walk'.cursor.at < updatedAt'[i]
                          \/ walk'.cursor.at = updatedAt'[i] /\ walk'.cursor.id < i
BY DEF Found, IsAfter, Less, Key, NoCursor

LEMMA BeforeMeans ==
    ASSUME NEW w, NEW i, NEW j
    PROVE  Before(w, i, j) <=>
               IF w.forward
               THEN updatedAt[j] < updatedAt[i] \/ (updatedAt[j] = updatedAt[i] /\ j < i)
               ELSE updatedAt[i] < updatedAt[j] \/ (updatedAt[i] = updatedAt[j] /\ i < j)
BY DEF Before, IsAfter, Less, Key

\* What the cursor of a row i finds next: forward, nothing up to the row; backward,
\* everything behind it.
LEMMA NextFound ==
    ASSUME TypeOK, walk \in Walk, NEW i \in Found(walk), NEW w \in Walk,
           w.cursor = CreateCursor(i), w.forward = walk.forward
    PROVE  /\ w.forward => /\ Found(w) \subseteq Found(walk)
                           /\ i \notin Found(w)
                           /\ \A j \in Found(w) : Before(walk, i, j)
                           /\ \A j \in Links : /\ Before(walk, i, j)
                                               /\ j \notin Found(w)
                                  => updatedAt[j] \div TicksPerMs = w.cursor.at \div TicksPerMs
           /\ ~w.forward => \A j \in Links : Before(walk, i, j) => j \in Found(w)
<1> DEFINE c == w.cursor
<1>1. i \in Links /\ walk.forward \in BOOLEAN
  BY FoundMeans DEF Walk
<1>2. \A j \in Links : j \in Nat \ {0} /\ updatedAt[j] \in Nat
  BY PaginationAssumption DEF TypeOK
<1>3. /\ c.id = i /\ c.at \in 0 .. updatedAt[i] /\ c # NoCursor
      /\ c.at \div TicksPerMs = updatedAt[i] \div TicksPerMs
  BY <1>1, <1>2, CursorOfRow DEF NoCursor
<1>4. walk.cursor = NoCursor \/ (walk.cursor.at \in Nat /\ walk.cursor.id \in Nat)
  BY PaginationAssumption DEF Walk, Cursor, Key_
<1>5. TicksPerMs \in Nat \ {0}
  BY PaginationAssumption
<1>6. ASSUME w.forward
      PROVE  /\ \A j \in Found(w) : j \in Found(walk) /\ Before(walk, i, j)
             /\ i \notin Found(w)
  <2>1. ASSUME NEW j \in Found(w) PROVE j \in Links /\ Before(walk, i, j)
    <3>1. /\ j \in Links
          /\ updatedAt[j] < c.at \/ (updatedAt[j] = c.at /\ j < c.id)
      BY <1>3, <1>6, <2>1, FoundMeans
    <3>2. updatedAt[j] < updatedAt[i] \/ (updatedAt[j] = updatedAt[i] /\ j < i)
      BY <1>1, <1>2, <1>3, <3>1
    <3>3. QED
      BY <1>6, <3>1, <3>2, BeforeMeans
  <2>2. ASSUME NEW j \in Found(w) PROVE j \in Found(walk)
    <3>1. j \in Links /\ Before(walk, i, j)
      BY <2>1
    <3>2. QED
      BY <1>1, <1>2, <1>4, <1>6, <3>1, FoundMeans, BeforeMeans
  <2>3. i \notin Found(w)
    BY <1>1, <1>2, <1>3, <1>6, FoundMeans
  <2>4. QED
    BY <2>1, <2>2, <2>3
<1>7. ASSUME w.forward, NEW j \in Links, Before(walk, i, j), j \notin Found(w)
      PROVE  updatedAt[j] \div TicksPerMs = c.at \div TicksPerMs
  <2>1. updatedAt[j] <= updatedAt[i] /\ c.at <= updatedAt[j]
    <3>1. updatedAt[j] < updatedAt[i] \/ (updatedAt[j] = updatedAt[i] /\ j < i)
      BY <1>7, BeforeMeans
    <3>2. ~(updatedAt[j] < c.at)
      BY <1>3, <1>7, FoundMeans
    <3>3. QED
      BY <1>1, <1>2, <1>3, <3>1, <3>2
  <2>2. /\ c.at \in Nat /\ updatedAt[j] \in Nat /\ updatedAt[i] \in Nat
        /\ c.at \div TicksPerMs = updatedAt[i] \div TicksPerMs
    BY <1>1, <1>2, <1>3
  <2>3. QED
    BY <1>5, <2>1, <2>2, Between
<1>8. ASSUME ~w.forward, NEW j \in Links, Before(walk, i, j) PROVE j \in Found(w)
  BY <1>1, <1>2, <1>3, <1>8, FoundMeans, BeforeMeans
<1>9. QED
  BY <1>6, <1>7, <1>8

-------------------------------------------------------------------------------
(* The invariant of a walk *)

\* Behind the cursor of a walk that goes on.
ToCome(i) == walk.state = "walking" /\ i \in Found(walk)

CursorsMillisecond(i) ==
    \E t \in walk.used : t \div TicksPerMs = updatedAt[i] \div TicksPerMs

CursorIsOld == walk.cursor.id <= lastId /\ walk.cursor.at <= now

OnlyLinksAreKnown == \A i \in walk.shown \union walk.skipped : i <= lastId

SkippedIsPast == \A i \in walk.skipped : i \notin walk.shown /\ ~ToCome(i)

MissedIsKnown ==
    \A i \in Links \ (walk.shown \union walk.skipped) :
        i \in walk.disturbed \/ CursorsMillisecond(i) \/ ToCome(i)

NothingIsMissed == \A i \in Links \ (walk.shown \union walk.skipped) : ToCome(i)

WalkInv ==
    /\ CursorIsOld /\ OnlyLinksAreKnown
    /\ walk.forward => SkippedIsPast /\ MissedIsKnown
    /\ ~walk.forward => NothingIsMissed

PageInv == walk = NoWalk \/ (walk \in Walk /\ WalkInv)

\* Rows change and come, and the walk remembers it.
LEMMA ChangedKeeps ==
    ASSUME TypeOK, walk \in Walk, WalkInv, NEW i \in 1 .. MaxLinks,
           Changed(i), Disturbs(i), UNCHANGED now,
           (i \in Links /\ lastId' = lastId) \/ (i = lastId + 1 /\ lastId' = lastId + 1)
    PROVE  WalkInv'
<1>1. /\ walk.state = "walking" /\ walk'.state = "walking"
      /\ walk'.cursor = walk.cursor /\ walk'.forward = walk.forward
      /\ walk'.shown = walk.shown /\ walk'.used = walk.used
      /\ walk'.skipped = walk.skipped /\ walk'.disturbed = walk.disturbed \union {i}
  BY DEF Disturbs, Walk
<1>2. /\ Links' = Links \union {i} /\ updatedAt'[i] = now
      /\ \A j \in Links \ {i} : updatedAt'[j] = updatedAt[j]
  BY DEF Changed, Links
<1>3. /\ lastId \in Nat /\ lastId <= lastId' /\ now \in Nat /\ Links \subseteq 1 .. MaxLinks
      /\ \A j \in Links : j \in 1 .. lastId /\ updatedAt[j] \in 0 .. now
  BY PaginationAssumption DEF TypeOK
<1>4. /\ walk.shown \subseteq 1 .. MaxLinks /\ walk.skipped \subseteq 1 .. MaxLinks
      /\ walk.forward \in BOOLEAN /\ walk.cursor.at \in Nat /\ walk.cursor.id \in Nat
  BY PaginationAssumption DEF Walk, Cursor, Key_, NoCursor
<1>5. \A j : j # i => (ToCome(j)' <=> ToCome(j))
  BY <1>1, <1>2, FoundMeans, FoundMeansNext DEF ToCome
<1>6. ASSUME walk.forward, i \in Links, ToCome(i)' PROVE ToCome(i)
  <2>1. /\ i \in Links
        /\ walk.cursor = NoCursor
           \/ now < walk.cursor.at \/ (now = walk.cursor.at /\ i < walk.cursor.id)
    BY <1>1, <1>2, <1>6, FoundMeansNext DEF ToCome
  <2>2. updatedAt[i] \in Nat /\ updatedAt[i] <= now
    BY <1>3, <2>1
  <2>3. \/ walk.cursor = NoCursor \/ updatedAt[i] < walk.cursor.at
        \/ updatedAt[i] = walk.cursor.at /\ i < walk.cursor.id
    BY <1>3, <1>4, <2>1, <2>2
  <2>4. QED
    BY <1>1, <1>6, <2>1, <2>3, FoundMeans DEF ToCome
<1>7. CursorIsOld' /\ OnlyLinksAreKnown'
  BY <1>1, <1>3, <1>4 DEF WalkInv, CursorIsOld, OnlyLinksAreKnown
<1>8. CASE walk.forward
  <2>1. i \in walk.skipped => i \in Links
    <3>1. i \in walk.skipped => i <= lastId
      BY DEF WalkInv, OnlyLinksAreKnown
    <3>2. QED
      BY <1>3, <3>1
  <2>2. SkippedIsPast'
    BY <1>1, <1>5, <1>6, <1>8, <2>1 DEF WalkInv, SkippedIsPast
  <2>3. MissedIsKnown'
    BY <1>1, <1>2, <1>5, <1>8 DEF WalkInv, MissedIsKnown, CursorsMillisecond
  <2>4. QED
    BY <1>1, <1>7, <1>8, <2>2, <2>3 DEF WalkInv
<1>9. CASE ~walk.forward
  <2>1. i \in walk.shown \union walk.skipped \/ ToCome(i)'
    <3>1. ASSUME ToCome(i) PROVE ToCome(i)'
      <4>1. /\ i \in Links
            /\ walk.cursor = NoCursor \/ walk.cursor.at < updatedAt[i]
               \/ (walk.cursor.at = updatedAt[i] /\ walk.cursor.id < i)
        BY <1>9, <3>1, FoundMeans DEF ToCome
      <4>2. walk.cursor = NoCursor \/ walk.cursor.at < now
            \/ (walk.cursor.at = now /\ walk.cursor.id < i)
        BY <1>3, <1>4, <4>1
      <4>3. QED
        BY <1>1, <1>2, <1>9, <4>2, FoundMeansNext DEF ToCome
    <3>2. ASSUME i = lastId + 1 PROVE ToCome(i)'
      <4>1. walk.cursor.at < now \/ (walk.cursor.at = now /\ walk.cursor.id < i)
        BY <1>3, <1>4, <3>2 DEF WalkInv, CursorIsOld
      <4>2. QED
        BY <1>1, <1>2, <1>9, <4>1, FoundMeansNext DEF ToCome
    <3>3. QED
      BY <1>9, <3>1, <3>2 DEF WalkInv, NothingIsMissed
  <2>2. NothingIsMissed'
    BY <1>1, <1>2, <1>5, <1>9, <2>1 DEF WalkInv, NothingIsMissed
  <2>3. QED
    BY <1>1, <1>7, <1>9, <2>2 DEF WalkInv
<1>10. QED
  BY <1>4, <1>8, <1>9

\* A page takes its rows, but for the last of them, from what was to come.
LEMMA GetByUserIdKeeps ==
    ASSUME TypeOK, walk \in Walk, WalkInv, GetByUserId
    PROVE  WalkInv'
<1>1. PICK last \in Rows(walk), i \in Rows(walk) :
         walk' = [walk EXCEPT
             !.cursor = CreateCursor(i),
             !.shown = @ \union (Rows(walk) \ {last}),
             !.used = @ \union {CreateCursor(i).at},
             !.skipped = @ \union
                 {j \in {last} \ walk.shown :
                     ~IsAfter(walk.forward, Key(j), CreateCursor(i))}]
  BY DEF GetByUserId
<1>2. /\ walk.state = "walking" /\ UNCHANGED <<now, updatedAt, lastId>> /\ Links' = Links
  BY DEF GetByUserId, Links
<1>3. /\ Rows(walk) \subseteq Found(walk) /\ Found(walk) \subseteq Links
      /\ Links \subseteq 1 .. MaxLinks
      /\ \A j \in Found(walk) \ Rows(walk) : Before(walk, i, j)
  BY RowsAreFirst
<1>4. /\ walk' \in Walk /\ walk'.cursor = CreateCursor(i)
      /\ walk'.shown = walk.shown \union (Rows(walk) \ {last})
      /\ walk'.used = walk.used \union {CreateCursor(i).at}
      /\ walk'.skipped = walk.skipped \union
             {j \in {last} \ walk.shown :
                 ~IsAfter(walk.forward, Key(j), CreateCursor(i))}
      /\ walk'.state = "walking" /\ walk'.forward = walk.forward
      /\ walk'.disturbed = walk.disturbed
  BY <1>1, <1>2, PageStep
<1>5. \A j : ToCome(j)' <=> j \in Found(walk')
  BY <1>2, <1>4 DEF ToCome, Found, IsAfter, Less, Key, Links
<1>6. \A j : ToCome(j) <=> j \in Found(walk)
  BY <1>2 DEF ToCome
<1>7. \A j \in Links : j \in Found(walk') <=> IsAfter(walk.forward, Key(j), CreateCursor(i))
  <2>1. CreateCursor(i) # NoCursor
    <3>1. CreateCursor(i).id = i /\ i \in 1 .. MaxLinks
      BY <1>3, CursorOfRow
    <3>2. QED
      BY <3>1 DEF NoCursor
  <2>2. QED
    BY <1>4, <2>1 DEF Found
<1>8. CursorIsOld' /\ OnlyLinksAreKnown'
  <2>1. /\ now \in Nat /\ lastId \in Nat
        /\ \A j \in Links : j \in 1 .. lastId /\ updatedAt[j] \in 0 .. now
    BY PaginationAssumption DEF TypeOK
  <2>2. CursorIsOld'
    <3>1. i \in Links
      BY <1>3
    <3>2. CreateCursor(i).id = i /\ CreateCursor(i).at \in 0 .. updatedAt[i]
      BY <3>1, CursorOfRow
    <3>3. i <= lastId /\ CreateCursor(i).at <= now
      BY <2>1, <3>1, <3>2
    <3>4. QED
      BY <1>2, <1>4, <3>2, <3>3 DEF CursorIsOld
  <2>3. \A j \in walk'.shown \union walk'.skipped :
            j \in walk.shown \union walk.skipped \/ j \in Rows(walk)
    BY <1>4
  <2>4. OnlyLinksAreKnown'
    <3>1. \A j \in Rows(walk) : j <= lastId
      <4>1. \A j \in Links : j <= lastId
        BY <2>1
      <4>2. QED
        BY <1>3, <4>1
    <3>2. \A j \in walk.shown \union walk.skipped : j <= lastId
      BY DEF WalkInv, OnlyLinksAreKnown
    <3>3. \A j \in walk'.shown \union walk'.skipped : j <= lastId
      BY <2>3, <3>1, <3>2, Zenon
    <3>4. QED
      BY <1>2, <3>3 DEF OnlyLinksAreKnown
  <2>5. QED
    BY <2>2, <2>4
<1>9. \A j \in Links \ (walk'.shown \union walk'.skipped) :
          j \notin Found(walk) \/ Before(walk, i, j) \/ j \in Found(walk')
  <2>1. SUFFICES ASSUME NEW j \in Links \ (walk'.shown \union walk'.skipped), j \in Rows(walk)
                 PROVE  j \in Found(walk')
    BY <1>3
  <2>2. j = last /\ j \notin walk.shown
    BY <1>4, <2>1
  <2>3. QED
    BY <1>4, <1>7, <2>1, <2>2
<1>10. CASE walk.forward
  <2>1. /\ Found(walk') \subseteq Found(walk)
        /\ \A j \in Links : Before(walk, i, j) /\ j \notin Found(walk')
               => updatedAt[j] \div TicksPerMs = walk'.cursor.at \div TicksPerMs
    BY <1>3, <1>4, <1>10, NextFound
  <2>2. SkippedIsPast'
    <3>1. ASSUME NEW j \in walk.skipped PROVE j \notin walk'.shown /\ j \notin Found(walk')
      BY <1>3, <1>4, <1>6, <1>10, <2>1 DEF WalkInv, SkippedIsPast
    <3>2. ASSUME NEW j \in walk'.skipped \ walk.skipped
          PROVE  j \notin walk'.shown /\ j \notin Found(walk')
      BY <1>3, <1>4, <1>7
    <3>3. QED
      BY <1>5, <3>1, <3>2 DEF SkippedIsPast
  <2>3. MissedIsKnown'
    <3>1. ASSUME NEW j \in Links \ (walk'.shown \union walk'.skipped)
          PROVE  j \in walk.disturbed \/ CursorsMillisecond(j)' \/ j \in Found(walk')
      <4>1. CASE j \notin Found(walk)
        <5>1. j \in walk.disturbed \/ CursorsMillisecond(j)
          BY <1>4, <1>6, <1>10, <3>1, <4>1 DEF WalkInv, MissedIsKnown
        <5>2. QED
          BY <1>2, <1>4, <5>1 DEF CursorsMillisecond
      <4>2. CASE Before(walk, i, j) /\ j \notin Found(walk')
        <5>1. walk'.cursor.at \in walk'.used
          BY <1>4
        <5>2. QED
          BY <1>2, <2>1, <4>2, <5>1 DEF CursorsMillisecond
      <4>3. QED
        BY <1>9, <4>1, <4>2
    <3>2. QED
      BY <1>2, <1>4, <1>5, <3>1 DEF MissedIsKnown
  <2>4. QED
    BY <1>4, <1>8, <1>10, <2>2, <2>3 DEF WalkInv
<1>11. CASE ~walk.forward
  <2>1. \A j \in Links : Before(walk, i, j) => j \in Found(walk')
    BY <1>3, <1>4, <1>11, NextFound
  <2>2. \A j \in Links \ (walk.shown \union walk.skipped) : j \in Found(walk)
    BY <1>6, <1>11 DEF WalkInv, NothingIsMissed
  <2>3. NothingIsMissed'
    BY <1>2, <1>4, <1>5, <1>9, <2>1, <2>2 DEF NothingIsMissed
  <2>4. QED
    BY <1>4, <1>8, <1>11, <2>3 DEF WalkInv
<1>12. QED
  BY <1>10, <1>11

\* The last page takes all that was to come.
LEMMA GetByUserIdLastKeeps ==
    ASSUME TypeOK, walk \in Walk, WalkInv, GetByUserIdLast
    PROVE  WalkInv'
<1>1. /\ walk.state = "walking" /\ UNCHANGED <<now, updatedAt, lastId>> /\ Links' = Links
      /\ ~HasMore(walk)
  BY DEF GetByUserIdLast, Links
<1>2. Rows(walk) = Found(walk) /\ Found(walk) \subseteq Links
  BY <1>1, RowsAreFirst
<1>3. /\ walk' \in Walk /\ walk'.state = "done"
      /\ walk'.shown = walk.shown \union Rows(walk)
      /\ walk'.cursor = walk.cursor /\ walk'.used = walk.used
      /\ walk'.skipped = walk.skipped /\ walk'.forward = walk.forward
      /\ walk'.disturbed = walk.disturbed
  BY LastStep
<1>4. \A j : ~ToCome(j)' /\ (ToCome(j) <=> j \in Rows(walk))
  BY <1>1, <1>2, <1>3 DEF ToCome
<1>5. CursorIsOld'
  BY <1>1, <1>3 DEF WalkInv, CursorIsOld
<1>6. OnlyLinksAreKnown'
  <2>1. lastId \in Nat /\ \A j \in Links : j \in 1 .. lastId
    BY PaginationAssumption DEF TypeOK
  <2>2. QED
    BY <1>1, <1>2, <1>3, <2>1 DEF WalkInv, OnlyLinksAreKnown
<1>7. SkippedIsPast => SkippedIsPast'
  BY <1>3, <1>4 DEF SkippedIsPast
<1>8. MissedIsKnown => MissedIsKnown'
  BY <1>1, <1>3, <1>4 DEF MissedIsKnown, CursorsMillisecond
<1>9. NothingIsMissed => NothingIsMissed'
  BY <1>1, <1>3, <1>4 DEF NothingIsMissed
<1>10. QED
  BY <1>3, <1>5, <1>6, <1>7, <1>8, <1>9 DEF WalkInv

LEMMA DeleteKeeps ==
    ASSUME TypeOK, walk \in Walk, WalkInv, NEW i \in Links, Delete(i)
    PROVE  WalkInv'
<1>1. /\ walk'.state = walk.state
      /\ walk'.cursor = walk.cursor /\ walk'.forward = walk.forward
      /\ walk'.shown = walk.shown /\ walk'.used = walk.used
      /\ walk'.skipped = walk.skipped /\ walk'.disturbed = walk.disturbed \union {i}
  BY DEF Delete, Disturbs, Walk
<1>2. /\ Links' = Links \ {i} /\ UNCHANGED <<now, lastId>>
      /\ \A j \in Links \ {i} : updatedAt'[j] = updatedAt[j]
  BY DEF Delete, Links
<1>3. \A j : ToCome(j)' => ToCome(j)
  BY <1>1, <1>2, FoundMeans, FoundMeansNext DEF ToCome
<1>4. \A j \in Links' : ToCome(j) => ToCome(j)'
  BY <1>1, <1>2, FoundMeans, FoundMeansNext DEF ToCome
<1>5. CursorIsOld' /\ OnlyLinksAreKnown'
  BY <1>1, <1>2 DEF WalkInv, CursorIsOld, OnlyLinksAreKnown
<1>6. SkippedIsPast => SkippedIsPast'
  BY <1>1, <1>3 DEF SkippedIsPast
<1>7. MissedIsKnown => MissedIsKnown'
  BY <1>1, <1>2, <1>4 DEF MissedIsKnown, CursorsMillisecond
<1>8. NothingIsMissed => NothingIsMissed'
  BY <1>1, <1>2, <1>4 DEF NothingIsMissed
<1>9. QED
  BY <1>1, <1>5, <1>6, <1>7, <1>8 DEF WalkInv

LEMMA StartWalkKeeps ==
    ASSUME TypeOK, NEW w \in Walks, StartWalk(w)
    PROVE  walk' \in Walk /\ WalkInv'
<1>1. w.forward \in BOOLEAN /\ w.size \in Sizes /\ w.follows \in {"edges", "pageInfo"}
  BY DEF Walks
<1>2. walk' \in Walk
  BY <1>1 DEF StartWalk, Walk, Cursor
<1>3. /\ walk'.state = "walking" /\ walk'.cursor = NoCursor
      /\ walk'.shown = {} /\ walk'.skipped = {}
      /\ UNCHANGED <<now, updatedAt, lastId>>
  BY DEF StartWalk
<1>4. \A j \in Links' : ToCome(j)'
  BY <1>3, FoundMeansNext DEF ToCome
<1>5. CursorIsOld' /\ OnlyLinksAreKnown'
  <2>1. now \in Nat /\ lastId \in Nat
    BY PaginationAssumption DEF TypeOK
  <2>2. QED
    BY <1>3, <2>1 DEF CursorIsOld, OnlyLinksAreKnown, NoCursor
<1>6. SkippedIsPast' /\ MissedIsKnown' /\ NothingIsMissed'
  BY <1>3, <1>4 DEF SkippedIsPast, MissedIsKnown, NothingIsMissed
<1>7. QED
  BY <1>2, <1>5, <1>6 DEF WalkInv

LEMMA NextPage == TypeOK /\ PageInv /\ [Next]_vars => PageInv'
<1> SUFFICES ASSUME TypeOK, PageInv, [Next]_vars PROVE PageInv'
  OBVIOUS
<1>1. TypeOK'
  BY NextType
<1>2. walk' # NoWalk => walk' \in Walk
  BY <1>1 DEF TypeOK, Walk, NoWalk, Cursor
<1>3. CASE walk = NoWalk
  <2>1. walk' = NoWalk \/ \E w \in Walks : StartWalk(w)
    BY <1>3 DEF Next, vars, Tick, Create, Touch, Delete, Disturbs, GetByUserId,
                GetByUserIdLast, NoWalk
  <2>2. QED
    BY <2>1, StartWalkKeeps DEF PageInv
<1>4. CASE walk \in Walk /\ WalkInv
  <2>1. /\ lastId + 1 \in Nat /\ (lastId < MaxLinks => lastId + 1 \in 1 .. MaxLinks)
        /\ \A i \in Links : i \in 1 .. MaxLinks
    BY PaginationAssumption DEF TypeOK
  <2>2. ASSUME NEW i \in 1 .. MaxLinks, Disturbs(i) PROVE walk' # NoWalk
    <3>1. walk.state # "none"
      BY <1>4 DEF Walk
    <3>2. walk' = [walk EXCEPT !.disturbed = @ \union {i}]
      BY <2>2, <3>1 DEF Disturbs
    <3>3. QED
      BY <1>4, <3>2, WalkSteps
  <2>3. ASSUME Create PROVE PageInv'
    <3>1. lastId + 1 \in 1 .. MaxLinks
      BY <2>1, <2>3 DEF Create
    <3>2. walk' \in Walk
      BY <1>2, <2>2, <2>3, <3>1 DEF Create
    <3>3. WalkInv'
      BY <1>4, <2>3, <3>1, ChangedKeeps DEF Create
    <3>4. QED
      BY <3>2, <3>3 DEF PageInv
  <2>4. ASSUME NEW i \in Links, Touch(i) PROVE PageInv'
    <3>1. walk' \in Walk
      BY <1>2, <2>1, <2>2, <2>4 DEF Touch
    <3>2. WalkInv'
      BY <1>4, <2>1, <2>4, ChangedKeeps DEF Touch
    <3>3. QED
      BY <3>1, <3>2 DEF PageInv
  <2>5. ASSUME NEW i \in Links, Delete(i) PROVE PageInv'
    <3>1. walk' \in Walk
      BY <1>2, <2>1, <2>2, <2>5 DEF Delete
    <3>2. WalkInv'
      BY <1>4, <2>5, DeleteKeeps
    <3>3. QED
      BY <3>1, <3>2 DEF PageInv
  <2>6. ASSUME UNCHANGED <<updatedAt, lastId, walk>>, now <= now' PROVE PageInv'
    <3>1. \A j : ToCome(j)' <=> ToCome(j)
      BY <2>6 DEF ToCome, Found, IsAfter, Less, Key, Links
    <3>2. Links' = Links
      BY <2>6 DEF Links
    <3>3. CursorIsOld'
      <4>1. walk.cursor.at \in Nat /\ now \in Nat /\ now' \in Nat
        BY <1>1, <1>4, PaginationAssumption DEF Walk, Cursor, Key_, NoCursor, TypeOK
      <4>2. QED
        BY <1>4, <2>6, <4>1 DEF WalkInv, CursorIsOld
    <3>4. OnlyLinksAreKnown' /\ (SkippedIsPast => SkippedIsPast')
      BY <1>4, <2>6, <3>1 DEF WalkInv, OnlyLinksAreKnown, SkippedIsPast
    <3>5. (MissedIsKnown => MissedIsKnown') /\ (NothingIsMissed => NothingIsMissed')
      BY <2>6, <3>1, <3>2 DEF MissedIsKnown, NothingIsMissed, CursorsMillisecond
    <3>6. QED
      BY <1>4, <2>6, <3>3, <3>4, <3>5 DEF PageInv, WalkInv
  <2>7. now \in Int
    BY PaginationAssumption DEF TypeOK
  <2>8. ASSUME Tick PROVE PageInv'
    BY <2>6, <2>7, <2>8 DEF Tick
  <2>9. ASSUME UNCHANGED vars PROVE PageInv'
    BY <2>6, <2>7, <2>9 DEF vars
  <2>10. ASSUME NEW w \in Walks, StartWalk(w) PROVE PageInv'
    BY <2>10, StartWalkKeeps DEF PageInv
  <2>11. ASSUME GetByUserId PROVE PageInv'
    <3>1. WalkInv'
      BY <1>4, <2>11, GetByUserIdKeeps
    <3>2. walk'.state = "walking"
      BY <1>4, <2>11 DEF GetByUserId, Walk
    <3>3. walk' \in Walk
      BY <1>2, <3>2 DEF NoWalk
    <3>4. QED
      BY <3>1, <3>3 DEF PageInv
  <2>12. ASSUME GetByUserIdLast PROVE PageInv'
    <3>1. WalkInv'
      BY <1>4, <2>12, GetByUserIdLastKeeps
    <3>2. walk'.state = "done"
      BY <1>4, <2>12 DEF GetByUserIdLast, Walk
    <3>3. walk' \in Walk
      BY <1>2, <3>2 DEF NoWalk
    <3>4. QED
      BY <3>1, <3>3 DEF PageInv
  <2>13. QED
    BY <2>3, <2>4, <2>5, <2>8, <2>9, <2>10, <2>11, <2>12 DEF Next
<1>5. QED
  BY <1>3, <1>4 DEF PageInv

\* Types and the invariant of the walk hold always.
THEOREM InductiveInvariant == Spec => [](TypeOK /\ PageInv)
<1>1. Init => PageInv
  BY DEF Init, PageInv, NoWalk
<1>2. QED
  BY <1>1, InitType, NextType, NextPage, PTL DEF Spec

-------------------------------------------------------------------------------
(* The properties of walks *)

\* What a walk that is over has not shown was the highest Id of the rows of a page;
\* or the walk was forward and it changed on the way or in a cursor's millisecond.
THEOREM OnlyHighestSkipped == Spec => []OnlyTheHighestIdIsSkipped
<1>1. PageInv => OnlyTheHighestIdIsSkipped
  <2>1. walk \in Walk => walk.forward \in BOOLEAN
    BY DEF Walk
  <2>2. QED
    BY <2>1 DEF PageInv, WalkInv, MissedIsKnown, NothingIsMissed,
                OnlyTheHighestIdIsSkipped, CursorsMillisecond, ToCome, NoWalk
<1>2. QED
  BY <1>1, InductiveInvariant, PTL

\* No later page of a walk forward shows what was skipped, whatever changes meanwhile.
THEOREM SkippedStaysHidden == Spec => []SkippedIsNeverShown
<1>1. PageInv => SkippedIsNeverShown
  BY DEF PageInv, WalkInv, SkippedIsPast, SkippedIsNeverShown, NoWalk
<1>2. QED
  BY <1>1, InductiveInvariant, PTL

\* Each page of a walk forward leaves fewer links for the next, whichever cursor of
\* it is taken.
THEOREM WalksForwardAdvance == Spec => ForwardAdvances
<1>1. ASSUME TypeOK, PageInv, GetByUserId, walk.forward
      PROVE  Found(walk)' \subseteq Found(walk) /\ Found(walk)' # Found(walk)
  <2>1. walk \in Walk
    BY <1>1 DEF PageInv, GetByUserId, NoWalk
  <2>2. PICK last \in Rows(walk), i \in Rows(walk) :
           walk' = [walk EXCEPT
               !.cursor = CreateCursor(i),
               !.shown = @ \union (Rows(walk) \ {last}),
               !.used = @ \union {CreateCursor(i).at},
               !.skipped = @ \union
                   {j \in {last} \ walk.shown :
                       ~IsAfter(walk.forward, Key(j), CreateCursor(i))}]
    BY <1>1 DEF GetByUserId
  <2>3. walk' \in Walk /\ walk'.cursor = CreateCursor(i) /\ walk'.forward = walk.forward
    BY <1>1, <2>1, <2>2, PageStep
  <2>4. i \in Found(walk)
    BY <1>1, <2>1, RowsAreFirst
  <2>5. Found(walk') \subseteq Found(walk) /\ i \notin Found(walk')
    BY <1>1, <2>1, <2>3, <2>4, NextFound
  <2>6. Found(walk)' = Found(walk')
    BY <1>1 DEF GetByUserId, Found, IsAfter, Less, Key, Links
  <2>7. QED
    BY <2>4, <2>5, <2>6
<1>2. TypeOK /\ PageInv /\ [Next]_vars =>
          [GetByUserId /\ walk.forward =>
              Found(walk)' \subseteq Found(walk) /\ Found(walk)' # Found(walk)]_vars
  BY <1>1
<1>3. QED
  BY <1>2, InductiveInvariant, PTL DEF Spec, ForwardAdvances
===============================================================================

----------------------------- MODULE UrlCacheProofs -----------------------------
(***************************************************************************)
(* A link that is gone does not come back into the cache, for any number   *)
(* of replicas, calls, destinations and pages, whatever stops or fails.    *)
(* First the types; then: while the row is gone no step makes a new fill   *)
(* with a destination (NoNewFill), and the cache takes destinations from   *)
(* fills only (NoNewEntry).  Last, when one slot makes all calls and       *)
(* nothing fails: an entry that is outdated, or will be by a fill, has its *)
(* removal behind it in the line of tasks (Serial).                        *)
(***************************************************************************)
EXTENDS UrlCache, SequenceTheorems, TLAPS

-------------------------------------------------------------------------------
(* Sequences of tasks *)

LEMMA AppendElements ==
    ASSUME NEW s \in Seq(Task), NEW e \in Task
    PROVE  Append(s, e) \in Seq(Task) /\ Range(Append(s, e)) = Range(s) \union {e}
<1>1. DOMAIN Append(s, e) = 1 .. Len(s) + 1 /\ DOMAIN s = 1 .. Len(s) /\ Len(s) \in Nat
  OBVIOUS
<1>2. \A i \in 1 .. Len(s) : Append(s, e)[i] = s[i]
  OBVIOUS
<1>3. Append(s, e)[Len(s) + 1] = e
  OBVIOUS
<1>4. QED
  BY <1>1, <1>2, <1>3 DEF Range

LEMMA TailElements ==
    ASSUME NEW s \in Seq(Task), s # <<>>
    PROVE  /\ Tail(s) \in Seq(Task) /\ Range(Tail(s)) \subseteq Range(s)
           /\ Head(s) \in Task /\ Head(s) \in Range(s)
           /\ Len(s) # 1 => Tail(s) # <<>>
<1>1. DOMAIN s = 1 .. Len(s) /\ Len(s) \in Nat \ {0} /\ Head(s) = s[1]
  OBVIOUS
<1>2. DOMAIN Tail(s) = 1 .. Len(s) - 1 /\ \A i \in 1 .. Len(s) - 1 : Tail(s)[i] = s[i + 1]
  OBVIOUS
<1>3. Tail(s) \in Seq(Task) /\ Head(s) \in Task
  OBVIOUS
<1>4. Len(s) # 1 => Tail(s) # <<>>
  <2> DEFINE n == Len(s)
             m == Len(Tail(s))
  <2>1. n \in Nat /\ m = n - 1
    BY <1>1
  <2>2. Tail(s) = <<>> => m = 0
    <3>1. Len(<<>>) = 0
      OBVIOUS
    <3>2. QED
      BY <3>1, Zenon
  <2> HIDE DEF n, m
  <2>3. Tail(s) = <<>> => n = 1
    BY <2>1, <2>2
  <2>4. QED
    BY <2>3 DEF n
<1>5. QED
  BY <1>1, <1>2, <1>3, <1>4 DEF Range

LEMMA EmptyElements == <<>> \in Seq(Task) /\ Range(<<>>) = {}
<1>1. DOMAIN <<>> = {}
  OBVIOUS
<1>2. QED
  BY <1>1 DEF Range

\* The tasks that calls put into the queue, and the calls that do.
LEMMA CallTypes ==
    /\ OtherTask \in Task
    /\ \A g \in Groups : RemoveTask(g) \in Task
    /\ \A e \in Entries, d \in Data : SetTask(e, d) \in Task
    /\ NoCall \in Call /\ NoCall.pc = "idle" /\ NoCall.todo = <<>>
    /\ \A s \in Seq(Task) :
          /\ Enqueueing(s) \in Call
          /\ Enqueueing(s).pc = "enqueue" /\ Enqueueing(s).todo = s
<1>1. /\ OtherTask \in Task
      /\ \A g \in Groups : RemoveTask(g) \in Task
      /\ \A e \in Entries, d \in Data : SetTask(e, d) \in Task
  BY DEF OtherTask, RemoveTask, SetTask, Task, Entries, Groups, Data
<1>2. "mapping" \in Entries
  BY DEF Entries
<1>3. QED
  BY <1>1, <1>2, EmptyElements DEF NoCall, Enqueueing, Call

\* What the calls enqueue.
LEMMA TodoTypes ==
    /\ Removals \in Seq(Task) /\ Removals # <<>>
    /\ \A t \in Range(Removals) : t.op = "remove"
    /\ \A e \in Entries, d \in Data :
          /\ Fill(e, d) \in Seq(Task) /\ Fill(e, d) # <<>>
          /\ \A t \in Range(Fill(e, d)) : t.op = "other" \/ t = SetTask(e, d)
<1>1. /\ RemoveTask("mapping") \in Task /\ RemoveTask("stats") \in Task
      /\ RemoveTask("pages") \in Task /\ OtherTask \in Task
  BY CallTypes DEF Groups
<1>2. Removals \in Seq(Task) /\ Removals # <<>>
  BY <1>1 DEF Removals
<1>3. \A t \in Range(Removals) : t.op = "remove"
  BY DEF Removals, Range, RemoveTask
<1>4. ASSUME NEW e \in Entries, NEW d \in Data
      PROVE  /\ Fill(e, d) \in Seq(Task) /\ Fill(e, d) # <<>>
             /\ \A t \in Range(Fill(e, d)) : t.op = "other" \/ t = SetTask(e, d)
  <2>1. SetTask(e, d) \in Task
    BY CallTypes
  <2>2. Fill(e, d) \in Seq(Task) /\ Fill(e, d) # <<>>
    BY <1>1, <2>1 DEF Fill
  <2>3. \A t \in Range(Fill(e, d)) : t.op = "other" \/ t = SetTask(e, d)
    BY DEF Fill, Range, OtherTask
  <2>4. QED
    BY <2>2, <2>3
<1>5. QED
  BY <1>2, <1>3, <1>4

-------------------------------------------------------------------------------
(* The type invariant *)

\* A step that changes one call, in its type and with tasks left while it
\* enqueues, keeps what IInv says of calls.
LEMMA OneCallChanges ==
    ASSUME IInv, NEW c \in Replicas \X Slots, NEW new \in Call,
           new.pc = "enqueue" => new.todo # <<>>,
           call' = [call EXCEPT ![c] = new]
    PROVE  /\ call' \in [Replicas \X Slots -> Call]
           /\ \A d \in Replicas \X Slots : call'[d].pc = "enqueue" => call'[d].todo # <<>>
BY DEF IInv, TypeOK

LEMMA InitInductive == Init => IInv
<1> SUFFICES ASSUME Init PROVE IInv
  OBVIOUS
<1>1. TypeOK
  BY CallTypes, EmptyElements, UrlCacheAssumption DEF Init, TypeOK, NoRow, Data
<1>2. \A c \in Replicas \X Slots : call[c] = NoCall
  BY DEF Init
<1>3. QED
  BY <1>1, <1>2, CallTypes DEF IInv

LEMMA FoundType ==
    ASSUME TypeOK, NEW e \in Entries
    PROVE  Found(e) \subseteq Data
BY DEF TypeOK, Found, Listed, Data

\* The changes of Redis that a task or the passing of time makes.
LEMMA CacheChangeType ==
    ASSUME TypeOK
    PROVE  /\ \A e \in Entries \union Groups, d \in Data : SetEntry(e, d) =>
                 cache' \in [Entries -> Data] /\ left' \in [Groups -> 0 .. Ttl]
           /\ \A g \in Entries \union Groups : RemoveGroup(g) =>
                 cache' \in [Entries -> Data] /\ left' \in [Groups -> 0 .. Ttl]
<1>1. /\ cache \in [Entries -> Data] /\ left \in [Groups -> 0 .. Ttl]
      /\ Ttl \in 0 .. Ttl /\ 0 \in 0 .. Ttl /\ "none" \in Data
  BY UrlCacheAssumption DEF TypeOK, Data
<1>2. ASSUME NEW e \in Entries \union Groups, NEW d \in Data, SetEntry(e, d)
      PROVE  cache' \in [Entries -> Data] /\ left' \in [Groups -> 0 .. Ttl]
  BY <1>1, <1>2 DEF SetEntry
<1>3. ASSUME NEW g \in Entries \union Groups, RemoveGroup(g)
      PROVE  cache' \in [Entries -> Data] /\ left' \in [Groups -> 0 .. Ttl]
  BY <1>1, <1>3 DEF RemoveGroup
<1>4. QED
  BY <1>2, <1>3

LEMMA CallStepInductive ==
    ASSUME IInv, NEW c \in Replicas \X Slots, CallStep(c)
    PROVE  IInv'
<1> USE UrlCacheAssumption
<1>t. TypeOK /\ call[c] \in Call
  BY DEF IInv, TypeOK
<1>1. ASSUME NEW e \in Entries, CacheMiss(c, e) PROVE IInv'
  <2> DEFINE new == [NoCall EXCEPT !.pc = "missed", !.entry = e]
  <2>1. new \in Call /\ new.pc = "missed"
    BY CallTypes DEF NoCall, Call
  <2>2. call' = [call EXCEPT ![c] = new]
    BY <1>1 DEF CacheMiss
  <2> HIDE DEF new
  <2>3. QED
    BY <1>1, <1>t, <2>1, <2>2, OneCallChanges DEF CacheMiss, IInv, TypeOK, dbVars, cacheVars
<1>2. CASE ReadRow(c)
  <2>1. CASE call' = [call EXCEPT ![c] = NoCall]
    BY <1>2, <1>t, <2>1, CallTypes, OneCallChanges DEF ReadRow, IInv, TypeOK, dbVars, cacheVars
  <2>2. ASSUME NEW d \in Found(call[c].entry),
               call' = [call EXCEPT ![c] = Enqueueing(Fill(call[c].entry, d))]
        PROVE  IInv'
    <3>1. call[c].entry \in Entries /\ d \in Data
      BY <1>t, FoundType DEF Call
    <3>2. Fill(call[c].entry, d) \in Seq(Task) /\ Fill(call[c].entry, d) # <<>>
      BY <3>1, TodoTypes
    <3>3. QED
      BY <1>2, <1>t, <2>2, <3>2, CallTypes, OneCallChanges DEF ReadRow, IInv, TypeOK, dbVars, cacheVars
  <2>3. QED
    BY <1>2, <2>1, <2>2 DEF ReadRow
<1>3. CASE UpdateRow(c) \/ DeleteRow(c)
  <2>1. call' = [call EXCEPT ![c] = Enqueueing(Removals)]
    BY <1>3 DEF UpdateRow, DeleteRow
  <2>2. /\ call' \in [Replicas \X Slots -> Call]
        /\ \A d \in Replicas \X Slots : call'[d].pc = "enqueue" => call'[d].todo # <<>>
    BY <2>1, CallTypes, TodoTypes, OneCallChanges
  <2>3. row' \in Destinations \union NoRow /\ updates' \in Nat
    BY <1>3, <1>t DEF UpdateRow, DeleteRow, TypeOK, NoRow
  <2>4. QED
    BY <1>3, <1>t, <2>2, <2>3 DEF UpdateRow, DeleteRow, IInv, TypeOK, cacheVars
<1>4. CASE ForeignChange(c)
  <2> DEFINE tasks == <<RemoveTask("mapping"), RemoveTask("stats"), OtherTask>>
  <2>1. tasks \in Seq(Task) /\ tasks # <<>>
    BY CallTypes DEF Groups
  <2>2. call' = [call EXCEPT ![c] = Enqueueing(tasks)]
    BY <1>4 DEF ForeignChange
  <2> HIDE DEF tasks
  <2>3. /\ call' \in [Replicas \X Slots -> Call]
        /\ \A d \in Replicas \X Slots : call'[d].pc = "enqueue" => call'[d].todo # <<>>
    BY <2>1, <2>2, CallTypes, OneCallChanges
  <2>4. QED
    BY <1>4, <1>t, <2>3 DEF ForeignChange, IInv, TypeOK, dbVars, cacheVars
<1>5. CASE EnqueueNext(c)
  <2> DEFINE new == IF Len(call[c].todo) = 1 THEN NoCall ELSE Enqueueing(Tail(call[c].todo))
  <2>1. call[c].todo \in Seq(Task) /\ call[c].todo # <<>>
    BY <1>5, <1>t DEF EnqueueNext, IInv, Call
  <2>2. new \in Call /\ (new.pc = "enqueue" => new.todo # <<>>)
    BY <2>1, CallTypes, TailElements
  <2>3. call' = [call EXCEPT ![c] = new]
    BY <1>5 DEF EnqueueNext
  <2>4. queue' \in [Replicas -> Seq(Task)]
    <3>1. queue[c[1]] \in Seq(Task) /\ Head(call[c].todo) \in Task
      BY <1>t, <2>1, TailElements DEF TypeOK
    <3>2. Append(queue[c[1]], Head(call[c].todo)) \in Seq(Task)
      BY <3>1, AppendElements
    <3>3. QED
      BY <1>5, <1>t, <3>2 DEF EnqueueNext, TypeOK
  <2> HIDE DEF new
  <2>5. QED
    BY <1>5, <1>t, <2>2, <2>3, <2>4, OneCallChanges DEF EnqueueNext, IInv, TypeOK, dbVars, cacheVars
<1>6. QED
  BY <1>1, <1>2, <1>3, <1>4, <1>5 DEF CallStep


LEMMA QueueStepInductive ==
    ASSUME IInv, NEW r \in Replicas, RunTask(r) \/ RunTaskThrows(r) \/ Crash(r)
    PROVE  IInv'
<1>t. TypeOK /\ queue[r] \in Seq(Task)
  BY DEF IInv, TypeOK
<1>1. CASE RunTask(r)
  <2>1. Tail(queue[r]) \in Seq(Task) /\ Head(queue[r]) \in Task
    BY <1>1, <1>t, TailElements DEF RunTask
  <2>2. /\ Head(queue[r]).entry \in Entries \union Groups
        /\ Head(queue[r]).data \in Data
    BY <2>1 DEF Task
  <2>3. cache' \in [Entries -> Data] /\ left' \in [Groups -> 0 .. Ttl]
    <3>1. CASE Head(queue[r]).op = "set" /\ SetEntry(Head(queue[r]).entry, Head(queue[r]).data)
      BY <1>t, <2>2, <3>1, CacheChangeType
    <3>2. CASE Head(queue[r]).op = "remove" /\ RemoveGroup(Head(queue[r]).entry)
      BY <1>t, <2>2, <3>2, CacheChangeType
    <3>3. CASE UNCHANGED cacheVars
      BY <1>t, <3>3 DEF TypeOK, cacheVars
    <3>4. QED
      BY <1>1, <3>1, <3>2, <3>3 DEF RunTask
  <2>4. QED
    BY <1>1, <1>t, <2>1, <2>3 DEF RunTask, IInv, TypeOK, dbVars
<1>2. CASE RunTaskThrows(r)
  <2>1. Tail(queue[r]) \in Seq(Task)
    BY <1>2, <1>t, TailElements DEF RunTaskThrows
  <2>2. QED
    BY <1>2, <1>t, <2>1 DEF RunTaskThrows, IInv, TypeOK, dbVars, cacheVars
<1>3. CASE Crash(r)
  BY <1>3, <1>t, CallTypes, EmptyElements DEF Crash, IInv, TypeOK, dbVars, cacheVars
<1>4. QED
  BY <1>1, <1>2, <1>3

LEMMA ElapseInductive ==
    ASSUME IInv, NEW g \in Groups, Elapse(g)
    PROVE  IInv'
<1>t. TypeOK /\ left[g] \in 0 .. Ttl /\ g \in Entries \union Groups
  BY DEF IInv, TypeOK
<1>1. CASE left[g] > 1 /\ left' = [left EXCEPT ![g] = @ - 1] /\ UNCHANGED cache
  <2>1. left[g] - 1 \in 0 .. Ttl
    BY <1>t, <1>1, UrlCacheAssumption
  <2>2. QED
    BY <1>t, <1>1, <2>1 DEF Elapse, IInv, TypeOK, dbVars
<1>2. CASE RemoveGroup(g)
  BY <1>t, <1>2, CacheChangeType DEF Elapse, IInv, TypeOK, dbVars
<1>3. QED
  BY <1>1, <1>2 DEF Elapse

LEMMA NextInductive == IInv /\ [Next]_vars => IInv'
<1> SUFFICES ASSUME IInv, [Next]_vars PROVE IInv'
  OBVIOUS
<1>1. CASE UNCHANGED vars
  BY <1>1 DEF vars, dbVars, cacheVars, IInv, TypeOK
<1>2. CASE Create \/ DeleteUser
  BY <1>2 DEF Create, DeleteUser, IInv, TypeOK, NoRow, cacheVars
<1>3. QED
  BY <1>1, <1>2, CallStepInductive, QueueStepInductive, ElapseInductive DEF Next

\* Every reachable state is typed, and a call that is about to enqueue has a task
\* left to enqueue (EnqueueNext takes the first).
THEOREM InductiveInvariant == Spec => []IInv
BY InitInductive, NextInductive, PTL DEF Spec

\* Every reachable state is well typed, for any number of replicas and calls.
THEOREM TypeCorrect == Spec => []TypeOK
<1>1. IInv => TypeOK
  BY DEF IInv
<1>2. QED
  BY <1>1, InductiveInvariant, PTL

-------------------------------------------------------------------------------
(* A deleted link *)

\* The row does not return.
LEMMA DeadForGood ==
    ASSUME IInv, [Next]_vars, Dead
    PROVE  Dead'
<1>1. row \in {"deleted", "userDeleted"} /\ row \notin Destinations
  BY UrlCacheAssumption DEF Dead, NoRow
<1>2. ASSUME NEW c \in Replicas \X Slots, CallStep(c) PROVE Dead'
  BY <1>1, <1>2 DEF CallStep, CacheMiss, ReadRow, UpdateRow, DeleteRow, ForeignChange,
     EnqueueNext, dbVars, Dead
<1>3. ASSUME NEW r \in Replicas, RunTask(r) \/ RunTaskThrows(r) \/ Crash(r) PROVE Dead'
  BY <1>1, <1>3 DEF RunTask, RunTaskThrows, Crash, dbVars, Dead
<1>4. ASSUME NEW g \in Groups, Elapse(g) PROVE Dead'
  BY <1>1, <1>4 DEF Elapse, dbVars, Dead
<1>5. CASE Create \/ DeleteUser \/ UNCHANGED vars
  BY <1>1, <1>5 DEF Create, DeleteUser, vars, dbVars, Dead
<1>6. QED
  BY <1>2, <1>3, <1>4, <1>5 DEF Next

\* A fill of e with a destination.
IsFill(t, e) == t.op = "set" /\ t.entry = e /\ t.data \in Destinations

LEMMA NoFillPending ==
    ASSUME NEW e
    PROVE  ~FillPending(e) <=>
              /\ \A r \in Replicas : \A t \in Range(queue[r]) : ~IsFill(t, e)
              /\ \A c \in Replicas \X Slots : \A t \in Range(call[c].todo) : ~IsFill(t, e)
BY DEF FillPending, Pending, IsFill

\* What a call reads while the row is gone is no destination.
LEMMA NothingFound ==
    ASSUME Dead, NEW x \in Entries
    PROVE  Found(x) \intersect Destinations = {}
BY UrlCacheAssumption DEF Dead, Found, Listed, NoRow


\* While the row is gone no step makes a fill of e with a destination.
LEMMA NoNewFill ==
    ASSUME IInv, [Next]_vars, Dead, NEW e \in Entries, ~FillPending(e)
    PROVE  ~FillPending(e)'
<1> DEFINE QueuesClean == \A r \in Replicas : \A t \in Range(queue[r]) : ~IsFill(t, e)
           CallsClean == \A c \in Replicas \X Slots : \A t \in Range(call[c].todo) : ~IsFill(t, e)
<1>0. QueuesClean /\ CallsClean /\ TypeOK
  BY NoFillPending DEF IInv
<1> SUFFICES QueuesClean' /\ CallsClean'
  BY DEF FillPending, Pending, IsFill
<1>1. ASSUME NEW c \in Replicas \X Slots, NEW new,
             call' = [call EXCEPT ![c] = new],
             \A t \in Range(new.todo) : ~IsFill(t, e)
      PROVE  CallsClean'
  BY <1>0, <1>1 DEF TypeOK
<1>2. Range(NoCall.todo) = {}
  BY CallTypes, EmptyElements
<1>3. ASSUME NEW c \in Replicas \X Slots, CallStep(c)
      PROVE  QueuesClean' /\ CallsClean'
  <2>1. CASE ReadRow(c)
    <3>1. queue' = queue
      BY <2>1 DEF ReadRow
    <3>2. CASE call' = [call EXCEPT ![c] = NoCall]
      BY <1>0, <1>1, <1>2, <3>1, <3>2
    <3>3. ASSUME NEW d \in Found(call[c].entry),
                 call' = [call EXCEPT ![c] = Enqueueing(Fill(call[c].entry, d))]
          PROVE  QueuesClean' /\ CallsClean'
      <4>1. call[c].entry \in Entries
        BY <1>0 DEF TypeOK, Call
      <4>2. d \in Data /\ d \notin Destinations
        BY <1>0, <4>1, FoundType, NothingFound
      <4>3. \A t \in Range(Fill(call[c].entry, d)) : ~IsFill(t, e)
        BY <4>1, <4>2, TodoTypes DEF IsFill, SetTask
      <4>4. Enqueueing(Fill(call[c].entry, d)).todo = Fill(call[c].entry, d)
        BY DEF Enqueueing
      <4>5. QED
        BY <1>0, <1>1, <3>1, <3>3, <4>3, <4>4
    <3>4. QED
      BY <2>1, <3>2, <3>3 DEF ReadRow
  <2>2. CASE UpdateRow(c) \/ DeleteRow(c)
    <3>1. call' = [call EXCEPT ![c] = Enqueueing(Removals)] /\ queue' = queue
      BY <2>2 DEF UpdateRow, DeleteRow
    <3>2. \A t \in Range(Enqueueing(Removals).todo) : ~IsFill(t, e)
      BY CallTypes, TodoTypes DEF IsFill
    <3>3. QED
      BY <1>0, <1>1, <3>1, <3>2
  <2>3. CASE ForeignChange(c)
    <3> DEFINE tasks == <<RemoveTask("mapping"), RemoveTask("stats"), OtherTask>>
    <3>1. call' = [call EXCEPT ![c] = Enqueueing(tasks)] /\ queue' = queue
      BY <2>3 DEF ForeignChange
    <3>2. \A t \in Range(tasks) : t.op # "set"
      BY DEF Range, RemoveTask, OtherTask
    <3>3. \A t \in Range(Enqueueing(tasks).todo) : ~IsFill(t, e)
      BY <3>2 DEF Enqueueing, IsFill
    <3> HIDE DEF tasks
    <3>4. QED
      BY <1>0, <1>1, <3>1, <3>3
  <2>4. ASSUME NEW x \in Entries, CacheMiss(c, x)
        PROVE  QueuesClean' /\ CallsClean'
    <3> DEFINE new == [NoCall EXCEPT !.pc = "missed", !.entry = x]
    <3>1. call' = [call EXCEPT ![c] = new] /\ queue' = queue
      BY <2>4 DEF CacheMiss
    <3>2. new.todo = NoCall.todo
      BY DEF NoCall
    <3> HIDE DEF new
    <3>3. QED
      BY <1>0, <1>1, <1>2, <3>1, <3>2
  <2>5. CASE EnqueueNext(c)
    <3> DEFINE new == IF Len(call[c].todo) = 1 THEN NoCall ELSE Enqueueing(Tail(call[c].todo))
    <3>1. call[c].todo \in Seq(Task) /\ call[c].todo # <<>>
      BY <1>0, <2>5 DEF EnqueueNext, IInv, TypeOK, Call
    <3>2. \A t \in Range(call[c].todo) : ~IsFill(t, e)
      BY <1>0
    <3>3. \A t \in Range(new.todo) : ~IsFill(t, e)
      BY <1>2, <3>1, <3>2, TailElements, CallTypes
    <3>4. CallsClean'
      <4>1. call' = [call EXCEPT ![c] = new]
        BY <2>5 DEF EnqueueNext
      <4> HIDE DEF new
      <4>2. QED
        BY <1>1, <3>3, <4>1
    <3>5. /\ queue[c[1]] \in Seq(Task) /\ c[1] \in Replicas
          /\ Head(call[c].todo) \in Task /\ ~IsFill(Head(call[c].todo), e)
      BY <1>0, <3>1, <3>2, TailElements DEF TypeOK
    <3>6. \A t \in Range(Append(queue[c[1]], Head(call[c].todo))) : ~IsFill(t, e)
      BY <1>0, <3>5, AppendElements
    <3>7. QueuesClean'
      BY <1>0, <2>5, <3>6 DEF EnqueueNext, TypeOK
    <3>8. QED
      BY <3>4, <3>7
  <2>6. QED
    BY <1>3, <2>1, <2>2, <2>3, <2>4, <2>5 DEF CallStep
<1>4. ASSUME NEW r \in Replicas, RunTask(r) \/ RunTaskThrows(r)
      PROVE  QueuesClean' /\ CallsClean'
  <2>1. queue[r] \in Seq(Task) /\ queue[r] # <<>>
    BY <1>0, <1>4 DEF RunTask, RunTaskThrows, TypeOK
  <2>2. \A t \in Range(Tail(queue[r])) : ~IsFill(t, e)
    BY <1>0, <2>1, TailElements
  <2>3. call' = call /\ queue' = [queue EXCEPT ![r] = Tail(@)]
    BY <1>4 DEF RunTask, RunTaskThrows
  <2>4. QED
    BY <1>0, <2>2, <2>3 DEF TypeOK
<1>5. ASSUME NEW r \in Replicas, Crash(r)
      PROVE  QueuesClean' /\ CallsClean'
  BY <1>0, <1>2, <1>5, EmptyElements DEF Crash, TypeOK
<1>6. CASE UNCHANGED <<call, queue>>
  BY <1>0, <1>6
<1>7. ASSUME Create \/ DeleteUser \/ (\E g \in Groups : Elapse(g)) \/ UNCHANGED vars
      PROVE  UNCHANGED <<call, queue>>
  BY <1>7 DEF Create, DeleteUser, Elapse, vars
<1>8. QED
  BY <1>3, <1>4, <1>5, <1>6, <1>7 DEF Next

\* A destination enters the cache only with a fill.
LEMMA NoNewEntry ==
    ASSUME IInv, [Next]_vars, NEW e \in Entries,
           cache[e] \notin Destinations, ~FillPending(e)
    PROVE  cache'[e] \notin Destinations
<1>0. /\ cache \in [Entries -> Data] /\ "none" \notin Destinations
      /\ \A r \in Replicas : queue[r] \in Seq(Task)
  BY UrlCacheAssumption DEF IInv, TypeOK
<1>1. ASSUME NEW r \in Replicas, RunTask(r) PROVE cache'[e] \notin Destinations
  <2> DEFINE t == Head(queue[r])
  <2>1. ~IsFill(t, e)
    BY <1>0, <1>1, TailElements, NoFillPending DEF RunTask
  <2>2. CASE t.op = "set" /\ SetEntry(t.entry, t.data)
    BY <1>0, <2>1, <2>2 DEF SetEntry, IsFill
  <2>3. CASE RemoveGroup(t.entry)
    BY <1>0, <2>3 DEF RemoveGroup
  <2>4. CASE UNCHANGED cacheVars
    BY <2>4 DEF cacheVars
  <2>5. QED
    BY <1>1, <2>2, <2>3, <2>4 DEF RunTask
<1>2. ASSUME NEW g \in Groups, Elapse(g) PROVE cache'[e] \notin Destinations
  BY <1>0, <1>2 DEF Elapse, RemoveGroup
<1>3. ASSUME NEW c \in Replicas \X Slots, CallStep(c) PROVE cache' = cache
  BY <1>3 DEF CallStep, CacheMiss, ReadRow, UpdateRow, DeleteRow, ForeignChange,
     EnqueueNext, cacheVars
<1>4. ASSUME NEW r \in Replicas, RunTaskThrows(r) \/ Crash(r) PROVE cache' = cache
  BY <1>4 DEF RunTaskThrows, Crash, cacheVars
<1>5. ASSUME Create \/ DeleteUser \/ UNCHANGED vars PROVE cache' = cache
  BY <1>5 DEF Create, DeleteUser, vars, cacheVars
<1>6. QED
  BY <1>1, <1>2, <1>3, <1>4, <1>5 DEF Next

\* A link that is gone, and of whose destination no fill is under way, never
\* shows it again, for any number of replicas and calls and whatever fails.
THEOREM DeletedLinksStayGone == Spec => GoneForGood
<1>1. IInv /\ [Next]_vars =>
        \A e \in Entries :
          Dead /\ cache[e] \notin Destinations /\ ~FillPending(e)
             => (Dead /\ cache[e] \notin Destinations /\ ~FillPending(e))'
  <2> SUFFICES ASSUME IInv, [Next]_vars, NEW e \in Entries,
                      Dead, cache[e] \notin Destinations, ~FillPending(e)
               PROVE  Dead' /\ cache'[e] \notin Destinations /\ ~FillPending(e)'
    OBVIOUS
  <2>1. QED
    BY DeadForGood, NoNewEntry, NoNewFill
<1>2. QED
  BY <1>1, InductiveInvariant, PTL DEF Spec, GoneForGood

-------------------------------------------------------------------------------
(* Calls that do not overlap *)

LEMMA LineRunsOn ==
    ASSUME NEW s \in Seq(Task), NEW t \in Seq(Task)
    PROVE  /\ s # <<>> => Tail(s \o t) = Tail(s) \o t /\ Head(s \o t) = Head(s)
           /\ t # <<>> /\ Len(t) # 1 => Append(s, Head(t)) \o Tail(t) = s \o t
           /\ Len(t) = 1 => Append(s, Head(t)) \o <<>> = s \o t
           /\ s \o <<>> = s
<1>1. s # <<>> => Tail(s \o t) = Tail(s) \o t /\ Head(s \o t) = Head(s)
  OBVIOUS
<1>2. ASSUME t # <<>> PROVE Append(s, Head(t)) \o Tail(t) = s \o t
  <2>1. Tail(t) \in Seq(Task) /\ Head(t) \in Task /\ Len(t) \in Nat \ {0}
    BY <1>2
  <2>2. Len(Append(s, Head(t)) \o Tail(t)) = Len(s \o t)
    BY <1>2, <2>1
  <2>3. \A i \in 1 .. Len(s \o t) : (Append(s, Head(t)) \o Tail(t))[i] = (s \o t)[i]
    BY <1>2, <2>1
  <2>4. Append(s, Head(t)) \o Tail(t) \in Seq(Task) /\ s \o t \in Seq(Task)
    BY <2>1
  <2>5. QED
    BY <2>2, <2>3, <2>4
<1>3. ASSUME Len(t) = 1 PROVE t # <<>> /\ Tail(t) = <<>>
  <2>1. t # <<>>
    <3>1. t = <<>> => Len(t) = 0
      BY EmptySeq, Zenon
    <3>2. QED
      BY <1>3, <3>1
  <2>2. Tail(t) \in Seq(Task) /\ Len(Tail(t)) = 0
    BY <1>3, <2>1
  <2>3. Tail(t) # <<>> => Len(Tail(t)) \in Nat \ {0}
    BY <2>2, EmptySeq, Zenon
  <2>4. QED
    BY <2>1, <2>2, <2>3
<1>4. s \o <<>> = s
  OBVIOUS
<1>5. QED
  BY <1>1, <1>2, <1>3, <1>4

\* What is removed later in a line still is when the line grows, or when its
\* first task has run.
LEMMA RemovalsStay ==
    ASSUME NEW s \in Seq(Task), NEW t \in Seq(Task), NEW e
    PROVE  /\ \A i \in Nat : RemovedAfter(i, s, e) => RemovedAfter(i, s \o t, e)
           /\ s # <<>> => \A i \in Nat \ {0} :
                RemovedAfter(i, s, e) => RemovedAfter(i - 1, Tail(s), e)
           /\ s # <<>> /\ Head(s) # RemoveTask(Group(e)) =>
                (RemovedAfter(0, s, e) => RemovedAfter(0, Tail(s), e))
<1>1. ASSUME NEW i \in Nat, RemovedAfter(i, s, e) PROVE RemovedAfter(i, s \o t, e)
  <2>1. PICK j \in i + 1 .. Len(s) : s[j] = RemoveTask(Group(e))
    BY <1>1 DEF RemovedAfter
  <2>2. j \in i + 1 .. Len(s \o t) /\ (s \o t)[j] = s[j]
    OBVIOUS
  <2>3. QED
    BY <2>1, <2>2 DEF RemovedAfter
<1>2. ASSUME s # <<>>, NEW i \in Nat, RemovedAfter(i, s, e),
             i # 0 \/ Head(s) # RemoveTask(Group(e))
      PROVE  \E j \in i + 1 .. Len(s) : j # 1 /\ Tail(s)[j - 1] = RemoveTask(Group(e))
  <2>1. PICK j \in i + 1 .. Len(s) : s[j] = RemoveTask(Group(e))
    BY <1>2 DEF RemovedAfter
  <2>2. j # 1
    BY <1>2, <2>1
  <2>3. Tail(s)[j - 1] = s[j]
    BY <1>2, <2>2
  <2>4. QED
    BY <2>1, <2>2, <2>3
<1>3. s # <<>> => Len(Tail(s)) = Len(s) - 1 /\ Len(s) \in Nat
  OBVIOUS
<1>4. ASSUME s # <<>>, NEW i \in Nat \ {0}, RemovedAfter(i, s, e)
      PROVE  RemovedAfter(i - 1, Tail(s), e)
  <2>1. PICK j \in i + 1 .. Len(s) : j # 1 /\ Tail(s)[j - 1] = RemoveTask(Group(e))
    BY <1>2, <1>4
  <2>2. j - 1 \in (i - 1) + 1 .. Len(Tail(s))
    BY <1>3, <1>4
  <2>3. QED
    BY <2>1, <2>2 DEF RemovedAfter
<1>5. ASSUME s # <<>>, Head(s) # RemoveTask(Group(e)), RemovedAfter(0, s, e)
      PROVE  RemovedAfter(0, Tail(s), e)
  <2>1. PICK j \in 0 + 1 .. Len(s) : j # 1 /\ Tail(s)[j - 1] = RemoveTask(Group(e))
    BY <1>2, <1>5
  <2>2. j - 1 \in 0 + 1 .. Len(Tail(s))
    BY <1>3, <1>5, <2>1
  <2>3. QED
    BY <2>1, <2>2 DEF RemovedAfter
<1>6. QED
  BY <1>1, <1>4, <1>5

LEMMA LineEnds ==
    ASSUME NEW s \in Seq(Task), NEW t \in Seq(Task), NEW j \in 1 .. Len(t)
    PROVE  Len(s) + j \in 1 .. Len(s \o t) /\ (s \o t)[Len(s) + j] = t[j]
OBVIOUS

\* The removals of a change clear every entry, at the end of the line.
LEMMA RemovalsClear ==
    ASSUME NEW s \in Seq(Task), NEW e \in Entries, NEW i \in 0 .. Len(s)
    PROVE  RemovedAfter(i, s \o Removals, e)
<1>1. Group(e) \in {"mapping", "stats", "pages"}
  BY DEF Group, Entries
<1>2. PICK k \in 1 .. 3 : Removals[k] = RemoveTask(Group(e))
  BY <1>1 DEF Removals
<1>3. Removals \in Seq(Task) /\ Len(Removals) = 3
  BY TodoTypes DEF Removals
<1>4. /\ Len(s) + k \in 1 .. Len(s \o Removals)
      /\ (s \o Removals)[Len(s) + k] = RemoveTask(Group(e))
  BY <1>2, <1>3, LineEnds
<1>5. Len(s) + k \in i + 1 .. Len(s \o Removals)
  BY <1>4
<1>6. QED
  BY <1>4, <1>5 DEF RemovedAfter

LEMMA LineGrows ==
    ASSUME NEW s \in Seq(Task), NEW t \in Seq(Task), NEW i \in 1 .. Len(s \o t)
    PROVE  \/ i \in 1 .. Len(s) /\ (s \o t)[i] = s[i]
           \/ \E j \in 1 .. Len(t) : (s \o t)[i] = t[j]
<1>1. CASE i <= Len(s)
  BY <1>1
<1>2. CASE i > Len(s)
  <2>1. i - Len(s) \in 1 .. Len(t) /\ (s \o t)[i] = t[i - Len(s)]
    BY <1>2
  <2>2. QED
    BY <2>1
<1>3. QED
  BY <1>1, <1>2

\* The line is well typed.
LEMMA LineType ==
    ASSUME IInv, NEW c \in Replicas \X Slots
    PROVE  /\ c[1] \in Replicas /\ call[c] \in Call
           /\ queue[c[1]] \in Seq(Task) /\ call[c].todo \in Seq(Task)
           /\ Line(c) \in Seq(Task)
BY DEF IInv, TypeOK, Call, Line

\* The line grows by tasks none of which is an old fill.
LEMMA LineGrowsSerial ==
    ASSUME IInv, NEW c \in Replicas \X Slots, Serial(c), call[c].pc # "enqueue",
           NEW t \in Seq(Task), \A e \in Entries, j \in 1 .. Len(t) : ~OldFill(t[j], e, row),
           UNCHANGED <<row, cache, queue>>,
           call' = [call EXCEPT ![c] = Enqueueing(t)]
    PROVE  Serial(c)'
<1> DEFINE s == queue[c[1]]
<1>1. s \in Seq(Task) /\ Line(c) = s
  BY LineType, LineRunsOn DEF Serial, Line
<1>2. call'[c] = Enqueueing(t) /\ Line(c)' = s \o t
  BY DEF IInv, TypeOK, Line, Enqueueing
<1> HIDE DEF s
<1>3. ASSUME NEW e \in Entries PROVE Outdated(e)' => RemovedAfter(0, Line(c)', e)
  <2>1. Outdated(e)' => Outdated(e)
    BY DEF Outdated
  <2>2. Outdated(e) => RemovedAfter(0, s \o t, e)
    BY <1>1, RemovalsStay DEF Serial
  <2>3. QED
    BY <1>2, <2>1, <2>2 DEF RemovedAfter
<1>4. ASSUME NEW e \in Entries, NEW i \in 1 .. Len(s \o t), OldFill((s \o t)[i], e, row')
      PROVE  RemovedAfter(i, s \o t, e)
  <2>1. OldFill((s \o t)[i], e, row)
    BY <1>4, <1>1, <1>2 DEF OldFill
  <2>2. i \in 1 .. Len(s) /\ OldFill(s[i], e, row)
    BY <1>1, <2>1, LineGrows
  <2>3. RemovedAfter(i, s, e) /\ i \in Nat
    BY <1>1, <2>2 DEF Serial
  <2>4. QED
    BY <1>1, <2>3, RemovalsStay
<1>5. \A e \in Entries, i \in 1 .. Len(Line(c)') :
        OldFill(Line(c)'[i], e, row') => RemovedAfter(i, Line(c)', e)
  BY <1>2, <1>4 DEF RemovedAfter, OldFill
<1>6. call'[c].pc = "enqueue"
  BY <1>2 DEF Enqueueing
<1>7. QED
  BY <1>3, <1>5, <1>6 DEF Serial

\* Nothing is old anew while the row and the line stay and the cache only shrinks.
LEMMA LineStaysSerial ==
    ASSUME NEW c \in Replicas \X Slots, Serial(c), row' = row,
           Line(c)' = Line(c), \A e \in Entries : cache'[e] \in {cache[e], "none"},
           (call[c].pc # "enqueue" => call[c].todo = <<>>)'
    PROVE  Serial(c)'
<1>1. \A e \in Entries : Outdated(e)' => Outdated(e)
  BY UrlCacheAssumption DEF Outdated
<1>2. \A e, i : RemovedAfter(i, Line(c)', e) <=> RemovedAfter(i, Line(c), e)
  BY DEF RemovedAfter
<1>3. \A t, e : OldFill(t, e, row') <=> OldFill(t, e, row)
  BY DEF OldFill
<1>4. \A e \in Entries : Outdated(e)' => RemovedAfter(0, Line(c)', e)
  BY <1>1, <1>2 DEF Serial
<1>5. \A e \in Entries, i \in 1 .. Len(Line(c)') :
        OldFill(Line(c)'[i], e, row') => RemovedAfter(i, Line(c)', e)
  BY <1>2, <1>3 DEF Serial
<1>6. QED
  BY <1>4, <1>5 DEF Serial

\* A change clears the line of everything old.
LEMMA ChangeIsSerial ==
    ASSUME IInv, NEW c \in Replicas \X Slots, Serial(c), call[c].pc # "enqueue",
           queue' = queue, call' = [call EXCEPT ![c] = Enqueueing(Removals)]
    PROVE  Serial(c)'
<1> DEFINE s == queue[c[1]]
<1>1. s \in Seq(Task) /\ Len(s) \in Nat
  BY LineType
<1>2. call'[c] = Enqueueing(Removals) /\ Line(c)' = s \o Removals
  BY DEF IInv, TypeOK, Line, Enqueueing
<1> HIDE DEF s
<1>3. \A e \in Entries : RemovedAfter(0, s \o Removals, e)
  BY <1>1, RemovalsClear
<1>4. ASSUME NEW e \in Entries, NEW i \in 1 .. Len(s \o Removals),
             OldFill((s \o Removals)[i], e, row')
      PROVE  RemovedAfter(i, s \o Removals, e)
  <2>1. Removals \in Seq(Task) /\ \A j \in 1 .. Len(Removals) : Removals[j].op = "remove"
    BY TodoTypes DEF Removals, RemoveTask
  <2>2. i \in 1 .. Len(s)
    BY <1>1, <1>4, <2>1, LineGrows DEF OldFill
  <2>3. QED
    BY <1>1, <2>2, RemovalsClear
<1>5. \A e \in Entries : RemovedAfter(0, Line(c)', e)
  BY <1>2, <1>3 DEF RemovedAfter
<1>6. \A e \in Entries, i \in 1 .. Len(Line(c)') :
        OldFill(Line(c)'[i], e, row') => RemovedAfter(i, Line(c)', e)
  BY <1>2, <1>4 DEF RemovedAfter, OldFill
<1>7. call'[c].pc = "enqueue"
  BY <1>2 DEF Enqueueing
<1>8. QED
  BY <1>5, <1>6, <1>7 DEF Serial

LEMMA CallStepSerial ==
    ASSUME IInv, NEW c \in Replicas \X Slots, Serial(c), CallStep(c)
    PROVE  Serial(c)'
<1>t. c[1] \in Replicas /\ call[c] \in Call /\ queue[c[1]] \in Seq(Task)
  BY LineType
<1>d. call \in [Replicas \X Slots -> Call] /\ queue \in [Replicas -> Seq(Task)]
  BY DEF IInv, TypeOK
<1>1. ASSUME NEW e \in Entries, CacheMiss(c, e) PROVE Serial(c)'
  <2>1. call[c].todo = <<>> /\ call'[c].todo = <<>>
    BY <1>1, <1>d DEF CacheMiss, Serial, NoCall
  <2>2. Line(c)' = Line(c) /\ row' = row /\ cache' = cache
    BY <1>1, <2>1 DEF CacheMiss, Line, dbVars, cacheVars
  <2>3. QED
    BY <2>1, <2>2, LineStaysSerial
<1>2. CASE ReadRow(c)
  <2>1. CASE call' = [call EXCEPT ![c] = NoCall]
    <3>1. call[c].todo = <<>> /\ call'[c].todo = <<>>
      BY <1>2, <2>1, <1>d DEF ReadRow, Serial, NoCall
    <3>2. Line(c)' = Line(c) /\ row' = row /\ cache' = cache
      BY <1>2, <3>1 DEF ReadRow, Line, dbVars, cacheVars
    <3>3. QED
      BY <3>1, <3>2, LineStaysSerial
  <2>2. ASSUME NEW d \in Found(call[c].entry),
               call' = [call EXCEPT ![c] = Enqueueing(Fill(call[c].entry, d))]
        PROVE  Serial(c)'
    <3> DEFINE t == Fill(call[c].entry, d)
    <3>1. call[c].entry \in Entries /\ d \in Data
      BY <1>t, FoundType DEF IInv, Call
    <3>2. t \in Seq(Task) /\ \A x \in Range(t) : x.op = "other" \/ x = SetTask(call[c].entry, d)
      BY <3>1, TodoTypes
    <3>3. d \notin Destinations \ {row}
      BY UrlCacheAssumption DEF Found, Listed
    <3>4. ASSUME NEW e \in Entries, NEW j \in 1 .. Len(t) PROVE ~OldFill(t[j], e, row)
      <4>1. t[j] \in Range(t)
        BY <3>2 DEF Range
      <4>2. QED
        BY <3>2, <3>3, <4>1 DEF OldFill, SetTask
    <3>5. call[c].pc # "enqueue" /\ UNCHANGED <<row, cache, queue>>
      BY <1>2 DEF ReadRow, dbVars, cacheVars
    <3> HIDE DEF t
    <3>6. call' = [call EXCEPT ![c] = Enqueueing(t)]
      BY <2>2 DEF t
    <3>7. QED
      BY <3>2, <3>4, <3>5, <3>6, LineGrowsSerial
  <2>3. QED
    BY <1>2, <2>1, <2>2 DEF ReadRow
<1>3. CASE UpdateRow(c) \/ DeleteRow(c)
  <2>1. /\ call[c].pc # "enqueue" /\ queue' = queue
        /\ call' = [call EXCEPT ![c] = Enqueueing(Removals)]
    BY <1>3 DEF UpdateRow, DeleteRow
  <2>2. QED
    BY <2>1, ChangeIsSerial
<1>4. CASE ForeignChange(c)
  <2> DEFINE t == <<RemoveTask("mapping"), RemoveTask("stats"), OtherTask>>
  <2>1. t \in Seq(Task)
    BY CallTypes DEF Groups
  <2>2. \A e \in Entries, j \in 1 .. Len(t) : ~OldFill(t[j], e, row)
    BY DEF OldFill, RemoveTask, OtherTask
  <2>3. call[c].pc # "enqueue" /\ UNCHANGED <<row, cache, queue>>
    BY <1>4 DEF ForeignChange, dbVars, cacheVars
  <2>4. call' = [call EXCEPT ![c] = Enqueueing(t)]
    BY <1>4 DEF ForeignChange
  <2> HIDE DEF t
  <2>5. QED
    BY <2>1, <2>2, <2>3, <2>4, LineGrowsSerial
<1>5. CASE EnqueueNext(c)
  <2> DEFINE s == queue[c[1]]
             t == call[c].todo
  <2>1. s \in Seq(Task) /\ t \in Seq(Task) /\ t # <<>>
    BY <1>5, LineType DEF EnqueueNext, IInv
  <2>2. queue'[c[1]] = Append(s, Head(t))
    BY <1>5, <1>t, <1>d DEF EnqueueNext
  <2>3. call'[c] = IF Len(t) = 1 THEN NoCall ELSE Enqueueing(Tail(t))
    BY <1>5, <1>d DEF EnqueueNext
  <2>4. UNCHANGED <<row, cache>>
    BY <1>5 DEF EnqueueNext, dbVars, cacheVars
  <2>5. Line(c)' = queue'[c[1]] \o call'[c].todo /\ Line(c) = s \o t
    BY DEF Line
  <2> HIDE DEF s, t
  <2>6. CASE Len(t) = 1
    <3>1. call'[c].todo = <<>>
      BY <2>3, <2>6 DEF NoCall
    <3>2. Line(c)' = Line(c)
      <4>1. Append(s, Head(t)) \o <<>> = s \o t
        BY <2>1, <2>6, LineRunsOn
      <4>2. QED
        BY <2>2, <2>5, <3>1, <4>1
    <3>3. QED
      BY <2>4, <3>1, <3>2, LineStaysSerial
  <2>7. CASE Len(t) # 1
    <3>1. call'[c].pc = "enqueue" /\ call'[c].todo = Tail(t)
      BY <2>3, <2>7 DEF Enqueueing
    <3>2. Line(c)' = Line(c)
      BY <2>1, <2>2, <2>5, <2>7, <3>1, LineRunsOn
    <3>3. QED
      BY <2>4, <3>1, <3>2, LineStaysSerial
  <2>8. QED
    BY <2>6, <2>7
<1>6. QED
  BY <1>1, <1>2, <1>3, <1>4, <1>5 DEF CallStep

\* A task that runs leaves outdated what is removed later only.
LEMMA RunTaskSerial ==
    ASSUME IInv, NEW c \in Replicas \X Slots, Serial(c), RunTask(c[1])
    PROVE  Serial(c)'
<1> DEFINE s == Line(c)
           t == Head(queue[c[1]])
<1>t. /\ c[1] \in Replicas /\ queue[c[1]] \in Seq(Task) /\ call[c].todo \in Seq(Task)
      /\ s \in Seq(Task) /\ cache \in [Entries -> Data]
  BY LineType DEF IInv, TypeOK
<1>1. queue'[c[1]] = Tail(queue[c[1]]) /\ queue[c[1]] # <<>> /\ UNCHANGED <<row, call>>
  BY <1>t DEF RunTask, dbVars, IInv, TypeOK
<1>2. Line(c)' = Tail(s) /\ s # <<>> /\ s[1] = t
  <2> DEFINE q == queue[c[1]]
             d == call[c].todo
  <2>1. q \in Seq(Task) /\ d \in Seq(Task) /\ q # <<>>
    BY <1>1, <1>t
  <2>2. s = q \o d /\ Line(c)' = Tail(q) \o d /\ t = Head(q)
    BY <1>1 DEF Line
  <2> HIDE DEF q, d, s, t
  <2>3. Tail(q \o d) = Tail(q) \o d
    BY <2>1, LineRunsOn
  <2>4. q \o d # <<>> /\ (q \o d)[1] = Head(q)
    BY <2>1
  <2>5. QED
    BY <2>2, <2>3, <2>4
<1>3. s # <<>> /\ Head(s) = t /\ s[1] = t
  BY <1>2, <1>t
<1>4. ASSUME NEW e \in Entries, Outdated(e)' PROVE RemovedAfter(0, Tail(s), e)
  <2>1. CASE t.op = "set" /\ SetEntry(t.entry, t.data) /\ t.entry = e
    <3>1. cache'[e] = t.data
      BY <1>t, <2>1 DEF SetEntry
    <3>2. OldFill(s[1], e, row)
      BY <1>1, <1>3, <1>4, <2>1, <3>1 DEF Outdated, OldFill
    <3>3. RemovedAfter(1, s, e)
      BY <1>3, <1>t, <3>2 DEF Serial
    <3>4. QED
      BY <1>3, <1>t, <3>3, RemovalsStay
  <2>2. CASE cache'[e] = cache[e] /\ t # RemoveTask(Group(e))
    <3>1. RemovedAfter(0, s, e)
      BY <1>1, <1>4, <2>2 DEF Outdated, Serial
    <3>2. QED
      BY <1>2, <1>3, <1>t, <2>2, <3>1, RemovalsStay
  <2>3. ASSUME t.op = "set", SetEntry(t.entry, t.data), t.entry # e
        PROVE  cache'[e] = cache[e] /\ t # RemoveTask(Group(e))
    BY <1>t, <2>3 DEF SetEntry, RemoveTask
  <2>4. ASSUME t.op = "remove", RemoveGroup(t.entry)
        PROVE  cache'[e] = cache[e] /\ t # RemoveTask(Group(e))
    <3>1. cache'[e] = IF Group(e) = t.entry THEN "none" ELSE cache[e]
      BY <2>4 DEF RemoveGroup
    <3>2. Group(e) # t.entry
      BY <1>4, <3>1, UrlCacheAssumption DEF Outdated
    <3>3. QED
      BY <3>1, <3>2 DEF RemoveTask
  <2>5. ASSUME t.op = "other", UNCHANGED cacheVars
        PROVE  cache'[e] = cache[e] /\ t # RemoveTask(Group(e))
    BY <2>5 DEF cacheVars, RemoveTask
  <2>6. QED
    BY <2>1, <2>2, <2>3, <2>4, <2>5 DEF RunTask
<1>5. ASSUME NEW e \in Entries, NEW i \in 1 .. Len(Tail(s)), OldFill(Tail(s)[i], e, row')
      PROVE  RemovedAfter(i, Tail(s), e)
  <2>1. i + 1 \in 1 .. Len(s) /\ Tail(s)[i] = s[i + 1] /\ i + 1 \in Nat \ {0}
    BY <1>3, <1>t
  <2>2. OldFill(s[i + 1], e, row)
    BY <1>1, <1>5, <2>1 DEF OldFill
  <2>3. RemovedAfter(i + 1, s, e)
    BY <2>1, <2>2 DEF Serial
  <2>4. RemovedAfter((i + 1) - 1, Tail(s), e)
    BY <1>3, <1>t, <2>1, <2>3, RemovalsStay
  <2>5. QED
    BY <2>4
<1>6. \A e \in Entries : Outdated(e)' => RemovedAfter(0, Line(c)', e)
  BY <1>2, <1>4 DEF RemovedAfter
<1>7. \A e \in Entries, i \in 1 .. Len(Line(c)') :
        OldFill(Line(c)'[i], e, row') => RemovedAfter(i, Line(c)', e)
  BY <1>2, <1>5 DEF RemovedAfter, OldFill
<1>8. (call[c].pc # "enqueue" => call[c].todo = <<>>)'
  BY <1>1 DEF Serial
<1>9. QED
  BY <1>6, <1>7, <1>8 DEF Serial

LEMMA NextSerial ==
    ASSUME IInv, [Next]_vars, NEW c \in Replicas \X Slots, Serial(c),
           \A d \in Replicas \X Slots : d = c, ~Faults, ~UserDeletion
    PROVE  Serial(c)'
<1>t. cache \in [Entries -> Data] /\ c[1] \in Replicas
  BY DEF IInv, TypeOK
<1>1. ASSUME NEW d \in Replicas \X Slots, CallStep(d) PROVE Serial(c)'
  BY <1>1, CallStepSerial
<1>2. ASSUME NEW r \in Replicas, RunTask(r) PROVE Serial(c)'
  <2>1. PICK a \in Replicas, k \in Slots : c = <<a, k>>
    OBVIOUS
  <2>2. <<r, k>> \in Replicas \X Slots
    OBVIOUS
  <2>3. <<r, k>> = <<a, k>>
    BY <2>1, <2>2
  <2>4. r = c[1]
    BY <2>1, <2>3
  <2>5. QED
    BY <1>2, <2>4, RunTaskSerial
<1>3. ASSUME NEW g \in Groups, Elapse(g) PROVE Serial(c)'
  <2>1. \A e \in Entries : cache'[e] \in {cache[e], "none"}
    BY <1>t, <1>3 DEF Elapse, RemoveGroup
  <2>2. UNCHANGED <<row, call, queue>>
    BY <1>3 DEF Elapse, dbVars
  <2>3. Line(c)' = Line(c) /\ (call[c].pc # "enqueue" => call[c].todo = <<>>)'
    BY <2>2 DEF Line, Serial
  <2>4. QED
    BY <2>1, <2>2, <2>3, LineStaysSerial
<1>4. CASE UNCHANGED vars
  <2>1. UNCHANGED <<row, cache, call, queue>>
    BY <1>4 DEF vars, dbVars, cacheVars
  <2>2. Line(c)' = Line(c) /\ (call[c].pc # "enqueue" => call[c].todo = <<>>)'
    BY <2>1 DEF Line, Serial
  <2>3. QED
    BY <2>1, <2>2, LineStaysSerial
<1>5. CASE Create
  <2>1. UNCHANGED <<cache, call, queue>> /\ row \notin Destinations
    BY <1>5, UrlCacheAssumption DEF Create, cacheVars, NoRow
  <2>2. Line(c)' = Line(c) /\ (call[c].pc # "enqueue" => call[c].todo = <<>>)'
    BY <2>1 DEF Line, Serial
  <2>3. /\ \A e : Outdated(e)' => Outdated(e)
        /\ \A t, e : OldFill(t, e, row') => OldFill(t, e, row)
    BY <2>1 DEF Outdated, OldFill
  <2>4. \A e, i : RemovedAfter(i, Line(c)', e) <=> RemovedAfter(i, Line(c), e)
    BY <2>2 DEF RemovedAfter
  <2>5. \A e \in Entries : Outdated(e)' => RemovedAfter(0, Line(c)', e)
    BY <2>3, <2>4 DEF Serial
  <2>6. \A e \in Entries, i \in 1 .. Len(Line(c)') :
          OldFill(Line(c)'[i], e, row') => RemovedAfter(i, Line(c)', e)
    BY <2>2, <2>3, <2>4 DEF Serial
  <2>7. QED
    BY <2>2, <2>5, <2>6 DEF Serial
<1>6. ~DeleteUser /\ \A r \in Replicas : ~RunTaskThrows(r) /\ ~Crash(r)
  BY DEF DeleteUser, RunTaskThrows, Crash
<1>7. QED
  BY <1>1, <1>2, <1>3, <1>4, <1>5, <1>6 DEF Next

\* What is removed later is pending.
LEMMA RemovalIsPending ==
    ASSUME IInv, NEW c \in Replicas \X Slots, Serial(c)
    PROVE  OutdatedIsBeingRemoved
<1> SUFFICES ASSUME NEW e \in Entries, Outdated(e) PROVE RemoveTask(Group(e)) \in Pending
  BY DEF OutdatedIsBeingRemoved
<1> DEFINE s == queue[c[1]]
           t == call[c].todo
<1>1. s \in Seq(Task) /\ t \in Seq(Task) /\ Line(c) = s \o t /\ c[1] \in Replicas
  BY LineType DEF Line
<1> HIDE DEF s, t
<1>2. PICK j \in 1 .. Len(s \o t) : (s \o t)[j] = RemoveTask(Group(e))
  BY <1>1 DEF Serial, RemovedAfter
<1>3. RemoveTask(Group(e)) \in Range(s) \/ RemoveTask(Group(e)) \in Range(t)
  BY <1>1, <1>2, LineGrows DEF Range
<1>4. QED
  BY <1>1, <1>3 DEF Pending, s, t

\* When one slot of one replica makes all calls about the link, nothing fails and the
\* user is not deleted, everything outdated in the cache is about to be removed, for
\* every capacity of the queue, lifetime and number of updates.
THEOREM SerialCallsOutdateNothing ==
    ASSUME NEW c, Replicas \X Slots = {c}, ~Faults, ~UserDeletion
    PROVE  Spec => []OutdatedIsBeingRemoved
<1>1. Init => Serial(c)
  <2> SUFFICES ASSUME Init PROVE Serial(c)
    OBVIOUS
  <2>1. c \in Replicas \X Slots /\ c[1] \in Replicas
    OBVIOUS
  <2>2. call[c].todo = <<>> /\ queue[c[1]] = <<>>
    BY <2>1 DEF Init, NoCall
  <2>3. Line(c) = <<>> /\ Len(Line(c)) = 0
    BY <2>2, EmptyElements, LineRunsOn DEF Line
  <2>4. \A e \in Entries : ~Outdated(e)
    BY UrlCacheAssumption DEF Init, Outdated
  <2>5. QED
    BY <2>2, <2>3, <2>4 DEF Serial
<1>2. IInv /\ Serial(c) /\ [Next]_vars => Serial(c)'
  BY NextSerial
<1>3. IInv /\ Serial(c) => OutdatedIsBeingRemoved
  BY RemovalIsPending
<1>4. QED
  BY <1>1, <1>2, <1>3, InductiveInvariant, PTL DEF Spec

===============================================================================

-------------------------- MODULE BannedDomainsProofs --------------------------
(***************************************************************************)
(* No ban is overlooked, for any number of Admin replicas and of Create    *)
(* and Update calls, whatever fails.  A call may pass only on an answer    *)
(* that an Admin replica read from the table after the call began; the     *)
(* names banned throughout a call are always in the table, so an answer    *)
(* "allowed" tells that the domain is not among them (IInv).               *)
(***************************************************************************)
EXTENDS BannedDomains, TLAPS

\* What holds of a task put at the end of a queue and of the rest of it.
LEMMA QueueStep ==
    ASSUME NEW a \in Admins, queue \in [Admins -> Seq(Task)]
    PROVE  /\ \A t \in Task :
                 [queue EXCEPT ![a] = Append(@, t)] \in [Admins -> Seq(Task)]
           /\ queue[a] # <<>> =>
                 /\ [queue EXCEPT ![a] = Tail(@)] \in [Admins -> Seq(Task)]
                 /\ Head(queue[a]) \in Task
           /\ [queue EXCEPT ![a] = <<>>] \in [Admins -> Seq(Task)]
  <1>1. queue[a] \in Seq(Task)
    OBVIOUS
  <1>2. \A t \in Task : Append(queue[a], t) \in Seq(Task)
    BY <1>1
  <1>3. queue[a] # <<>> => Tail(queue[a]) \in Seq(Task) /\ Head(queue[a]) \in Task
    BY <1>1
  <1>4. <<>> \in Seq(Task)
    OBVIOUS
  <1> QED
    BY <1>2, <1>3, <1>4

LEMMA NoCheckType == NoCheck \in Check /\ NoCheck.pc = "idle" /\ NoCheck.throughout = {}
  BY DEF NoCheck, Check, Answer

\* The call that gets an answer, on the table's word or on the cache's.
LEMMA AnsweredType ==
    ASSUME NEW answer \in Answer, NEW names \in SUBSET Spellings
    PROVE  /\ Answered(answer, names) \in Check
           /\ Answered(answer, names).throughout \subseteq names
           /\ Answered(answer, names).pc # "read"
           /\ Answered(answer, names).pc = "passed" =>
                 answer = "allowed" /\ Answered(answer, names).throughout = names
  BY DEF Answered, NoCheck, Check, Answer

LEMMA InitInductive == Init => IInv
  <1> SUFFICES ASSUME Init PROVE IInv
    OBVIOUS
  <1>1. TypeOK
    BY NoCheckType, BannedDomainsAssumption DEF Init, TypeOK
  <1>2. \A c \in Checks : check[c] = NoCheck
    BY DEF Init
  <1> QED
    BY <1>1, <1>2, NoCheckType DEF IInv

\* The part of IInv that speaks of one call.
CallInv(c) ==
    /\ check[c].throughout \subseteq table
    /\ check[c].pc = "read" /\ check[c].answer = "allowed" => Host \notin check[c].throughout
    /\ check[c].pc = "passed" => Host \notin check[c].throughout

\* A step that leaves the table alone and changes one call, in its type and
\* invariant, keeps the invariant of all calls.
LEMMA OneCallChanges ==
    ASSUME IInv, NEW c \in Checks, NEW new \in Check, UNCHANGED table,
           check' = [check EXCEPT ![c] = new],
           new.throughout \subseteq table,
           new.pc = "read" /\ new.answer = "allowed" => Host \notin new.throughout,
           new.pc = "passed" => Host \notin new.throughout
    PROVE  check' \in [Checks -> Check] /\ \A d \in Checks : CallInv(d)'
  BY DEF IInv, TypeOK, CallInv

LEMMA CheckStepInductive ==
    ASSUME IInv, NEW c \in Checks, CheckStep(c)
    PROVE  IInv'
  <1> USE BannedDomainsAssumption
  <1>t. /\ check[c] \in Check /\ check[c].throughout \subseteq table
        /\ check[c].throughout \in SUBSET Spellings /\ check[c].answer \in Answer
        /\ table \subseteq Spellings /\ Host \in Spellings
    BY DEF IInv, TypeOK, Check
  <1>1. CASE CheckStart(c)
    <2>1. CASE cache[Host] \in TrustedAnswers /\ check' = [check EXCEPT ![c] = Answered(cache[Host], table)]
      <3>1. cache[Host] = "banned"
        BY <2>1 DEF TrustedAnswers
      <3>2. Answered(cache[Host], table) = NoCheck
        BY <3>1 DEF Answered
      <3> QED
        BY <1>1, <2>1, <3>2, NoCheckType, OneCallChanges DEF CheckStart, IInv, TypeOK, CallInv, dbVars, cacheVars
    <2>2. CASE check' = [check EXCEPT ![c] = [NoCheck EXCEPT !.pc = "asking", !.throughout = table]]
      <3> DEFINE new == [NoCheck EXCEPT !.pc = "asking", !.throughout = table]
      <3>1. new \in Check /\ new.pc = "asking" /\ new.throughout = table
        BY <1>t DEF NoCheck, Check, Answer
      <3> HIDE DEF new
      <3>2. check' = [check EXCEPT ![c] = new]
        BY <2>2 DEF new
      <3>3. check' \in [Checks -> Check] /\ \A d \in Checks : CallInv(d)'
        BY <1>1, <3>1, <3>2, OneCallChanges DEF CheckStart, dbVars
      <3> QED
        BY <1>1, <3>3 DEF CheckStart, IInv, TypeOK, CallInv, dbVars, cacheVars
    <2> QED
      BY <1>1, <2>1, <2>2 DEF CheckStart
  <1>2. ASSUME NEW a \in Admins, AdminRead(c, a) PROVE IInv'
    <2> DEFINE answer == IF Host \in table THEN "banned" ELSE "allowed"
               new == [check[c] EXCEPT !.pc = "read", !.at = a, !.answer = answer]
    <2>1. /\ new \in Check /\ new.pc = "read" /\ new.answer = answer
          /\ new.throughout = check[c].throughout
      BY <1>t DEF Check, Answer
    <2>2. new.answer = "allowed" => Host \notin new.throughout
      BY <1>t, <2>1
    <2>3. check' = [check EXCEPT ![c] = new]
      BY <1>2 DEF AdminRead
    <2> HIDE DEF new
    <2>4. check' \in [Checks -> Check] /\ \A d \in Checks : CallInv(d)'
      BY <1>t, <1>2, <2>1, <2>2, <2>3, OneCallChanges DEF AdminRead, dbVars
    <2> QED
      BY <1>2, <2>4 DEF AdminRead, IInv, TypeOK, CallInv, dbVars, cacheVars
  <1>3. CASE AdminReply(c)
    <2> DEFINE new == Answered(check[c].answer, check[c].throughout)
               task == SetTask(Host, check[c].answer)
    <2>1. new \in Check /\ new.throughout \subseteq table /\ new.pc # "read"
      BY <1>t, AnsweredType
    <2>2. new.pc = "passed" => Host \notin new.throughout
      BY <1>t, <1>3, AnsweredType DEF AdminReply, IInv
    <2>3. check' = [check EXCEPT ![c] = new]
      BY <1>3 DEF AdminReply
    <2> HIDE DEF new
    <2>4. check' \in [Checks -> Check] /\ \A d \in Checks : CallInv(d)'
      BY <1>3, <2>1, <2>2, <2>3, OneCallChanges DEF AdminReply, dbVars
    <2>5. task \in Task
      BY <1>t DEF SetTask, Task, Answer
    <2>6. queue' \in [Admins -> Seq(Task)]
      <3>1. check[c].at \in Admins \/ queue' = queue
        BY <1>3 DEF AdminReply, IInv, TypeOK
      <3>2. CASE check[c].at \in Admins
        BY <1>3, <2>5, <3>2, QueueStep DEF AdminReply, IInv, TypeOK
      <3> QED
        BY <3>1, <3>2 DEF IInv, TypeOK
    <2> QED
      BY <1>3, <2>4, <2>6 DEF AdminReply, IInv, TypeOK, CallInv, dbVars, cacheVars
  <1>4. CASE Accept(c)
    BY <1>4, NoCheckType, OneCallChanges DEF Accept, IInv, TypeOK, CallInv, dbVars, cacheVars
  <1>5. CASE CheckFails(c)
    BY <1>5, NoCheckType, OneCallChanges DEF CheckFails, IInv, TypeOK, CallInv, dbVars, cacheVars
  <1> QED
    BY <1>1, <1>2, <1>3, <1>4, <1>5 DEF CheckStep

LEMMA AdminStepInductive ==
    ASSUME IInv, NEW a \in Admins, AdminStep(a)
    PROVE  IInv'
  <1> USE BannedDomainsAssumption
  <1>t. TypeOK /\ \A c \in Checks : CallInv(c) /\ check[c] \in Check
    BY DEF IInv, TypeOK, CallInv
  <1>1. ASSUME NEW n \in Spellings, Ban(a, n) PROVE IInv'
    BY <1>1, <1>t DEF Ban, IInv, TypeOK, cacheVars
  <1>2. ASSUME NEW n \in Spellings, Unban(a, n) PROVE IInv'
    <2>1. ASSUME NEW c \in Checks
          PROVE  /\ check'[c] \in Check /\ CallInv(c)'
      <3>1. /\ check'[c] = [check[c] EXCEPT !.throughout = @ \ {n}]
            /\ table' = table \ {n}
        BY <1>2 DEF Unban
      <3>2. /\ check'[c] \in Check /\ check'[c].pc = check[c].pc
            /\ check'[c].answer = check[c].answer
            /\ check'[c].throughout = check[c].throughout \ {n}
        BY <3>1, <1>t DEF Check
      <3> QED
        BY <1>t, <3>1, <3>2 DEF CallInv
    <2>2. check' \in [Checks -> Check]
      BY <1>2, <2>1 DEF Unban
    <2>3. TypeOK'
      BY <1>2, <1>t, <2>2 DEF Unban, TypeOK, cacheVars
    <2>4. \A c \in Checks : CallInv(c)'
      BY <2>1
    <2> QED
      BY <2>3, <2>4 DEF IInv, CallInv
  <1>3. CASE RemoveDomainInBackground(a)
    <2>1. RemoveTask(admin[a]) \in Task
      BY <1>3, <1>t DEF RemoveDomainInBackground, RemoveTask, Task, TypeOK
    <2> QED
      BY <1>3, <1>t, <2>1, QueueStep DEF RemoveDomainInBackground, IInv, TypeOK, cacheVars, dbVars
  <1>4. CASE RunTask(a)
    <2> DEFINE t == Head(queue[a])
    <2>1. t \in Task /\ queue' \in [Admins -> Seq(Task)]
      BY <1>4, <1>t, QueueStep DEF RunTask, TypeOK
    <2>2. t.name \in Spellings /\ t.data \in Answer \union {"none"}
      BY <2>1 DEF Task
    <2>3. cache' \in [Spellings -> Answer \union {"none"}] /\ expires' \subseteq Spellings
      <3>1. CASE SetAnswer(t.name, t.data)
        BY <3>1, <2>2, <1>t DEF SetAnswer, TypeOK
      <3>2. CASE Absent(t.name)
        BY <3>2, <2>2, <1>t DEF Absent, TypeOK
      <3> QED
        BY <1>4, <3>1, <3>2 DEF RunTask
    <2> QED
      BY <1>4, <1>t, <2>1, <2>3 DEF RunTask, IInv, TypeOK, dbVars
  <1>5. CASE RunTaskThrows(a)
    BY <1>5, <1>t, QueueStep DEF RunTaskThrows, IInv, TypeOK, cacheVars, dbVars
  <1>6. CASE AdminCrash(a)
    <2>1. ASSUME NEW c \in Checks
          PROVE  check'[c] \in Check /\ CallInv(c)'
      <3>1. CASE check'[c] = check[c]
        BY <1>6, <1>t, <3>1 DEF AdminCrash, CallInv, dbVars
      <3>2. CASE check'[c] = [check[c] EXCEPT !.pc = "asking"]
        <4>1. /\ check'[c] \in Check /\ check'[c].pc = "asking"
              /\ check'[c].throughout = check[c].throughout
          BY <3>2, <1>t DEF Check
        <4> QED
          BY <1>6, <1>t, <4>1 DEF AdminCrash, CallInv, dbVars
      <3> QED
        BY <1>6, <3>1, <3>2 DEF AdminCrash
    <2>2. check' \in [Checks -> Check]
      BY <1>6, <2>1 DEF AdminCrash
    <2> QED
      BY <1>6, <1>t, <2>1, <2>2, QueueStep DEF AdminCrash, IInv, TypeOK, CallInv, cacheVars, dbVars
  <1> QED
    BY <1>1, <1>2, <1>3, <1>4, <1>5, <1>6 DEF AdminStep

LEMMA NextInductive == IInv /\ [Next]_vars => IInv'
  <1> SUFFICES ASSUME IInv, [Next]_vars PROVE IInv'
    OBVIOUS
  <1>1. ASSUME NEW n \in Spellings, Expire(n) PROVE IInv'
    BY <1>1 DEF Expire, Absent, IInv, TypeOK, dbVars
  <1>2. CASE UNCHANGED vars
    BY <1>2 DEF vars, dbVars, cacheVars, IInv, TypeOK
  <1> QED
    BY <1>1, <1>2, CheckStepInductive, AdminStepInductive DEF Next

\* Every reachable state is well typed.
THEOREM TypeCorrect == Spec => []TypeOK
  <1>1. IInv => TypeOK
    BY DEF IInv
  <1> QED
    BY InitInductive, NextInductive, <1>1, PTL DEF Spec

\* The invariant behind the next theorem holds in every reachable state.
THEOREM InductiveInvariant == Spec => []IInv
  BY InitInductive, NextInductive, PTL DEF Spec

\* No call passes while the domain was banned throughout it, in any run of any
\* number of Admin replicas and of calls to any shards.
THEOREM NoBanIsOverlooked == Spec => []BannedIsRejected
  <1>1. IInv => BannedIsRejected
    BY DEF IInv, BannedIsRejected
  <1> QED
    BY InductiveInvariant, <1>1, PTL
===============================================================================

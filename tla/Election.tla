-------------------------------- MODULE Election --------------------------------
(***************************************************************************)
(* The election of the master among the replicas of a shard, or of Admin:  *)
(* each starts an election when it is initialized or reconnected, and      *)
(* stops it when ZooKeeper reports the connection lost or the session      *)
(* expired.  From BackendShared/Services/ElectionService.cs and            *)
(* Shared/Services/ZookeeperService.cs.  External: ZooKeeper's sessions,   *)
(* and LeaderElectionSupport, which makes an ephemeral sequential node (an *)
(* offer), lists the offers and reads each one, is elected when no offer   *)
(* is lower and else waits for the one before its own to go.               *)
(***************************************************************************)
EXTENDS Integers, Sequences, FiniteSetsExt

CONSTANTS
    Replicas,  \* the pods, by host name, which a restarted pod keeps
    MaxFaults  \* bound: lost connections, expired sessions and ended processes

VARIABLES
    up,        \* whether the pod's process runs
    connected, \* whether its client is connected
    session,   \* the number of its ZooKeeper session
    expired,   \* whether that session expired and the client does not know yet
    events,    \* connection events to be handled: TRUE for connected
    pc,        \* what holds _lock: nothing, Initialize or the handler
    election,  \* _leaderElection: empty or one record
    type,      \* _electionType
    offers,    \* the children of _electionChildPath
    sequence,  \* ZooKeeper's counter of sequential nodes
    listed,    \* the numbers of the offers that are being read, or none
    faults     \* history: the faults so far

clientVars == <<up, connected, session, expired, events>>
vars == <<clientVars, pc, election, type, offers, sequence, listed, faults>>

ElectionEventType == {"FAILED", "ELECTED_COMPLETE", "READY_COMPLETE", "STOP_COMPLETE"}
Steps == {"new", "init", "idle", "create", "offer", "determine", "stop"}

\* Offers are numbered from 1 on: 0 is none.
NoOffer == 0

Init ==
    /\ up = [r \in Replicas |-> TRUE] /\ connected = [r \in Replicas |-> TRUE]
    /\ session = [r \in Replicas |-> 1] /\ expired = [r \in Replicas |-> FALSE]
    /\ events = [r \in Replicas |-> <<>>]
    /\ pc = [r \in Replicas |-> "new"] /\ election = [r \in Replicas |-> {}]
    /\ type = [r \in Replicas |-> "FAILED"]
    /\ offers = {} /\ sequence = 0 /\ faults = 0
    /\ listed = [r \in Replicas |-> {}]

-------------------------------------------------------------------------------
(* The service *)

\* The client that an election was created with can still be asked.
Usable(r, e) == connected[r] /\ e.session = session[r]

Goes(r, step) == pc' = [pc EXCEPT ![r] = step]
Becomes(r, eventType) == type' = [type EXCEPT ![r] = eventType]

\* StartElection and StopElection begin: they do nothing if there is, or is no,
\* election.
StartElection(r) == Goes(r, IF election[r] = {} THEN "create" ELSE "idle")
StopElection(r) == Goes(r, IF election[r] = {} THEN "idle" ELSE "stop")

\* Connected to ZooKeeper for the first time; the handler is subscribed.
Initialize(r) ==
    /\ pc[r] = "new" /\ connected[r]
    /\ Goes(r, "init")
    /\ events' = [events EXCEPT ![r] = <<>>]
    /\ UNCHANGED <<up, connected, session, expired, election, type, offers, sequence, listed,
                   faults>>

\* Mutant: a lost connection is not looked at.
HandleDisconnected_Reconnects(r) ==
    /\ pc[r] = "idle" /\ events[r] # <<>>
    /\ IF Head(events[r]) THEN StartElection(r) ELSE UNCHANGED pc
    /\ events' = [events EXCEPT ![r] = Tail(@)]
    /\ UNCHANGED <<up, connected, session, expired, election, type, offers, sequence, listed,
                   faults>>

HandleDisconnected(r) ==
    /\ pc[r] = "idle" /\ events[r] # <<>>
    /\ IF Head(events[r]) THEN StartElection(r) ELSE StopElection(r)
    /\ events' = [events EXCEPT ![r] = Tail(@)]
    /\ UNCHANGED <<up, connected, session, expired, election, type, offers, sequence, listed,
                   faults>>

CreateLeaderElection(r) ==
    /\ pc[r] \in {"init", "create"} /\ connected[r]
    /\ election' = [election EXCEPT ![r] =
          {[session |-> session[r], offer |-> NoOffer, before |-> NoOffer]}]
    /\ Goes(r, "offer")
    /\ UNCHANGED <<clientVars, type, offers, sequence, listed, faults>>

Ends(r) ==
    /\ up' = [up EXCEPT ![r] = FALSE] /\ connected' = [connected EXCEPT ![r] = FALSE]
    /\ expired' = [expired EXCEPT ![r] = FALSE]
    /\ events' = [events EXCEPT ![r] = <<>>]
    /\ pc' = [pc EXCEPT ![r] = "new"] /\ election' = [election EXCEPT ![r] = {}]
    /\ type' = [type EXCEPT ![r] = "FAILED"]
    /\ listed' = [listed EXCEPT ![r] = {}]
    /\ UNCHANGED <<session, sequence>>

\* The client gives up waiting for a connection: the handler throws, and so does
\* Initialize, whereupon the process ends.
CreateLeaderElectionThrows(r) ==
    /\ ~connected[r]
    /\ \/ /\ pc[r] = "create" /\ Goes(r, "idle")
          /\ UNCHANGED <<clientVars, election, type, sequence, listed>>
       \/ pc[r] = "init" /\ Ends(r)
    /\ UNCHANGED <<offers, faults>>

Offered(r, e) == offers' = offers \union
    {[number |-> sequence + 1, host |-> r, session |-> e.session]}

\* LeaderElectionSupport.start: makes the offer, or fails and tells so.
MakeOffer(r) ==
    /\ pc[r] = "offer"
    /\ \E e \in election[r] :
           \/ /\ Usable(r, e)
              /\ Offered(r, e) /\ sequence' = sequence + 1
              /\ election' = [election EXCEPT ![r] = {[e EXCEPT !.offer = sequence + 1]}]
              /\ Goes(r, "determine")
              /\ UNCHANGED type
           \/ /\ ~Usable(r, e)
              /\ Becomes(r, "FAILED") /\ Goes(r, "idle")
              /\ UNCHANGED <<offers, sequence, election>>
    /\ UNCHANGED <<clientVars, listed, faults>>

\* The offers below one, and the closest of them.
Below(number) == {o \in offers : o.number < number}
Before(number) == IF Below(number) = {} THEN NoOffer ELSE Max({o.number : o \in Below(number)})

\* Elected, or waiting for the offer before its own.
Determine(r, e) ==
    /\ Becomes(r, IF Before(e.offer) = NoOffer THEN "ELECTED_COMPLETE" ELSE "READY_COMPLETE")
    /\ election' = [election EXCEPT ![r] = {[e EXCEPT !.before = Before(e.offer)]}]

\* The watch on the offer before fires.
BeforeIsGone(r, e) ==
    /\ type[r] = "READY_COMPLETE" /\ e.before # NoOffer
    /\ \A o \in offers : o.number # e.before

\* LeaderElectionSupport lists the offers: when it has made one, and when the one
\* before its own is gone, whoever holds _lock then.
GetChildren(r) ==
    /\ listed[r] = {}
    /\ \E e \in election[r] : Usable(r, e) /\ (pc[r] = "determine" \/ BeforeIsGone(r, e))
    /\ listed' = [listed EXCEPT ![r] = {o.number : o \in offers}]
    /\ UNCHANGED <<clientVars, pc, election, type, offers, sequence, faults>>

\* An offer of the list went before it was read.
ListedIsGone(r) == \E n \in listed[r] : \A o \in offers : o.number # n

\* It reads each offer of the list, and looks for the one before its own, which
\* makes it list them again if that one has just gone.  One that is gone when it
\* is read makes it fail, for good: its offer and _leaderElection stay.
DetermineElectionStatus(r) ==
    /\ pc[r] = "determine" \/ listed[r] # {}
    /\ \E e \in election[r] :
           \/ listed[r] # {} /\ Usable(r, e) /\ Determine(r, e)
           \/ ~Usable(r, e) /\ Becomes(r, "FAILED") /\ UNCHANGED election
           \/ ListedIsGone(r) /\ Becomes(r, "FAILED") /\ UNCHANGED election
    /\ Goes(r, IF pc[r] = "determine" THEN "idle" ELSE pc[r])
    /\ listed' = [listed EXCEPT ![r] = {}]
    /\ UNCHANGED <<clientVars, offers, sequence, faults>>

\* Mutant: the stopped election is kept.
Stop_Keeps(r) ==
    /\ pc[r] = "stop"
    /\ \E e \in election[r] :
           \/ Usable(r, e) /\ offers' = {o \in offers : o.number # e.offer}
           \/ ~Usable(r, e) /\ UNCHANGED offers
    /\ Becomes(r, "STOP_COMPLETE")
    /\ listed' = [listed EXCEPT ![r] = {}]
    /\ Goes(r, "idle")
    /\ UNCHANGED <<clientVars, election, sequence, faults>>

\* LeaderElectionSupport.stop deletes the offer; without a connection the offer
\* stays as long as the session does.
Stop(r) ==
    /\ pc[r] = "stop"
    /\ \E e \in election[r] :
           \/ Usable(r, e) /\ offers' = {o \in offers : o.number # e.offer}
           \/ ~Usable(r, e) /\ UNCHANGED offers
    /\ Becomes(r, "STOP_COMPLETE")
    /\ listed' = [listed EXCEPT ![r] = {}]
    /\ election' = [election EXCEPT ![r] = {}]
    /\ Goes(r, "idle")
    /\ UNCHANGED <<clientVars, sequence, faults>>

\* getLeaderHostName: the host of the lowest offer.
LeaderHostName == {o.host : o \in {p \in offers : Below(p.number) = {}}}

\* Without a connection the call throws.
IsMaster(r) == up[r] /\ connected[r] /\ election[r] # {} /\ r \in LeaderHostName

IsHealthy(r) == type[r] \in {"ELECTED_COMPLETE", "READY_COMPLETE"}

-------------------------------------------------------------------------------
(* ZooKeeper, its client and the pods *)

Fault == faults < MaxFaults /\ faults' = faults + 1

Offline(r) ==
    /\ connected' = [connected EXCEPT ![r] = FALSE]
    /\ events' = [events EXCEPT ![r] = Append(@, FALSE)]

Disconnect(r) ==
    /\ Fault /\ up[r] /\ connected[r]
    /\ Offline(r)
    /\ UNCHANGED <<up, session, expired, pc, election, type, offers, sequence, listed>>

\* The connection is lost when the offer is made and its name not yet known.
OfferIsLost(r) ==
    /\ Fault /\ pc[r] = "offer"
    /\ \E e \in election[r] : Usable(r, e) /\ Offered(r, e)
    /\ sequence' = sequence + 1
    /\ Offline(r)
    /\ Becomes(r, "FAILED") /\ Goes(r, "idle")
    /\ UNCHANGED <<up, session, expired, election, listed>>

Expires(r, s) == offers' = {o \in offers : ~(o.host = r /\ o.session = s)}

\* The server ends the session of a client that it has not heard of.
Expire(r) ==
    /\ Fault /\ up[r] /\ ~connected[r] /\ ~expired[r]
    /\ Expires(r, session[r])
    /\ expired' = [expired EXCEPT ![r] = TRUE]
    /\ UNCHANGED <<up, connected, session, events, pc, election, type, sequence, listed>>

\* The server ends a session that an ended process has left.
ExpireAbandoned(r) ==
    /\ \E s \in {o.session : o \in {p \in offers : p.host = r}} :
           (up[r] => s # session[r]) /\ Expires(r, s)
    /\ UNCHANGED <<clientVars, pc, election, type, sequence, listed, faults>>

\* Back in its session; or told that it expired, whereupon the client begins
\* another one.
Reconnect(r) ==
    /\ up[r] /\ ~connected[r]
    /\ connected' = [connected EXCEPT ![r] = ~expired[r]]
    /\ session' = [session EXCEPT ![r] = IF expired[r] THEN @ + 1 ELSE @]
    /\ expired' = [expired EXCEPT ![r] = FALSE]
    /\ events' = [events EXCEPT ![r] = Append(@, ~expired[r])]
    /\ UNCHANGED <<up, pc, election, type, offers, sequence, listed, faults>>

\* Its offers stay until the session expires.
Crash(r) == Fault /\ up[r] /\ Ends(r) /\ UNCHANGED offers

\* DisposeAsync stops the election, and the client ends its session.
Terminate(r) ==
    /\ Fault /\ up[r] /\ connected[r] /\ Ends(r)
    /\ Expires(r, session[r])

Restart(r) ==
    /\ ~up[r]
    /\ up' = [up EXCEPT ![r] = TRUE] /\ connected' = [connected EXCEPT ![r] = TRUE]
    /\ session' = [session EXCEPT ![r] = @ + 1]
    /\ UNCHANGED <<expired, events, pc, election, type, offers, sequence, listed, faults>>

ServiceStep(r) ==
    \/ Initialize(r) \/ HandleDisconnected(r)
    \/ CreateLeaderElection(r) \/ CreateLeaderElectionThrows(r) \/ MakeOffer(r) \/ Stop(r)

Next ==
    \E r \in Replicas :
        \/ ServiceStep(r) \/ GetChildren(r) \/ DetermineElectionStatus(r)
        \/ Disconnect(r) \/ OfferIsLost(r) \/ Expire(r) \/ Reconnect(r)
        \/ Crash(r) \/ Terminate(r) \/ Restart(r) \/ ExpireAbandoned(r)

Spec == Init /\ [][Next]_vars

\* The service and the client's watches run, clients reconnect, pods restart, and
\* ZooKeeper ends the sessions that ended processes have left.
Fairness ==
    \A r \in Replicas :
        /\ WF_vars(ServiceStep(r))
        /\ WF_vars(GetChildren(r)) /\ WF_vars(DetermineElectionStatus(r))
        /\ WF_vars(Reconnect(r)) /\ WF_vars(Restart(r))
        /\ WF_vars(ExpireAbandoned(r))

FairSpec == Spec /\ Fairness

-------------------------------------------------------------------------------
(* Properties *)

LeaderElection == [session: Nat, offer: 0 .. sequence, before: 0 .. sequence]
Offer == [number: 1 .. sequence, host: Replicas, session: Nat \ {0}]

\* Every variable has its type.
TypeOK ==
    /\ up \in [Replicas -> BOOLEAN] /\ connected \in [Replicas -> BOOLEAN]
    /\ session \in [Replicas -> Nat \ {0}] /\ expired \in [Replicas -> BOOLEAN]
    /\ events \in [Replicas -> Seq(BOOLEAN)]
    /\ pc \in [Replicas -> Steps] /\ type \in [Replicas -> ElectionEventType]
    /\ election \in [Replicas -> SUBSET LeaderElection]
    /\ \A r \in Replicas : \A e \in election[r] : e.session <= session[r]
    /\ offers \subseteq Offer
    /\ sequence \in Nat /\ faults \in Nat
    /\ listed \in [Replicas -> SUBSET (1 .. sequence)]

\* A replica that was told it is elected, and has handled every event of its
\* connection, is the one that IsMaster finds: none of the others does a master's
\* work meanwhile.
ElectedIsMaster ==
    \A r \in Replicas :
        /\ up[r] /\ connected[r] /\ events[r] = <<>> /\ pc[r] = "idle"
        /\ type[r] = "ELECTED_COMPLETE"
        => IsMaster(r)

\* A replica whose last reading of the offers failed in a session that lives on.
\* No event follows: StartElection returns early, and nothing stops the election.
HasFailed(r) ==
    /\ pc[r] = "idle" /\ type[r] = "FAILED"
    /\ \E e \in election[r] : e.session = session[r] /\ e.offer # NoOffer

\* After the last fault there comes a time from which on exactly one of the replicas
\* is the master and every one is healthy, however sessions and elections crossed,
\* except those that failed to read an offer which went meanwhile: these stay as
\* they are, unhealthy and with their own offer.
ElectionSettles ==
    <>[](/\ \A r \in Replicas : connected[r] /\ (IsHealthy(r) \/ HasFailed(r))
         /\ \E r \in Replicas : \A q \in Replicas : IsMaster(q) <=> q = r)
===============================================================================

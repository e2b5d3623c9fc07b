----------------------------- MODULE ElectionProofs -----------------------------
(***************************************************************************)
(* A replica that was told it is elected, and has handled every event of   *)
(* its connection, is the master that IsMaster finds: for any number of    *)
(* replicas and faults, however connections, sessions and restarts cross   *)
(* with elections.                                                         *)
(***************************************************************************)
EXTENDS Election, TLAPS, WellFoundedInduction

-------------------------------------------------------------------------------
(* The offers before one *)

\* Numbers below a bound have a greatest one, which Max finds.
LEMMA MaxOfNumbers ==
    ASSUME NEW n \in Nat, NEW S \in SUBSET (1 .. n), S # {}
    PROVE  Max(S) \in S /\ \A x \in S : x <= Max(S)
<1> DEFINE Above == {m \in Nat : \A x \in S : x <= m}
<1>1. n \in Above /\ Above \subseteq Nat
  OBVIOUS
<1>2. PICK m \in Above : \A k \in Above : ~(<<k, m>> \in OpToRel(<, Nat))
  <2> HIDE DEF Above
  <2>1. Above # {}
    BY <1>1
  <2>2. QED
    BY <1>1, <2>1, WFMin, NatLessThanWellFounded, Zenon
<1>3. \A k \in Above : ~(k < m)
  BY <1>1, <1>2 DEF OpToRel
<1>4. m \in S
  <2> SUFFICES ASSUME m \notin S PROVE FALSE
    OBVIOUS
  <2>1. PICK y \in S : TRUE
    OBVIOUS
  <2>2. m \in Nat /\ \A x \in S : x <= m /\ x # m /\ x \in Nat /\ x >= 1
    OBVIOUS
  <2>3. m - 1 \in Above
    BY <2>1, <2>2
  <2>4. QED
    BY <1>3, <2>2, <2>3
<1>5. \E x \in S : \A y \in S : x >= y
  BY <1>4
<1>6. QED
  BY <1>5 DEF Max

\* Before finds an offer exactly if there are offers below.
LEMMA BeforeNumber ==
    ASSUME TypeOK, NEW number \in Nat
    PROVE  /\ Before(number) \in 0 .. sequence
           /\ Before(number) = NoOffer <=> Below(number) = {}
<1> USE DEF Offer
<1> DEFINE numbers == {o.number : o \in Below(number)}
<1>1. numbers \in SUBSET (1 .. sequence) /\ sequence \in Nat
  BY DEF TypeOK, Below
<1>2. CASE Below(number) = {}
  BY <1>1, <1>2 DEF Before, NoOffer
<1>3. CASE Below(number) # {}
  <2>1. numbers # {}
    BY <1>3
  <2>2. Max(numbers) \in numbers
    <3> HIDE DEF numbers
    <3>1. QED
      BY <1>1, <2>1, MaxOfNumbers
  <2>3. Before(number) = Max(numbers)
    BY <1>3 DEF Before
  <2>4. QED
    BY <1>1, <1>3, <2>2, <2>3 DEF NoOffer
<1>4. QED
  BY <1>2, <1>3

-------------------------------------------------------------------------------
(* Types *)

LEMMA InitType == Init => TypeOK
BY DEF Init, TypeOK, Steps, ElectionEventType

\* One more connection event, and the event that was handled.
LEMMA EventTypes ==
    ASSUME NEW s \in Seq(BOOLEAN), NEW b \in BOOLEAN
    PROVE  /\ Append(s, b) \in Seq(BOOLEAN)
           /\ s # <<>> => Head(s) \in BOOLEAN /\ Tail(s) \in Seq(BOOLEAN)
OBVIOUS

\* Whoever determines its status knows an offer or none, and stays an election.
LEMMA DetermineType ==
    ASSUME TypeOK, NEW r \in Replicas, NEW e \in election[r], Determine(r, e)
    PROVE  /\ type' \in [Replicas -> ElectionEventType]
           /\ election' \in [Replicas -> SUBSET LeaderElection]
           /\ \A q \in Replicas : \A f \in election'[q] : f.session <= session[q]
<1> USE DEF LeaderElection
<1> DEFINE d == Before(e.offer)
           changed == [e EXCEPT !.before = d]
<1>1. e \in LeaderElection /\ e.offer \in Nat /\ e.session <= session[r]
  BY DEF TypeOK
<1>2. d \in 0 .. sequence
  BY <1>1, BeforeNumber
<1>3. changed \in LeaderElection /\ changed.session = e.session
  <2> HIDE DEF d
  <2>1. QED
    BY <1>1, <1>2
<1>4. election' = [election EXCEPT ![r] = {changed}]
  BY DEF Determine
<1>5. election' \in [Replicas -> SUBSET LeaderElection]
      /\ \A q \in Replicas : \A f \in election'[q] : f.session <= session[q]
  <2> HIDE DEF changed
  <2>1. QED
    BY <1>1, <1>3, <1>4 DEF TypeOK
<1>6. type' \in [Replicas -> ElectionEventType]
  BY DEF Determine, Becomes, TypeOK, ElectionEventType
<1>7. QED
  BY <1>5, <1>6

\* A process that ends leaves the types of its own state.
LEMMA EndsType ==
    ASSUME TypeOK, NEW r \in Replicas, Ends(r)
    PROVE  /\ up' \in [Replicas -> BOOLEAN] /\ connected' \in [Replicas -> BOOLEAN]
           /\ session' = session /\ expired' \in [Replicas -> BOOLEAN]
           /\ events' \in [Replicas -> Seq(BOOLEAN)]
           /\ pc' \in [Replicas -> Steps] /\ type' \in [Replicas -> ElectionEventType]
           /\ election' \in [Replicas -> SUBSET LeaderElection]
           /\ \A q \in Replicas : \A e \in election'[q] : e.session <= session[q]
           /\ sequence' = sequence /\ listed' \in [Replicas -> SUBSET (1 .. sequence)]
<1>1. <<>> \in Seq(BOOLEAN)
  OBVIOUS
<1>2. events' \in [Replicas -> Seq(BOOLEAN)]
  BY <1>1 DEF Ends, TypeOK
<1>3. QED
  BY <1>2 DEF Ends, TypeOK, Steps, ElectionEventType

\* ZooKeeper takes another offer.
LEMMA OfferedType ==
    ASSUME TypeOK, NEW r \in Replicas, NEW e \in election[r], e.session = session[r],
           Offered(r, e), sequence' = sequence + 1
    PROVE  /\ offers' \subseteq Offer'
           /\ sequence' \in Nat
           /\ LeaderElection \subseteq LeaderElection'
           /\ 1 .. sequence \subseteq 1 .. sequence'
<1> USE DEF LeaderElection, Offer
<1>1. sequence \in Nat /\ session[r] \in Nat \ {0}
  BY DEF TypeOK
<1>2. 1 .. sequence \subseteq 1 .. sequence' /\ 0 .. sequence \subseteq 0 .. sequence'
  BY <1>1
<1>3. [number |-> sequence + 1, host |-> r, session |-> e.session]
          \in Offer'
  BY <1>1
<1>4. offers \subseteq Offer'
  BY <1>2 DEF TypeOK
<1>5. QED
  BY <1>1, <1>2, <1>3, <1>4 DEF Offered

LEMMA NextType == TypeOK /\ [Next]_vars => TypeOK'
<1> SUFFICES ASSUME TypeOK, [Next]_vars PROVE TypeOK'
  OBVIOUS
<1> USE DEF LeaderElection, Offer, clientVars, Steps, ElectionEventType, Goes, Becomes
<1>1. ASSUME NEW r \in Replicas, Initialize(r) PROVE TypeOK'
  BY <1>1 DEF Initialize, TypeOK
<1>2. ASSUME NEW r \in Replicas, HandleDisconnected(r) PROVE TypeOK'
  <2>1. Tail(events[r]) \in Seq(BOOLEAN)
    BY <1>2, EventTypes DEF HandleDisconnected, TypeOK
  <2>2. QED
    BY <1>2, <2>1 DEF HandleDisconnected, StartElection, StopElection, TypeOK
<1>3. ASSUME NEW r \in Replicas, CreateLeaderElection(r) PROVE TypeOK'
  <2> DEFINE own == [session |-> session[r], offer |-> NoOffer, before |-> NoOffer]
  <2>1. /\ own \in LeaderElection
        /\ own.session <= session[r]
    BY DEF TypeOK, NoOffer
  <2>2. election' = [election EXCEPT ![r] = {own}] /\ session' = session
    BY <1>3 DEF CreateLeaderElection
  <2>3. /\ election' \in [Replicas -> SUBSET LeaderElection]
        /\ \A q \in Replicas : \A e \in election'[q] : e.session <= session'[q]
    <3> HIDE DEF own
    <3>1. QED
      BY <2>1, <2>2 DEF TypeOK
  <2>4. QED
    BY <1>3, <2>3 DEF CreateLeaderElection, TypeOK
<1>4. ASSUME NEW r \in Replicas, CreateLeaderElectionThrows(r) PROVE TypeOK'
  <2>1. CASE Ends(r)
    BY <1>4, <2>1, EndsType DEF CreateLeaderElectionThrows, TypeOK
  <2>2. CASE ~Ends(r)
    BY <1>4, <2>2 DEF CreateLeaderElectionThrows, TypeOK
  <2>3. QED
    BY <2>1, <2>2
<1>5. ASSUME NEW r \in Replicas, MakeOffer(r) PROVE TypeOK'
  <2>1. PICK e \in election[r] :
            \/ /\ Usable(r, e)
               /\ Offered(r, e) /\ sequence' = sequence + 1
               /\ election' = [election EXCEPT ![r] = {[e EXCEPT !.offer = sequence + 1]}]
               /\ Goes(r, "determine")
               /\ UNCHANGED type
            \/ /\ ~Usable(r, e)
               /\ Becomes(r, "FAILED") /\ Goes(r, "idle")
               /\ UNCHANGED <<offers, sequence, election>>
    BY <1>5 DEF MakeOffer
  <2>2. CASE Usable(r, e)
    <3> DEFINE made == [e EXCEPT !.offer = sequence + 1]
    <3>1. /\ offers' \subseteq Offer'
          /\ sequence' \in Nat
          /\ LeaderElection \subseteq LeaderElection'
          /\ 1 .. sequence \subseteq 1 .. sequence'
      BY <2>1, <2>2, OfferedType DEF Usable
    <3>2. /\ e \in LeaderElection
          /\ e.session <= session[r] /\ sequence \in Nat
      BY DEF TypeOK
    <3>3. /\ made \in LeaderElection'
          /\ made.session <= session[r]
      BY <2>1, <2>2, <3>1, <3>2
    <3>4. election' = [election EXCEPT ![r] = {made}] /\ session' = session
      BY <1>5, <2>1, <2>2 DEF MakeOffer
    <3>5. /\ election' \in [Replicas -> SUBSET LeaderElection']
          /\ \A q \in Replicas : \A f \in election'[q] : f.session <= session'[q]
      <4> HIDE DEF made
      <4>1. QED
        BY <3>1, <3>3, <3>4 DEF TypeOK
    <3>6. listed' \in [Replicas -> SUBSET (1 .. sequence')]
      BY <1>5, <3>1 DEF MakeOffer, TypeOK
    <3>7. QED
      BY <1>5, <2>1, <2>2, <3>1, <3>5, <3>6 DEF MakeOffer, TypeOK
  <2>3. CASE ~Usable(r, e)
    BY <1>5, <2>1, <2>3 DEF MakeOffer, TypeOK
  <2>4. QED
    BY <2>2, <2>3
<1>6. ASSUME NEW r \in Replicas, DetermineElectionStatus(r) PROVE TypeOK'
  <2>1. /\ pc' \in [Replicas -> Steps] /\ listed' \in [Replicas -> SUBSET (1 .. sequence)]
        /\ UNCHANGED <<clientVars, offers, sequence, faults>>
    BY <1>6 DEF DetermineElectionStatus, TypeOK
  <2>2. /\ type' \in [Replicas -> ElectionEventType]
        /\ election' \in [Replicas -> SUBSET LeaderElection]
        /\ \A q \in Replicas : \A e \in election'[q] : e.session <= session[q]
    <3>1. CASE \E e \in election[r] : Determine(r, e)
      BY <3>1, DetermineType
    <3>2. CASE Becomes(r, "FAILED") /\ UNCHANGED election
      BY <3>2 DEF TypeOK
    <3>3. QED
      BY <1>6, <3>1, <3>2 DEF DetermineElectionStatus
  <2>3. QED
    BY <2>1, <2>2 DEF TypeOK
<1>7. ASSUME NEW r \in Replicas, Stop(r) PROVE TypeOK'
  BY <1>7 DEF Stop, TypeOK
<1>8. ASSUME NEW r \in Replicas, GetChildren(r) PROVE TypeOK'
  <2>1. {o.number : o \in offers} \subseteq 1 .. sequence
    BY DEF TypeOK
  <2>2. QED
    BY <1>8, <2>1 DEF GetChildren, TypeOK
<1>9. ASSUME NEW r \in Replicas, Disconnect(r) PROVE TypeOK'
  <2>1. Append(events[r], FALSE) \in Seq(BOOLEAN)
    BY EventTypes DEF TypeOK
  <2>2. QED
    BY <1>9, <2>1 DEF Disconnect, Offline, Fault, TypeOK
<1>10. ASSUME NEW r \in Replicas, OfferIsLost(r) PROVE TypeOK'
  <2>1. Append(events[r], FALSE) \in Seq(BOOLEAN)
    BY EventTypes DEF TypeOK
  <2>2. /\ offers' \subseteq Offer'
        /\ sequence' \in Nat
        /\ LeaderElection \subseteq LeaderElection'
        /\ 1 .. sequence \subseteq 1 .. sequence'
    BY <1>10, OfferedType DEF OfferIsLost, Usable
  <2>3. listed' \in [Replicas -> SUBSET (1 .. sequence')]
    BY <1>10, <2>2 DEF OfferIsLost, TypeOK
  <2>4. QED
    BY <1>10, <2>1, <2>2, <2>3 DEF OfferIsLost, Offline, Fault, TypeOK
<1>11. ASSUME NEW r \in Replicas, Expire(r) PROVE TypeOK'
  BY <1>11 DEF Expire, Expires, Fault, TypeOK
<1>12. ASSUME NEW r \in Replicas, Reconnect(r) PROVE TypeOK'
  <2>1. Append(events[r], ~expired[r]) \in Seq(BOOLEAN)
    BY EventTypes DEF TypeOK
  <2>2. /\ session' \in [Replicas -> Nat \ {0}]
        /\ \A q \in Replicas : session[q] \in Nat /\ session'[q] >= session[q]
    BY <1>12 DEF Reconnect, TypeOK
  <2>3. \A q \in Replicas : \A e \in election[q] : e.session \in Nat /\ e.session <= session'[q]
    BY <2>2 DEF TypeOK
  <2>4. QED
    BY <1>12, <2>1, <2>2, <2>3 DEF Reconnect, TypeOK
<1>13. ASSUME NEW r \in Replicas, Crash(r) \/ Terminate(r) PROVE TypeOK'
  <2>1. Ends(r) /\ offers' \subseteq offers /\ faults' \in Nat
    BY <1>13 DEF Crash, Terminate, Expires, Fault, TypeOK
  <2>2. QED
    BY <2>1, EndsType DEF TypeOK
<1>14. ASSUME NEW r \in Replicas, Restart(r) PROVE TypeOK'
  BY <1>14 DEF Restart, TypeOK
<1>15. ASSUME NEW r \in Replicas, ExpireAbandoned(r) PROVE TypeOK'
  BY <1>15 DEF ExpireAbandoned, Expires, TypeOK
<1>16. CASE UNCHANGED vars
  BY <1>16 DEF vars, TypeOK
<1>17. QED
  BY <1>1, <1>2, <1>3, <1>4, <1>5, <1>6, <1>7, <1>8, <1>9, <1>10, <1>11, <1>12, <1>13,
     <1>14, <1>15, <1>16 DEF Next, ServiceStep

\* Every variable keeps its type.
THEOREM TypeCorrect == Spec => []TypeOK
BY InitType, NextType, PTL DEF Spec

-------------------------------------------------------------------------------
(* The inductive invariant *)

\* Only the client of a process that runs is connected, in a session that has
\* not expired; a process that does not run is at its beginning.
Clients ==
    \A r \in Replicas :
        /\ connected[r] => up[r] /\ ~expired[r]
        /\ ~up[r] => pc[r] = "new" /\ ~expired[r]

\* Who is told about its election, or reads the offers, has an election, which made
\* its offer.
Elections ==
    \A r \in Replicas :
        /\ pc[r] \in {"new", "init", "create"} => election[r] = {}
        /\ IsHealthy(r) => election[r] # {} /\ pc[r] \in {"idle", "stop"}
        /\ IsHealthy(r) \/ pc[r] = "determine" => \A e \in election[r] : e.offer # NoOffer
        /\ listed[r] # {} => IsHealthy(r) \/ pc[r] = "determine"

\* No number is given twice, and none is another replica's.
Numbers ==
    /\ \A o, p \in offers : o.number = p.number => o = p
    /\ \A r \in Replicas :
           \A e \in election[r], o \in offers : o.number = e.offer => o.host = r

\* The offer of an election is there as long as the session it was made in.
OwnOffer ==
    \A r \in Replicas : \A e \in election[r] :
        e.offer # NoOffer /\ e.session = session[r] /\ ~expired[r] =>
            [number |-> e.offer, host |-> r, session |-> e.session] \in offers

\* No offer is below that of a replica that was told it is elected.
Lowest ==
    \A r \in Replicas :
        type[r] = "ELECTED_COMPLETE" => \A e \in election[r] : Below(e.offer) = {}

Lost(s) == \E i \in DOMAIN s : s[i] = FALSE

\* An election of another session is being stopped, or will be when the event
\* that tells of the loss is handled.
OtherSessionStops ==
    \A r \in Replicas : \A e \in election[r] :
        e.session = session[r] \/ pc[r] = "stop" \/ Lost(events[r])

\* Inductive with TypeOK.
Inv == Clients /\ Elections /\ Numbers /\ OwnOffer /\ Lowest /\ OtherSessionStops

LEMMA LostEvents ==
    ASSUME NEW s \in Seq(BOOLEAN), NEW b \in BOOLEAN
    PROVE  /\ Lost(Append(s, b)) <=> Lost(s) \/ ~b
           /\ s # <<>> => (Lost(s) <=> ~Head(s) \/ Lost(Tail(s)))
           /\ ~Lost(<<>>)
<1>1. Lost(Append(s, b)) <=> Lost(s) \/ ~b
  <2> DEFINE t == Append(s, b)
  <2>1. /\ Len(s) \in Nat /\ DOMAIN s = 1 .. Len(s) /\ DOMAIN t = 1 .. Len(s) + 1
        /\ t[Len(s) + 1] = b /\ \A i \in DOMAIN s : t[i] = s[i]
    OBVIOUS
  <2> HIDE DEF t
  <2>2. \A i \in DOMAIN t : i \in DOMAIN s \/ i = Len(s) + 1
    BY <2>1
  <2>3. DOMAIN s \subseteq DOMAIN t /\ Len(s) + 1 \in DOMAIN t
    BY <2>1
  <2>4. Lost(t) <=> Lost(s) \/ ~b
    BY <2>1, <2>2, <2>3 DEF Lost
  <2>5. QED
    BY <2>4 DEF t
<1>2. ASSUME s # <<>> PROVE Lost(s) <=> ~Head(s) \/ Lost(Tail(s))
  <2> DEFINE t == Tail(s)
  <2>1. /\ Len(s) \in Nat \ {0} /\ DOMAIN s = 1 .. Len(s) /\ DOMAIN t = 1 .. Len(s) - 1
        /\ Head(s) = s[1] /\ Head(s) \in BOOLEAN /\ \A i \in DOMAIN t : t[i] = s[i + 1]
    BY <1>2
  <2> HIDE DEF t
  <2>2. ASSUME NEW i \in DOMAIN s, i # 1 PROVE \E j \in DOMAIN t : t[j] = s[i]
    <3>1. i - 1 \in DOMAIN t /\ (i - 1) + 1 = i
      BY <2>1, <2>2
    <3>2. QED
      BY <2>1, <3>1
  <2>3. 1 \in DOMAIN s /\ \A i \in DOMAIN t : i + 1 \in DOMAIN s
    BY <2>1
  <2>4. ASSUME Lost(s) PROVE ~Head(s) \/ Lost(t)
    <3>1. PICK i \in DOMAIN s : s[i] = FALSE
      BY <2>4 DEF Lost
    <3>2. CASE i = 1
      BY <2>1, <3>1, <3>2
    <3>3. CASE i # 1
      BY <2>2, <3>1, <3>3 DEF Lost
    <3>4. QED
      BY <3>2, <3>3
  <2>5. ~Head(s) => Lost(s)
    BY <2>1, <2>3 DEF Lost
  <2>6. Lost(t) => Lost(s)
    BY <2>1, <2>3 DEF Lost
  <2>7. QED
    BY <2>4, <2>5, <2>6 DEF t
<1>3. ~Lost(<<>>)
  BY DEF Lost
<1>4. QED
  BY <1>1, <1>2, <1>3

\* What the service is told about its election, and the election it keeps.
LEMMA DetermineChanges ==
    ASSUME TypeOK, NEW r \in Replicas, NEW e \in election[r], Determine(r, e)
    PROVE  /\ \A q \in Replicas : q # r => election'[q] = election[q] /\ type'[q] = type[q]
           /\ election'[r] # {}
           /\ \A f \in election'[r] : f.offer = e.offer /\ f.session = e.session
           /\ type'[r] = IF Below(e.offer) = {} THEN "ELECTED_COMPLETE" ELSE "READY_COMPLETE"
<1> DEFINE d == Before(e.offer)
           changed == [e EXCEPT !.before = d]
<1>1. e \in LeaderElection /\ e.offer \in Nat
  BY DEF TypeOK, LeaderElection
<1>2. d = NoOffer <=> Below(e.offer) = {}
  BY <1>1, BeforeNumber
<1>3. changed.offer = e.offer /\ changed.session = e.session
  <2> HIDE DEF d
  <2>1. QED
    BY <1>1 DEF LeaderElection
<1>4. election' = [election EXCEPT ![r] = {changed}]
  BY DEF Determine
<1>5. type' = [type EXCEPT ![r] = IF d = NoOffer THEN "ELECTED_COMPLETE" ELSE "READY_COMPLETE"]
  BY DEF Determine, Becomes
<1> HIDE DEF changed, d
<1>6. election \in [Replicas -> SUBSET LeaderElection] /\ type \in [Replicas -> ElectionEventType]
  BY DEF TypeOK
<1>7. QED
  BY <1>2, <1>3, <1>4, <1>5, <1>6

LEMMA DetermineInv ==
    ASSUME TypeOK, Inv, NEW r \in Replicas, NEW e \in election[r],
           e.offer # NoOffer, Usable(r, e), Determine(r, e),
           UNCHANGED <<clientVars, offers, sequence>>,
           pc'[r] \in {"idle", "stop"}, listed'[r] = {},
           \A q \in Replicas : q # r => pc'[q] = pc[q] /\ listed'[q] = listed[q]
    PROVE  Inv'
<1> USE DEF clientVars, IsHealthy, Below, Inv
<1>1. /\ \A q \in Replicas : q # r => election'[q] = election[q] /\ type'[q] = type[q]
      /\ election'[r] # {}
      /\ \A f \in election'[r] : f.offer = e.offer /\ f.session = e.session
      /\ type'[r] = IF Below(e.offer) = {} THEN "ELECTED_COMPLETE" ELSE "READY_COMPLETE"
  BY DetermineChanges
<1>2. up[r] /\ e.session = session[r]
  BY DEF TypeOK, Usable, Clients
<1>3. Clients'
  BY <1>2 DEF Clients
<1>4. Elections'
  BY <1>1, <1>2 DEF Elections
<1>5. Numbers'
  BY <1>1 DEF Numbers
<1>6. OwnOffer'
  BY <1>1 DEF OwnOffer
<1>7. Lowest'
  BY <1>1 DEF Lowest
<1>8. OtherSessionStops'
  BY <1>1, <1>2 DEF OtherSessionStops
<1>9. QED
  BY <1>3, <1>4, <1>5, <1>6, <1>7, <1>8

LEMMA InitInv == Init => Inv
BY DEF Init, Inv, Clients, Elections, Numbers, OwnOffer, Lowest, OtherSessionStops, IsHealthy, Below

\* A new offer has a number that no other offer and no election has.
LEMMA NewNumber ==
    ASSUME TypeOK, Numbers, NEW r \in Replicas, NEW e \in election[r], Offered(r, e)
    PROVE  /\ \A o \in offers' : o \in offers \/ (o.number = sequence + 1 /\ o.host = r)
           /\ \A o, p \in offers' : o.number = p.number => o = p
           /\ \A q \in Replicas : \A f \in election[q], o \in offers' :
                  o.number = f.offer => o.host = q
           /\ \A o \in offers : o.number \in Nat /\ o.number < sequence + 1
           /\ \A q \in Replicas : \A f \in election[q] :
                  /\ Below(f.offer)' = Below(f.offer)
                  /\ f.offer \in Nat /\ f.offer < sequence + 1
<1> DEFINE own == [number |-> sequence + 1, host |-> r, session |-> e.session]
<1>1. offers' = offers \union {own} /\ own.number = sequence + 1 /\ own.host = r
  BY DEF Offered
<1>2. \A o \in offers : o.number \in Nat /\ o.number < sequence + 1
  BY DEF TypeOK, Offer
<1>3. \A q \in Replicas : \A f \in election[q] : f.offer \in Nat /\ f.offer < sequence + 1
  BY DEF TypeOK, LeaderElection
<1>4. sequence + 1 \in Nat
  BY DEF TypeOK
<1> HIDE DEF own
<1>5. \A q \in Replicas : \A f \in election[q] : Below(f.offer)' = Below(f.offer)
  BY <1>1, <1>2, <1>3, <1>4 DEF Below
<1>6. \A q \in Replicas : \A f \in election[q], o \in offers' : o.number = f.offer => o.host = q
  BY <1>1, <1>3, <1>4 DEF Numbers
<1>7. \A o, p \in offers' : o.number = p.number => o = p
  BY <1>1, <1>2, <1>4 DEF Numbers
<1>8. \A o \in offers' : o \in offers \/ (o.number = sequence + 1 /\ o.host = r)
  <2>1. \A o \in offers' : o \in offers \/ o = own
    BY <1>1
  <2>2. QED
    BY <1>1, <2>1, Zenon
<1>9. QED
  BY <1>2, <1>3, <1>5, <1>6, <1>7, <1>8, Zenon

LEMMA MadeOfferInv ==
    ASSUME TypeOK, Inv, NEW r \in Replicas, NEW e \in election[r], Usable(r, e),
           Offered(r, e), sequence' = sequence + 1,
           election' = [election EXCEPT ![r] = {[e EXCEPT !.offer = sequence + 1]}],
           pc[r] = "offer", Goes(r, "determine"), UNCHANGED <<clientVars, type, listed>>
    PROVE  Inv'
<1> USE DEF Inv, clientVars, Goes, IsHealthy
<1> DEFINE made == [e EXCEPT !.offer = sequence + 1]
<1>1. made.offer = sequence + 1 /\ made.session = e.session
  BY DEF TypeOK, LeaderElection
<1>2. sequence + 1 \in Nat /\ sequence + 1 # NoOffer
  BY DEF TypeOK, NoOffer
<1>3. /\ pc'[r] = "determine" /\ \A q \in Replicas : q # r => pc'[q] = pc[q]
      /\ election' = [election EXCEPT ![r] = {made}]
      /\ e.session = session[r] /\ up[r] /\ ~IsHealthy(r)
  BY DEF TypeOK, Usable, Clients, Elections
<1>4. offers' = offers \union {[number |-> made.offer, host |-> r, session |-> made.session]}
  BY <1>1 DEF Offered
<1> HIDE DEF made
<1>5. election'[r] = {made} /\ \A q \in Replicas : q # r => election'[q] = election[q]
  BY <1>3 DEF TypeOK
<1>6. Clients'
  BY <1>3 DEF Clients
<1>7. Elections'
  BY <1>1, <1>2, <1>3, <1>5 DEF Elections
<1>8. Numbers'
  <2>1. \A o, p \in offers' : o.number = p.number => o = p
    BY NewNumber
  <2>2. ASSUME NEW q \in Replicas, q # r PROVE
            \A f \in election'[q], o \in offers' : o.number = f.offer => o.host = q
    BY <1>5, <2>2, NewNumber
  <2>3. \A f \in election'[r], o \in offers' : o.number = f.offer => o.host = r
    BY <1>1, <1>2, <1>5, NewNumber
  <2>4. QED
    BY <2>1, <2>2, <2>3 DEF Numbers
<1>9. OwnOffer'
  BY <1>4, <1>5 DEF OwnOffer
<1>10. Lowest'
  BY <1>3, <1>5, NewNumber DEF Lowest
<1>11. OtherSessionStops'
  BY <1>1, <1>3, <1>5 DEF OtherSessionStops
<1>12. QED
  BY <1>6, <1>7, <1>8, <1>9, <1>10, <1>11

LEMMA NextInv == TypeOK /\ TypeOK' /\ Inv /\ [Next]_vars => Inv'
<1> SUFFICES ASSUME TypeOK, TypeOK', Inv, [Next]_vars PROVE Inv'
  OBVIOUS
<1> USE DEF clientVars, Steps, ElectionEventType, Goes, Becomes, Inv, IsHealthy, Below
<1>1. ASSUME NEW r \in Replicas, Initialize(r) PROVE Inv'
  <2>1. Clients'
    BY <1>1 DEF Initialize, TypeOK, Clients
  <2>2. Elections'
    BY <1>1 DEF Initialize, TypeOK, Elections
  <2>3. Numbers'
    BY <1>1 DEF Initialize, TypeOK, Numbers
  <2>4. OwnOffer'
    BY <1>1 DEF Initialize, TypeOK, OwnOffer
  <2>5. Lowest'
    BY <1>1 DEF Initialize, TypeOK, Lowest
  <2>6. OtherSessionStops'
    BY <1>1 DEF Initialize, TypeOK, OtherSessionStops, Elections
  <2>7. QED
    BY <2>1, <2>2, <2>3, <2>4, <2>5, <2>6
<1>2. ASSUME NEW r \in Replicas, HandleDisconnected(r) PROVE Inv'
  <2>1. Clients'
    <3>1. pc[r] = "idle" /\ up[r] /\ up' = up /\ connected' = connected /\ expired' = expired
      BY <1>2 DEF HandleDisconnected, Clients
    <3>2. \A q \in Replicas : q # r => pc'[q] = pc[q]
      BY <1>2 DEF HandleDisconnected, StartElection, StopElection, TypeOK
    <3>3. QED
      BY <3>1, <3>2 DEF Clients
  <2>2. Elections'
    <3>1. /\ pc[r] = "idle" /\ UNCHANGED <<election, type, listed>>
          /\ pc'[r] = "create" => election[r] = {}
          /\ pc'[r] \in {"idle", "create", "stop"}
          /\ \A q \in Replicas : q # r => pc'[q] = pc[q]
      BY <1>2 DEF HandleDisconnected, StartElection, StopElection, TypeOK
    <3>2. pc'[r] = "create" => ~IsHealthy(r)
      BY <3>1 DEF Elections
    <3>3. QED
      BY <3>1, <3>2 DEF Elections
  <2>3. Numbers'
    BY <1>2 DEF HandleDisconnected, StartElection, StopElection, TypeOK, Numbers
  <2>4. OwnOffer'
    BY <1>2 DEF HandleDisconnected, StartElection, StopElection, TypeOK, OwnOffer
  <2>5. Lowest'
    BY <1>2 DEF HandleDisconnected, StartElection, StopElection, TypeOK, Lowest
  <2>6. OtherSessionStops'
    <3>1. /\ events[r] \in Seq(BOOLEAN) /\ events[r] # <<>>
          /\ events'[r] = Tail(events[r]) /\ pc[r] = "idle"
          /\ \A q \in Replicas : q # r => pc'[q] = pc[q] /\ events'[q] = events[q]
          /\ UNCHANGED <<election, session>>
      BY <1>2 DEF HandleDisconnected, StartElection, StopElection, TypeOK
    <3>2. Lost(events[r]) <=> ~Head(events[r]) \/ Lost(Tail(events[r]))
      BY <3>1, LostEvents
    <3>3. ASSUME ~Head(events[r]), election[r] # {} PROVE pc'[r] = "stop"
      BY <1>2, <3>3 DEF HandleDisconnected, StopElection, TypeOK
    <3>4. QED
      BY <3>1, <3>2, <3>3 DEF OtherSessionStops
  <2>7. QED
    BY <2>1, <2>2, <2>3, <2>4, <2>5, <2>6
<1>3. ASSUME NEW r \in Replicas, CreateLeaderElection(r) PROVE Inv'
  <2>1. Clients'
    BY <1>3 DEF CreateLeaderElection, TypeOK, Clients
  <2>2. Elections'
    BY <1>3 DEF CreateLeaderElection, TypeOK, Elections
  <2>3. Numbers'
    <3> DEFINE own == [session |-> session[r], offer |-> NoOffer, before |-> NoOffer]
    <3>0. election' = [election EXCEPT ![r] = {own}] /\ own.offer = NoOffer
      BY <1>3 DEF CreateLeaderElection
    <3> HIDE DEF own
    <3>1. \A q \in Replicas : \A e \in election'[q] :
              e.offer = NoOffer \/ (q # r /\ e \in election[q])
      <4>1. \A q \in Replicas : \A e \in election'[q] : e = own \/ (q # r /\ e \in election[q])
        BY <3>0 DEF TypeOK
      <4>2. QED
        BY <3>0, <4>1, Zenon
    <3>2. offers' = offers /\ \A o \in offers : o.number # NoOffer
      BY <1>3 DEF CreateLeaderElection, TypeOK, Offer, NoOffer
    <3>3. QED
      BY <3>1, <3>2 DEF Numbers
  <2>4. OwnOffer'
    BY <1>3 DEF CreateLeaderElection, TypeOK, OwnOffer
  <2>5. Lowest'
    <3>1. type' = type /\ type[r] # "ELECTED_COMPLETE" /\ offers' = offers
          /\ \A q \in Replicas : q # r => election'[q] = election[q]
      BY <1>3 DEF CreateLeaderElection, TypeOK, Elections
    <3>2. QED
      BY <3>1 DEF Lowest
  <2>6. OtherSessionStops'
    BY <1>3 DEF CreateLeaderElection, TypeOK, OtherSessionStops
  <2>7. QED
    BY <2>1, <2>2, <2>3, <2>4, <2>5, <2>6
<1>4. ASSUME NEW r \in Replicas, CreateLeaderElectionThrows(r) PROVE Inv'
  <2>1. Clients'
    BY <1>4 DEF CreateLeaderElectionThrows, Ends, TypeOK, Clients
  <2>2. Elections'
    <3>1. /\ \A q \in Replicas : q # r =>
                  /\ pc'[q] = pc[q] /\ election'[q] = election[q]
                  /\ type'[q] = type[q] /\ listed'[q] = listed[q]
          /\ pc[r] \in {"create", "init"} /\ pc'[r] \in {"idle", "new"}
          /\ type'[r] = type[r] \/ type'[r] = "FAILED"
          /\ listed'[r] = listed[r] \/ listed'[r] = {}
          /\ election'[r] = election[r] \/ election'[r] = {}
      BY <1>4 DEF CreateLeaderElectionThrows, Ends, TypeOK
    <3>2. election[r] = {} /\ ~IsHealthy(r) /\ listed[r] = {}
      BY <3>1 DEF Elections
    <3>3. QED
      BY <3>1, <3>2 DEF Elections
  <2>3. Numbers'
    BY <1>4 DEF CreateLeaderElectionThrows, Ends, TypeOK, Numbers
  <2>4. OwnOffer'
    BY <1>4 DEF CreateLeaderElectionThrows, Ends, TypeOK, OwnOffer
  <2>5. Lowest'
    BY <1>4 DEF CreateLeaderElectionThrows, Ends, TypeOK, Lowest
  <2>6. OtherSessionStops'
    BY <1>4 DEF CreateLeaderElectionThrows, Ends, TypeOK, OtherSessionStops
  <2>7. QED
    BY <2>1, <2>2, <2>3, <2>4, <2>5, <2>6
<1>5. ASSUME NEW r \in Replicas, MakeOffer(r) PROVE Inv'
  <2>1. PICK e \in election[r] :
            \/ /\ Usable(r, e)
               /\ Offered(r, e) /\ sequence' = sequence + 1
               /\ election' = [election EXCEPT ![r] = {[e EXCEPT !.offer = sequence + 1]}]
               /\ Goes(r, "determine")
               /\ UNCHANGED type
            \/ /\ ~Usable(r, e)
               /\ Becomes(r, "FAILED") /\ Goes(r, "idle")
               /\ UNCHANGED <<offers, sequence, election>>
    BY <1>5 DEF MakeOffer
  <2>2. pc[r] = "offer" /\ UNCHANGED <<clientVars, listed>>
    BY <1>5 DEF MakeOffer
  <2>3. CASE Usable(r, e)
    BY <2>1, <2>2, <2>3, MadeOfferInv
  <2>4. CASE ~Usable(r, e)
    <3>1. Clients'
      BY <2>1, <2>2, <2>4 DEF TypeOK, Clients
    <3>2. Elections'
      BY <2>1, <2>2, <2>4 DEF TypeOK, Elections
    <3>3. Numbers' /\ OwnOffer'
      BY <2>1, <2>2, <2>4 DEF Numbers, OwnOffer
    <3>4. Lowest'
      BY <2>1, <2>2, <2>4 DEF TypeOK, Lowest
    <3>5. OtherSessionStops'
      BY <2>1, <2>2, <2>4 DEF TypeOK, OtherSessionStops
    <3>6. QED
      BY <3>1, <3>2, <3>3, <3>4, <3>5
  <2>5. QED
    BY <2>3, <2>4
<1>6. ASSUME NEW r \in Replicas, DetermineElectionStatus(r) PROVE Inv'
  <2>1. IsHealthy(r) \/ pc[r] = "determine"
    BY <1>6 DEF DetermineElectionStatus, Elections
  <2>2. /\ pc'[r] \in {"idle", "stop"} /\ listed'[r] = {}
        /\ \A q \in Replicas : q # r => pc'[q] = pc[q] /\ listed'[q] = listed[q]
        /\ UNCHANGED <<clientVars, offers, sequence>>
    BY <1>6, <2>1 DEF DetermineElectionStatus, Elections, TypeOK
  <2>3. ASSUME NEW e \in election[r], Usable(r, e), Determine(r, e) PROVE Inv'
    <3>1. e.offer # NoOffer
      BY <2>1 DEF Elections
    <3>2. QED
      BY <2>2, <2>3, <3>1, DetermineInv
  <2>4. ASSUME Becomes(r, "FAILED"), UNCHANGED election PROVE Inv'
    <3>1. /\ type'[r] = "FAILED" /\ \A q \in Replicas : q # r => type'[q] = type[q]
          /\ pc'[r] = "stop" => pc[r] = "stop"
      BY <1>6, <2>4 DEF DetermineElectionStatus, TypeOK
    <3>2. up[r] \/ pc[r] = "new"
      BY DEF Clients
    <3>3. Clients'
      BY <1>6, <2>1, <2>2, <3>2 DEF Clients, Elections
    <3>4. Elections'
      BY <2>2, <2>4, <3>1 DEF Elections
    <3>5. OtherSessionStops'
      <4>1. pc[r] = "stop" => pc'[r] = "stop"
        BY <1>6 DEF DetermineElectionStatus, TypeOK
      <4>2. QED
        BY <2>2, <2>4, <4>1 DEF OtherSessionStops
    <3>6. QED
      BY <2>2, <2>4, <3>1, <3>3, <3>4, <3>5 DEF Numbers, OwnOffer, Lowest
  <2>5. QED
    BY <1>6, <2>3, <2>4 DEF DetermineElectionStatus
<1>7. ASSUME NEW r \in Replicas, Stop(r) PROVE Inv'
  <2>1. Clients'
    BY <1>7 DEF Stop, Usable, TypeOK, Clients
  <2>2. Elections'
    BY <1>7 DEF Stop, Usable, TypeOK, Elections
  <2>3. Numbers'
    BY <1>7 DEF Stop, Usable, TypeOK, Numbers
  <2>4. OwnOffer'
    <3>1. election'[r] = {} /\ \A q \in Replicas : q # r => election'[q] = election[q]
      BY <1>7 DEF Stop, TypeOK
    <3>2. PICK e \in election[r] : offers' = offers \/ offers' = {o \in offers : o.number # e.offer}
      BY <1>7 DEF Stop
    <3>3. ASSUME NEW q \in Replicas, q # r, NEW o \in offers, o.host = q PROVE o \in offers'
      BY <3>2, <3>3 DEF Numbers
    <3>4. session' = session /\ expired' = expired
      BY <1>7 DEF Stop
    <3>5. QED
      BY <3>1, <3>3, <3>4 DEF OwnOffer
  <2>5. Lowest'
    BY <1>7 DEF Stop, Usable, TypeOK, Lowest
  <2>6. OtherSessionStops'
    BY <1>7 DEF Stop, Usable, TypeOK, OtherSessionStops
  <2>7. QED
    BY <2>1, <2>2, <2>3, <2>4, <2>5, <2>6
<1>8. ASSUME NEW r \in Replicas, GetChildren(r) PROVE Inv'
  <2>1. /\ IsHealthy(r) \/ pc[r] = "determine"
        /\ UNCHANGED <<clientVars, pc, election, type, offers, sequence>>
        /\ \A q \in Replicas : q # r => listed'[q] = listed[q]
    BY <1>8 DEF GetChildren, BeforeIsGone, TypeOK
  <2>2. Elections'
    BY <2>1 DEF Elections
  <2>3. QED
    BY <2>1, <2>2 DEF Clients, Numbers, OwnOffer, Lowest, OtherSessionStops
<1>9. ASSUME NEW r \in Replicas, Disconnect(r) PROVE Inv'
  <2>1. Clients'
    BY <1>9 DEF Disconnect, Fault, Offline, TypeOK, Clients
  <2>2. Elections'
    BY <1>9 DEF Disconnect, Fault, Offline, TypeOK, Elections
  <2>3. Numbers'
    BY <1>9 DEF Disconnect, Fault, Offline, TypeOK, Numbers
  <2>4. OwnOffer'
    BY <1>9 DEF Disconnect, Fault, Offline, TypeOK, OwnOffer
  <2>5. Lowest'
    BY <1>9 DEF Disconnect, Fault, Offline, TypeOK, Lowest
  <2>6. OtherSessionStops'
    <3>1. /\ \A q \in Replicas : events'[q] = events[q] \/ events'[q] = Append(events[q], FALSE)
          /\ UNCHANGED <<pc, election, session>>
      BY <1>9 DEF Disconnect, Offline, TypeOK
    <3>2. ASSUME NEW q \in Replicas PROVE Lost(events[q]) => Lost(events'[q])
      <4>1. events[q] \in Seq(BOOLEAN)
        BY DEF TypeOK
      <4>2. Lost(Append(events[q], FALSE))
        BY <4>1, LostEvents
      <4>3. QED
        BY <3>1, <4>2
    <3>3. QED
      BY <3>1, <3>2 DEF OtherSessionStops
  <2>7. QED
    BY <2>1, <2>2, <2>3, <2>4, <2>5, <2>6
<1>10. ASSUME NEW r \in Replicas, OfferIsLost(r) PROVE Inv'
  <2>1. Clients'
    BY <1>10 DEF OfferIsLost, Fault, Offline, Offered, Usable, TypeOK, Clients
  <2>2. Elections'
    BY <1>10 DEF OfferIsLost, Fault, Offline, Offered, Usable, TypeOK, Elections
  <2>3. Numbers'
    <3>1. PICK e \in election[r] : Offered(r, e)
      BY <1>10 DEF OfferIsLost
    <3>2. election' = election
      BY <1>10 DEF OfferIsLost
    <3>3. QED
      BY <3>1, <3>2, NewNumber DEF Numbers
  <2>4. OwnOffer'
    BY <1>10 DEF OfferIsLost, Fault, Offline, Offered, Usable, TypeOK, OwnOffer
  <2>5. Lowest'
    <3>1. PICK e \in election[r] : Offered(r, e)
      BY <1>10 DEF OfferIsLost
    <3>2. election' = election /\ type'[r] = "FAILED" /\ \A q \in Replicas : q # r => type'[q] = type[q]
      BY <1>10 DEF OfferIsLost, TypeOK
    <3>3. QED
      BY <3>1, <3>2, NewNumber DEF Lowest
  <2>6. OtherSessionStops'
    <3>1. /\ \A q \in Replicas : q # r => events'[q] = events[q]
          /\ \A q \in Replicas : q # r => pc'[q] = pc[q]
          /\ events'[r] = Append(events[r], FALSE)
          /\ UNCHANGED <<election, session>>
      <4>1. /\ events' = [events EXCEPT ![r] = Append(@, FALSE)]
            /\ pc' = [pc EXCEPT ![r] = "idle"] /\ UNCHANGED <<election, session>>
        BY <1>10 DEF OfferIsLost, Offline
      <4>2. QED
        BY <4>1 DEF TypeOK
    <3>2. events[r] \in Seq(BOOLEAN)
      BY DEF TypeOK
    <3>3. Lost(Append(events[r], FALSE))
      BY <3>2, LostEvents
    <3>4. QED
      BY <3>1, <3>3 DEF OtherSessionStops
  <2>7. QED
    BY <2>1, <2>2, <2>3, <2>4, <2>5, <2>6
<1>11. ASSUME NEW r \in Replicas, Expire(r) PROVE Inv'
  <2>1. Clients'
    BY <1>11 DEF Expire, Fault, Expires, TypeOK, Clients
  <2>2. Elections'
    BY <1>11 DEF Expire, Fault, Expires, TypeOK, Elections
  <2>3. Numbers'
    BY <1>11 DEF Expire, Fault, Expires, TypeOK, Numbers
  <2>4. OwnOffer'
    BY <1>11 DEF Expire, Fault, Expires, TypeOK, OwnOffer
  <2>5. Lowest'
    BY <1>11 DEF Expire, Fault, Expires, TypeOK, Lowest
  <2>6. OtherSessionStops'
    BY <1>11 DEF Expire, Fault, Expires, TypeOK, OtherSessionStops
  <2>7. QED
    BY <2>1, <2>2, <2>3, <2>4, <2>5, <2>6
<1>12. ASSUME NEW r \in Replicas, Reconnect(r) PROVE Inv'
  <2>1. Clients'
    BY <1>12 DEF Reconnect, TypeOK, Clients
  <2>2. Elections'
    BY <1>12 DEF Reconnect, TypeOK, Elections
  <2>3. Numbers'
    BY <1>12 DEF Reconnect, TypeOK, Numbers
  <2>4. OwnOffer'
    BY <1>12 DEF Reconnect, TypeOK, OwnOffer
  <2>5. Lowest'
    BY <1>12 DEF Reconnect, TypeOK, Lowest
  <2>6. OtherSessionStops'
    <3>1. /\ \A q \in Replicas : q # r => events'[q] = events[q] /\ session'[q] = session[q]
          /\ events'[r] = Append(events[r], ~expired[r])
          /\ ~expired[r] => session'[r] = session[r]
          /\ UNCHANGED <<pc, election>>
      BY <1>12 DEF Reconnect, TypeOK
    <3>2. events[r] \in Seq(BOOLEAN) /\ (~expired[r]) \in BOOLEAN
      BY DEF TypeOK
    <3>3. Lost(Append(events[r], ~expired[r])) <=> Lost(events[r]) \/ expired[r]
      BY <3>2, LostEvents
    <3>4. QED
      BY <3>1, <3>3 DEF OtherSessionStops
  <2>7. QED
    BY <2>1, <2>2, <2>3, <2>4, <2>5, <2>6
<1>13. ASSUME NEW r \in Replicas, Crash(r) PROVE Inv'
  <2>1. Clients'
    BY <1>13 DEF Crash, Fault, Ends, TypeOK, Clients
  <2>2. Elections'
    BY <1>13 DEF Crash, Fault, Ends, TypeOK, Elections
  <2>3. Numbers'
    BY <1>13 DEF Crash, Fault, Ends, TypeOK, Numbers
  <2>4. OwnOffer'
    BY <1>13 DEF Crash, Fault, Ends, TypeOK, OwnOffer
  <2>5. Lowest'
    BY <1>13 DEF Crash, Fault, Ends, TypeOK, Lowest
  <2>6. OtherSessionStops'
    BY <1>13 DEF Crash, Fault, Ends, TypeOK, OtherSessionStops
  <2>7. QED
    BY <2>1, <2>2, <2>3, <2>4, <2>5, <2>6
<1>14. ASSUME NEW r \in Replicas, Terminate(r) PROVE Inv'
  <2>1. Clients'
    BY <1>14 DEF Terminate, Fault, Ends, Expires, TypeOK, Clients
  <2>2. Elections'
    BY <1>14 DEF Terminate, Fault, Ends, Expires, TypeOK, Elections
  <2>3. Numbers'
    BY <1>14 DEF Terminate, Fault, Ends, Expires, TypeOK, Numbers
  <2>4. OwnOffer'
    BY <1>14 DEF Terminate, Fault, Ends, Expires, TypeOK, OwnOffer
  <2>5. Lowest'
    BY <1>14 DEF Terminate, Fault, Ends, Expires, TypeOK, Lowest
  <2>6. OtherSessionStops'
    BY <1>14 DEF Terminate, Fault, Ends, Expires, TypeOK, OtherSessionStops
  <2>7. QED
    BY <2>1, <2>2, <2>3, <2>4, <2>5, <2>6
<1>15. ASSUME NEW r \in Replicas, Restart(r) PROVE Inv'
  <2>1. Clients'
    <3>1. \A q \in Replicas : q # r => up'[q] = up[q] /\ connected'[q] = connected[q]
      BY <1>15 DEF Restart, TypeOK
    <3>2. up'[r] /\ ~expired[r] /\ UNCHANGED <<expired, pc>>
      BY <1>15 DEF Restart, TypeOK, Clients
    <3>3. QED
      BY <3>1, <3>2 DEF Clients
  <2>2. Elections'
    BY <1>15 DEF Restart, TypeOK, Elections
  <2>3. Numbers'
    BY <1>15 DEF Restart, TypeOK, Numbers
  <2>4. OwnOffer'
    BY <1>15 DEF Restart, TypeOK, OwnOffer
  <2>5. Lowest'
    BY <1>15 DEF Restart, TypeOK, Lowest
  <2>6. OtherSessionStops'
    <3>1. \A q \in Replicas : q # r => session'[q] = session[q]
      BY <1>15 DEF Restart, TypeOK
    <3>2. election[r] = {} /\ UNCHANGED <<election, pc, events>>
      BY <1>15 DEF Restart, Clients, Elections
    <3>3. QED
      BY <3>1, <3>2 DEF OtherSessionStops
  <2>7. QED
    BY <2>1, <2>2, <2>3, <2>4, <2>5, <2>6
<1>16. ASSUME NEW r \in Replicas, ExpireAbandoned(r) PROVE Inv'
  <2>1. Clients'
    BY <1>16 DEF ExpireAbandoned, Expires, TypeOK, Clients
  <2>2. Elections'
    BY <1>16 DEF ExpireAbandoned, Expires, TypeOK, Elections
  <2>3. Numbers'
    BY <1>16 DEF ExpireAbandoned, Expires, TypeOK, Numbers
  <2>4. OwnOffer'
    <3>1. PICK s : (up[r] => s # session[r]) /\ Expires(r, s)
      BY <1>16 DEF ExpireAbandoned
    <3>2. UNCHANGED <<election, session, expired>>
      BY <1>16 DEF ExpireAbandoned
    <3>3. election[r] # {} => up[r]
      BY DEF Clients, Elections
    <3>4. QED
      BY <3>1, <3>2, <3>3 DEF OwnOffer, Expires
  <2>5. Lowest'
    BY <1>16 DEF ExpireAbandoned, Expires, TypeOK, Lowest
  <2>6. OtherSessionStops'
    BY <1>16 DEF ExpireAbandoned, Expires, TypeOK, OtherSessionStops
  <2>7. QED
    BY <2>1, <2>2, <2>3, <2>4, <2>5, <2>6
<1>17. CASE UNCHANGED vars
  BY <1>17 DEF vars, Clients, Elections, Numbers, OwnOffer, Lowest, OtherSessionStops
<1>18. QED
  BY <1>1, <1>2, <1>3, <1>4, <1>5, <1>6, <1>7, <1>8, <1>9, <1>10, <1>11, <1>12, <1>13, <1>14, <1>15, <1>16, <1>17 DEF Next, ServiceStep

\* Each replica's election has its offer, or an event to handle, as its step and the
\* connection have it.
THEOREM InductiveInvariant == Spec => []Inv
<1>1. TypeOK /\ TypeOK' /\ Inv /\ [Next]_vars => Inv'
  BY NextInv
<1>2. QED
  BY InitInv, TypeCorrect, <1>1, PTL DEF Spec

\* A replica that was told it is elected, and has handled every event of its
\* connection, is the one that IsMaster finds: the offer it was elected with is
\* still there and still the lowest.
THEOREM ElectedAreMasters == Spec => []ElectedIsMaster
<1>1. TypeOK /\ Inv => ElectedIsMaster
  <2> SUFFICES ASSUME TypeOK, Inv, NEW r \in Replicas,
                      up[r], connected[r], events[r] = <<>>, pc[r] = "idle",
                      type[r] = "ELECTED_COMPLETE"
               PROVE  IsMaster(r)
    BY DEF ElectedIsMaster
  <2>1. election[r] # {} /\ \A e \in election[r] : e.offer # NoOffer
    BY DEF Inv, Elections, IsHealthy
  <2>2. PICK e \in election[r] : TRUE
    BY <2>1
  <2>3. ~Lost(events[r])
    BY DEF Lost
  <2>4. e.session = session[r] /\ ~expired[r]
    BY <2>3 DEF Inv, OtherSessionStops, Clients
  <2> DEFINE own == [number |-> e.offer, host |-> r, session |-> e.session]
  <2>5. own \in offers
    BY <2>1, <2>4 DEF Inv, OwnOffer
  <2>6. Below(own.number) = {}
    BY DEF Inv, Lowest
  <2>7. r \in LeaderHostName
    <3>1. own \in {p \in offers : Below(p.number) = {}} /\ own.host = r
      BY <2>5, <2>6
    <3> HIDE DEF own
    <3>2. QED
      BY <3>1 DEF LeaderHostName
  <2>8. QED
    BY <2>1, <2>7 DEF IsMaster
<1>2. QED
  BY TypeCorrect, InductiveInvariant, <1>1, PTL
================================================================================

---------------------- MODULE ConnectionManagerProofs ----------------------
(***************************************************************************)
(* For any number of calls and peers and any aborted tasks: one dial per   *)
(* peer at a time, and no subscriber left without an answer to come except *)
(* behind an aborted attempt, behind which nobody dials again.             *)
(***************************************************************************)
EXTENDS ConnectionManager, TLAPS

\* The inductive invariant.  That a driver has an entry (EntriesHaveDrivers) makes
\* registering exclusive; that an orphaned peer has no driver (OrphansBlock) makes
\* removing the entry when an attempt ends remove nobody else's.
IInv ==
    /\ TypeOK
    /\ OneDialPerPeer
    /\ EntriesHaveDrivers
    /\ OrphansBlock
    /\ NobodyForgotten

\* The invariant holds before the first call (ConnectionManager::new).
LEMMA InitIInv == Init => IInv
  BY ConnectionAssumption
  DEF Init, IInv, TypeOK, OneDialPerPeer, EntriesHaveDrivers, OrphansBlock,
      NobodyForgotten, Drives, Absent, DriverSteps

\* Starting a call adds no driver and no subscriber.
LEMMA ConnectIInv ==
    ASSUME IInv, NEW c \in Calls, NEW n \in Nodes, ConnectPeerIfNecessary(c, n)
    PROVE  IInv'
<1> USE ConnectionAssumption DEF IInv, TypeOK, ConnectPeerIfNecessary, Goto, DriverSteps
<1>1. TypeOK'
  <2>1. CASE n \in connected  BY <2>1
  <2>2. CASE n \notin connected
    <3>1. pc' = [pc EXCEPT ![c] = "register"] /\ target' = [target EXCEPT ![c] = n]  BY <2>2
    <3>2. \A d \in Calls : target'[d] = None <=> pc'[d] = "idle"  BY <3>1
    <3>3. QED  BY <2>2, <3>1, <3>2
  <2>3. QED  BY <2>1, <2>2
<1>2. \A d \in Calls, m \in Nodes : Drives(d, m)' <=> Drives(d, m)  BY DEF Drives
<1>3. OneDialPerPeer'  BY <1>2 DEF OneDialPerPeer
<1>4. EntriesHaveDrivers'  BY <1>2 DEF EntriesHaveDrivers
<1>5. OrphansBlock'  BY <1>2 DEF OrphansBlock
<1>6. NobodyForgotten'  BY DEF NobodyForgotten
<1> QED  BY <1>1, <1>3, <1>4, <1>5, <1>6

\* A call becomes the driver only where there is no entry, hence no other driver.
LEMMA RegisterIInv ==
    ASSUME IInv, NEW c \in Calls, RegisterOrSubscribe(c)
    PROVE  IInv'
<1> USE ConnectionAssumption DEF IInv, TypeOK, RegisterOrSubscribe, Goto, Entry, DriverSteps
<1>0. target[c] \in Nodes  OBVIOUS
<1>1. TypeOK'
  <2>1. pending' \in [Nodes -> [present : BOOLEAN, subscribers : SUBSET Calls]]
    <3>1. pending[target[c]].subscribers \in SUBSET Calls  BY <1>0
    <3>2. Entry(pending[target[c]].subscribers \cup {c})
             \in [present : BOOLEAN, subscribers : SUBSET Calls]  BY <3>1
    <3>3. Entry({}) \in [present : BOOLEAN, subscribers : SUBSET Calls]  OBVIOUS
    <3>4. PICK e \in [present : BOOLEAN, subscribers : SUBSET Calls] :
             pending' = [pending EXCEPT ![target[c]] = e]  BY <3>2, <3>3
    <3> HIDE DEF RegisterOrSubscribe
    <3> QED  BY <3>4
  <2>2. pc' \in [Calls -> DriverSteps \cup {"idle", "register", "subscribed"}]  OBVIOUS
  <2>3. \A d \in Calls : target'[d] = None <=> pc'[d] = "idle"  OBVIOUS
  <2> QED  BY <2>1, <2>2, <2>3
<1>2. CASE pending[target[c]].present
  <2>1. \A d \in Calls, m \in Nodes : Drives(d, m)' <=> Drives(d, m)  BY <1>2 DEF Drives
  <2>2. \A m \in Nodes : pending'[m].present <=> pending[m].present  BY <1>0, <1>2
  <2>3. OneDialPerPeer'  BY <2>1 DEF OneDialPerPeer
  <2>4. EntriesHaveDrivers'  BY <2>1, <2>2 DEF EntriesHaveDrivers
  <2>5. OrphansBlock'  BY <2>1 DEF OrphansBlock
  <2>6. NobodyForgotten'  BY <1>0, <1>2 DEF NobodyForgotten
  <2> QED  BY <1>1, <2>3, <2>4, <2>5, <2>6
<1>3. CASE ~ pending[target[c]].present
  <2>1. \A d \in Calls : ~ Drives(d, target[c])  BY <1>0, <1>3 DEF EntriesHaveDrivers
  <2>2. target[c] \notin orphaned  BY <1>0, <1>3 DEF EntriesHaveDrivers
  <2>3. \A d \in Calls, m \in Nodes :
           Drives(d, m)' <=> Drives(d, m) \/ (d = c /\ m = target[c])
    BY <1>3 DEF Drives
  <2>4. OneDialPerPeer'  BY <2>1, <2>3 DEF OneDialPerPeer
  <2>5. EntriesHaveDrivers'  BY <1>0, <1>3, <2>3 DEF EntriesHaveDrivers
  <2>6. OrphansBlock'  BY <2>2, <2>3 DEF OrphansBlock
  <2>7. NobodyForgotten'  BY <1>0, <1>3 DEF NobodyForgotten
  <2> QED  BY <1>1, <2>4, <2>5, <2>6, <2>7
<1> QED  BY <1>2, <1>3

\* A driver that ends its attempt removes its own entry and answers all in it.
LEMMA PropagateIInv ==
    ASSUME IInv, NEW c \in Calls, NEW res \in Results, pc[c] \in DriverSteps,
           Propagate(c, res), UNCHANGED <<connected, orphaned>>
    PROVE  IInv'
<1> USE ConnectionAssumption DEF IInv, TypeOK, Propagate, Return, Goto, Absent, DriverSteps
<1>0. PICK n \in Nodes : n = target[c] /\ Drives(c, n)  BY DEF Drives
<1>1. TypeOK'  BY <1>0
<1>2. \A d \in Calls, m \in Nodes : Drives(d, m)' <=> Drives(d, m) /\ d # c  BY DEF Drives
<1>3. \A d \in Calls : ~ Drives(d, n)'  BY <1>0, <1>2 DEF OneDialPerPeer
<1>4. n \notin orphaned  BY <1>0 DEF OrphansBlock
<1>5. \A m \in Nodes : m # n => ~ Drives(c, m)  BY <1>0 DEF Drives
<1>6. \A m \in Nodes : pending'[m].present <=> pending[m].present /\ m # n  BY <1>0
<1>7. OneDialPerPeer'  BY <1>2 DEF OneDialPerPeer
<1>8. EntriesHaveDrivers'  BY <1>2, <1>3, <1>4, <1>5, <1>6 DEF EntriesHaveDrivers
<1>9. OrphansBlock'  BY <1>2 DEF OrphansBlock
<1>10. NobodyForgotten'  BY <1>0 DEF NobodyForgotten
<1> QED  BY <1>1, <1>7, <1>8, <1>9, <1>10

\* A driver that goes on, a result received, and peers that come and go.
LEMMA OtherIInv ==
    ASSUME IInv, NEW c \in Calls,
           \/ /\ pc[c] \in DriverSteps
              /\ \E step \in DriverSteps : Goto(c, step)
              /\ UNCHANGED <<pending, target, inbox, connected, orphaned>>
           \/ Receive(c)
    PROVE  IInv'
<1> USE ConnectionAssumption DEF IInv, TypeOK, Receive, Return, Goto, DriverSteps
<1>1. TypeOK'  OBVIOUS
<1>2. \A d \in Calls, m \in Nodes : Drives(d, m)' <=> Drives(d, m)  BY DEF Drives
<1>3. OneDialPerPeer'  BY <1>2 DEF OneDialPerPeer
<1>4. EntriesHaveDrivers'  BY <1>2 DEF EntriesHaveDrivers
<1>5. OrphansBlock'  BY <1>2 DEF OrphansBlock
<1>6. NobodyForgotten'  BY DEF NobodyForgotten
<1> QED  BY <1>1, <1>3, <1>4, <1>5, <1>6

\* An aborted driver leaves its entry behind: the peer is orphaned.
LEMMA AbortIInv ==
    ASSUME IInv, NEW c \in Calls, Abort(c)
    PROVE  IInv'
<1> USE ConnectionAssumption DEF IInv, TypeOK, Abort, Goto, DriverSteps
<1>0. target[c] \in Nodes  OBVIOUS
<1>1. TypeOK'  BY <1>0
<1>2. \A d \in Calls, m \in Nodes : Drives(d, m)' <=> Drives(d, m) /\ d # c  BY DEF Drives
<1>3. OneDialPerPeer'  BY <1>2 DEF OneDialPerPeer
<1>4. \A m \in Nodes : Drives(c, m) => m = target[c] /\ m \in orphaned'  BY DEF Drives
<1>5. pc[c] # "subscribed" => Drives(c, target[c])  BY <1>0 DEF Drives
<1>6. EntriesHaveDrivers'  BY <1>0, <1>2, <1>4, <1>5 DEF EntriesHaveDrivers
<1>7. OrphansBlock'  BY <1>0, <1>2, <1>5 DEF OrphansBlock, OneDialPerPeer
<1>8. NobodyForgotten'  BY DEF NobodyForgotten
<1> QED  BY <1>1, <1>3, <1>6, <1>7, <1>8

\* Every step of every call, task and peer preserves the invariant.
LEMMA NextIInv == IInv /\ [Next]_vars => IInv'
<1> SUFFICES ASSUME IInv, [Next]_vars PROVE IInv'  OBVIOUS
<1>1. ASSUME NEW c \in Calls, Advance(c) PROVE IInv'
  <2>1. CASE RegisterOrSubscribe(c)  BY <2>1, RegisterIInv
  <2>2. CASE Resolve(c)
    BY <2>2, PropagateIInv, OtherIInv DEF Resolve, DriverSteps, Results
  <2>3. CASE Dial(c)
    BY <2>3, PropagateIInv, OtherIInv DEF Dial, DriverSteps, Results
  <2>4. CASE HandshakeDone(c)  BY <2>4, OtherIInv DEF HandshakeDone, DriverSteps
  <2>5. CASE HandshakeClosed(c)
    BY <2>5, PropagateIInv DEF HandshakeClosed, DriverSteps, Results
  <2>6. CASE PropagateOk(c)
    BY <2>6, PropagateIInv DEF PropagateOk, DriverSteps, Results
  <2>7. CASE Receive(c)  BY <2>7, OtherIInv
  <2> QED  BY <1>1, <2>1, <2>2, <2>3, <2>4, <2>5, <2>6, <2>7 DEF Advance
<1>2. ASSUME NEW n \in Nodes, PeerConnected(n) \/ PeerDisconnected(n) PROVE IInv'
  BY <1>2 DEF PeerConnected, PeerDisconnected, IInv, TypeOK, OneDialPerPeer,
     EntriesHaveDrivers, OrphansBlock, NobodyForgotten, Drives
<1>3. CASE UNCHANGED vars
  BY <1>3 DEF vars, IInv, TypeOK, OneDialPerPeer, EntriesHaveDrivers, OrphansBlock,
     NobodyForgotten, Drives
<1> QED  BY <1>1, <1>2, <1>3, ConnectIInv, AbortIInv DEF Next

\* The inductive invariant holds in every reachable state.
THEOREM InductiveInvariant == Spec => []IInv
  BY InitIInv, NextIInv, PTL DEF Spec

\* For any calls, peers and aborts, no two calls dial the same peer at the same time
\* (register_or_subscribe_pending_connection).
THEOREM OneDial == Spec => []OneDialPerPeer
<1>1. IInv => OneDialPerPeer  BY DEF IInv
<1> QED  BY <1>1, InductiveInvariant, PTL

\* A subscriber that has no result yet is in the entry its driver will answer
\* (propagate_result_to_subscribers).
THEOREM NobodyIsForgotten == Spec => []NobodyForgotten
<1>1. IInv => NobodyForgotten  BY DEF IInv
<1> QED  BY <1>1, InductiveInvariant, PTL

\* After an attempt was aborted the peer is never dialled again (do_connect_peer has
\* nothing that removes the entry of a dropped future).
THEOREM AbortedPeersStayBlocked == Spec => []OrphansBlock
<1>1. IInv => OrphansBlock  BY DEF IInv
<1> QED  BY <1>1, InductiveInvariant, PTL

-----------------------------------------------------------------------------
(* The refinement of SharedAttempt.                                        *)

\* A call that registers or subscribes has no result of an earlier attempt, and the entry
\* is gone once its subscribers have theirs.
LEMMA NextAnsweredOnce == IInv /\ AnsweredOnce /\ [Next]_vars => AnsweredOnce'
<1> SUFFICES ASSUME IInv, AnsweredOnce, [Next]_vars PROVE AnsweredOnce'  OBVIOUS
<1> USE ConnectionAssumption DEF IInv, TypeOK, AnsweredOnce
<1>1. ASSUME NEW c \in Calls, NEW res \in Results, Propagate(c, res), pc[c] \in DriverSteps
      PROVE  AnsweredOnce'
  <2>1. target[c] \in Nodes  BY <1>1 DEF DriverSteps
  <2>2. pending'[target[c]].subscribers = {}  BY <1>1, <2>1 DEF Propagate, Absent
  <2> QED  BY <1>1, <2>1, <2>2 DEF Propagate, Return, Goto, Absent, DriverSteps
<1>2. ASSUME NEW c \in Calls, RegisterOrSubscribe(c) PROVE AnsweredOnce'
  <2>1. inbox[c] = None  BY <1>2 DEF RegisterOrSubscribe
  <2>2. target[c] \in Nodes  BY <1>2 DEF RegisterOrSubscribe
  <2> QED  BY <1>2, <2>1, <2>2 DEF RegisterOrSubscribe, Goto, Entry
<1>3. ASSUME NEW c \in Calls, Resolve(c) \/ Dial(c) PROVE AnsweredOnce'
  BY <1>1, <1>3 DEF Resolve, Dial, Goto, DriverSteps, Results
<1>4. ASSUME NEW c \in Calls, HandshakeDone(c) PROVE AnsweredOnce'
  BY <1>4 DEF HandshakeDone, Goto
<1>5. ASSUME NEW c \in Calls, HandshakeClosed(c) \/ PropagateOk(c) PROVE AnsweredOnce'
  BY <1>1, <1>5 DEF HandshakeClosed, PropagateOk, DriverSteps, Results
<1>6. ASSUME NEW c \in Calls, Receive(c) \/ Abort(c) PROVE AnsweredOnce'
  BY <1>6 DEF Receive, Abort, Return, Goto
<1>7. ASSUME NEW c \in Calls, NEW n \in Nodes, ConnectPeerIfNecessary(c, n) PROVE AnsweredOnce'
  BY <1>7 DEF ConnectPeerIfNecessary, Goto
<1>8. ASSUME NEW n \in Nodes, PeerConnected(n) \/ PeerDisconnected(n) PROVE AnsweredOnce'
  BY <1>8 DEF PeerConnected, PeerDisconnected
<1>9. CASE UNCHANGED vars  BY <1>9 DEF vars
<1> QED  BY <1>2, <1>3, <1>4, <1>5, <1>6, <1>7, <1>8, <1>9 DEF Next, Advance

\* The lost attempts are the orphaned ones.
LEMMA AbandonedIsOrphaned ==
    /\ IInv => Abandoned = orphaned
    /\ IInv' => Abandoned' = orphaned'
  BY DEF IInv, TypeOK, Abandoned, EntriesHaveDrivers, OrphansBlock

\* Nobody takes part in an attempt at first.
LEMMA InitShares == Init => Attempts!Init
  BY DEF Init, Attempts!Init, Wanted, Drivers, Abandoned, Drives, Absent, DriverSteps

\* Registering is joining: a call drives exactly if no attempt is under way or lost.
LEMMA RegisterShares ==
    ASSUME IInv, IInv', NEW c \in Calls, RegisterOrSubscribe(c)
    PROVE  Attempts!Next
<1> DEFINE n == target[c]
<1>1. n \in Nodes  BY ConnectionAssumption DEF IInv, TypeOK, RegisterOrSubscribe
<1>2. pending[n].present <=> Attempts!UnderWay(n)
  <2>1. Attempts!UnderWay(n) <=> n \in Abandoned \/ \E d \in Drivers : Wanted[d] = n
    BY DEF Attempts!UnderWay
  <2>2. (\E d \in Drivers : Wanted[d] = n) <=> \E d \in Calls : Drives(d, n)
    BY DEF Drivers, Wanted, Drives
  <2> QED  BY <1>1, <2>1, <2>2 DEF Abandoned, IInv, EntriesHaveDrivers
<1>3. Wanted[c] = None  BY DEF Wanted, RegisterOrSubscribe, DriverSteps
<1>4. Wanted' = [Wanted EXCEPT ![c] = n]
  <2>1. PICK step \in {"resolve", "subscribed"} : pc' = [pc EXCEPT ![c] = step]
    BY DEF RegisterOrSubscribe, Goto
  <2>2. target' = target  BY DEF RegisterOrSubscribe
  <2>3. ASSUME NEW d \in Calls PROVE Wanted'[d] = [Wanted EXCEPT ![c] = n][d]
    BY <2>1, <2>2 DEF Wanted, IInv, TypeOK, DriverSteps
  <2> QED  BY <2>3 DEF Wanted
<1>5. Drivers' = IF Attempts!UnderWay(n) THEN Drivers ELSE Drivers \cup {c}
  BY <1>2 DEF Drivers, RegisterOrSubscribe, Goto, IInv, TypeOK, DriverSteps
<1>6. inbox' = inbox /\ Abandoned' = Abandoned
  BY AbandonedIsOrphaned DEF RegisterOrSubscribe
<1> QED
  BY <1>1, <1>3, <1>4, <1>5, <1>6 DEF Attempts!Next, Attempts!Join

\* Propagating finishes the attempt: those it answers are those that wait for it.
LEMMA PropagateShares ==
    ASSUME IInv, IInv', AnsweredOnce, NEW c \in Calls, NEW res \in Results,
           pc[c] \in DriverSteps, Propagate(c, res), UNCHANGED orphaned
    PROVE  Attempts!Next
<1> DEFINE n == target[c]
<1>1. c \in Drivers /\ Wanted[c] = n /\ n \in Nodes
  BY ConnectionAssumption DEF Drivers, Wanted, IInv, TypeOK, DriverSteps
<1>2. Drivers' = Drivers \ {c}
  BY DEF Drivers, Propagate, Return, Goto, IInv, TypeOK, DriverSteps
<1>3. Wanted' = [Wanted EXCEPT ![c] = None]
  BY DEF Wanted, Propagate, Return, Goto, IInv, TypeOK, DriverSteps
<1>4. ASSUME NEW d \in Calls
      PROVE  (d \in pending[n].subscribers /\ pc[d] = "subscribed" /\ target[d] = n)
                <=> Attempts!Waits(d, n)
  <2>1. Attempts!Waits(d, n) <=> d \notin Drivers /\ Wanted[d] = n /\ inbox[d] = None
    BY DEF Attempts!Waits
  <2>2. d \notin Drivers /\ Wanted[d] = n <=> pc[d] = "subscribed" /\ target[d] = n
    BY <1>1, ConnectionAssumption DEF Drivers, Wanted, DriverSteps
  <2> QED  BY <2>1, <2>2 DEF AnsweredOnce, IInv, NobodyForgotten
<1>5. inbox' = [d \in Calls |-> IF Attempts!Waits(d, Wanted[c]) THEN res ELSE inbox[d]]
  BY <1>1, <1>4 DEF Propagate
<1>6. Abandoned' = Abandoned  BY AbandonedIsOrphaned
<1>7. Attempts!Finish(c, res)
  BY <1>1, <1>2, <1>3, <1>5, <1>6 DEF Attempts!Finish
<1> QED  BY <1>7 DEF Attempts!Next

\* A result received is taken, and an aborted call drops out.
LEMMA LeaveShares ==
    ASSUME IInv, IInv', AnsweredOnce, NEW c \in Calls, Receive(c) \/ Abort(c)
    PROVE  Attempts!Next
<1> USE ConnectionAssumption DEF IInv, TypeOK, DriverSteps
<1>1. CASE Receive(c)
  <2>1. Drivers' = Drivers  BY <1>1 DEF Drivers, Receive, Return, Goto
  <2>2. Wanted' = [Wanted EXCEPT ![c] = None]  BY <1>1 DEF Wanted, Receive, Return, Goto
  <2>3. Abandoned' = Abandoned  BY <1>1, AbandonedIsOrphaned DEF Receive
  <2>4. Attempts!Take(c)  BY <1>1, <2>1, <2>2, <2>3 DEF Receive, Attempts!Take
  <2> QED  BY <2>4 DEF Attempts!Next
<1>2. CASE Abort(c)
  <2>1. Drivers' = Drivers \ {c}  BY <1>2 DEF Drivers, Abort, Goto
  <2>2. Wanted' = [Wanted EXCEPT ![c] = None]  BY <1>2 DEF Wanted, Abort, Goto
  <2>3. Wanted[c] = target[c] /\ Wanted[c] # None  BY <1>2 DEF Wanted, Abort
  <2>4. c \in Drivers <=> pc[c] # "subscribed"  BY <1>2 DEF Drivers, Abort
  <2>5. Abandoned' = IF c \in Drivers THEN Abandoned \cup {Wanted[c]} ELSE Abandoned
    BY <1>2, <2>3, <2>4, AbandonedIsOrphaned DEF Abort
  <2>6. Attempts!DropOut(c)
    BY <1>2, <2>1, <2>2, <2>3, <2>5 DEF Abort, Attempts!DropOut
  <2> QED  BY <2>6 DEF Attempts!Next
<1> QED  BY <1>1, <1>2

\* Nothing else that happens shows: calls that begin, attempts that go on, peers.
LEMMA QuietShares ==
    ASSUME IInv, IInv', NEW c \in Calls,
           \/ /\ pc[c] \in DriverSteps
              /\ \E step \in DriverSteps : Goto(c, step)
              /\ UNCHANGED <<pending, target, inbox, orphaned>>
           \/ \E n \in Nodes : ConnectPeerIfNecessary(c, n)
    PROVE  UNCHANGED Attempts!shared
<1> USE DEF IInv, TypeOK, DriverSteps, Goto, ConnectPeerIfNecessary
<1>1. Drivers' = Drivers  BY DEF Drivers
<1>2. Wanted' = Wanted  BY DEF Wanted
<1>3. Abandoned' = Abandoned  BY AbandonedIsOrphaned
<1> QED  BY <1>1, <1>2, <1>3 DEF Attempts!shared

\* Every step is one of SharedAttempt or leaves what it promises alone.
LEMMA NextShares ==
    ASSUME IInv, IInv', AnsweredOnce, [Next]_vars
    PROVE  [Attempts!Next]_(Attempts!shared)
<1>1. ASSUME NEW c \in Calls, Advance(c) PROVE [Attempts!Next]_(Attempts!shared)
  <2>1. CASE RegisterOrSubscribe(c)  BY <2>1, RegisterShares
  <2>2. CASE Resolve(c)
    BY <2>2, PropagateShares, QuietShares DEF Resolve, DriverSteps, Results
  <2>3. CASE Dial(c)
    BY <2>3, PropagateShares, QuietShares DEF Dial, DriverSteps, Results
  <2>4. CASE HandshakeDone(c)  BY <2>4, QuietShares DEF HandshakeDone, DriverSteps
  <2>5. CASE HandshakeClosed(c)
    BY <2>5, PropagateShares DEF HandshakeClosed, DriverSteps, Results
  <2>6. CASE PropagateOk(c)
    BY <2>6, PropagateShares DEF PropagateOk, DriverSteps, Results
  <2>7. CASE Receive(c)  BY <2>7, LeaveShares
  <2> QED  BY <1>1, <2>1, <2>2, <2>3, <2>4, <2>5, <2>6, <2>7 DEF Advance
<1>2. ASSUME NEW c \in Calls, Abort(c) PROVE Attempts!Next  BY <1>2, LeaveShares
<1>3. ASSUME NEW c \in Calls, NEW n \in Nodes, ConnectPeerIfNecessary(c, n)
      PROVE  UNCHANGED Attempts!shared
  BY <1>3, QuietShares
<1>4. ASSUME UNCHANGED <<pending, pc, target, inbox>>
      PROVE  UNCHANGED Attempts!shared
  BY <1>4 DEF Attempts!shared, Wanted, Drivers, Abandoned, Drives
<1>5. ASSUME NEW n \in Nodes, PeerConnected(n) \/ PeerDisconnected(n)
      PROVE  UNCHANGED Attempts!shared
  BY <1>4, <1>5 DEF PeerConnected, PeerDisconnected
<1>6. CASE UNCHANGED vars  BY <1>4, <1>6 DEF vars
<1> QED  BY <1>1, <1>2, <1>3, <1>5, <1>6 DEF Next

\* The ConnectionManager implements SharedAttempt, for any calls and peers: each peer has
\* one attempt at a time, everybody who joined it gets its result, and nobody another
\* (do_connect_peer, propagate_result_to_subscribers).
THEOREM Implements == Spec => SharesAttempts
<1>1. Init => AnsweredOnce  BY DEF Init, AnsweredOnce
<1>2. Init => Attempts!Init  BY InitShares
<1>3. IInv /\ IInv' /\ AnsweredOnce /\ [Next]_vars => [Attempts!Next]_(Attempts!shared)
  BY NextShares
<1> QED
  BY <1>1, <1>2, <1>3, NextAnsweredOnce, InductiveInvariant, PTL
  DEF Spec, SharesAttempts, Attempts!Spec
=============================================================================

--------------------------- MODULE PeerStoreProofs ---------------------------
(***************************************************************************)
(* Proofs about PeerStore for any tasks, nodes and addresses.              *)
(*                                                                         *)
(* PersistedWhenUnlocked needs to know what disk is during a write: memory *)
(* with the change undone.  RgsLeavesExcludedAlone needs the RwLock: a     *)
(* task that changes the exclusions while it holds the lock is the writer, *)
(* an RGS task past its read lock is a reader.                             *)
(***************************************************************************)
EXTENDS PeerStore, TLAPS

Holding(t) == call[t].op = "rgs" /\ call[t].step \in {"next", "lock", "write"}
Guarding(t) == /\ call[t].op \in {"connect", "open", "disconnect"}
               /\ call[t].step \in {"lock", "write"}

\* The holder of the mutation lock is the one task that writes, for a node.
LockInv ==
    \A t \in Tasks :
        /\ call[t].step = "write" <=> mutationLock = t
        /\ call[t].step \in {"lock", "write"} => call[t].node \in Nodes
        /\ call[t].step \in {"exclude", "closing"} => call[t].node \in Nodes
        /\ call[t].step = "closing" => call[t].op = "close"
        /\ call[t].step = "exclude" => call[t].op \in {"connect", "open", "disconnect", "close"}
        /\ call[t].step \in {"read", "next"} => call[t].op = "rgs"

\* Undoing the change under way gives what is on the disk.
DiskInv ==
    ~aborted =>
        /\ late = None
        /\ mutationLock = None => disk = peers
        /\ \A t \in Tasks : call[t].step = "write" =>
              disk = [peers EXCEPT ![call[t].node] = call[t].previous]

ExclusionInv ==
    \A t \in Tasks :
        /\ Holding(t) => t \in readers
        /\ Guarding(t) => writer = t
        /\ Holding(t) => call[t].missing \cap excluded = {}
        /\ Holding(t) /\ call[t].step # "next" => call[t].node \notin excluded

\* Closing moves a channel from one count to the other.
ChannelsInv ==
    /\ channels \in [Nodes -> Nat] /\ closing \in [Nodes -> Nat]
    /\ \A n \in Nodes : channels[n] + closing[n] <= MaxChannels

IInv == TypeOK /\ LockInv /\ DiskInv /\ ExclusionInv /\ ChannelsInv
-----------------------------------------------------------------------------
\* The empty store, with no call under way (PeerStore::new), satisfies the invariant.
LEMMA InitIInv == Init => IInv
<1> SUFFICES ASSUME Init PROVE IInv
  OBVIOUS
<1> USE PeerStoreAssumption
<1>1. Idle \in CallState
  BY DEF Idle, CallState, Steps
<1>2. TypeOK
  <2>1. peers \in PeerMap /\ disk \in PeerMap
    BY DEF Init, PeerMap
  <2>2. channels \in [Nodes -> 0..MaxChannels] /\ closing \in [Nodes -> 0..MaxChannels]
    BY DEF Init
  <2>3. call \in [Tasks -> CallState]
    BY <1>1 DEF Init
  <2> QED
    BY <2>1, <2>2, <2>3 DEF Init, TypeOK
<1>3. \A t \in Tasks : call[t].step = "idle"
  BY DEF Init, Idle
<1>4. LockInv
  BY <1>3 DEF LockInv, Init
<1>5. DiskInv
  BY <1>3 DEF DiskInv, Init
<1>6. ExclusionInv
  BY <1>3 DEF ExclusionInv, Holding, Guarding
<1>7. ChannelsInv
  BY DEF Init, ChannelsInv
<1> QED
  BY <1>2, <1>4, <1>5, <1>6, <1>7 DEF IInv

\* A task that neither holds nor takes the mutation lock: only the exclusions matter.
LEMMA QuietIInv ==
  ASSUME IInv, NEW t \in Tasks, NEW e \in CallState,
         call' = [call EXCEPT ![t] = e],
         call[t].step # "write", e.step # "write",
         e.step \in {"exclude", "closing", "lock"} => e.node \in Nodes,
         e.step = "closing" => e.op = "close",
         e.step = "exclude" => e.op \in {"connect", "open", "disconnect", "close"},
         e.step \in {"read", "next"} => e.op = "rgs",
         readers' \subseteq Tasks, writer' \in Tasks \cup {None},
         writer' # None => readers' = {}, excluded' \subseteq Nodes,
         UNCHANGED <<store, aborted>>, ChannelsInv', ExclusionInv'
  PROVE  IInv'
<1> USE PeerStoreAssumption DEF store
<1>1. TypeOK'
  <2>1. channels' \in [Nodes -> 0..MaxChannels] /\ closing' \in [Nodes -> 0..MaxChannels]
    <3>1. \A n \in Nodes : channels'[n] \in 0..MaxChannels /\ closing'[n] \in 0..MaxChannels
      BY DEF ChannelsInv
    <3> QED
      BY <3>1 DEF ChannelsInv
  <2>2. call' \in [Tasks -> CallState]
    BY DEF IInv, TypeOK
  <2> QED
    BY <2>1, <2>2 DEF IInv, TypeOK
<1>2. /\ \A u \in Tasks : u # t => call'[u] = call[u]
      /\ call'[t] = e
  BY DEF IInv, TypeOK
<1>3. LockInv'
  BY <1>2 DEF IInv, LockInv
<1>4. DiskInv'
  BY <1>2 DEF IInv, DiskInv, LockInv
<1> QED
  BY <1>1, <1>3, <1>4 DEF IInv

\* An idle task that starts an operation has touched no lock yet.
LEMMA FreshIInv ==
  ASSUME IInv, NEW t \in Tasks, NEW e \in CallState,
         call[t].step = "idle",
         call' = [call EXCEPT ![t] = e],
         e.step \in {"exclude", "closing", "lock", "read"},
         e.step # "read" => e.node \in Nodes,
         e.step = "closing" => e.op = "close",
         e.step = "lock" => e.op \in {"jit", "pending"},
         e.step = "exclude" => e.op \in {"connect", "open", "disconnect"},
         e.step = "read" => e.op = "rgs",
         ChannelsInv', UNCHANGED <<store, exclusions, aborted>>
  PROVE  IInv'
<1>1. /\ \A u \in Tasks : u # t => call'[u] = call[u]
      /\ call'[t] = e
  BY DEF IInv, TypeOK
<1>2. ExclusionInv'
  BY <1>1 DEF IInv, ExclusionInv, Holding, Guarding, exclusions
<1>3. /\ readers' \subseteq Tasks /\ writer' \in Tasks \cup {None}
      /\ writer' # None => readers' = {}
      /\ excluded' \subseteq Nodes
  BY DEF IInv, TypeOK, exclusions
<1> QED
  BY <1>2, <1>3, QuietIInv

\* The record Begin writes.
LEMMA BeginCall ==
  ASSUME NEW t \in Tasks, NEW op \in Ops, NEW step \in Steps,
         NEW n \in Nodes \cup {None}, NEW a \in Addresses \cup {None}, Begin(t, op, step, n, a)
  PROVE  \E e \in CallState : /\ call' = [call EXCEPT ![t] = e]
                              /\ e.op = op /\ e.step = step /\ e.node = n
<1> DEFINE e == [Idle EXCEPT !.op = op, !.step = step, !.node = n, !.address = a]
<1>1. e \in CallState /\ e.op = op /\ e.step = step /\ e.node = n
  BY PeerStoreAssumption DEF Idle, CallState
<1>2. call' = [call EXCEPT ![t] = e]
  BY DEF Begin
<1> QED
  BY <1>1, <1>2

\* Every operation begins without disturbing the invariant.
LEMMA StartIInv ==
  ASSUME IInv, NEW t \in Tasks, Start(t) PROVE IInv'
<1> USE PeerStoreAssumption DEF Ops, Steps
<1>0. ChannelsInv /\ (UNCHANGED funds => ChannelsInv')
  BY DEF IInv, ChannelsInv, funds
<1>1. CASE RgsSnapshot(t)
  <2>1. PICK e \in CallState : /\ call' = [call EXCEPT ![t] = e]
                               /\ e.op = "rgs" /\ e.step = "read" /\ e.node = None
    BY <1>1, BeginCall DEF RgsSnapshot
  <2>2. call[t].step = "idle" /\ UNCHANGED <<store, exclusions, funds, aborted>>
    BY <1>1 DEF RgsSnapshot, Begin
  <2> QED
    BY <1>0, <2>1, <2>2, FreshIInv
<1>2. ASSUME NEW n \in Nodes, Disconnect(t, n) PROVE IInv'
  <2>1. PICK e \in CallState : /\ call' = [call EXCEPT ![t] = e]
                               /\ e.op = "disconnect" /\ e.step = "exclude" /\ e.node = n
    BY <1>2, BeginCall DEF Disconnect
  <2>2. call[t].step = "idle" /\ UNCHANGED <<store, exclusions, funds, aborted>>
    BY <1>2 DEF Disconnect, Begin
  <2> QED
    BY <1>0, <2>1, <2>2, FreshIInv
<1>3. ASSUME NEW n \in Nodes, CloseChannel(t, n) PROVE IInv'
  <2> DEFINE e == [Idle EXCEPT !.op = "close", !.step = "closing", !.node = n,
                               !.last = Listed(n) = 1]
  <2>1. e \in CallState /\ e.op = "close" /\ e.step = "closing" /\ e.node = n
    <3>1. (Listed(n) = 1) \in BOOLEAN
      OBVIOUS
    <3> QED
      BY <3>1 DEF Idle, CallState
  <2>2. call' = [call EXCEPT ![t] = e]
    BY <1>3 DEF CloseChannel
  <2>3. call[t].step = "idle" /\ UNCHANGED <<store, exclusions, funds, aborted>>
    BY <1>3 DEF CloseChannel
  <2> HIDE DEF e
  <2> QED
    BY <1>0, <2>1, <2>2, <2>3, FreshIInv
<1>4. ASSUME NEW n \in Nodes, ChannelPending(t, n) PROVE IInv'
  <2>1. Announced[n] \in Addresses \cup {None}
    OBVIOUS
  <2>2. /\ UNCHANGED <<store, exclusions, closing, aborted>>
        /\ channels[n] + closing[n] < MaxChannels
        /\ channels' = [channels EXCEPT ![n] = channels[n] + 1]
    BY <1>4 DEF ChannelPending, Listed
  <2>3. ChannelsInv'
    BY <1>0, <2>2 DEF ChannelsInv
  <2>4. CASE Begin(t, "pending", "lock", n, Announced[n])
    <3>1. PICK e \in CallState : /\ call' = [call EXCEPT ![t] = e]
                                 /\ e.op = "pending" /\ e.step = "lock" /\ e.node = n
      BY <2>1, <2>4, BeginCall
    <3>2. call[t].step = "idle"
      BY <2>4 DEF Begin
    <3> QED
      BY <2>2, <2>3, <3>1, <3>2, FreshIInv
  <2>5. CASE UNCHANGED call
    <3>1. TypeOK'
      <4>1. channels' \in [Nodes -> 0..MaxChannels]
        <5>1. \A m \in Nodes : channels'[m] \in 0..MaxChannels
          BY <2>2, <2>3 DEF ChannelsInv, IInv, TypeOK
        <5> QED
          BY <2>3, <5>1 DEF ChannelsInv
      <4> QED
        BY <2>2, <2>5, <4>1 DEF IInv, TypeOK, store, exclusions
    <3>2. LockInv' /\ DiskInv' /\ ExclusionInv'
      BY <2>2, <2>5 DEF IInv, LockInv, DiskInv, ExclusionInv, Holding, Guarding,
                        store, exclusions
    <3> QED
      BY <2>3, <3>1, <3>2 DEF IInv
  <2> QED
    BY <1>4, <2>4, <2>5 DEF ChannelPending
<1>5. ASSUME NEW n \in Nodes, NEW a \in Addresses, Connect(t, n, a) PROVE IInv'
  <2>1. PICK e \in CallState : /\ call' = [call EXCEPT ![t] = e]
                               /\ e.op = "connect" /\ e.step = "exclude" /\ e.node = n
    BY <1>5, BeginCall DEF Connect
  <2>2. call[t].step = "idle" /\ UNCHANGED <<store, exclusions, funds, aborted>>
    BY <1>5 DEF Connect, Begin
  <2> QED
    BY <1>0, <2>1, <2>2, FreshIInv
<1>6. ASSUME NEW n \in Nodes, NEW a \in Addresses, OpenChannel(t, n, a) PROVE IInv'
  <2>1. PICK e \in CallState : /\ call' = [call EXCEPT ![t] = e]
                               /\ e.op = "open" /\ e.step = "exclude" /\ e.node = n
    BY <1>6, BeginCall DEF OpenChannel
  <2>2. /\ call[t].step = "idle" /\ UNCHANGED <<store, exclusions, closing, aborted>>
        /\ channels[n] + closing[n] < MaxChannels
        /\ channels' = [channels EXCEPT ![n] = channels[n] + 1]
    BY <1>6 DEF OpenChannel, Begin, Listed
  <2>3. ChannelsInv'
    BY <1>0, <2>2 DEF ChannelsInv
  <2> QED
    BY <2>1, <2>2, <2>3, FreshIInv
<1>7. ASSUME NEW n \in Nodes, NEW a \in Addresses, ReceiveViaJitChannel(t, n, a) PROVE IInv'
  <2>1. PICK e \in CallState : /\ call' = [call EXCEPT ![t] = e]
                               /\ e.op = "jit" /\ e.step = "lock" /\ e.node = n
    BY <1>7, BeginCall DEF ReceiveViaJitChannel
  <2>2. call[t].step = "idle" /\ UNCHANGED <<store, exclusions, funds, aborted>>
    BY <1>7 DEF ReceiveViaJitChannel, Begin
  <2> QED
    BY <1>0, <2>1, <2>2, FreshIInv
<1> QED
  BY <1>1, <1>2, <1>3, <1>4, <1>5, <1>6, <1>7 DEF Start

\* What Goto and End write.
LEMMA GotoCall ==
  ASSUME TypeOK, NEW t \in Tasks, NEW step \in Steps, Goto(t, step)
  PROVE  \E e \in CallState : /\ call' = [call EXCEPT ![t] = e]
                              /\ e.step = step /\ e.op = call[t].op /\ e.node = call[t].node
                              /\ e.missing = call[t].missing
<1> DEFINE e == [call[t] EXCEPT !.step = step]
<1>1. call[t] \in CallState
  BY DEF TypeOK
<1>2. e \in CallState /\ e.step = step /\ e.op = call[t].op /\ e.node = call[t].node
      /\ e.missing = call[t].missing
  BY <1>1 DEF CallState
<1>3. call' = [call EXCEPT ![t] = e]
  BY DEF Goto
<1> QED
  BY <1>2, <1>3

\* A call that ended.
LEMMA IdleCall == Idle \in CallState /\ Idle.step = "idle"
BY PeerStoreAssumption DEF Idle, CallState, Steps

\* Closing a channel disturbs no lock; what comes next takes the exclusions.
LEMMA CloseChannelDoneIInv ==
  ASSUME IInv, NEW t \in Tasks, CloseChannelDone(t) PROVE IInv'
<1>1. PICK n \in Nodes : n = call[t].node
  BY DEF IInv, LockInv, CloseChannelDone
<1>2. ChannelsInv'
  <2>1. CASE channels[n] > 0 /\ channels' = [channels EXCEPT ![n] = @ - 1]
             /\ closing' = closing
    <3>1. channels[n] \in Nat /\ channels[n] - 1 \in Nat
      BY <2>1 DEF IInv, ChannelsInv
    <3>2. channels' \in [Nodes -> Nat] /\ closing' \in [Nodes -> Nat]
      BY <2>1, <3>1 DEF IInv, ChannelsInv
    <3>3. \A m \in Nodes : channels'[m] <= channels[m]
      BY <2>1, <3>1 DEF IInv, ChannelsInv
    <3> QED
      BY <2>1, <3>2, <3>3, PeerStoreAssumption DEF IInv, ChannelsInv
  <2>2. CASE channels[n] > 0 /\ channels' = [channels EXCEPT ![n] = @ - 1]
             /\ closing' = [closing EXCEPT ![n] = @ + 1]
    BY <2>2 DEF IInv, ChannelsInv
  <2>3. CASE UNCHANGED funds
    BY <2>3 DEF IInv, ChannelsInv, funds
  <2> QED
    BY <1>1, <2>1, <2>2, <2>3 DEF CloseChannelDone
<1>3. /\ call[t].step = "closing" /\ call[t].op = "close"
      /\ UNCHANGED <<store, exclusions, aborted>>
      /\ Goto(t, "exclude") \/ End(t)
  BY DEF CloseChannelDone, IInv, LockInv
<1>4. PICK e \in CallState : /\ call' = [call EXCEPT ![t] = e]
                             /\ \/ e.step = "idle"
                                \/ e.step = "exclude" /\ e.op = "close" /\ e.node = n
  BY <1>1, <1>3, GotoCall, IdleCall DEF End, IInv, Steps
<1>5. /\ \A u \in Tasks : u # t => call'[u] = call[u]
      /\ call'[t] = e
  BY <1>4 DEF IInv, TypeOK
<1>6. ExclusionInv'
  BY <1>3, <1>4, <1>5 DEF IInv, ExclusionInv, Holding, Guarding, exclusions
<1>7. /\ readers' \subseteq Tasks /\ writer' \in Tasks \cup {None}
      /\ writer' # None => readers' = {}
      /\ excluded' \subseteq Nodes
  BY <1>3 DEF IInv, TypeOK, exclusions
<1> QED
  BY <1>2, <1>3, <1>4, <1>6, <1>7, QuietIInv

\* Taking the exclusions' lock for writing: nobody reads, so no RGS task depends on them.
LEMMA LockExclusionsIInv ==
  ASSUME IInv, NEW t \in Tasks, LockExclusions(t) PROVE IInv'
<1> USE PeerStoreAssumption
<1>1. /\ call[t].step = "exclude" /\ call[t].node \in Nodes
      /\ call[t].op \in {"connect", "open", "disconnect", "close"}
      /\ writer = None /\ readers = {}
      /\ UNCHANGED <<store, readers, funds, aborted>>
      /\ Goto(t, "lock")
  BY DEF LockExclusions, IInv, LockInv
<1>2. PICK e \in CallState : /\ call' = [call EXCEPT ![t] = e]
                             /\ e.step = "lock" /\ e.op = call[t].op /\ e.node = call[t].node
  BY <1>1, GotoCall DEF IInv, Steps
<1>3. /\ \A u \in Tasks : u # t => call'[u] = call[u]
      /\ call'[t] = e
  BY <1>2 DEF IInv, TypeOK
<1>4. \A u \in Tasks : ~Holding(u) /\ ~Guarding(u)
  BY <1>1 DEF IInv, ExclusionInv
<1>5. /\ readers' \subseteq Tasks /\ writer' \in Tasks \cup {None}
      /\ readers' = {} /\ excluded' \subseteq Nodes
  BY <1>1 DEF IInv, TypeOK, LockExclusions
<1>6. e.op # "close" => writer' = t
  BY <1>2 DEF LockExclusions
<1>7. ExclusionInv'
  <2> SUFFICES ASSUME NEW u \in Tasks
               PROVE  ~Holding(u)' /\ (Guarding(u)' => writer' = u)
    BY DEF ExclusionInv
  <2>1. CASE u = t
    BY <2>1, <1>1, <1>2, <1>3, <1>6 DEF Holding, Guarding
  <2>2. CASE u # t
    BY <2>2, <1>3, <1>4 DEF Holding, Guarding
  <2> QED
    BY <2>1, <2>2
<1>8. ChannelsInv'
  BY <1>1 DEF IInv, ChannelsInv, funds
<1> QED
  BY <1>1, <1>2, <1>5, <1>7, <1>8, QuietIInv

\* An RGS task that gets the read lock collects peers that are not excluded.
LEMMA ReadExclusionsIInv ==
  ASSUME IInv, NEW t \in Tasks, ReadExclusions(t) PROVE IInv'
<1> USE PeerStoreAssumption
<1> DEFINE e == [call[t] EXCEPT !.step = "next", !.missing = Missing]
<1>1. /\ call[t].step = "read" /\ call[t].op = "rgs" /\ writer = None
      /\ readers' = readers \cup {t}
      /\ UNCHANGED <<store, writer, excluded, funds, aborted>>
      /\ call[t] \in CallState
  BY DEF ReadExclusions, IInv, LockInv, TypeOK
<1>2. Missing \subseteq Nodes /\ Missing \cap excluded = {}
  BY DEF Missing
<1>3. e \in CallState /\ e.step = "next" /\ e.op = "rgs" /\ e.missing = Missing
  BY <1>1, <1>2 DEF CallState, Steps
<1>4. call' = [call EXCEPT ![t] = e]
  BY DEF ReadExclusions
<1> HIDE DEF e
<1>5. /\ \A u \in Tasks : u # t => call'[u] = call[u]
      /\ call'[t] = e
  BY <1>4 DEF IInv, TypeOK
<1>6. ExclusionInv'
  <2> SUFFICES ASSUME NEW u \in Tasks
               PROVE  /\ Holding(u)' => u \in readers'
                      /\ Guarding(u)' => writer' = u
                      /\ Holding(u)' => call'[u].missing \cap excluded' = {}
                      /\ Holding(u)' /\ call'[u].step # "next" => call'[u].node \notin excluded'
    BY DEF ExclusionInv
  <2>1. CASE u = t
    BY <2>1, <1>1, <1>2, <1>3, <1>5 DEF Holding, Guarding
  <2>2. CASE u # t
    BY <2>2, <1>1, <1>5 DEF IInv, ExclusionInv, Holding, Guarding
  <2> QED
    BY <2>1, <2>2
<1>7. /\ readers' \subseteq Tasks /\ writer' = None /\ excluded' \subseteq Nodes
      /\ ChannelsInv'
  BY <1>1 DEF IInv, TypeOK, ChannelsInv, funds
<1> QED
  BY <1>1, <1>3, <1>4, <1>6, <1>7, QuietIInv

\* The loop of persist_missing_channel_peers_excluding.
LEMMA NextMissingIInv ==
  ASSUME IInv, NEW t \in Tasks, NextMissing(t) PROVE IInv'
<1> USE PeerStoreAssumption
<1>1. /\ call[t].step = "next" /\ call[t].op = "rgs" /\ call[t] \in CallState
      /\ t \in readers /\ call[t].missing \cap excluded = {} /\ call[t].missing \subseteq Nodes
      /\ UNCHANGED <<store, writer, excluded, funds, aborted>>
  <2>1. /\ call[t].step = "next" /\ call[t].op = "rgs" /\ call[t] \in CallState
        /\ UNCHANGED <<store, writer, excluded, funds, aborted>>
    BY DEF NextMissing, IInv, LockInv, TypeOK
  <2>2. call[t].missing \subseteq Nodes
    BY <2>1 DEF CallState
  <2> QED
    BY <2>1, <2>2 DEF IInv, ExclusionInv, Holding
<1>2. \E e \in CallState :
         /\ call' = [call EXCEPT ![t] = e]
         /\ \/ e.step = "idle" /\ readers' = readers \ {t}
            \/ /\ e.step \in {"lock", "next"} /\ e.op = "rgs" /\ UNCHANGED readers
               /\ e.node \in Nodes \ excluded /\ e.missing \subseteq call[t].missing
  <2>1. CASE call[t].missing = {}
    BY <2>1, IdleCall DEF NextMissing, End
  <2>2. CASE call[t].missing # {}
    <3>1. PICK n \in call[t].missing :
            call' = [call EXCEPT
                      ![t].missing = @ \ {n}, ![t].node = n, ![t].address = Announced[n],
                      ![t].step = IF peers[n] = None THEN "lock" ELSE "next"]
      BY <2>2 DEF NextMissing
    <3> DEFINE e == [call[t] EXCEPT !.missing = @ \ {n}, !.node = n, !.address = Announced[n],
                                    !.step = IF peers[n] = None THEN "lock" ELSE "next"]
    <3>2. n \in Nodes \ excluded /\ Announced[n] \in Addresses \cup {None}
      BY <1>1
    <3>3. e \in CallState
      BY <1>1, <3>2 DEF CallState, Steps
    <3>4. /\ e.step \in {"lock", "next"} /\ e.op = "rgs" /\ e.node = n
          /\ e.missing = call[t].missing \ {n}
      BY <1>1 DEF CallState
    <3>5. call' = [call EXCEPT ![t] = e]
      BY <3>1
    <3> HIDE DEF e
    <3>6. UNCHANGED readers
      BY <2>2 DEF NextMissing
    <3> QED
      BY <3>2, <3>3, <3>4, <3>5, <3>6
  <2> QED
    BY <2>1, <2>2
<1>3. PICK e \in CallState :
         /\ call' = [call EXCEPT ![t] = e]
         /\ \/ e.step = "idle" /\ readers' = readers \ {t}
            \/ /\ e.step \in {"lock", "next"} /\ e.op = "rgs" /\ UNCHANGED readers
               /\ e.node \in Nodes \ excluded /\ e.missing \subseteq call[t].missing
  BY <1>2
<1>4. /\ \A u \in Tasks : u # t => call'[u] = call[u]
      /\ call'[t] = e
  BY <1>3 DEF IInv, TypeOK
<1>5. ExclusionInv'
  <2> SUFFICES ASSUME NEW u \in Tasks
               PROVE  /\ Holding(u)' => u \in readers'
                      /\ Guarding(u)' => writer' = u
                      /\ Holding(u)' => call'[u].missing \cap excluded' = {}
                      /\ Holding(u)' /\ call'[u].step # "next" => call'[u].node \notin excluded'
    BY DEF ExclusionInv
  <2>1. CASE u = t
    BY <2>1, <1>1, <1>3, <1>4 DEF Holding, Guarding
  <2>2. CASE u # t
    BY <2>2, <1>1, <1>3, <1>4 DEF IInv, ExclusionInv, Holding, Guarding
  <2> QED
    BY <2>1, <2>2
<1>6. /\ readers' \subseteq Tasks /\ writer' \in Tasks \cup {None} /\ excluded' \subseteq Nodes
      /\ writer' # None => readers' = {}
      /\ ChannelsInv'
  BY <1>1, <1>3 DEF IInv, TypeOK, ChannelsInv, funds
<1> QED
  BY <1>1, <1>3, <1>5, <1>6, QuietIInv

\* What follows add_peer or remove_peer: the exclusions change only under the write lock.
LEMMA ContinueCall ==
  ASSUME IInv, NEW t \in Tasks, Continue(t), call[t].step \in {"lock", "write"},
         \/ excluded' = excluded
         \/ /\ call[t].op \in {"connect", "open", "disconnect"}
            /\ excluded' \in {excluded \ {call[t].node}, excluded \cup {call[t].node}}
  PROVE  /\ \E e \in CallState :
               /\ call' = [call EXCEPT ![t] = e]
               /\ \/ e.step = "idle"
                  \/ e.step = "next" /\ e.op = "rgs"
         /\ readers' \subseteq Tasks /\ writer' \in Tasks \cup {None}
         /\ writer' # None => readers' = {}
         /\ excluded' \subseteq Nodes
         /\ ExclusionInv'
         /\ ChannelsInv'
<1> USE PeerStoreAssumption
<1>1. /\ call[t].node \in Nodes
      /\ writer' = IF writer = t THEN None ELSE writer
      /\ UNCHANGED <<readers, funds>>
  BY DEF Continue, IInv, LockInv
<1>2. \E e \in CallState :
         /\ call' = [call EXCEPT ![t] = e]
         /\ \/ e.step = "idle"
            \/ /\ e.step = "next" /\ e.op = "rgs" /\ call[t].op = "rgs"
               /\ e.missing = call[t].missing
  <2>1. CASE call[t].op = "rgs"
    BY <2>1, GotoCall DEF Continue, IInv, Steps
  <2>2. CASE call[t].op # "rgs"
    BY <2>2, IdleCall DEF Continue, End
  <2> QED
    BY <2>1, <2>2
<1>3. PICK e \in CallState :
         /\ call' = [call EXCEPT ![t] = e]
         /\ \/ e.step = "idle"
            \/ /\ e.step = "next" /\ e.op = "rgs" /\ call[t].op = "rgs"
               /\ e.missing = call[t].missing
  BY <1>2
<1>4. /\ \A u \in Tasks : u # t => call'[u] = call[u]
      /\ call'[t] = e
  BY <1>3 DEF IInv, TypeOK
<1>5. excluded' # excluded => readers = {}
  <2> SUFFICES ASSUME excluded' # excluded PROVE readers = {}
    OBVIOUS
  <2>1. Guarding(t)
    BY DEF Guarding
  <2>2. writer = t
    BY <2>1 DEF IInv, ExclusionInv
  <2> QED
    BY <2>2 DEF IInv, TypeOK
<1>6. ExclusionInv'
  <2> SUFFICES ASSUME NEW u \in Tasks
               PROVE  /\ Holding(u)' => u \in readers'
                      /\ Guarding(u)' => writer' = u
                      /\ Holding(u)' => call'[u].missing \cap excluded' = {}
                      /\ Holding(u)' /\ call'[u].step # "next" => call'[u].node \notin excluded'
    BY DEF ExclusionInv
  <2>1. CASE u = t
    <3>1. ~Guarding(u)'
      BY <2>1, <1>3, <1>4 DEF Guarding
    <3>2. Holding(u)' => Holding(t) /\ call'[u].missing = call[t].missing /\ call'[u].step = "next"
      BY <2>1, <1>3, <1>4 DEF Holding
    <3> QED
      BY <2>1, <3>1, <3>2, <1>1, <1>5 DEF IInv, ExclusionInv
  <2>2. CASE u # t
    <3>1. (Holding(u)' <=> Holding(u)) /\ (Guarding(u)' <=> Guarding(u)) /\ call'[u] = call[u]
      BY <2>2, <1>4 DEF Holding, Guarding
    <3> QED
      BY <2>2, <3>1, <1>1, <1>5 DEF IInv, ExclusionInv
  <2> QED
    BY <2>1, <2>2
<1>7. /\ readers' \subseteq Tasks /\ writer' \in Tasks \cup {None}
      /\ writer' # None => readers' = {}
      /\ excluded' \subseteq Nodes
  BY <1>1 DEF IInv, TypeOK
<1>8. ChannelsInv'
  BY <1>1 DEF IInv, ChannelsInv, funds
<1> QED
  BY <1>3, <1>6, <1>7, <1>8

\* Succeeded changes the exclusions as ContinueCall allows.
LEMMA SucceededContinues ==
  ASSUME NEW t \in Tasks, Succeeded(t)
  PROVE  /\ Continue(t)
         /\ \/ excluded' = excluded
            \/ /\ call[t].op \in {"connect", "open", "disconnect"}
               /\ excluded' \in {excluded \ {call[t].node}, excluded \cup {call[t].node}}
<1>1. CASE call[t].op \in {"connect", "open"}
  BY <1>1 DEF Succeeded
<1>2. CASE call[t].op = "disconnect"
  BY <1>2 DEF Succeeded
<1>3. CASE call[t].op \notin {"connect", "open", "disconnect"}
  BY <1>3 DEF Succeeded
<1> QED
  BY <1>1, <1>2, <1>3

\* add_peer returning early for a known address changes no peer.
LEMMA AddPeerKnownIInv ==
  ASSUME IInv, NEW t \in Tasks, AddPeerKnown(t) PROVE IInv'
<1>1. /\ call[t].step = "lock" /\ Succeeded(t) /\ UNCHANGED <<store, aborted>>
  BY DEF AddPeerKnown
<1>2. PICK e \in CallState : /\ call' = [call EXCEPT ![t] = e]
                             /\ \/ e.step = "idle"
                                \/ e.step = "next" /\ e.op = "rgs"
  BY <1>1, ContinueCall, SucceededContinues
<1>3. /\ readers' \subseteq Tasks /\ writer' \in Tasks \cup {None}
      /\ writer' # None => readers' = {} 
      /\ excluded' \subseteq Nodes
      /\ ExclusionInv' /\ ChannelsInv'
  BY <1>1, ContinueCall, SucceededContinues
<1> QED
  BY <1>1, <1>2, <1>3, QuietIInv

\* The change in memory: undoing it gives the peers as they were, which are on the disk.
LEMMA ChangePeersIInv ==
  ASSUME IInv, NEW t \in Tasks, ChangePeers(t) PROVE IInv'
<1> USE PeerStoreAssumption
<1>1. PICK n \in Nodes : n = call[t].node
  BY DEF IInv, LockInv, ChangePeers
<1>2. PICK new : /\ new = IF Removes(t) THEN None ELSE call[t].address
                 /\ peers' = [peers EXCEPT ![n] = new]
  BY <1>1 DEF ChangePeers
<1>3. /\ call[t].step = "lock" /\ mutationLock = None /\ mutationLock' = t
      /\ UNCHANGED <<disk, late, exclusions, funds, aborted>>
      /\ call[t] \in CallState /\ peers \in [Nodes -> Addresses \cup {None}]
  BY DEF ChangePeers, IInv, TypeOK, PeerMap
<1>4. new \in Addresses \cup {None}
  BY <1>2, <1>3 DEF CallState
<1> DEFINE e == [call[t] EXCEPT !.step = "write", !.previous = peers[n]]
<1>5. /\ e \in CallState /\ e.step = "write" /\ e.previous = peers[n]
      /\ e.op = call[t].op /\ e.node = n /\ e.missing = call[t].missing
  BY <1>1, <1>3 DEF CallState, Steps
<1>6. call' = [call EXCEPT ![t] = e]
  BY <1>1 DEF ChangePeers
<1> HIDE DEF e
<1>7. /\ \A u \in Tasks : u # t => call'[u] = call[u]
      /\ call'[t] = e
  BY <1>6 DEF IInv, TypeOK
<1>8. TypeOK'
  <2>1. peers' \in PeerMap
    BY <1>2, <1>3, <1>4 DEF PeerMap
  <2>2. call' \in [Tasks -> CallState]
    BY <1>5, <1>6 DEF IInv, TypeOK
  <2> QED
    BY <1>3, <2>1, <2>2 DEF IInv, TypeOK, exclusions, funds
<1>9. LockInv'
  <2> SUFFICES ASSUME NEW u \in Tasks
               PROVE  /\ call'[u].step = "write" <=> mutationLock' = u
                      /\ call'[u].step \in {"lock", "write"} => call'[u].node \in Nodes
                      /\ call'[u].step \in {"exclude", "closing"} => call'[u].node \in Nodes
                      /\ call'[u].step = "closing" => call'[u].op = "close"
                      /\ call'[u].step = "exclude" => call'[u].op \in {"connect", "open", "disconnect", "close"}
                      /\ call'[u].step \in {"read", "next"} => call'[u].op = "rgs"
    BY DEF LockInv
  <2> QED
    BY <1>3, <1>5, <1>7 DEF IInv, LockInv
<1>10. DiskInv'
  <2> SUFFICES ASSUME ~aborted'
               PROVE  /\ late' = None
                      /\ mutationLock' # None
                      /\ \A u \in Tasks : call'[u].step = "write" =>
                            disk' = [peers' EXCEPT ![call'[u].node] = call'[u].previous]
    BY DEF DiskInv
  <2>1. ~aborted /\ disk = peers /\ late = None
    BY <1>3 DEF IInv, DiskInv
  <2>2. peers = [peers' EXCEPT ![n] = peers[n]]
    BY <1>2, <1>3
  <2>3. \A u \in Tasks : call'[u].step = "write" => u = t
    BY <1>3, <1>7 DEF IInv, LockInv
  <2> QED
    BY <1>3, <1>5, <1>7, <2>1, <2>2, <2>3
<1>11. ExclusionInv'
  <2> SUFFICES ASSUME NEW u \in Tasks
               PROVE  /\ Holding(u)' => u \in readers'
                      /\ Guarding(u)' => writer' = u
                      /\ Holding(u)' => call'[u].missing \cap excluded' = {}
                      /\ Holding(u)' /\ call'[u].step # "next" => call'[u].node \notin excluded'
    BY DEF ExclusionInv
  <2>1. /\ Holding(u)' <=> Holding(u)
        /\ Guarding(u)' <=> Guarding(u)
        /\ call'[u].missing = call[u].missing /\ call'[u].node = call[u].node
        /\ u # t => call'[u].step = call[u].step
        /\ u = t => call[u].step = "lock"
    BY <1>1, <1>3, <1>5, <1>7 DEF Holding, Guarding
  <2> QED
    BY <1>3, <2>1 DEF IInv, ExclusionInv, exclusions
<1>12. ChannelsInv'
  BY <1>3 DEF IInv, ChannelsInv, funds
<1> QED
  BY <1>8, <1>9, <1>10, <1>11, <1>12 DEF IInv

\* The end of a write, whether or not it succeeded: the lock is free and the disk has
\* what memory has, or an aborted write is to blame.
LEMMA ReleaseIInv ==
  ASSUME IInv, NEW t \in Tasks, NEW e \in CallState,
         call[t].step = "write",
         call' = [call EXCEPT ![t] = e],
         e.step \in {"idle", "next"}, e.step = "next" => e.op = "rgs",
         mutationLock' = None,
         peers' \in PeerMap, disk' \in PeerMap, late' \in PeerMap \cup {None},
         aborted' \in BOOLEAN,
         ~aborted' => late' = None /\ disk' = peers',
         readers' \subseteq Tasks, writer' \in Tasks \cup {None},
         writer' # None => readers' = {}, excluded' \subseteq Nodes,
         ChannelsInv', ExclusionInv'
  PROVE  IInv'
<1> USE PeerStoreAssumption
<1>1. TypeOK'
  <2>1. channels' \in [Nodes -> 0..MaxChannels] /\ closing' \in [Nodes -> 0..MaxChannels]
    <3>1. \A n \in Nodes : channels'[n] \in 0..MaxChannels /\ closing'[n] \in 0..MaxChannels
      BY DEF ChannelsInv
    <3> QED
      BY <3>1 DEF ChannelsInv
  <2>2. call' \in [Tasks -> CallState]
    BY DEF IInv, TypeOK
  <2> QED
    BY <2>1, <2>2 DEF TypeOK
<1>2. /\ \A u \in Tasks : u # t => call'[u] = call[u]
      /\ call'[t] = e
  BY DEF IInv, TypeOK
<1>3. \A u \in Tasks : call'[u].step # "write"
  BY <1>2 DEF IInv, LockInv
<1>4. LockInv'
  BY <1>2, <1>3 DEF IInv, LockInv
<1>5. DiskInv'
  BY <1>3 DEF DiskInv
<1> QED
  BY <1>1, <1>4, <1>5 DEF IInv

\* A successful write makes the disk what memory is.
LEMMA PersistPeersOkIInv ==
  ASSUME IInv, NEW t \in Tasks, PersistPeersOk(t) PROVE IInv'
<1>1. /\ call[t].step = "write" /\ Succeeded(t) /\ mutationLock' = None
      /\ disk' = peers /\ peers' = peers /\ late' = None /\ aborted' = FALSE
      /\ peers \in PeerMap
  BY DEF PersistPeersOk, IInv, TypeOK
<1>2. PICK e \in CallState : /\ call' = [call EXCEPT ![t] = e]
                             /\ \/ e.step = "idle"
                                \/ e.step = "next" /\ e.op = "rgs"
  BY <1>1, ContinueCall, SucceededContinues
<1>3. /\ readers' \subseteq Tasks /\ writer' \in Tasks \cup {None}
      /\ writer' # None => readers' = {}
      /\ excluded' \subseteq Nodes
      /\ ExclusionInv' /\ ChannelsInv'
  BY <1>1, ContinueCall, SucceededContinues
<1>4. /\ peers' \in PeerMap /\ disk' \in PeerMap /\ late' \in PeerMap \cup {None}
      /\ aborted' \in BOOLEAN
      /\ ~aborted' => late' = None /\ disk' = peers'
  BY <1>1
<1>5. call[t].step = "write" /\ mutationLock' = None
  BY <1>1
<1> QED
  BY <1>2, <1>3, <1>4, <1>5, ReleaseIInv

\* The rollback gives back what is on the disk.
LEMMA PersistPeersErrIInv ==
  ASSUME IInv, NEW t \in Tasks, PersistPeersErr(t) PROVE IInv'
<1>1. /\ call[t].step = "write" /\ Continue(t) /\ mutationLock' = None
      /\ UNCHANGED <<disk, late, excluded, aborted>>
      /\ peers' = [peers EXCEPT ![call[t].node] = call[t].previous]
      /\ peers \in [Nodes -> Addresses \cup {None}]
      /\ disk \in PeerMap /\ late \in PeerMap \cup {None} /\ aborted \in BOOLEAN
      /\ call[t] \in CallState
  BY DEF PersistPeersErr, IInv, TypeOK, PeerMap
<1>2. PICK e \in CallState : /\ call' = [call EXCEPT ![t] = e]
                             /\ \/ e.step = "idle"
                                \/ e.step = "next" /\ e.op = "rgs"
  BY <1>1, ContinueCall
<1>3. /\ readers' \subseteq Tasks /\ writer' \in Tasks \cup {None}
      /\ writer' # None => readers' = {}
      /\ excluded' \subseteq Nodes
      /\ ExclusionInv' /\ ChannelsInv'
  BY <1>1, ContinueCall
<1>4. call[t].previous \in Addresses \cup {None}
  BY <1>1 DEF CallState
<1>5. peers' \in PeerMap
  BY <1>1, <1>4 DEF PeerMap
<1>6. ~aborted' => late' = None /\ disk' = peers'
  BY <1>1 DEF IInv, DiskInv
<1>7. /\ peers' \in PeerMap /\ disk' \in PeerMap /\ late' \in PeerMap \cup {None}
      /\ aborted' \in BOOLEAN
      /\ ~aborted' => late' = None /\ disk' = peers'
  BY <1>1, <1>5, <1>6
<1>8. call[t].step = "write" /\ mutationLock' = None
  BY <1>1
<1> QED
  BY <1>2, <1>3, <1>7, <1>8, ReleaseIInv

\* An aborted RGS task gives its locks back.
LEMMA AbortIInv ==
  ASSUME IInv, NEW t \in Tasks, Abort(t) PROVE IInv'
<1> USE PeerStoreAssumption
<1>1. /\ call[t].op = "rgs" /\ call[t].step \in {"read", "lock", "write"}
      /\ readers' = readers \ {t} /\ call' = [call EXCEPT ![t] = Idle]
      /\ UNCHANGED <<peers, disk, writer, excluded, funds>>
      /\ Idle \in CallState /\ Idle.step = "idle"
  BY IdleCall DEF Abort, End
<1>2. /\ \A u \in Tasks : u # t => call'[u] = call[u]
      /\ call'[t] = Idle
  BY <1>1 DEF IInv, TypeOK
<1>3. ExclusionInv'
  <2> SUFFICES ASSUME NEW u \in Tasks
               PROVE  /\ Holding(u)' => u \in readers'
                      /\ Guarding(u)' => writer' = u
                      /\ Holding(u)' => call'[u].missing \cap excluded' = {}
                      /\ Holding(u)' /\ call'[u].step # "next" => call'[u].node \notin excluded'
    BY DEF ExclusionInv
  <2>1. u = t => ~Holding(u)' /\ ~Guarding(u)'
    BY <1>1, <1>2 DEF Holding, Guarding
  <2>2. u # t => (Holding(u)' <=> Holding(u)) /\ (Guarding(u)' <=> Guarding(u)) /\ call'[u] = call[u]
    BY <1>2 DEF Holding, Guarding
  <2> QED
    BY <1>1, <2>1, <2>2 DEF IInv, ExclusionInv
<1>4. /\ readers' \subseteq Tasks /\ writer' \in Tasks \cup {None}
      /\ writer' # None => readers' = {}
      /\ excluded' \subseteq Nodes
      /\ peers' \in PeerMap /\ disk' \in PeerMap
  BY <1>1 DEF IInv, TypeOK
<1>5. ChannelsInv'
  BY <1>1 DEF IInv, ChannelsInv, funds
<1>6. CASE call[t].step = "write"
  <2>1. /\ late' \in PeerMap \cup {None} /\ mutationLock' = None /\ aborted' = TRUE
    BY <1>6 DEF Abort, IInv, TypeOK
  <2>2. /\ aborted' \in BOOLEAN
        /\ ~aborted' => late' = None /\ disk' = peers'
    BY <2>1
  <2> QED
    BY <1>1, <1>3, <1>4, <1>5, <1>6, <2>1, <2>2, ReleaseIInv
<1>7. CASE call[t].step # "write"
  <2>1. UNCHANGED <<store, aborted>>
    BY <1>1, <1>7 DEF Abort, store
  <2> QED
    BY <1>1, <1>3, <1>4, <1>5, <1>7, <2>1, QuietIInv
<1> QED
  BY <1>6, <1>7

\* A write that outlived its task reaches the disk: only while aborted holds.
LEMMA LateWriteIInv ==
  ASSUME IInv, LateWrite PROVE IInv'
<1>1. /\ disk' = late /\ late' = None /\ late # None
      /\ UNCHANGED <<peers, mutationLock, exclusions, funds, call, aborted>>
  BY DEF LateWrite
<1>2. aborted
  BY <1>1 DEF IInv, DiskInv
<1>3. TypeOK'
  BY <1>1 DEF IInv, TypeOK, exclusions, funds
<1>4. LockInv' /\ DiskInv'
  BY <1>1, <1>2 DEF IInv, LockInv, DiskInv
<1>5. ExclusionInv' /\ ChannelsInv'
  BY <1>1 DEF IInv, ExclusionInv, Holding, Guarding, ChannelsInv, exclusions, funds
<1> QED
  BY <1>3, <1>4, <1>5 DEF IInv

\* After a restart memory is what was read, and every call is gone.
LEMMA RestartIInv ==
  ASSUME IInv, Restart PROVE IInv'
<1> USE PeerStoreAssumption
<1>1. /\ peers' = disk' /\ late' = None /\ mutationLock' = None
      /\ readers' = {} /\ writer' = None /\ excluded' = {}
      /\ call' = [t \in Tasks |-> Idle]
      /\ aborted' = FALSE /\ UNCHANGED funds
  BY DEF Restart
<1>2. PICK stored : disk' = [n \in Nodes |-> IF n \in stored THEN Announced[n] ELSE disk[n]]
  BY DEF Restart
<1>3. disk' \in PeerMap
  BY <1>2 DEF IInv, TypeOK, PeerMap
<1>4. \A t \in Tasks : call'[t] = Idle /\ call'[t].step = "idle"
  BY <1>1, IdleCall
<1>5. call' \in [Tasks -> CallState]
  BY <1>1, IdleCall
<1>6. TypeOK'
  BY <1>1, <1>3, <1>5 DEF IInv, TypeOK, funds
<1>7. LockInv'
  BY <1>1, <1>4 DEF LockInv
<1>8. DiskInv'
  BY <1>1, <1>4 DEF DiskInv
<1>9. ExclusionInv'
  BY <1>4 DEF ExclusionInv, Holding, Guarding
<1>10. ChannelsInv'
  BY <1>1 DEF IInv, ChannelsInv, funds
<1> QED
  BY <1>6, <1>7, <1>8, <1>9, <1>10 DEF IInv

\* The end of a cooperative close only frees a place in the count.
LEMMA ChannelClosedIInv ==
  ASSUME IInv, NEW n \in Nodes, ChannelClosed(n) PROVE IInv'
<1> USE PeerStoreAssumption
<1>1. /\ closing[n] > 0 /\ closing' = [closing EXCEPT ![n] = @ - 1]
      /\ UNCHANGED <<store, exclusions, channels, call, aborted>>
  BY DEF ChannelClosed
<1>2. closing[n] \in Nat /\ closing[n] - 1 \in Nat /\ closing \in [Nodes -> 0..MaxChannels]
  BY <1>1 DEF IInv, ChannelsInv, TypeOK
<1>3. ChannelsInv'
  <2>1. closing' \in [Nodes -> Nat] /\ channels' \in [Nodes -> Nat]
    BY <1>1, <1>2 DEF IInv, ChannelsInv
  <2>2. \A m \in Nodes : closing'[m] <= closing[m]
    BY <1>1, <1>2 DEF IInv, ChannelsInv
  <2> QED
    BY <1>1, <2>1, <2>2 DEF IInv, ChannelsInv
<1>4. TypeOK'
  <2>1. closing' \in [Nodes -> 0..MaxChannels]
    BY <1>1, <1>2
  <2> QED
    BY <1>1, <2>1 DEF IInv, TypeOK, store, exclusions
<1>5. LockInv' /\ DiskInv' /\ ExclusionInv'
  BY <1>1 DEF IInv, LockInv, DiskInv, ExclusionInv, Holding, Guarding, store, exclusions
<1> QED
  BY <1>3, <1>4, <1>5 DEF IInv

\* Every step of the peer store, the exclusions and their callers keeps the invariant.
LEMMA NextIInv == IInv /\ [Next]_vars => IInv'
<1> SUFFICES ASSUME IInv, [Next]_vars PROVE IInv'
  OBVIOUS
<1>1. ASSUME NEW t \in Tasks, Advance(t) PROVE IInv'
  BY <1>1, CloseChannelDoneIInv, LockExclusionsIInv, ReadExclusionsIInv, NextMissingIInv,
     AddPeerKnownIInv, ChangePeersIInv, PersistPeersOkIInv, PersistPeersErrIInv DEF Advance
<1>2. ASSUME NEW t \in Tasks, Start(t) PROVE IInv'
  BY <1>2, StartIInv
<1>3. ASSUME NEW t \in Tasks, Abort(t) PROVE IInv'
  BY <1>3, AbortIInv
<1>4. CASE UNCHANGED vars
  BY <1>4 DEF IInv, TypeOK, LockInv, DiskInv, ExclusionInv, ChannelsInv, Holding, Guarding,
              vars, store, exclusions, funds
<1> QED
  BY <1>1, <1>2, <1>3, <1>4, LateWriteIInv, RestartIInv, ChannelClosedIInv DEF Next

\* The invariant holds in every reachable state.
THEOREM InductiveInvariant == Spec => []IInv
BY InitIInv, NextIInv, PTL DEF Spec

\* add_peer and remove_peer leave memory and disk equal when they release the lock,
\* with any number of tasks and any failing writes.
THEOREM MemoryIsPersisted == Spec => []PersistedWhenUnlocked
<1>1. IInv => PersistedWhenUnlocked
  BY DEF IInv, DiskInv, PersistedWhenUnlocked
<1> QED
  BY <1>1, InductiveInvariant, PTL

\* The RwLock makes disconnect's exclusion final for RGS tasks that are already running.
THEOREM ExclusionsHold == Spec => []RgsLeavesExcludedAlone
<1>1. IInv => RgsLeavesExcludedAlone
  BY DEF IInv, ExclusionInv, Holding, RgsLeavesExcludedAlone
<1> QED
  BY <1>1, InductiveInvariant, PTL
=============================================================================

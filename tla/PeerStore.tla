----------------------------- MODULE PeerStore -----------------------------
(***************************************************************************)
(* The peers to reconnect to (peer_store.rs) and the set of peers the RGS  *)
(* recovery must leave alone (RgsPeerRecoveryExclusions in lib.rs), with   *)
(* the operations that change them: connect, open_channel, disconnect,     *)
(* close_channel, receiving through an LSP, the ChannelPending handler,    *)
(* the RGS task and a restart.                                             *)
(*                                                                         *)
(* Two async locks are involved: the RwLock of the exclusions, taken       *)
(* first, and the mutation_lock of the peer store, held from the change in *)
(* memory to the end of its write.                                         *)
(***************************************************************************)
EXTENDS Naturals, FiniteSets

CONSTANTS
    Tasks, Nodes,
    Addresses,    \* socket addresses
    Announced,    \* the address the network graph has for a node, or None
    MaxChannels,  \* bound: channels with a node
    MayFail,      \* whether writes may fail
    MayAbort,     \* whether the RGS task may be aborted by stop()
    None

Ops == {"connect", "open", "disconnect", "close", "jit", "pending", "rgs"}

ASSUME PeerStoreAssumption ==
    /\ Announced \in [Nodes -> Addresses \cup {None}]
    /\ None \notin Tasks \cup Addresses \cup Nodes \cup Ops
    /\ MaxChannels \in Nat /\ MayFail \in BOOLEAN /\ MayAbort \in BOOLEAN

VARIABLES
    peers,         \* PeerStore.peers
    disk,          \* what is persisted of it
    late,          \* the data of an aborted task's write the store may yet apply
    mutationLock,  \* the task that holds it, or None
    readers,       \* tasks that hold the exclusions' lock for reading
    writer,        \* the task that holds it for writing, or None
    excluded,      \* RgsPeerRecoveryExclusions.node_ids
    channels,      \* open channels per node
    closing,       \* channels still listed that are being closed cooperatively
    call,          \* per task: operation, its progress and its locals
    aborted        \* history: an RGS task was aborted in its write, and none succeeded since

store == <<peers, disk, late, mutationLock>>
exclusions == <<readers, writer, excluded>>
funds == <<channels, closing>>
vars == <<store, exclusions, funds, call, aborted>>

Steps == {"idle", "closing", "exclude", "read", "next", "lock", "write"}
PeerMap == [Nodes -> Addresses \cup {None}]
CallState == [op : Ops \cup {None}, step : Steps, node : Nodes \cup {None},
              address : Addresses \cup {None}, previous : Addresses \cup {None},
              last : BOOLEAN, missing : SUBSET Nodes]
Idle == [op |-> None, step |-> "idle", node |-> None, address |-> None,
         previous |-> None, last |-> FALSE, missing |-> {}]

TypeOK ==
    /\ peers \in PeerMap /\ disk \in PeerMap /\ late \in PeerMap \cup {None}
    /\ mutationLock \in Tasks \cup {None}
    /\ readers \subseteq Tasks /\ writer \in Tasks \cup {None}
    /\ writer # None => readers = {}
    /\ excluded \subseteq Nodes
    /\ channels \in [Nodes -> 0..MaxChannels] /\ closing \in [Nodes -> 0..MaxChannels]
    /\ call \in [Tasks -> CallState]
    /\ aborted \in BOOLEAN

Init ==
    /\ peers = [n \in Nodes |-> None]
    /\ disk = peers /\ late = None
    /\ mutationLock = None
    /\ readers = {} /\ writer = None /\ excluded = {}
    /\ channels = [n \in Nodes |-> 0] /\ closing = channels
    /\ call = [t \in Tasks |-> Idle]
    /\ aborted = FALSE

Begin(t, op, step, n, a) ==
    /\ call[t].step = "idle"
    /\ call' = [call EXCEPT ![t] = [Idle EXCEPT !.op = op, !.step = step, !.node = n,
                                                !.address = a]]
Goto(t, step) == call' = [call EXCEPT ![t].step = step]
End(t) == call' = [call EXCEPT ![t] = Idle]

\* list_channels_with_counterparty
Listed(n) == channels[n] + closing[n]
-----------------------------------------------------------------------------
(* The operations up to their first lock.                                  *)

Connect(t, n, a) ==
    /\ Begin(t, "connect", "exclude", n, a)
    /\ UNCHANGED <<store, exclusions, funds, aborted>>

Disconnect(t, n) ==
    /\ Begin(t, "disconnect", "exclude", n, None)
    /\ UNCHANGED <<store, exclusions, funds, aborted>>

\* open_channel_inner: create_channel comes before the peer is stored.
OpenChannel(t, n, a) ==
    /\ Listed(n) < MaxChannels
    /\ channels' = [channels EXCEPT ![n] = @ + 1]
    /\ Begin(t, "open", "exclude", n, a)
    /\ UNCHANGED <<store, exclusions, closing, aborted>>

\* close_channel_internal lists the channels, closes one, and goes on with the list.
CloseChannel(t, n) ==
    /\ channels[n] > 0
    /\ call[t].step = "idle"
    /\ call' = [call EXCEPT ![t] = [Idle EXCEPT !.op = "close", !.step = "closing",
                                       !.node = n, !.last = Listed(n) = 1]]
    /\ UNCHANGED <<store, exclusions, funds, aborted>>

\* A forced close takes effect at once, a cooperative one leaves the channel listed;
\* closing a channel that is closed by now fails.
CloseChannelDone(t) ==
    /\ call[t].step = "closing"
    /\ LET n == call[t].node
       IN  \/ /\ channels[n] > 0
              /\ channels' = [channels EXCEPT ![n] = @ - 1]
              /\ \/ UNCHANGED closing
                 \/ closing' = [closing EXCEPT ![n] = @ + 1]
              /\ IF call[t].last THEN Goto(t, "exclude") ELSE End(t)
           \/ /\ channels[n] = 0
              /\ End(t)
              /\ UNCHANGED funds
    /\ UNCHANGED <<store, exclusions, aborted>>

\* The closing transaction of a cooperative close is out.
ChannelClosed(n) ==
    /\ closing[n] > 0
    /\ closing' = [closing EXCEPT ![n] = @ - 1]
    /\ UNCHANGED <<store, exclusions, channels, call, aborted>>

\* receive_via_jit_channel_inner stores the LSP and knows nothing of exclusions.
ReceiveViaJitChannel(t, n, a) ==
    /\ Begin(t, "jit", "lock", n, a)
    /\ UNCHANGED <<store, exclusions, funds, aborted>>

\* A peer opens a channel: the ChannelPending handler stores a peer not yet known.
ChannelPending(t, n) ==
    /\ Listed(n) < MaxChannels
    /\ channels' = [channels EXCEPT ![n] = @ + 1]
    /\ IF Announced[n] # None /\ peers[n] = None
       THEN Begin(t, "pending", "lock", n, Announced[n])
       ELSE UNCHANGED call
    /\ UNCHANGED <<store, exclusions, closing, aborted>>

RgsSnapshot(t) ==
    /\ Begin(t, "rgs", "read", None, None)
    /\ UNCHANGED <<store, exclusions, funds, aborted>>
-----------------------------------------------------------------------------
(* RgsPeerRecoveryExclusions.                                              *)

\* Closing the last channel takes the lock only to insert; the others keep it.
LockExclusions(t) ==
    /\ call[t].step = "exclude"
    /\ writer = None /\ readers = {}
    /\ IF call[t].op = "close"
       THEN excluded' = excluded \cup {call[t].node} /\ UNCHANGED writer
       ELSE writer' = t /\ UNCHANGED excluded
    /\ Goto(t, "lock")
    /\ UNCHANGED <<store, readers, funds, aborted>>

\* Mutant: the exclusions are not consulted.
MissingAny == {n \in Nodes : Listed(n) > 0 /\ peers[n] = None /\ Announced[n] # None}

\* persist_missing_channel_peers_excluding collects the peers to add.
Missing == {n \in Nodes : Listed(n) > 0 /\ n \notin excluded /\ peers[n] = None
                          /\ Announced[n] # None}

ReadExclusions(t) ==
    /\ call[t].step = "read"
    /\ writer = None
    /\ readers' = readers \cup {t}
    /\ call' = [call EXCEPT ![t].step = "next", ![t].missing = Missing]
    /\ UNCHANGED <<store, writer, excluded, funds, aborted>>

\* and adds them one by one, unless they are known by then.
NextMissing(t) ==
    /\ call[t].step = "next"
    /\ IF call[t].missing = {}
       THEN readers' = readers \ {t} /\ End(t)
       ELSE /\ UNCHANGED readers
            /\ \E n \in call[t].missing :
                  call' = [call EXCEPT
                      ![t].missing = @ \ {n}, ![t].node = n, ![t].address = Announced[n],
                      ![t].step = IF peers[n] = None THEN "lock" ELSE "next"]
    /\ UNCHANGED <<store, writer, excluded, funds, aborted>>
-----------------------------------------------------------------------------
(* PeerStore::add_peer and remove_peer.                                    *)

Removes(t) == call[t].op \in {"disconnect", "close"}

\* What follows the peer store call, and releases the exclusions' lock.
Continue(t) ==
    /\ writer' = IF writer = t THEN None ELSE writer
    /\ IF call[t].op = "rgs" THEN Goto(t, "next") ELSE End(t)
    /\ UNCHANGED <<readers, funds>>

Succeeded(t) ==
    /\ excluded' = CASE call[t].op \in {"connect", "open"} -> excluded \ {call[t].node}
                     [] call[t].op = "disconnect" -> excluded \cup {call[t].node}
                     [] OTHER -> excluded
    /\ Continue(t)

\* The peer is stored with this address already.
AddPeerKnown(t) ==
    /\ call[t].step = "lock"
    /\ mutationLock = None
    /\ ~Removes(t) /\ peers[call[t].node] = call[t].address
    /\ Succeeded(t)
    /\ UNCHANGED <<store, aborted>>

ChangePeers(t) ==
    /\ call[t].step = "lock"
    /\ mutationLock = None
    /\ LET n == call[t].node
           new == IF Removes(t) THEN None ELSE call[t].address
       IN  /\ Removes(t) \/ peers[n] # new
           /\ peers' = [peers EXCEPT ![n] = new]
           /\ call' = [call EXCEPT ![t].step = "write", ![t].previous = peers[n]]
    /\ mutationLock' = t
    /\ UNCHANGED <<disk, late, exclusions, funds, aborted>>

\* The data was encoded with the change, and peers does not change under the lock.
PersistPeersOk(t) ==
    /\ call[t].step = "write"
    /\ disk' = peers /\ late' = None
    /\ mutationLock' = None
    /\ aborted' = FALSE
    /\ Succeeded(t)
    /\ UNCHANGED peers

\* Mutant: no rollback.
PersistPeersErrKept(t) ==
    /\ MayFail
    /\ call[t].step = "write"
    /\ mutationLock' = None
    /\ Continue(t)
    /\ UNCHANGED <<peers, disk, late, excluded, aborted>>

PersistPeersErr(t) ==
    /\ MayFail
    /\ call[t].step = "write"
    /\ peers' = [peers EXCEPT ![call[t].node] = call[t].previous]
    /\ mutationLock' = None
    /\ Continue(t)
    /\ UNCHANGED <<disk, late, excluded, aborted>>

\* stop() aborts the RGS task at an await: its locks are released, its change stays,
\* and its write, if the store has it by then, may still reach the disk as long as no
\* later one does.
Abort(t) ==
    /\ MayAbort
    /\ call[t].op = "rgs" /\ call[t].step \in {"read", "lock", "write"}
    /\ readers' = readers \ {t}
    /\ IF call[t].step = "write"
       THEN /\ late' = peers \/ UNCHANGED late
            /\ mutationLock' = None /\ aborted' = TRUE
       ELSE UNCHANGED <<late, mutationLock, aborted>>
    /\ End(t)
    /\ UNCHANGED <<peers, disk, writer, excluded, funds>>

LateWrite ==
    /\ late # None
    /\ disk' = late /\ late' = None
    /\ UNCHANGED <<peers, mutationLock, exclusions, funds, call, aborted>>

\* The process starts again: build reads the peers, and stores those of channels that
\* are missing; a failing write only leaves that peer out.
Restart ==
    /\ LET lost == {n \in Nodes : Listed(n) > 0 /\ disk[n] = None /\ Announced[n] # None}
       IN  \E stored \in (IF MayFail THEN SUBSET lost ELSE {lost}) :
              disk' = [n \in Nodes |-> IF n \in stored THEN Announced[n] ELSE disk[n]]
    /\ peers' = disk' /\ late' = None /\ mutationLock' = None
    /\ readers' = {} /\ writer' = None /\ excluded' = {}
    /\ call' = [t \in Tasks |-> Idle]
    /\ aborted' = FALSE
    /\ UNCHANGED funds

Advance(t) ==
    \/ CloseChannelDone(t) \/ LockExclusions(t) \/ ReadExclusions(t) \/ NextMissing(t)
    \/ AddPeerKnown(t) \/ ChangePeers(t) \/ PersistPeersOk(t) \/ PersistPeersErr(t)

Start(t) ==
    \/ RgsSnapshot(t)
    \/ \E n \in Nodes :
          \/ Disconnect(t, n) \/ CloseChannel(t, n) \/ ChannelPending(t, n)
          \/ \E a \in Addresses :
                Connect(t, n, a) \/ OpenChannel(t, n, a) \/ ReceiveViaJitChannel(t, n, a)

Next ==
    \/ \E t \in Tasks : Start(t) \/ Advance(t) \/ Abort(t)
    \/ LateWrite
    \/ Restart
    \/ \E n \in Nodes : ChannelClosed(n)

Spec == Init /\ [][Next]_vars

-----------------------------------------------------------------------------
\* Whenever no add or remove is going on the disk has what memory has, whatever writes
\* failed and however operations interleaved (the rollbacks in add_peer, remove_peer),
\* unless an RGS task was aborted in its write and no write succeeded since.
PersistedWhenUnlocked == mutationLock = None /\ ~aborted => disk = peers

\* The RGS task never stores a peer that is excluded, also when the exclusion came
\* after it collected its peers (disconnect's promise, lib.rs 1314).
RgsLeavesExcludedAlone ==
    \A t \in Tasks :
        call[t].op = "rgs" /\ call[t].step \in {"lock", "write"}
            => call[t].node \notin excluded

=============================================================================

------------------------- MODULE ConnectionManager -------------------------
(***************************************************************************)
(* Outbound connections (connection.rs).  Calls that want to connect to a  *)
(* peer share one attempt: the first registers an entry for the peer and   *)
(* drives the attempt, the others leave a oneshot sender in the entry, and *)
(* the driver removes the entry and sends its result to all of them.       *)
(*                                                                         *)
(* Calls run as API calls, or in tasks that stop() aborts at an await; the *)
(* ConnectionManager lives on across stop() and start().                   *)
(***************************************************************************)
EXTENDS Naturals

CONSTANTS
    Calls,        \* calls that may be running at the same time
    Nodes,        \* node ids
    Cancellable,  \* the calls that run in tasks stop() aborts
    None

Results == {"Ok", "InvalidSocketAddress", "ConnectionFailed"}
DriverSteps == {"resolve", "dial", "handshake", "propagate"}

ASSUME ConnectionAssumption ==
    Cancellable \subseteq Calls /\ None \notin Nodes /\ None \notin Results

VARIABLES
    pending,    \* pending_connections: per node absent (None) or its subscribers
    pc,         \* where each call is
    target,     \* the node it connects to
    inbox,      \* the result a subscriber was sent, if any
    connected,  \* the peers of the PeerManager
    orphaned    \* history: nodes whose attempt was aborted

vars == <<pending, pc, target, inbox, connected, orphaned>>

\* The entry of a node is absent or holds the senders of its subscribers.
Absent == [present |-> FALSE, subscribers |-> {}]
Entry(subscribers) == [present |-> TRUE, subscribers |-> subscribers]

TypeOK ==
    /\ pending \in [Nodes -> [present : BOOLEAN, subscribers : SUBSET Calls]]
    /\ pc \in [Calls -> DriverSteps \cup {"idle", "register", "subscribed"}]
    /\ target \in [Calls -> Nodes \cup {None}]
    /\ \A c \in Calls : target[c] = None <=> pc[c] = "idle"
    /\ inbox \in [Calls -> Results \cup {None}]
    /\ connected \in SUBSET Nodes
    /\ orphaned \in SUBSET Nodes

Init ==
    /\ pending = [n \in Nodes |-> Absent]
    /\ pc = [c \in Calls |-> "idle"]
    /\ target = [c \in Calls |-> None]
    /\ inbox = [c \in Calls |-> None]
    /\ connected = {}
    /\ orphaned = {}

Goto(c, step) == pc' = [pc EXCEPT ![c] = step]

Return(c) ==
    /\ Goto(c, "idle")
    /\ target' = [target EXCEPT ![c] = None]

\* connect_peer_if_necessary, and the reconnection loop before do_connect_peer.
ConnectPeerIfNecessary(c, n) ==
    /\ pc[c] = "idle"
    /\ IF n \in connected
       THEN UNCHANGED <<pc, target>>
       ELSE /\ Goto(c, "register")
            /\ target' = [target EXCEPT ![c] = n]
    /\ UNCHANGED <<pending, inbox, connected, orphaned>>

\* Mutant: an attempt in flight is not noticed.
RegisterAlways(c) ==
    /\ pc[c] = "register"
    /\ pending' = [pending EXCEPT ![target[c]] = Entry(@.subscribers)]
    /\ Goto(c, "resolve")
    /\ UNCHANGED <<target, inbox, connected, orphaned>>

RegisterOrSubscribe(c) ==
    /\ pc[c] = "register"
    /\ LET n == target[c]
       IN  IF pending[n].present
           THEN /\ pending' = [pending EXCEPT ![n] = Entry(@.subscribers \cup {c})]
                /\ Goto(c, "subscribed")
           ELSE /\ pending' = [pending EXCEPT ![n] = Entry({})]
                /\ Goto(c, "resolve")
    /\ UNCHANGED <<target, inbox, connected, orphaned>>

\* propagate_result_to_subscribers, then the driver returns the result itself.  A
\* sender whose receiver is gone is skipped.
Propagate(c, res) ==
    LET n == target[c]
    IN  /\ inbox' = [d \in Calls |->
                        IF d \in pending[n].subscribers /\ pc[d] = "subscribed"
                           /\ target[d] = n
                        THEN res ELSE inbox[d]]
        /\ pending' = [pending EXCEPT ![n] = Absent]
        /\ Return(c)

Resolve(c) ==
    /\ pc[c] = "resolve"
    /\ \/ Goto(c, "dial") /\ UNCHANGED <<pending, target, inbox>>
       \/ Propagate(c, "InvalidSocketAddress")
    /\ UNCHANGED <<connected, orphaned>>

\* connect_outbound: a TCP connection, or None.
Dial(c) ==
    /\ pc[c] = "dial"
    /\ \/ Goto(c, "handshake") /\ UNCHANGED <<pending, target, inbox>>
       \/ Propagate(c, "ConnectionFailed")
    /\ UNCHANGED <<connected, orphaned>>

\* The loop over the closing future and peer_by_node_id, asked every 10 ms: any
\* connection to the peer ends it, an inbound one too.
HandshakeDone(c) ==
    /\ pc[c] = "handshake"
    /\ target[c] \in connected
    /\ Goto(c, "propagate")
    /\ UNCHANGED <<pending, target, inbox, connected, orphaned>>

\* Mutant: the closing future is not watched.
HandshakeUnwatched(c) ==
    /\ pc[c] = "handshake"
    /\ target[c] \in connected
    /\ Propagate(c, "ConnectionFailed")
    /\ UNCHANGED <<connected, orphaned>>

HandshakeClosed(c) ==
    /\ pc[c] = "handshake"
    /\ Propagate(c, "ConnectionFailed")
    /\ UNCHANGED <<connected, orphaned>>

PropagateOk(c) ==
    /\ pc[c] = "propagate"
    /\ Propagate(c, "Ok")
    /\ UNCHANGED <<connected, orphaned>>

\* The subscriber's receiver yields the result.
Receive(c) ==
    /\ pc[c] = "subscribed"
    /\ inbox[c] # None
    /\ Return(c)
    /\ inbox' = [inbox EXCEPT ![c] = None]
    /\ UNCHANGED <<pending, connected, orphaned>>

\* stop() drops the future of a task that is at an await.  Nothing removes the entry
\* of a driver dropped there.
Abort(c) ==
    /\ c \in Cancellable
    /\ pc[c] \in {"dial", "handshake", "subscribed"}
    /\ Goto(c, "idle")
    /\ orphaned' = IF pc[c] = "subscribed" THEN orphaned ELSE orphaned \cup {target[c]}
    /\ target' = [target EXCEPT ![c] = None]
    /\ inbox' = [inbox EXCEPT ![c] = None]
    /\ UNCHANGED <<pending, connected>>

\* Peers come, also by themselves, and go.
PeerConnected(n) ==
    /\ n \notin connected
    /\ connected' = connected \cup {n}
    /\ UNCHANGED <<pending, pc, target, inbox, orphaned>>

PeerDisconnected(n) ==
    /\ n \in connected
    /\ connected' = connected \ {n}
    /\ UNCHANGED <<pending, pc, target, inbox, orphaned>>

Advance(c) ==
    \/ RegisterOrSubscribe(c) \/ Resolve(c) \/ Dial(c)
    \/ HandshakeDone(c) \/ HandshakeClosed(c) \/ PropagateOk(c) \/ Receive(c)

Next ==
    \/ \E c \in Calls : Advance(c) \/ Abort(c)
    \/ \E c \in Calls, n \in Nodes : ConnectPeerIfNecessary(c, n)
    \/ \E n \in Nodes : PeerConnected(n) \/ PeerDisconnected(n)

Spec == Init /\ [][Next]_vars

\* A call goes on once it can; LDK closes a connection whose handshake stalls.
FairSpec == Spec /\ \A c \in Calls : WF_vars(Advance(c))
-----------------------------------------------------------------------------
Drives(c, n) == pc[c] \in DriverSteps /\ target[c] = n

\* At most one call at a time dials a peer, however many want to connect to it
\* (register_or_subscribe_pending_connection), also when calls are aborted.
OneDialPerPeer ==
    \A c, d \in Calls, n \in Nodes : Drives(c, n) /\ Drives(d, n) => c = d

\* The refinement mapping: calls take part in an attempt from registering to returning,
\* and an attempt is lost when its entry is there and nobody drives it.
Wanted == [c \in Calls |-> IF pc[c] \in DriverSteps \cup {"subscribed"} THEN target[c] ELSE None]
Drivers == {c \in Calls : pc[c] \in DriverSteps}
Abandoned == {n \in Nodes : pending[n].present /\ ~ \E c \in Calls : Drives(c, n)}

Attempts == INSTANCE SharedAttempt WITH
    Callers <- Calls, Things <- Nodes, Outcomes <- Results, Droppable <- Cancellable,
    want <- Wanted, makers <- Drivers, answer <- inbox, lost <- Abandoned

\* Calls for the same peer share one attempt (do_connect_peer): one of them dials, and each
\* of the others gets the very result of the attempt it joined, whatever calls come, go and
\* are aborted meanwhile, and although an aborted call leaves its sender in the entry.
SharesAttempts == Attempts!Spec

\* An entry is there exactly while a call drives its attempt, or after one was aborted.
EntriesHaveDrivers ==
    \A n \in Nodes :
        pending[n].present <=> n \in orphaned \/ \E c \in Calls : Drives(c, n)

\* The entry an aborted attempt left is never removed: no call dials the peer again.
OrphansBlock == \A n \in orphaned : ~ \E c \in Calls : Drives(c, n)

\* A subscriber whose result is not there yet still has its sender in the entry: no
\* attempt ends without its answer (propagate_result_to_subscribers).
NobodyForgotten ==
    \A c \in Calls :
        pc[c] = "subscribed" /\ inbox[c] = None
            => pending[target[c]].present /\ c \in pending[target[c]].subscribers

\* A call that has its result is out of the entry, so no second result can replace it
\* (propagate_result_to_subscribers removes the entry).
AnsweredOnce ==
    \A c \in Calls :
        inbox[c] # None => pc[c] = "subscribed" /\ c \notin pending[target[c]].subscribers

\* Every call that waits for somebody else's attempt gets its result, unless the
\* driver of an attempt to that peer was aborted (propagate_result_to_subscribers).
AnsweredUnlessAborted ==
    \A c \in Calls :
        pc[c] = "subscribed" ~> pc[c] # "subscribed" \/ target[c] \in orphaned

=============================================================================

------------------------------ MODULE Channels ------------------------------
(***************************************************************************)
(* Channels from four sides: Node's calls that open, splice and close them *)
(* (lib.rs), channels opened for an LSPS2 client (liquidity.rs), channels  *)
(* peers open with us, and the handler of LDK's channel events (event.rs). *)
(* They share the funds of the on-chain wallet and the anchor reserve.     *)
(*                                                                         *)
(* A coin is worth one unit, so a transaction needs no change.  The wallet *)
(* learns that a funding transaction spends its coins when it syncs.  LDK  *)
(* and the peers are external.                                             *)
(***************************************************************************)
EXTENDS EventLoop, SequencesExt

CONSTANTS
    Nodes,
    Anchors,       \* per node: "none", "optional" or "required" in its init features
    Trusted,       \* trusted_peers_no_reserve
    NumCoins,      \* the number of the wallet's coins
    Reserve,       \* per_channel_reserve_sats
    Amounts,       \* the amounts of channels
    Threads,       \* threads calling the API
    MaxChannels,   \* bound: channels ever
    MayAnnounce,   \* whether the node is configured to announce channels
    ClientTrusts,  \* client_trusts_lsp of the LSPS2 service
    Nobody

Ids == 1..MaxChannels
Coins == 1..NumCoins
Lsp == "lsp"       \* the task that handles liquidity events
Callers == Threads \cup {Lsp}

ASSUME ChannelsAssumption ==
    /\ Anchors \in [Nodes -> {"none", "optional", "required"}]
    /\ Trusted \subseteq Nodes /\ Reserve \in Nat /\ Amounts \subseteq Nat \ {0}
    /\ NumCoins \in Nat /\ MaxChannels \in Nat
    /\ MayAnnounce \in BOOLEAN /\ ClientTrusts \in BOOLEAN
    /\ Nobody \notin Nodes

VARIABLES
    chan,       \* LDK: the channels
    connected,  \* LDK: the peers we are connected to
    gone,       \* the coins the wallet knows to be spent
    peers,      \* the nodes in the peer store
    toldMem,    \* the user events pushed to the event queue
    toldDisk,   \* and those in the persisted one
    call,       \* what each caller is doing
    overlap,    \* history: funds were checked while others were about to be spent
    unsure      \* history: nodes whose entry in the peer store may be missing

channels == <<chan, connected>>
told == <<toldMem, toldDisk>>
chanVars == <<channels, gone, peers, told, call, overlap, unsure>>

NoChannel == [how |-> "none", node |-> Nobody, amount |-> 0, state |-> "none",
              coins |-> {}, tx |-> "none", marks |-> {}, splice |-> "none", more |-> {}]
Idle == [op |-> "none", step |-> "idle", c |-> 0, node |-> Nobody, amount |-> 0,
         last |-> FALSE]

ChannelsInit ==
    /\ chan = [c \in Ids |-> NoChannel]
    /\ connected = {} /\ gone = {} /\ peers = {}
    /\ toldMem = {} /\ toldDisk = {}
    /\ call = [t \in Callers |-> Idle]
    /\ overlap = FALSE /\ unsure = {}

\* Threads are alike: the next call is made by the first idle one.
MayCall(t) ==
    IF t = Lsp THEN call[t] = Idle
    ELSE /\ call[t] = Idle
         /\ t = CHOOSE u \in Threads : call[u] = Idle

Begin(t, op, step, c, n, a) ==
    /\ MayCall(t)
    /\ call' = [call EXCEPT ![t] = [Idle EXCEPT !.op = op, !.step = step, !.c = c,
                                                !.node = n, !.amount = a]]
Goto(t, step) == call' = [call EXCEPT ![t].step = step]
End(t) == call' = [call EXCEPT ![t] = Idle]

\* The states of a channel: "request" (a peer asks), "created", "fundable" (the peer
\* accepted), "funded" (LDK has the transaction), "pending", "ready", "shutdown" (a
\* cooperative close) and "closed"; "vanished" is one forgotten in a crash.
Unfunded == {"created", "accepted", "fundable", "funded"}
Open == Unfunded \cup {"pending", "ready", "shutdown"}
Listed == {c \in Ids : chan[c].state \in Open}
With(n) == {c \in Listed : chan[c].node = n}
Fresh == CHOOSE c \in Ids : chan[c].state = "none" /\ \A d \in Ids : chan[d].state = "none" => c <= d
HasFresh == \E c \in Ids : chan[c].state = "none"
-----------------------------------------------------------------------------
(* Funds.                                                                  *)

\* The channels total_anchor_channels_reserve_sats counts: anchors are negotiated with
\* every peer that has them at all.
Reserving == {c \in Listed : chan[c].node \notin Trusted /\ Anchors[chan[c].node] # "none"}

total_anchor_channels_reserve_sats == Reserve * Cardinality(Reserving)

\* get_witness_spendable_amount_sats, with a subtraction that saturates
Spendable ==
    LET known == Cardinality(Coins \ gone)
    IN  known - Min({known, total_anchor_channels_reserve_sats})

\* The reserve for the new channel: only when the peer requires anchors.
NewReserve(n) == IF Anchors[n] = "required" /\ n \notin Trusted THEN Reserve ELSE 0

\* Mutant: the reserve of the new channel is forgotten.
SufficientWithoutReserve(a, n) == Spendable >= a

check_sufficient_funds_for_channel(a, n) == Spendable >= a + NewReserve(n)

\* The coins of transactions under way that the wallet does not know to be spent.
Committed(c) == chan[c].coins \cup chan[c].more
InFlight ==
    \/ \E t \in Callers : call[t].step \in {"create", "splice"}
    \/ \E c \in Ids : \/ chan[c].how # "inbound" /\ chan[c].state \in {"created", "fundable"}
                      \/ ~(Committed(c) \subseteq gone)

\* The coins are alike.  Selecting the first ones the wallet thinks it has is the choice
\* with which two transactions share the most.
Selections(a) ==
    LET known == SetToSortSeq(Coins \ gone, <)
    IN  IF a <= Len(known) THEN {{known[i] : i \in 1..a}} ELSE {}
-----------------------------------------------------------------------------
(* The calls of Node.                                                      *)

\* open_channel, open_announced_channel: connect first.
OpenChannel(t, n, a) ==
    /\ Spend("opens")
    /\ Begin(t, "open", "check", 0, n, a)
    /\ connected' = connected \cup {n}
    /\ UNCHANGED <<loop, chan, gone, peers, told, overlap, unsure>>

\* Both checks of the funds, the second one with what the peer's features ask for.
CheckFunds(t) ==
    /\ call[t].step = "check"
    /\ LET n == call[t].node
       IN  IF n \in connected /\ check_sufficient_funds_for_channel(call[t].amount, n)
           THEN /\ Goto(t, IF call[t].op = "splice" THEN "splice" ELSE "create")
                /\ overlap' = (overlap \/ InFlight)
           ELSE End(t) /\ UNCHANGED overlap
    /\ UNCHANGED <<loop, left, channels, gone, peers, told, unsure>>

\* A close that listed the channels with this peer before is not finished yet.
Closing(n) == \E t \in Callers : call[t].op = "close" /\ call[t].node = n

\* create_channel fails without a connection; the liquidity task stores no peer.
CreateChannel(t) ==
    /\ call[t].step = "create"
    /\ LET n == call[t].node
       IN  \/ /\ n \in connected /\ HasFresh
              /\ chan' = [chan EXCEPT ![Fresh] = [NoChannel EXCEPT
                             !.how = call[t].op, !.node = n, !.amount = call[t].amount,
                             !.state = "created"]]
              /\ IF call[t].op = "open" THEN Goto(t, "store") ELSE End(t)
              /\ unsure' = IF Closing(n) THEN unsure \cup {n} ELSE unsure
           \/ n \notin connected /\ End(t) /\ UNCHANGED <<chan, unsure>>
    /\ UNCHANGED <<loop, left, connected, gone, peers, told, overlap>>

\* The channel is being opened; when the peer cannot be stored the call fails.
StorePeer(t) ==
    /\ call[t].step = "store"
    /\ LET n == call[t].node
       IN  \/ /\ peers' = peers \cup {n}
              /\ unsure' = IF Closing(n) THEN unsure ELSE unsure \ {n}
              /\ UNCHANGED left
           \/ Spend("fails") /\ unsure' = unsure \cup {n} /\ UNCHANGED peers
    /\ End(t)
    /\ UNCHANGED <<loop, channels, gone, told, overlap>>

\* Mutant: any close forgets the peer.
LastOfAny(n) == With(n) # {}

\* Was this the last open channel with the peer?
LastWith(n) == Cardinality(With(n)) = 1

\* close_channel, force_close_channel list the channels with the peer,
CloseChannel(t, c) ==
    /\ Spend("closes")
    /\ c \in Listed /\ chan[c].state # "shutdown"
    /\ MayCall(t)
    /\ call' = [call EXCEPT ![t] = [Idle EXCEPT !.op = "close", !.step = "closing", !.c = c,
                                       !.node = chan[c].node,
                                       !.last = LastWith(chan[c].node)]]
    /\ UNCHANGED <<loop, channels, gone, peers, told, overlap, unsure>>

Closed(c) == [chan EXCEPT ![c].state = "closed",
                          ![c].splice = IF @ = "pending" THEN @ ELSE "none",
                          ![c].more = IF chan[c].splice = "pending" THEN @ ELSE {},
                          ![c].coins = IF chan[c].tx = "out" THEN @ ELSE {}]

\* close one, which fails when it is closed already,
CloseChannelDo(t) ==
    /\ call[t].step = "closing"
    /\ LET c == call[t].c
       IN  IF c \notin Listed
           THEN End(t) /\ UNCHANGED <<loop, chan>>
           ELSE /\ \/ /\ chan[c].state = "ready"
                      /\ chan' = [chan EXCEPT ![c].state = "shutdown"]
                      /\ UNCHANGED loop
                   \/ chan' = Closed(c) /\ Emit(<< <<"ChannelClosed", c>> >>)
                /\ IF call[t].last THEN Goto(t, "forget") ELSE End(t)
    /\ UNCHANGED <<left, connected, gone, peers, told, overlap, unsure>>

\* and forget the peer when the list had one channel only.
ForgetPeer(t) ==
    /\ call[t].step = "forget"
    /\ \/ peers' = peers \ {call[t].node} /\ UNCHANGED left
       \/ Spend("fails") /\ UNCHANGED peers
    /\ End(t)
    /\ UNCHANGED <<loop, channels, gone, told, overlap, unsure>>

\* splice_in: the channel is found in the list before the funds are checked.
SpliceIn(t, c) ==
    /\ Spend("splices")
    /\ chan[c].state = "ready"
    /\ Begin(t, "splice", "check", c, chan[c].node, 1)
    /\ UNCHANGED <<loop, channels, gone, peers, told, overlap, unsure>>

\* The coins are selected and the splice is proposed; a refused one is cancelled.
SpliceChannel(t) ==
    /\ call[t].step = "splice"
    /\ LET c == call[t].c
       IN  \/ /\ chan[c].state = "ready" /\ chan[c].splice = "none"
              /\ \E s \in Selections(call[t].amount) :
                    chan' = [chan EXCEPT ![c].splice = "asked", ![c].more = s]
           \/ /\ chan[c].state # "ready" \/ chan[c].splice # "none"
              /\ UNCHANGED chan
           \/ Selections(call[t].amount) = {} /\ UNCHANGED chan
    /\ End(t)
    /\ UNCHANGED <<loop, left, connected, gone, peers, told, overlap, unsure>>

\* splice_out needs no coins of ours.
SpliceOut(c) ==
    /\ Spend("splices")
    /\ chan[c].state = "ready" /\ chan[c].splice = "none"
    /\ chan' = [chan EXCEPT ![c].splice = "asked"]
    /\ UNCHANGED <<loop, connected, gone, peers, told, call, overlap, unsure>>

\* LSPS2ServiceEvent::OpenChannel, for a client that may be connected: without a
\* connection or funds the request is dropped.
LspOpenChannel(n, a) ==
    /\ Spend("jits")
    /\ Begin(Lsp, "jit", "check", 0, n, a)
    /\ connected' \in {connected, connected \cup {n}}
    /\ UNCHANGED <<loop, chan, gone, peers, told, overlap, unsure>>

ApiStep(t) ==
    \/ CheckFunds(t) \/ CreateChannel(t) \/ StorePeer(t)
    \/ CloseChannelDo(t) \/ ForgetPeer(t) \/ SpliceChannel(t)

-----------------------------------------------------------------------------
(* LDK and the peers.                                                      *)

\* A lost connection closes the channels not yet funded.
Lost(n) == {c \in Ids : chan[c].node = n /\ chan[c].state \in Unfunded}
AfterLoss(n) ==
    [c \in Ids |-> IF c \in Lost(n) THEN Closed(c)[c]
                   ELSE IF chan[c].node = n /\ chan[c].state = "request"
                   THEN [chan[c] EXCEPT !.state = "vanished"] ELSE chan[c]]

ClosedEvents(s) ==
    LET order == SetToSeq(s) IN [i \in DOMAIN order |-> <<"ChannelClosed", order[i]>>]

LoseConnection(n) ==
    /\ n \in connected
    /\ connected' = connected \ {n}
    /\ chan' = AfterLoss(n)
    /\ Emit(ClosedEvents(Lost(n)))
    /\ UNCHANGED <<gone, told, call, overlap>>

PeerDisconnects(n) == Spend("losses") /\ LoseConnection(n) /\ UNCHANGED <<peers, unsure>>

\* disconnect() removes the peer from the store first.
Disconnect(n) ==
    /\ Spend("losses")
    /\ peers' = peers \ {n} /\ unsure' = unsure \cup {n}
    /\ LoseConnection(n)

\* A step of one channel that raises events.
Progress(c, from, new, news) ==
    /\ chan[c].state = from
    /\ chan' = [chan EXCEPT ![c] = new]
    /\ Emit(news)
    /\ UNCHANGED <<left, connected, gone, peers, told, call, overlap, unsure>>

PeerAccepts(c) ==
    /\ chan[c].how # "inbound" /\ chan[c].node \in connected
    /\ Progress(c, "created", [chan[c] EXCEPT !.state = "fundable"],
                << <<"FundingGenerationReady", c>> >>)

\* Of two transactions that spend a coin one is mined.
Conflicts(c) ==
    \E d \in Ids \ {c} : chan[d].state \in {"ready", "shutdown"} /\ chan[c].coins \cap Committed(d) # {}

\* funding_signed: LDK broadcasts the funding transaction, except one for the liquidity
\* service to broadcast, and says when that is safe.
FundingSigned(c) ==
    /\ chan[c].node \in connected
    /\ Progress(c, "funded",
                [chan[c] EXCEPT !.state = "pending", !.tx = IF @ = "held" THEN @ ELSE "out"],
                << <<"ChannelPending", c>> >> \o
                IF chan[c].tx = "held" THEN << <<"FundingTxBroadcastSafe", c>> >> ELSE <<>>)

InboundFunded(c) ==
    /\ chan[c].node \in connected
    /\ Progress(c, "accepted", [chan[c] EXCEPT !.state = "pending"],
                << <<"ChannelPending", c>> >>)

\* A channel of the liquidity service is used before its funding confirms.
BecomesReady(c) ==
    /\ chan[c].node \in connected
    /\ ~Conflicts(c)
    /\ Progress(c, "pending", [chan[c] EXCEPT !.state = "ready"],
                << <<"ChannelReady", c>> >>)

\* The client claims the payment its channel was opened for.
ClientPays(c) ==
    /\ chan[c].how = "jit" /\ "forwarded" \notin chan[c].marks
    /\ Progress(c, "ready", [chan[c] EXCEPT !.marks = @ \cup {"forwarded"}],
                << <<"PaymentForwarded", c>> >>)

PeerOpensChannel(n) ==
    /\ Spend("inbound")
    /\ HasFresh
    /\ connected' = connected \cup {n}
    /\ chan' = [chan EXCEPT ![Fresh] = [NoChannel EXCEPT !.how = "inbound", !.node = n,
                                                         !.state = "request"]]
    /\ \E announced \in BOOLEAN : Emit(<< <<"OpenChannelRequest", Fresh, announced>> >>)
    /\ UNCHANGED <<gone, peers, told, call, overlap, unsure>>

\* The peer, the chain or the end of a shutdown closes the channel.
ChannelCloses(c) ==
    /\ \/ chan[c].state = "shutdown" /\ UNCHANGED left
       \/ chan[c].state \in {"pending", "ready"} /\ Spend("closes")
    /\ chan' = Closed(c)
    /\ Emit(<< <<"ChannelClosed", c>> >>)
    /\ UNCHANGED <<connected, gone, peers, told, call, overlap, unsure>>

\* Splices: negotiated, ready to be signed, signed; or given up.
SpliceProgress(c, from, to, type) ==
    /\ chan[c].splice = from
    /\ Progress(c, "ready", [chan[c] EXCEPT !.splice = to], << <<type, c>> >>)

SpliceNegotiated(c) ==
    SpliceProgress(c, "asked", "signing", "FundingTransactionReadyForSigning")
SpliceSigned(c) == SpliceProgress(c, "signed", "pending", "SplicePending")
SpliceAbandoned(c) ==
    /\ chan[c].splice = "asked"
    /\ Progress(c, "ready", [chan[c] EXCEPT !.splice = "none", !.more = {}],
                << <<"SpliceFailed", c>> >>)

\* The on-chain wallet is synced and finds the transactions that are out.
Broadcast(c) == (IF chan[c].tx = "out" THEN chan[c].coins ELSE {}) \cup
                (IF chan[c].splice = "pending" THEN chan[c].more ELSE {})
Sync ==
    /\ gone' = gone \cup UNION {Broadcast(c) : c \in Ids}
    /\ gone' # gone
    /\ UNCHANGED <<loop, left, channels, peers, told, call, overlap, unsure>>

\* The process dies: channels without a funding transaction are forgotten with the calls.
ChannelsCrash ==
    /\ chan' = [c \in Ids |-> IF chan[c].state \in Unfunded \cup {"request"}
                              THEN [chan[c] EXCEPT !.state = "vanished", !.coins = {}]
                              ELSE chan[c]]
    /\ connected' = {}
    /\ toldMem' = toldDisk
    /\ unsure' = unsure \cup {call[t].node : t \in {u \in Threads : call[u].step = "store"}}
    /\ call' = [t \in Callers |-> Idle]
    /\ UNCHANGED <<gone, peers, toldDisk, overlap>>

Ldk(c) ==
    \/ PeerAccepts(c) \/ FundingSigned(c) \/ InboundFunded(c) \/ BecomesReady(c)
    \/ ClientPays(c) \/ ChannelCloses(c)
    \/ SpliceNegotiated(c) \/ SpliceSigned(c) \/ SpliceAbandoned(c)
-----------------------------------------------------------------------------
(* handle_event.                                                           *)

others == <<connected, gone, peers, call, overlap, unsure>>

\* Mutant: the error of the event queue is only logged.
TellOrForget(e, done) ==
    /\ toldMem' = toldMem \cup {e}
    /\ \/ toldDisk' = toldMem' /\ UNCHANGED left /\ done
       \/ Spend("fails") /\ UNCHANGED toldDisk /\ done

\* add_event: a failing write leaves the event in memory and LDK's event to be replayed.
TellThen(e, done) ==
    /\ toldMem' = toldMem \cup {e}
    /\ \/ toldDisk' = toldMem' /\ UNCHANGED left /\ done
       \/ Spend("fails") /\ UNCHANGED toldDisk /\ Replay

Tell(e) == TellThen(e, Finish)

Live(c) == c \in Listed

\* lsps2_channel_needs_manual_broadcast
NeedsManualBroadcast(c) == ClientTrusts /\ chan[c].how = "jit"

\* The transaction is stored with the liquidity service, or left to LDK.
Funded(c, s) ==
    [chan EXCEPT ![c].state = "funded", ![c].coins = s,
                 ![c].tx = IF NeedsManualBroadcast(c) THEN "held" ELSE @]

\* A transaction that cannot be built closes the channel; one for a channel that went
\* away is dropped, and its coins stay with the wallet.
FundingGenerationReady ==
    /\ Handling("FundingGenerationReady", "idle")
    /\ LET c == About
           waiting == chan[c].state = "fundable"
       IN  \/ /\ waiting
              /\ \E s \in Selections(chan[c].amount) : chan' = Funded(c, s)
              /\ Finish /\ UNCHANGED left
           \/ /\ waiting
              /\ \/ Selections(chan[c].amount) = {} /\ UNCHANGED left
                 \/ Spend("fails")
              /\ chan' = Closed(c)
              /\ FinishWith(<< <<"ChannelClosed", c>> >>)
           \/ ~waiting /\ Finish /\ UNCHANGED <<chan, left>>
    /\ UNCHANGED <<others, told>>

\* lsps2_funding_tx_broadcast_safe and payment_forwarded: the liquidity service (external)
\* broadcasts the transaction once it is safe to and the client claimed its payment.
Mark(c, m) ==
    LET marks == chan[c].marks \cup {m}
    IN  chan' = [chan EXCEPT ![c].marks = marks,
                     ![c].tx = IF @ = "held" /\ {"safe", "paid"} \subseteq marks /\ Live(c)
                               THEN "out" ELSE @]

FundingTxBroadcastSafe ==
    /\ Handling("FundingTxBroadcastSafe", "idle")
    /\ Mark(About, "safe")
    /\ Finish
    /\ UNCHANGED <<others, told, left>>

\* The liquidity service is told before the user is.
PaymentForwarded ==
    /\ Handling("PaymentForwarded", "idle")
    /\ Mark(About, "paid")
    /\ Tell(<<"PaymentForwarded", About>>)
    /\ UNCHANGED others

\* Anchor channels are refused when the reserve is not there, announced ones when the node
\* is not configured for them.
Refuses(n, announced) ==
    \/ announced /\ ~MayAnnounce
    \/ Anchors[n] # "none" /\ Spendable < (IF n \in Trusted THEN 0 ELSE Reserve)

OpenChannelRequest ==
    /\ Handling("OpenChannelRequest", "idle")
    /\ LET c == About
           n == chan[c].node
       IN  \/ /\ chan[c].state = "request" /\ ~Refuses(n, Current[3])
              /\ chan' = [chan EXCEPT ![c].state = "accepted"]
              /\ overlap' = (overlap \/ (InFlight /\ Anchors[n] # "none"))
           \/ /\ chan[c].state = "request" /\ Refuses(n, Current[3])
              /\ chan' = [chan EXCEPT ![c].state = "vanished"]
              /\ UNCHANGED overlap
           \/ chan[c].state # "request" /\ UNCHANGED <<chan, overlap>>
    /\ Finish
    /\ UNCHANGED <<connected, gone, peers, call, unsure, told, left>>

ChannelPending ==
    /\ Handling("ChannelPending", "idle")
    /\ TellThen(<<"ChannelPending", About>>, HandleNext("peer"))
    /\ UNCHANGED <<others, chan>>

\* The peer of an inbound channel is stored when its address is known and the write
\* succeeds.
StoreInboundPeer ==
    /\ Handling("ChannelPending", "peer")
    /\ \/ /\ Live(About) /\ chan[About].how = "inbound"
          /\ peers' = peers \cup {chan[About].node}
       \/ UNCHANGED peers
    /\ Finish
    /\ UNCHANGED <<channels, gone, told, call, overlap, unsure, left>>

\* The LSPS2 service is told of ChannelReady before the user is.
ChannelReady ==
    /\ Handling("ChannelReady", "idle")
    /\ Tell(<<"ChannelReady", About>>)
    /\ UNCHANGED <<others, chan>>

ChannelClosed ==
    /\ Handling("ChannelClosed", "idle")
    /\ Tell(<<"ChannelClosed", About>>)
    /\ UNCHANGED <<others, chan>>

\* When the inputs cannot be signed the splice is left as it is.
ReadyForSigning ==
    /\ Handling("FundingTransactionReadyForSigning", "idle")
    /\ \/ /\ Live(About) /\ chan[About].splice = "signing"
          /\ chan' = [chan EXCEPT ![About].splice = "signed"]
          /\ UNCHANGED left
       \/ Spend("fails") /\ UNCHANGED chan
       \/ ~(Live(About) /\ chan[About].splice = "signing") /\ UNCHANGED <<chan, left>>
    /\ Finish
    /\ UNCHANGED <<others, told>>

SplicePending ==
    /\ Handling("SplicePending", "idle")
    /\ Tell(<<"SplicePending", About>>)
    /\ UNCHANGED <<others, chan>>

\* The addresses of the splice are reclaimed first; an error of that replays too.
SpliceFailed ==
    /\ Handling("SpliceFailed", "idle")
    /\ \/ Tell(<<"SpliceFailed", About>>)
       \/ Spend("fails") /\ Replay /\ UNCHANGED told
    /\ UNCHANGED <<others, chan>>

HandleChannelEvent ==
    \/ FundingGenerationReady \/ FundingTxBroadcastSafe \/ PaymentForwarded
    \/ OpenChannelRequest \/ ChannelPending \/ StoreInboundPeer \/ ChannelReady \/ ChannelClosed
    \/ ReadyForSigning \/ SplicePending \/ SpliceFailed

ChannelStep ==
    \/ HandleChannelEvent
    \/ Sync
    \/ \E t \in Callers : ApiStep(t)
    \/ \E t \in Threads, n \in Nodes, a \in Amounts : OpenChannel(t, n, a)
    \/ \E t \in Threads, c \in Ids : CloseChannel(t, c) \/ SpliceIn(t, c)
    \/ \E n \in Nodes, a \in Amounts : LspOpenChannel(n, a)
    \/ \E n \in Nodes : PeerDisconnects(n) \/ Disconnect(n) \/ PeerOpensChannel(n)
    \/ \E c \in Ids : Ldk(c) \/ SpliceOut(c)
-----------------------------------------------------------------------------
\* Funding is sound.  The transactions of channels never share a coin, and what they leave
\* covers the reserve (lib.rs 1459) of every channel a peer opened or that was opened with
\* a peer requiring anchors; unless funds were checked while a transaction the wallet did
\* not know of was under way.  And the transaction of a client that trusts the LSP is not
\* broadcast before the client claimed its payment (liquidity.rs 135).
FundingSound ==
    /\ ~overlap =>
          /\ \A c, d \in Ids : c # d => Committed(c) \cap Committed(d) = {}
          /\ Cardinality(Coins \ UNION {Committed(c) : c \in Ids}) >=
                 Reserve * Cardinality({c \in Reserving : \/ chan[c].how = "inbound"
                                                          \/ Anchors[chan[c].node] = "required"})
    /\ \A c \in Ids : NeedsManualBroadcast(c) /\ chan[c].tx = "out" => "paid" \in chan[c].marks

\* The peer of a channel we opened is in the peer store when no call is about it, unless it
\* could not be written, the user disconnected it, or the channel was created while the
\* last one with that peer was being closed (lib.rs 1813).
ChannelPeerKept ==
    \A c \in Ids :
        LET n == chan[c].node
            settled == n \notin unsure /\ \A t \in Callers : call[t].node # n
        IN  chan[c].how = "open" /\ chan[c].state \in Open \ {"shutdown"} /\ settled
                => n \in peers

\* The closing of a channel is not forgotten (event.rs 2215): the user is told durably, or
\* LDK's event is still to be handled or will be replayed, through failing writes, replays
\* and a crash.
ClosedNotForgotten ==
    \A c \in Ids :
        chan[c].state = "closed" => <<"ChannelClosed", c>> \in toldDisk \cup ToSet(pending)
=============================================================================

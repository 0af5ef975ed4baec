---------------------------- MODULE BitcoindSync ----------------------------
(***************************************************************************)
(* Chain and mempool polling against Bitcoin Core (chain/bitcoind.rs), and *)
(* what it does to the accounts of the on-chain wallet (wallet/mod.rs,     *)
(* wallet/persist.rs, crates/bdk-wallet-aggregate).                        *)
(*                                                                         *)
(* One poll at a time, begun by the background loop or by sync_wallets():  *)
(* every account is taken from its own checkpoint to the tip, then the     *)
(* mempool is applied to all of them, then everybody waiting is answered.  *)
(* Blocks arrive, are reorganised away, transactions enter and leave the   *)
(* mempool, accounts are added and removed, requests and writes fail, the  *)
(* loop is stopped and the process dies at any point in between.           *)
(***************************************************************************)
EXTENDS Integers, FiniteSets, FiniteSetsExt, SequencesExt, TLC

CONSTANTS
    Accounts,     \* on-chain wallet accounts
    Configured,   \* those the builder loads at startup
    Txs,          \* transactions, each of which touches every account
    Loop,         \* the background task
    Callers,      \* callers of sync_wallets()
    Nobody,       \* no poll is in progress
    ANTI_REORG_DELAY,
    MAX_ACCOUNT_SET_CHANGE_RETRIES,
    MaxBlocks,    \* bound: blocks ever mined
    MaxTime,      \* bound: seconds of the clock
    MaxPolls,     \* bound: polls begun
    MaxMoves,     \* bound: changes of the chain, the mempool, the clock and the accounts
    MaxFaults     \* bound: failed requests and writes, stops and crashes

ASSUME BitcoindSyncAssumption ==
    /\ Configured \subseteq Accounts /\ Configured # {}
    /\ Loop \notin Callers /\ Nobody \notin Callers \cup {Loop}
    /\ ANTI_REORG_DELAY \in Nat \ {0}
    /\ {MAX_ACCOUNT_SET_CHANGE_RETRIES, MaxBlocks, MaxTime, MaxPolls, MaxMoves, MaxFaults} \subseteq Nat

VARIABLES
    core,      \* Bitcoin Core: its best chain, mempool, clock, and every block it ever had
    wallet,    \* loaded account -> its BDK wallet
    disk,      \* account -> what its persister wrote
    gen,       \* account_generation
    payments,  \* the payment store's record of each transaction
    stale,     \* payment_store_update_pending
    client,    \* mempool caches and watermark of the BitcoindClient
    memGen,    \* last_mempool_account_generation
    ln,        \* best block of the channel manager
    status,    \* wallet_polling_status
    subs,      \* callers subscribed to the poll in progress
    poll,      \* the poll in progress
    call,      \* caller -> "idle", "waits", "drives", or its result
    phase,     \* the loop: "initial", "polling" or "stopped"
    result,    \* history: the result of the last poll
    raced,     \* history: transactions that the watermark has passed without an emission
    polls,
    moves,
    faults

vars == <<core, wallet, disk, gen, payments, stale, client, memGen, ln, status, subs, poll,
          call, phase, result, raced, polls, moves, faults>>

walletVars == <<wallet, disk, gen>>
storeVars == <<payments, stale>>
clientVars == <<client, memGen, raced>>
callVars == <<status, subs, call, phase, result>>

Genesis == 0
NoBlock == -1
NoGen == -1
BlockId == 0..MaxBlocks

-----------------------------------------------------------------------------
(* Blocks.  A block is known by its number; core.blocks has its ancestry and contents. *)

Path(b) == core.blocks[b].path
Height(b) == Len(Path(b))
BlockAt(path, h) == IF h = 0 THEN Genesis ELSE path[h]
Tip(w) == w.chain[Max(DOMAIN w.chain)]

ForkHeight(b, path) ==
    Max({h \in 0..Height(b) : h <= Len(path) /\ SubSeq(Path(b), 1, h) = SubSeq(path, 1, h)})

-----------------------------------------------------------------------------
(* The wallets *)

\* A wallet's local chain need not be contiguous: a new one holds genesis and one checkpoint.
\* Blocks up to height "from" were never scanned.
EmptyWallet == [chain |-> [h \in {0} |-> Genesis], from |-> 0, anchors |-> {},
                seen |-> [x \in Txs |-> 0], evicted |-> [x \in Txs |-> -1]]

Confirmed(w, x) == {b \in BlockId : <<x, b>> \in w.anchors /\ b \in {w.chain[h] : h \in DOMAIN w.chain}}

\* BDK: a transaction without a block in the local chain counts while it was seen, or was once
\* in a block, after it was last evicted.
Unconfirmed(w, x) ==
    /\ Confirmed(w, x) = {}
    /\ w.seen[x] > 0 \/ \E b \in BlockId : <<x, b>> \in w.anchors
    /\ w.seen[x] > w.evicted[x]

Canonical(w, x) == Confirmed(w, x) # {} \/ Unconfirmed(w, x)

\* canonical_transaction_states: the accounts that track x must agree on its block.
Confirmation(ws, x) ==
    LET views == {Confirmed(ws[a], x) : a \in {b \in DOMAIN ws : Canonical(ws[b], x)}}
    IN  IF Cardinality(views) = 1 /\ views # {{}} THEN CHOOSE b \in BlockId : views = {{b}}
        ELSE NoBlock

all_txids(ws) == {x \in Txs : \E a \in DOMAIN ws : Canonical(ws[a], x)}

unconfirmed_txids_with_last_seen(ws) ==
    [x \in {y \in all_txids(ws) : Confirmation(ws, y) = NoBlock} |->
        Max({IF Unconfirmed(ws[a], x) THEN ws[a].seen[x] ELSE 0 : a \in DOMAIN ws})]

\* The lowest tip, and among tips of that height the smallest hash.
current_best_block(ws) ==
    CHOOSE b \in {Tip(ws[a]) : a \in DOMAIN ws} :
        \A a \in DOMAIN ws : \/ Height(b) < Height(Tip(ws[a]))
                             \/ Height(b) = Height(Tip(ws[a])) /\ b <= Tip(ws[a])

PaymentOf(ws, x) ==
    LET b == Confirmation(ws, x)
    IN  [block |-> b,
         done |-> b # NoBlock /\
                  Height(current_best_block(ws)) >= Height(b) + ANTI_REORG_DELAY - 1]

NoPayment == [block |-> NoBlock, done |-> FALSE]

\* update_payment_store: a write that fails leaves the rest as it was and the flag up.
UpdatePayments(ws, upto) ==
    /\ payments' = [x \in Txs |-> IF x \in upto THEN PaymentOf(ws, x) ELSE payments[x]]
    /\ stale' = (upto # all_txids(ws))

\* What is on disk after a wallet was to be persisted: everything, nothing, or only the parts
\* written before the one that failed.  The transaction graph is written before the chain.
\* Mutant: the chain is written first.
PartlyWrittenChainFirst(w, d) == {d, [d EXCEPT !.chain = w.chain, !.from = w.from]}

PartlyWritten(w, d) ==
    {d, [d EXCEPT !.anchors = w.anchors, !.seen = w.seen, !.evicted = w.evicted]}

\* persist_all: the wallets are written one after another up to the one that fails.
PersistAll(ws, d, fails) ==
    IF ~fails THEN {ws @@ d}
    ELSE UNION {{(f :> part) @@ [a \in done |-> ws[a]] @@ d :
                    part \in PartlyWritten(ws[f], d[f]), done \in SUBSET (DOMAIN ws \ {f})}
                : f \in DOMAIN ws}

\* A new wallet starts at the aggregate's best block and has stored its descriptors only; one
\* that is on disk is loaded with the checkpoint it had.
create_wallet_for_account(a) ==
    IF a \in DOMAIN disk THEN disk[a]
    ELSE LET tip == current_best_block(wallet)
         IN  [EmptyWallet EXCEPT !.chain = (0 :> Genesis) @@ (Height(tip) :> tip),
                                 !.from = Height(tip)]

Stored(a) == IF a \in DOMAIN disk THEN disk ELSE (a :> EmptyWallet) @@ disk

-----------------------------------------------------------------------------
(* The poll *)

Idle == [pc |-> "idle", by |-> Nobody, retries |-> 0, gen |-> NoGen, tips |-> <<>>,
         target |-> <<>>, due |-> {}, at |-> 0, failed |-> {}, replay |-> FALSE,
         unconf |-> <<>>, list |-> {}, emit |-> {}, stay |-> {}]

At(pc) == poll.pc = pc
Goto(pc) == poll' = [poll EXCEPT !.pc = pc]
Move == moves < MaxMoves /\ moves' = moves + 1 /\ UNCHANGED faults
Fault == faults < MaxFaults /\ faults' = faults + 1 /\ UNCHANGED moves
Works == UNCHANGED <<moves, faults>>

Init ==
    /\ core = [chain |-> <<>>, blocks |-> (Genesis :> [path |-> <<>>, txs |-> {}]),
               mempool |-> <<>>, time |-> 1]
    /\ disk = [a \in Configured |-> EmptyWallet]
    /\ wallet = disk
    /\ gen = 0
    /\ payments = [x \in Txs |-> NoPayment]
    /\ stale = FALSE
    /\ client = [entries |-> <<>>, txs |-> <<>>, watermark |-> 0]
    /\ memGen = NoGen
    /\ ln = Genesis
    /\ status = "Completed"
    /\ subs = {}
    /\ poll = Idle
    /\ call = [c \in Callers |-> "idle"]
    /\ phase = "initial"
    /\ result = "none"
    /\ raced = {}
    /\ polls = 0
    /\ moves = 0
    /\ faults = 0

\* The start of continuously_sync_wallets.  A poll that a stop cut off has left the status in
\* progress; the receiver it then gets is dropped.
RegisterInitial ==
    /\ phase = "initial" /\ At("idle")
    /\ poll' = [Idle EXCEPT !.pc = "begin", !.by = Loop]
    /\ IF status = "Completed" THEN status' = "InProgress" /\ subs' = {}
       ELSE UNCHANGED <<status, subs>>
    /\ UNCHANGED <<core, ln, call, phase, result, polls, moves, faults>>
    /\ UNCHANGED <<walletVars, storeVars, clientVars>>

\* poll_and_update_listeners by the loop or a caller: drive the poll or wait for its result.
Register(t) ==
    /\ IF t = Loop THEN phase = "polling" ELSE call[t] = "idle" /\ phase # "stopped"
    /\ polls < MaxPolls /\ polls' = polls + 1
    /\ IF status = "Completed"
       THEN /\ status' = "InProgress" /\ subs' = {}
            /\ poll' = [Idle EXCEPT !.pc = "begin", !.by = t]
            /\ call' = [c \in Callers |-> IF c = t THEN "drives" ELSE call[c]]
       ELSE /\ t # Loop   \* the loop's own wait changes nothing
            /\ subs' = subs \cup {t}
            /\ call' = [call EXCEPT ![t] = "waits"]
            /\ UNCHANGED <<status, poll>>
    /\ UNCHANGED <<core, ln, phase, result, moves, faults>>
    /\ UNCHANGED <<walletVars, storeVars, clientVars>>

\* The result goes to whoever drove the poll and to the subscribers.
Answer(res) ==
    /\ status' = "Completed" /\ subs' = {} /\ result' = res
    /\ call' = [c \in Callers |-> IF c \in subs \/ c = poll.by THEN res ELSE call[c]]
    /\ phase' = IF phase = "initial" /\ poll.by = Loop THEN "polling" ELSE phase
    /\ poll' = Idle

\* Mutant: a poll that failed leaves the status in progress.
FailsSilently ==
    /\ poll' = IF poll.by = Loop /\ phase = "initial" THEN [Idle EXCEPT !.pc = "begin", !.by = Loop]
               ELSE Idle
    /\ UNCHANGED callVars

\* The initial sync retries after a pause and tells nobody; a poll reports the error.
Fails ==
    IF poll.by = Loop /\ phase = "initial"
    THEN poll' = [Idle EXCEPT !.pc = "begin", !.by = Loop] /\ UNCHANGED callVars
    ELSE Answer("error")

\* A request that is not answered, or whose answer cannot be parsed, ends the attempt.
RequestFails == Fault /\ Fails

\* Retries after the set of accounts has changed are bounded, except for the initial sync.
AccountSetChanged ==
    IF poll.by = Loop /\ phase = "initial"
    THEN poll' = [Idle EXCEPT !.pc = "begin", !.by = Loop] /\ UNCHANGED callVars
    ELSE IF poll.retries < MAX_ACCOUNT_SET_CHANGE_RETRIES
    THEN /\ poll' = [Idle EXCEPT !.pc = "begin", !.by = poll.by, !.retries = poll.retries + 1]
         /\ UNCHANGED callVars
    ELSE Answer("error")

\* finish_pending_sync(false): what earlier steps could not store is stored first.
PendingFinished ==
    /\ disk' \in PersistAll(wallet, disk, FALSE)
    /\ IF stale THEN UpdatePayments(wallet, all_txids(wallet)) ELSE UNCHANGED storeVars

\* Its error ends the attempt: a wallet or one of the payment records could not be stored.
FinishPendingFails ==
    /\ Fault
    /\ \/ disk' \in PersistAll(wallet, disk, TRUE) /\ UNCHANGED storeVars
       \/ /\ disk' \in PersistAll(wallet, disk, FALSE)
          /\ stale
          /\ \E x \in all_txids(wallet) : UpdatePayments(wallet, all_txids(wallet) \ {x})
    /\ Fails /\ UNCHANGED ln

\* The accounts and their tips are noted under the account lock.  synchronize_listeners then
\* asks for the best chain, which decides where each listener forks off.
Begin ==
    /\ At("begin")
    /\ LET tips == [a \in DOMAIN wallet |-> Tip(wallet[a])]
           forks == [a \in DOMAIN tips |-> ForkHeight(tips[a], core.chain)]
           lnFork == ForkHeight(ln, core.chain)
       IN  \/ /\ PendingFinished /\ Works
              /\ poll' = [poll EXCEPT
                     !.pc = "rewind", !.gen = gen, !.tips = tips, !.target = core.chain,
                     !.due = {a \in DOMAIN tips : forks[a] < Height(tips[a])},
                     !.at = Min({forks[a] : a \in DOMAIN tips} \cup {lnFork}),
                     !.stay = DOMAIN core.mempool]
              /\ ln' = BlockAt(core.chain, lnFork)
              /\ UNCHANGED callVars
           \/ PendingFinished /\ RequestFails /\ UNCHANGED ln
           \/ FinishPendingFails
    /\ UNCHANGED <<core, wallet, gen, polls>> /\ UNCHANGED clientVars

Fork(a) == ForkHeight(poll.tips[a], poll.target)

\* The listener of an account keeps its first error and ignores blocks from then on.
record_apply_result(a, ok) ==
    poll' = [poll EXCEPT !.due = @ \ {a}, !.failed = IF ok THEN @ ELSE @ \cup {a}]

\* AccountChainListener::finish: an error of an account that was removed meanwhile.
account_was_removed(a) == gen # poll.gen /\ a \notin DOMAIN wallet

\* The rewound wallet, as it is loaded again from the store.
Rewound(w, h, b) ==
    [w EXCEPT !.chain = [k \in {j \in DOMAIN w.chain : j < h} \cup {h} |->
                            IF k = h THEN b ELSE w.chain[k]],
              !.from = IF h < w.from THEN h ELSE w.from]

\* blocks_disconnected for one account: rewind_wallet_account persists all wallets, rewrites
\* the account's chain on disk and loads the wallet again.  An error is kept by the listener.
rewind_wallet_account(a) ==
    /\ At("rewind") /\ a \in poll.due
    /\ LET b == BlockAt(poll.target, Fork(a))
           fails == record_apply_result(a, FALSE) /\ UNCHANGED <<wallet, stale>>
       IN  \/ /\ a \notin DOMAIN wallet
              /\ fails /\ Works /\ UNCHANGED disk
           \/ /\ a \in DOMAIN wallet
              /\ Works
              /\ LET w == Rewound(wallet[a], Fork(a), b)
                 IN  /\ disk' \in {[d EXCEPT ![a] = w] : d \in PersistAll(wallet, disk, FALSE)}
                     /\ wallet' = [wallet EXCEPT ![a] = w]
              /\ stale' = TRUE
              /\ record_apply_result(a, TRUE)
           \/ /\ a \in DOMAIN wallet
              /\ Fault /\ fails
              /\ disk' \in PersistAll(wallet, disk, TRUE) \cup PersistAll(wallet, disk, FALSE)
    /\ UNCHANGED <<core, gen, payments, ln, polls>> /\ UNCHANGED <<clientVars, callVars>>

\* All listeners are at their fork points, or have got the block at this height: the next one.
NextBlock ==
    /\ poll.pc \in {"rewind", "connect"} /\ poll.due = {}
    /\ \/ /\ poll.at < Len(poll.target)
          /\ \/ /\ Works
                /\ poll' = [poll EXCEPT !.pc = "connect", !.at = @ + 1,
                                        !.due = {a \in DOMAIN poll.tips : Fork(a) <= poll.at}]
                /\ ln' = IF Height(ln) <= poll.at THEN poll.target[poll.at + 1] ELSE ln
                /\ UNCHANGED callVars
             \/ RequestFails /\ UNCHANGED ln
       \/ /\ poll.at = Len(poll.target)
          /\ Works /\ Goto("finish") /\ UNCHANGED ln /\ UNCHANGED callVars
    /\ UNCHANGED <<core, polls>> /\ UNCHANGED <<walletVars, storeVars, clientVars>>

\* BDK connects a block whose parent is in the local chain, and finds its transactions.
Connected(w, h, b) ==
    [w EXCEPT !.chain = IF h \in DOMAIN w.chain /\ w.chain[h] = b THEN @
                        ELSE [k \in {j \in DOMAIN @ : j < h} \cup {h} |-> IF k = h THEN b ELSE @[k]],
              !.anchors = @ \cup {<<x, b>> : x \in core.blocks[b].txs}]

CanConnect(w, h) == h - 1 \in DOMAIN w.chain /\ w.chain[h - 1] = BlockAt(poll.target, h - 1)

SparseAhead(w, h) == h \notin DOMAIN w.chain /\ Max(DOMAIN w.chain) > h

\* block_connected for one account; after an error its later blocks are left out.
apply_block_to_account(a) ==
    /\ At("connect") /\ a \in poll.due
    /\ LET b == poll.target[poll.at]
           fails == record_apply_result(a, FALSE)
           goes == record_apply_result(a, TRUE)
       IN  \/ /\ a \in poll.failed
              /\ goes /\ Works /\ UNCHANGED <<wallet, disk, stale>>
           \/ /\ a \notin poll.failed
              /\ stale' = TRUE
              /\ \/ /\ a \notin DOMAIN wallet
                    /\ fails /\ Works /\ UNCHANGED <<wallet, disk>>
                 \/ /\ a \in DOMAIN wallet /\ SparseAhead(wallet[a], poll.at)
                    /\ goes /\ Works /\ UNCHANGED <<wallet, disk>>
                 \/ /\ a \in DOMAIN wallet /\ ~SparseAhead(wallet[a], poll.at)
                    /\ ~CanConnect(wallet[a], poll.at)
                    /\ fails /\ Works /\ UNCHANGED <<wallet, disk>>
                 \/ /\ a \in DOMAIN wallet /\ ~SparseAhead(wallet[a], poll.at)
                    /\ CanConnect(wallet[a], poll.at)
                    /\ wallet' = [wallet EXCEPT ![a] = Connected(@, poll.at, b)]
                    /\ \/ goes /\ Works /\ disk' = [disk EXCEPT ![a] = wallet'[a]]
                       \/ /\ fails /\ Fault
                          /\ \E d \in PartlyWritten(wallet'[a], disk[a]) : disk' = [disk EXCEPT ![a] = d]
    /\ UNCHANGED <<core, gen, payments, ln, polls>> /\ UNCHANGED <<clientVars, callVars>>

\* AccountChainListener::finish for every account, then what is still to be stored.
Finish ==
    /\ At("finish")
    /\ LET removed == {a \in poll.failed : account_was_removed(a)}
       IN  \/ /\ poll.failed = {}
              /\ \/ PendingFinished /\ Works /\ Goto("list") /\ UNCHANGED <<ln, callVars>>
                 \/ FinishPendingFails
           \/ /\ removed # {}
              /\ AccountSetChanged /\ Works /\ UNCHANGED <<disk, storeVars, ln>>
           \/ /\ poll.failed \ removed # {}
              /\ Fails /\ Works /\ UNCHANGED <<disk, storeVars, ln>>
    /\ UNCHANGED <<core, wallet, gen, polls>> /\ UNCHANGED clientVars

-----------------------------------------------------------------------------
(* The mempool *)

\* get_raw_mempool: cached entries of transactions that are gone are dropped.
ListMempool ==
    /\ At("list")
    /\ \/ /\ Works
          /\ poll' = [poll EXCEPT !.pc = "entries", !.replay = memGen # poll.gen,
                        !.unconf = unconfirmed_txids_with_last_seen(wallet),
                        !.list = DOMAIN core.mempool \ DOMAIN client.entries]
          /\ client' = [client EXCEPT !.entries = [x \in DOMAIN @ \cap DOMAIN core.mempool |-> @[x]]]
          /\ UNCHANGED callVars
       \/ RequestFails /\ UNCHANGED client
    /\ UNCHANGED <<core, ln, memGen, raced, polls>> /\ UNCHANGED <<walletVars, storeVars>>

\* Mutant: an entry of the second of the watermark counts as emitted.
EmitsOnlyNewer(entry) ==
    \/ poll.replay
    \/ entry.height > Height(ln)
    \/ entry.time > client.watermark

should_emit_mempool_entry(entry) ==
    \/ poll.replay
    \/ entry.height > Height(ln)
    \/ entry.time >= client.watermark

\* get_mempool_entry of each listed transaction that is not cached: it may be gone by now.
GetEntry(x) ==
    /\ At("entries") /\ x \in poll.list
    /\ \/ /\ Works
          /\ client' = IF x \in DOMAIN core.mempool
                       THEN [client EXCEPT !.entries = (x :> core.mempool[x]) @@ @] ELSE client
          /\ poll' = [poll EXCEPT !.list = @ \ {x}]
          /\ UNCHANGED callVars
       \/ RequestFails /\ UNCHANGED client
    /\ UNCHANGED <<core, ln, memGen, raced, polls>> /\ UNCHANGED <<walletVars, storeVars>>

AllEntries ==
    /\ At("entries") /\ poll.list = {}
    /\ LET cached == [x \in DOMAIN client.txs \cap DOMAIN client.entries |-> client.txs[x]]
           emits == {x \in DOMAIN client.entries : should_emit_mempool_entry(client.entries[x])}
       IN  /\ client' = [client EXCEPT !.txs = cached]
           /\ poll' = [poll EXCEPT !.pc = "raw", !.list = emits \ DOMAIN cached,
                                   !.emit = emits \cap DOMAIN cached]
           /\ raced' = raced \ poll'.emit
    /\ UNCHANGED <<core, ln, memGen, polls, moves, faults>> /\ UNCHANGED <<walletVars, storeVars, callVars>>

\* getrawtransaction answers for what is in the mempool, and with an index for confirmed ones.
get_raw_transaction(x) ==
    /\ At("raw") /\ x \in poll.list
    /\ \/ /\ Works
          /\ x \in DOMAIN core.mempool \/ \E b \in DOMAIN core.blocks : x \in core.blocks[b].txs
          /\ client' = [client EXCEPT !.txs = (x :> client.entries[x].time) @@ @]
          /\ poll' = [poll EXCEPT !.list = @ \ {x}, !.emit = @ \cup {x}]
          /\ raced' = raced \ {x}
          /\ UNCHANGED callVars
       \/ /\ Works
          /\ x \notin DOMAIN core.mempool
          /\ poll' = [poll EXCEPT !.list = @ \ {x}]
          /\ raced' = raced \cup {x}
          /\ UNCHANGED client /\ UNCHANGED callVars
       \/ RequestFails /\ UNCHANGED <<client, raced>>
    /\ UNCHANGED <<core, ln, memGen, polls>> /\ UNCHANGED <<walletVars, storeVars>>

\* The newest entry time is the next watermark when something is emitted.  Unconfirmed
\* transactions that are not in the mempool are evicted, not before the time they were seen.
NextTimestamp ==
    IF poll.emit = {} THEN client.watermark
    ELSE Max({client.entries[x].time : x \in DOMAIN client.entries} \cup {client.watermark})

get_evicted_mempool_txids_and_timestamp ==
    LET at == Max({NextTimestamp, core.time})
    IN  [x \in DOMAIN poll.unconf \ DOMAIN client.entries |-> Max({at, poll.unconf[x]})]

\* apply_unconfirmed_txs and apply_evicted_txs of one wallet.
Observed(w) ==
    [w EXCEPT
       !.seen = [x \in Txs |-> IF x \in poll.emit THEN Max({@[x], client.txs[x]}) ELSE @[x]],
       !.evicted = LET evict == get_evicted_mempool_txids_and_timestamp IN
                   [x \in Txs |-> IF x \in DOMAIN evict THEN Max({@[x], evict[x]}) ELSE @[x]]]

\* In the mempool since it was listed, but older than an entry fetched after that.
Overtaken == {x \in DOMAIN core.mempool \ DOMAIN client.entries :
                 core.mempool[x].time < NextTimestamp}

\* Under the account lock: apply to every account, store, and only then move the watermark.
apply_mempool_txs ==
    /\ At("raw") /\ poll.list = {}
    /\ \/ /\ gen # poll.gen
          /\ AccountSetChanged /\ Works
          /\ UNCHANGED <<wallet, disk, client, memGen, raced>> /\ UNCHANGED storeVars
       \/ /\ gen = poll.gen /\ Works
          /\ wallet' = [a \in DOMAIN wallet |-> Observed(wallet[a])]
          /\ disk' \in PersistAll(wallet', disk, FALSE)
          /\ UpdatePayments(wallet', all_txids(wallet'))
          /\ client' = [client EXCEPT !.watermark = NextTimestamp]
          /\ memGen' = poll.gen /\ raced' = raced \cup Overtaken
          /\ Goto("answer") /\ UNCHANGED callVars
       \/ /\ gen = poll.gen /\ Fault /\ Fails
          /\ \E done \in SUBSET DOMAIN wallet :
                /\ done # {}
                /\ wallet' = [a \in DOMAIN wallet |->
                                 IF a \in done THEN Observed(wallet[a]) ELSE wallet[a]]
                /\ \/ /\ disk' \in PersistAll([a \in done |-> wallet'[a]], disk, TRUE)
                      /\ stale' = TRUE /\ UNCHANGED payments
                   \/ /\ done = DOMAIN wallet
                      /\ disk' \in PersistAll(wallet', disk, FALSE)
                      /\ \E x \in all_txids(wallet') :
                            UpdatePayments(wallet', all_txids(wallet') \ {x})
          /\ UNCHANGED <<client, memGen, raced>>
    /\ UNCHANGED <<core, gen, ln, polls>>

\* Again under the account lock: success is told only if no account came or went.
Complete ==
    /\ At("answer") /\ Works
    /\ IF gen = poll.gen THEN Answer("ok") ELSE AccountSetChanged
    /\ UNCHANGED <<core, ln, polls>> /\ UNCHANGED <<walletVars, storeVars, clientVars>>

-----------------------------------------------------------------------------
(* Accounts *)

AddAccount(a) ==
    /\ a \in Accounts \ DOMAIN wallet /\ Move
    /\ LET ws == (a :> create_wallet_for_account(a)) @@ wallet
       IN  \/ /\ wallet' = ws /\ gen' = gen + 1
              /\ disk' \in {Stored(a)} \cup PersistAll(ws, Stored(a), FALSE)
           \/ /\ disk' \in PersistAll(ws, Stored(a), TRUE)
              /\ UNCHANGED <<wallet, gen>>
    /\ UNCHANGED <<core, ln, poll, polls>> /\ UNCHANGED <<storeVars, clientVars, callVars>>

\* What an account has not stored yet goes with it.
RemoveAccount(a) ==
    /\ a \in DOMAIN wallet \ Configured /\ Move
    /\ wallet' = [b \in DOMAIN wallet \ {a} |-> wallet[b]]
    /\ gen' = gen + 1
    /\ UNCHANGED <<core, disk, ln, poll, polls>> /\ UNCHANGED <<storeVars, clientVars, callVars>>

-----------------------------------------------------------------------------
(* Bitcoin Core *)

CoreMoves == UNCHANGED <<ln, polls>> /\ UNCHANGED <<walletVars, storeVars, clientVars, callVars>>

Gone(xs) == poll' = [poll EXCEPT !.stay = @ \ xs]

Mine(xs) ==
    /\ Cardinality(DOMAIN core.blocks) <= MaxBlocks /\ Move
    /\ LET b == Cardinality(DOMAIN core.blocks)
           path == Append(core.chain, b)
       IN  core' = [core EXCEPT !.chain = path,
                      !.blocks = (b :> [path |-> path, txs |-> xs]) @@ @,
                      !.mempool = [x \in DOMAIN @ \ xs |-> @[x]]]
    /\ Gone(xs) /\ CoreMoves

\* A block of more work replaces the tip; the transactions of the old one are in the mempool again.
Reorg ==
    /\ core.chain # <<>> /\ Cardinality(DOMAIN core.blocks) <= MaxBlocks /\ Move
    /\ LET b == Cardinality(DOMAIN core.blocks)
           path == Append(Front(core.chain), b)
           back == core.blocks[Last(core.chain)].txs
       IN  core' = [core EXCEPT !.chain = path,
                      !.blocks = (b :> [path |-> path, txs |-> {}]) @@ @,
                      !.mempool = [x \in back |-> [time |-> core.time, height |-> Len(path) - 1]] @@ @]
    /\ UNCHANGED poll /\ CoreMoves

Enter(x) ==
    /\ x \notin DOMAIN core.mempool /\ Move
    /\ \A i \in DOMAIN core.chain : x \notin core.blocks[core.chain[i]].txs
    /\ core' = [core EXCEPT !.mempool =
                   (x :> [time |-> core.time, height |-> Len(core.chain)]) @@ @]
    /\ UNCHANGED poll /\ CoreMoves

Leave(x) ==
    /\ x \in DOMAIN core.mempool /\ Move
    /\ core' = [core EXCEPT !.mempool = [y \in DOMAIN @ \ {x} |-> @[y]]]
    /\ Gone({x}) /\ CoreMoves

Tick ==
    /\ core.time < MaxTime /\ Move
    /\ core' = [core EXCEPT !.time = @ + 1]
    /\ UNCHANGED poll /\ CoreMoves

-----------------------------------------------------------------------------
(* Stopping and dying *)

\* stop(): a poll of the loop is dropped where it is, the initial sync only between attempts.
Stop ==
    /\ phase # "stopped" /\ Fault
    /\ poll.by = Loop /\ phase = "initial" => At("begin")
    /\ phase' = "stopped"
    /\ poll' = IF poll.by = Loop THEN Idle ELSE poll
    /\ UNCHANGED <<core, ln, status, subs, call, result, polls>>
    /\ UNCHANGED <<walletVars, storeVars, clientVars>>

\* start() on the same node, with no call of sync_wallets() left over as the driver.
Restart ==
    /\ phase = "stopped" /\ At("idle") /\ Works
    /\ phase' = "initial"
    /\ UNCHANGED <<core, ln, status, subs, call, result, poll, polls>>
    /\ UNCHANGED <<walletVars, storeVars, clientVars>>

\* The process dies and is started again: accounts added at run time are not loaded.
Crash ==
    /\ Fault
    /\ wallet' = [a \in Configured |-> disk[a]]
    /\ gen' = 0 /\ stale' = FALSE
    /\ client' = [entries |-> <<>>, txs |-> <<>>, watermark |-> 0]
    /\ memGen' = NoGen /\ raced' = {}
    /\ status' = "Completed" /\ subs' = {} /\ poll' = Idle
    /\ call' = [c \in Callers |-> "idle"]
    /\ phase' = "initial" /\ result' = "none"
    /\ UNCHANGED <<core, disk, payments, ln, polls>>

PollStep ==
    \/ RegisterInitial \/ Begin \/ NextBlock \/ Finish
    \/ \E a \in Accounts : rewind_wallet_account(a) \/ apply_block_to_account(a)
    \/ ListMempool \/ AllEntries
    \/ \E x \in Txs : GetEntry(x) \/ get_raw_transaction(x)
    \/ apply_mempool_txs \/ Complete

Next ==
    \/ PollStep
    \/ \E t \in Callers \cup {Loop} : Register(t)
    \/ \E a \in Accounts : AddAccount(a) \/ RemoveAccount(a)
    \/ \E xs \in SUBSET DOMAIN core.mempool : Mine(xs)
    \/ \E x \in Txs : Enter(x) \/ Leave(x)
    \/ Reorg \/ Tick \/ Stop \/ Restart \/ Crash

Spec == Init /\ [][Next]_vars

\* Every request ends, by its answer or by a timeout, and the runtime schedules ready tasks.
FairSpec == Spec /\ WF_vars(PollStep)

-----------------------------------------------------------------------------
(* Properties *)

OkTold == status = "InProgress" /\ status' = "Completed" /\ result' = "ok"

\* A poll is answered with Ok only when the wallet is up to date, whatever accounts came, went
\* or failed meanwhile, and however many blocks had to be disconnected first:
\* every loaded account stands at the best block the poll set out for;
\* every account knows every transaction that was in the mempool for the whole poll;
\* the payment store says of every transaction what the accounts agree on: its block, and
\* whether it is deep enough to count as final.
\* Excepted are transactions that the watermark passed in a race (the bytes were gone when
\* asked for while the entry stayed cached, or the entry of another, listed earlier, was
\* fetched later) and those that came back in the very second of their recorded eviction.
OkIsCurrent ==
    [][OkTold =>
         /\ \A a \in DOMAIN wallet :
              /\ Tip(wallet[a]) = BlockAt(poll.target, Len(poll.target))
              /\ \A x \in poll.stay \ raced : \/ core.mempool[x].time <= wallet[a].evicted[x]
                                              \/ Canonical(wallet[a], x)
         /\ \A x \in all_txids(wallet) : payments[x] = [
              block |-> Confirmation(wallet, x),
              done |-> /\ Confirmation(wallet, x) # NoBlock
                       /\ \A a \in DOMAIN wallet : Height(Tip(wallet[a])) >=
                             Height(Confirmation(wallet, x)) + ANTI_REORG_DELAY - 1]]_vars

\* A height that a wallet counts as synced was scanned: all blocks since its birthday are in
\* its chain, and their transactions are recorded, in memory and on disk, through failed
\* writes, rewinds, reloads and crashes.
Scanned(w) ==
    \A h \in w.from..Max(DOMAIN w.chain) :
        /\ h \in DOMAIN w.chain
        /\ h > w.from => \A x \in core.blocks[w.chain[h]].txs : <<x, w.chain[h]>> \in w.anchors

NoBlockSkipped ==
    /\ \A a \in DOMAIN wallet : Scanned(wallet[a])
    /\ \A a \in DOMAIN disk : Scanned(disk[a])

\* A caller of sync_wallets() gets a result, unless the node is stopped: a stop that drops the
\* loop's poll leaves its subscribers waiting until the next start.
PollersAnswered ==
    \A c \in Callers : call[c] \in {"waits", "drives"} ~>
        (call[c] \notin {"waits", "drives"} \/ phase = "stopped")
=============================================================================

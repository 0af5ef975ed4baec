---------------------------- MODULE OnchainWallet ----------------------------
(***************************************************************************)
(* Sending on-chain (payment/onchain.rs, wallet/mod.rs): preparing,        *)
(* broadcasting, bumping and accelerating transactions, and funding        *)
(* channels.                                                               *)
(*                                                                         *)
(* Every transaction is built under the wallet's lock; recording it and    *)
(* handing it to the network are later steps, interleaved with other       *)
(* calls, with syncs, with blocks, with stop() and with crashes.  The      *)
(* wallet does not know what it has sent until a sync tells it.            *)
(***************************************************************************)
EXTENDS AggregateWallet, Sequences, TLC

CONSTANTS
    Accounts,
    Primary,            \* the primary account: change goes to it
    Legacy,             \* accounts whose coins cannot fund a channel
    InitCoins,          \* coins that are confirmed at the start
    Deposit,            \* value of a transaction to us that is not confirmed at the start
    Amounts,            \* amounts of payments
    FundAmount,         \* amount of a channel
    Reserve,            \* total_anchor_channels_reserve_sats
    IncludeUntrusted,   \* include_untrusted_pending_in_spendable
    SendRate, BumpRates,
    UrgentRate,         \* estimate that a child without a given rate aims at
    MaxTxs,             \* bound: transactions
    MaxManual,          \* bound: coins in a selection by hand
    MaxFaults           \* bound: failed writes, full queues, evictions, stops and crashes

ASSUME OnchainWalletAssumption ==
    /\ Primary \in Accounts /\ Legacy \subseteq Accounts
    /\ {Deposit, FundAmount, Reserve, SendRate, UrgentRate, MaxTxs, MaxManual, MaxFaults,
        DUST_LIMIT_SATS, Incremental} \subseteq Nat
    /\ BumpRates \subseteq Nat /\ Amounts \subseteq Nat
    /\ IncludeUntrusted \in BOOLEAN
    /\ Value(InitCoins) + Deposit >= Reserve

VARIABLES
    txs,       \* the transactions, in the order they were built
    wallet,    \* what syncs told: transactions ever seen, in the graph now, confirmed
    net,       \* the network: mempool and chain
    sent,      \* transactions that some backend was given
    records,   \* broadcast records in the store
    marks,     \* change indices marked as used, in memory
    revealed,  \* number of change indices revealed, in memory and in the store
    running,
    freed,     \* history: change indices given back while a transaction still had them
    cut,       \* history: something was built that does not keep the reserve
    faults

vars == <<txs, wallet, net, sent, records, marks, revealed, running, freed, cut, faults>>

NoIndex == -1
Tx == DOMAIN txs
Fault == faults < MaxFaults /\ faults' = faults + 1
Works == UNCHANGED faults

-----------------------------------------------------------------------------
(* What the wallet knows *)

\* The outputs of a transaction that are ours: change, a payment to ourselves, a deposit.
Outputs(t, conf) ==
    LET coin(n, v, i) == [op |-> <<t, n>>, tx |-> t, acct |-> Primary, val |-> v,
                          conf |-> conf, internal |-> i]
        x == txs[t]
    IN  (IF x.chg # 0 THEN {coin(1, x.chg, TRUE)} ELSE {}) \cup
        (IF x.self THEN {coin(0, x.pay, x.kind # "deposit")} ELSE {})

AllCoins == InitCoins \cup UNION {Outputs(t, t \in wallet.conf) : t \in Tx}

Known(graph, conf) ==
    LET coins == InitCoins \cup UNION {Outputs(t, t \in conf) : t \in graph}
    IN  {c \in coins : \A t \in graph : c.op \notin txs[t].ins}

list_unspent == Known(wallet.graph, wallet.conf)

InputValue(t) == Value({c \in AllCoins : c.op \in txs[t].ins})

\* Mutant: the reserve is forgotten.
SpendableAll(reserve) ==
    trusted_spendable(list_unspent) + (IF IncludeUntrusted THEN untrusted_pending(list_unspent) ELSE 0)

get_spendable_amount_sats(reserve) ==
    LET base == trusted_spendable(list_unspent) +
                (IF IncludeUntrusted THEN untrusted_pending(list_unspent) ELSE 0)
    IN  SaturatingSub(base, reserve)

\* Transactions that fund one of our channels.
is_funding_transaction(t) == t \in Tx /\ txs[t].kind = "fund"
funding_txids == {t \in wallet.graph : is_funding_transaction(t)}

primaryCoins == CoinsOf(list_unspent, {Primary})
otherCoins == list_unspent \ primaryCoins

\* get_spendable_utxos
get_spendable_utxos == Without(list_unspent, funding_txids)

-----------------------------------------------------------------------------
(* build_transaction_psbt *)

\* A fixed amount: from the primary wallet, else from all; then the reserve is checked.
ExactRetainingReserve(amount, manual, rate) ==
    LET own == build_tx(primaryCoins, {}, amount, rate)
        built == IF manual # {} THEN build_tx(manual, manual, amount, rate)
                 ELSE IF own # {} THEN own
                 ELSE build_psbt_with_cross_wallet_fallback(list_unspent, funding_txids, amount, rate)
    IN  {b \in built : get_spendable_amount_sats(Reserve) >= amount + b.fee}

\* Everything but the reserve: a temporary drain of the primary wallet gives the fee, and the
\* coins of the other wallets are added.
AllRetainingReserve(rate) ==
    LET others == Without(otherCoins, funding_txids)
        extra == rate * Cardinality(others)
        spendable == get_spendable_amount_sats(Reserve)
        build(tmp) ==
            LET fee == tmp.fee + extra
                amount == SaturatingSub(spendable, fee)
                sets == Selections(primaryCoins \cup others, others, amount + fee, 0)
            IN  IF amount < DUST_LIMIT_SATS THEN {} ELSE {finish(S, amount, fee) : S \in sets}
    IN  {b \in UNION {build(tmp) : tmp \in drain(primaryCoins, Reserve, rate)} :
            spendable >= b.pay + b.fee}

\* Without a reserve worth keeping everything is drained.
Drains(kind) == kind = "drain" \/ (kind = "all" /\ Reserve <= DUST_LIMIT_SATS)

Candidates(kind, manual, rate) ==
    IF Drains(kind) THEN build_and_sign_drain(list_unspent, rate)
    ELSE IF kind = "all" THEN AllRetainingReserve(rate)
    ELSE UNION {ExactRetainingReserve(amount, manual, rate) : amount \in Amounts}

-----------------------------------------------------------------------------
(* Change indices *)

PaidTo(i) == \E t \in wallet.seen : txs[t].idx = i

NextUnused(used) == CHOOSE i \in 0..Cardinality(used) + Cardinality(wallet.seen) :
                       /\ i \notin used /\ ~PaidTo(i)
                       /\ \A j \in 0..(i - 1) : j \in used \/ PaidTo(j)

\* A transaction that may still be confirmed.
Live(t) == /\ txs[t].st \notin {"gone", "alias", "released"} \/ t \in sent
           /\ \A u \in net.conf : u = t \/ txs[u].ins \cap txs[t].ins = {}

Holds(i) == {t \in Tx : txs[t].idx = i /\ Live(t)}

\* The AllRetainingReserve estimate pays its reserve to index 0 and is then cancelled.
TemporaryDrain(kind) ==
    IF kind = "all" /\ ~Drains(kind) /\ ~PaidTo(0) THEN marks \ {0} ELSE marks

Freeing(i, by) == IF i \in marks /\ Holds(i) \ by # {} THEN {i} ELSE {}

\* cancel_tx: the change index is free again, unless the wallet knows a transaction that pays it.
Unmarked(t) == IF txs[t].idx = NoIndex \/ PaidTo(txs[t].idx) THEN marks ELSE marks \ {txs[t].idx}

cancel_tx(t) ==
    /\ marks' = Unmarked(t)
    /\ freed' = freed \cup (IF marks' # marks THEN Freeing(txs[t].idx, {t}) ELSE {})

-----------------------------------------------------------------------------
(* Preparing *)

\* Some transaction of ours is out, or may go out, that the wallet does not know yet.
Blind == \E t \in Tx : Live(t) /\ t \notin wallet.graph

\* The index taken by a transaction with change or a payment to ourselves, and what the store
\* has of it once persist_all has run.
Taken(b, used) == IF b.chg # 0 THEN NextUnused(used) ELSE NoIndex

Reveal(i, stored) ==
    LET mem == Max({revealed.mem, i + 1})
    IN  revealed' = [mem |-> mem, disk |-> IF stored THEN mem ELSE revealed.disk]

NewTx(kind, root, b, i, self, st) ==
    txs' = Append(txs, [kind |-> kind, root |-> IF root = 0 THEN Len(txs) + 1 ELSE root,
                        ins |-> b.ins, pay |-> b.pay, self |-> self, chg |-> b.chg, idx |-> i,
                        fee |-> b.fee, st |-> st])

\* prepare_send_to_address: build, sign, and store the wallet's changes.  When that fails the
\* change index stays marked.
prepare_send_to_address(kind, manual, route, alias) ==
    /\ running /\ Len(txs) < MaxTxs
    /\ \E b \in Candidates(kind, manual, SendRate) :
         LET used == TemporaryDrain(kind)
             i == Taken(b, used)
         IN  /\ alias => b.chg # 0
             /\ \/ Works /\ Reveal(i, TRUE)
                   /\ NewTx(kind, 0, b, i, FALSE, IF alias THEN "alias" ELSE route)
                \/ Fault /\ Reveal(i, FALSE) /\ UNCHANGED txs
             /\ marks' = (used \cup {i}) \ {NoIndex}
             /\ freed' = freed \cup (IF used # marks THEN Freeing(0, {}) ELSE {})
             /\ cut' = (cut \/ Blind \/ kind = "drain")
    /\ UNCHANGED <<wallet, net, sent, records, running>>

\* calculate_transaction_fee: the same build, cancelled at once.
calculate_transaction_fee ==
    /\ running /\ Works
    /\ \E b \in Candidates("all", {}, SendRate) :
         LET used == TemporaryDrain("all")
         IN  /\ used # marks
             /\ marks' = used
             /\ freed' = freed \cup Freeing(0, {})
             /\ Reveal(Taken(b, used), FALSE)
    /\ UNCHANGED <<txs, wallet, net, sent, records, running, cut>>

SetSt(t, st) == txs' = [txs EXCEPT ![t].st = st]

\* A transaction that nobody has any more.
Forgotten(t) == [kind |-> "none", root |-> t, ins |-> {}, pay |-> 0, self |-> FALSE, chg |-> 0,
                 idx |-> NoIndex, fee |-> 0, st |-> "gone"]

Forget(t) == IF t \in sent THEN SetSt(t, "gone") ELSE txs' = [txs EXCEPT ![t] = Forgotten(t)]

-----------------------------------------------------------------------------
(* Broadcasting *)

\* Mutant: the record is written by whoever takes the transaction from the queue.
SendUnrecorded(t) ==
    /\ txs[t].st = "queue" /\ Works
    /\ SetSt(t, "queued")
    /\ UNCHANGED <<wallet, net, sent, records, marks, revealed, running, freed, cut>>

\* send_to_address after the build: record, then queue.  A full queue drops the transaction.
send_to_address(t) ==
    /\ txs[t].st = "queue"
    /\ \/ /\ Works /\ SetSt(t, "queued") /\ records' = records \cup {t}
          /\ UNCHANGED <<marks, freed>>
       \/ /\ Fault /\ Forget(t) /\ records' = records \cup {t}
          /\ UNCHANGED <<marks, freed>>
       \/ /\ Fault /\ Forget(t) /\ cancel_tx(t) /\ UNCHANGED records
    /\ UNCHANGED <<wallet, net, sent, revealed, running, cut>>

\* PreparedOnchainSend::broadcast: record, then submit on the runtime.
broadcast(t) ==
    /\ txs[t].st \in {"handle", "started"} /\ running /\ Works
    /\ records' = records \cup {t}
    /\ SetSt(t, IF txs[t].st = "handle" THEN "calling" ELSE "recalling")
    /\ UNCHANGED <<wallet, net, sent, marks, revealed, running, freed, cut>>

\* What the network makes of a transaction: it must spend outputs that exist and, when it
\* replaces others, pay more than they do.
Spenders(ops, among) == {u \in among : txs[u].ins \cap ops # {}}

Descendants(roots, among) ==
    LET children(S) == {u \in among : \E c \in S : \E op \in txs[u].ins : op[1] = c}
    IN  roots \cup children(roots) \cup children(children(roots))

Exists(t, among) == \A op \in txs[t].ins : op[1] = 0 \/ op[1] \in among

Accepted(t) ==
    LET out == Descendants(Spenders(txs[t].ins, net.mem \ {t}), net.mem)
    IN  IF /\ Exists(t, net.mem \cup net.conf) /\ Spenders(txs[t].ins, net.conf) = {}
           /\ \A u \in out : txs[u].fee < txs[t].fee
        THEN [net EXCEPT !.mem = (@ \ out) \cup {t}] ELSE net

\* A backend gets a transaction and may or may not pass it on.
Deliver(t) ==
    /\ sent' = sent \cup {t}
    /\ net' \in {net, Accepted(t)}

\* Mutant: the submission counts as started when it has ended.
SubmitMarksLate(t) ==
    /\ txs[t].st \in {"calling", "recalling"} /\ running /\ Works
    /\ Deliver(t) /\ SetSt(t, "handle")
    /\ UNCHANGED <<wallet, records, marks, revealed, running, freed, cut>>

\* The future of broadcast(): not run at all after a stop, refused by an Electrum source without
\* a client, or given to the backend, whose answer is then kept.
broadcast_user_transaction(t) ==
    /\ txs[t].st \in {"calling", "recalling"} /\ Works
    /\ \/ /\ ~running
          /\ SetSt(t, IF txs[t].st = "calling" THEN "handle" ELSE "started")
          /\ UNCHANGED <<sent, net>>
       \/ /\ ~running /\ SetSt(t, "started") /\ UNCHANGED <<sent, net>>
       \/ /\ running /\ Deliver(t) /\ SetSt(t, "done")
    /\ UNCHANGED <<wallet, records, marks, revealed, running, freed, cut>>

\* Dropping the last handle frees the change index unless submission has started.
DropHandle(t) ==
    /\ txs[t].st \in {"handle", "started", "released"} /\ Works
    /\ Forget(t)
    /\ IF txs[t].st = "started" THEN UNCHANGED <<marks, freed>> ELSE cancel_tx(t)
    /\ UNCHANGED <<wallet, net, sent, records, revealed, running, cut>>

\* A fixed amount whose recipient is the change address: cancelled, and again with its handle.
RejectAlias(t) ==
    /\ txs[t].st = "alias" /\ Works
    /\ SetSt(t, "released") /\ cancel_tx(t)
    /\ UNCHANGED <<wallet, net, sent, records, revealed, running, cut>>

\* The broadcast queue's task takes a transaction and gives it to the backend.
process_broadcast_package(t) ==
    /\ txs[t].st = "queued" /\ running /\ Works
    /\ Deliver(t) /\ SetSt(t, "done")
    /\ UNCHANGED <<wallet, records, marks, revealed, running, freed, cut>>

-----------------------------------------------------------------------------
(* Fee bumps: built, recorded and queued under the wallet's lock *)

\* The new transaction is queued, dropped by a full queue, cancelled because its record could
\* not be written, or lost because the wallet's changes could not be stored.
Issue(kind, root, b, i, self, used) ==
    \/ /\ Works /\ NewTx(kind, root, b, i, self, "queued") /\ records' = records \cup {Len(txs) + 1}
       /\ marks' = used /\ Reveal(i, TRUE)
    \/ /\ Fault /\ marks' = used /\ UNCHANGED <<txs, records>> /\ Reveal(i, FALSE)
    \/ /\ Fault /\ UNCHANGED <<txs, records, marks>> /\ Reveal(i, TRUE)

Confirmable(t) == t \in wallet.graph \ wallet.conf

PrimaryOnly(t) == \A c \in AllCoins : c.op \in txs[t].ins => c.acct = Primary

\* Coins that a replacement may add: confirmed, and not from the original.
Addable(t) == ConfirmedCoins(Without(list_unspent, {t}))

Replacements(t, rate) ==
    IF PrimaryOnly(t)
    THEN build_rbf_primary_with_fallback(txs[t], InputValue(t), Addable(t) \cap primaryCoins,
                                         Addable(t) \ primaryCoins, rate)
    ELSE build_cross_wallet_rbf_with_fallback(txs[t], InputValue(t), Addable(t), rate)

bump_fee_by_rbf(t, rate) ==
    /\ running /\ Len(txs) < MaxTxs
    /\ t \in records /\ ~is_funding_transaction(t) /\ Confirmable(t)
    /\ rate >= minimum_replacement_fee_rate(txs[t])
    /\ \E b \in Replacements(t, rate) :
         LET i == IF PrimaryOnly(t) THEN Taken(b, marks) ELSE txs[t].idx
         IN  Issue("rbf", txs[t].root, b, i, txs[t].self,
                   IF PrimaryOnly(t) THEN (marks \cup {i}) \ {NoIndex} ELSE marks)
    /\ cut' = TRUE
    /\ UNCHANGED <<wallet, net, sent, running, freed>>

CpfpRate(t) == calculate_cpfp_fee_rate(txs[t].fee, Weight(Cardinality(txs[t].ins)), UrgentRate)

\* The child goes to a given address, or to an unused index of ours that is not marked.
accelerate_by_cpfp(t, rate, own) ==
    /\ running /\ Len(txs) < MaxTxs /\ Confirmable(t)
    /\ \E b \in build_cpfp({c \in list_unspent : c.tx = t}, rate) :
         Issue("cpfp", 0, b, IF own THEN NextUnused(marks) ELSE NoIndex, own, marks)
    /\ cut' = TRUE
    /\ UNCHANGED <<wallet, net, sent, running, freed>>

-----------------------------------------------------------------------------
(* Channel funding, and the outside *)

\* create_funding_transaction: built, signed and stored; LDK keeps it.
create_funding_transaction ==
    /\ running /\ Len(txs) < MaxTxs /\ Works
    /\ \E b \in build_and_sign_funding_tx(list_unspent, Legacy, FundAmount, SendRate) :
         LET i == Taken(b, marks)
         IN  /\ NewTx("fund", 0, b, i, FALSE, "ldk")
             /\ marks' = (marks \cup {i}) \ {NoIndex} /\ Reveal(i, TRUE)
    /\ cut' = TRUE
    /\ UNCHANGED <<wallet, net, sent, records, running, freed>>

\* LDK broadcasts the funding transaction once the peer has signed, or forgets it.
FundingSigned(t, yes) ==
    /\ txs[t].st = "ldk" /\ running /\ Works
    /\ IF yes THEN SetSt(t, "queued") ELSE Forget(t)
    /\ UNCHANGED <<wallet, net, sent, records, marks, revealed, running, freed, cut>>

\* BumpTransaction: LDK spends confirmed coins of any type to bump an anchor.  The change goes to
\* the next unused index, which is stored but not marked.
list_confirmed_utxos == ConfirmedCoins(list_unspent)

BumpTransaction ==
    /\ running /\ Len(txs) < MaxTxs /\ Works
    /\ \E c \in list_confirmed_utxos :
         LET b == Finished({c}, 0, SendRate)
             i == NextUnused(marks)
         IN  /\ b.chg # 0
             /\ NewTx("anchor", 0, b, i, FALSE, "queued") /\ Reveal(i, TRUE)
    /\ cut' = TRUE
    /\ UNCHANGED <<wallet, net, sent, records, marks, running, freed>>

\* A sync: the wallet learns what the network has.
Sync ==
    /\ running /\ Works
    /\ wallet' = [seen |-> wallet.seen \cup net.mem \cup net.conf,
                  graph |-> net.mem \cup net.conf, conf |-> net.conf]
    /\ UNCHANGED <<txs, net, sent, records, marks, revealed, running, freed, cut>>

\* A miner may take any transaction that was ever sent, replaced or not.
Confirm(t) ==
    /\ t \in sent \ net.conf /\ Works
    /\ Exists(t, net.conf) /\ Spenders(txs[t].ins, net.conf) = {}
    /\ net' = [conf |-> net.conf \cup {t},
               mem |-> (net.mem \ {t}) \ Descendants(Spenders(txs[t].ins, net.mem \ {t}), net.mem)]
    /\ UNCHANGED <<txs, wallet, sent, records, marks, revealed, running, freed, cut>>

Evict(t) ==
    /\ t \in net.mem /\ Fault
    /\ net' = [net EXCEPT !.mem = @ \ Descendants({t}, net.mem)]
    /\ UNCHANGED <<txs, wallet, sent, records, marks, revealed, running, freed, cut>>

Stop ==
    /\ running /\ Fault /\ running' = FALSE
    /\ UNCHANGED <<txs, wallet, net, sent, records, marks, revealed, freed, cut>>

Start ==
    /\ ~running /\ Works /\ running' = TRUE
    /\ UNCHANGED <<txs, wallet, net, sent, records, marks, revealed, freed, cut>>

\* What is in memory only is lost: transactions not yet sent, marks, revealed indices.
Crash ==
    /\ Fault
    /\ txs' = [t \in Tx |-> IF t \in sent THEN txs[t] ELSE Forgotten(t)]
    /\ marks' = {}
    /\ freed' = freed \cup ({txs[t].idx : t \in {u \in Tx : Live(u)} \ wallet.seen} \ {NoIndex})
    /\ revealed' = [revealed EXCEPT !.mem = revealed.disk]
    /\ running' = TRUE
    /\ UNCHANGED <<wallet, net, sent, records, cut>>

-----------------------------------------------------------------------------
Init ==
    /\ txs = <<[kind |-> "deposit", root |-> 1, ins |-> {}, pay |-> Deposit, self |-> TRUE, chg |-> 0,
                idx |-> NoIndex, fee |-> 1, st |-> "done"]>>
    /\ wallet = [seen |-> {1}, graph |-> {1}, conf |-> {}]
    /\ net = [mem |-> {1}, conf |-> {}]
    /\ sent = {1} /\ records = {} /\ marks = {}
    /\ revealed = [mem |-> 0, disk |-> 0]
    /\ running = TRUE /\ freed = {} /\ cut = FALSE /\ faults = 0

Sends ==
    \/ \E kind \in {"exact", "all", "drain"}, route \in {"queue", "handle"} :
          prepare_send_to_address(kind, {}, route, FALSE)
    \/ \E manual \in UNION {kSubset(k, get_spendable_utxos) : k \in 1..MaxManual} :
          prepare_send_to_address("exact", manual, "handle", FALSE)
    \/ prepare_send_to_address("exact", {}, "handle", TRUE)
    \/ calculate_transaction_fee
    \/ create_funding_transaction
    \/ BumpTransaction
    \/ \E t \in Tx, rate \in BumpRates : bump_fee_by_rbf(t, rate)
    \/ \E t \in Tx, own \in BOOLEAN : \E rate \in BumpRates \cup {CpfpRate(t)} :
          accelerate_by_cpfp(t, rate, own)

Steps ==
    \/ \E t \in Tx : \/ send_to_address(t) \/ broadcast(t) \/ broadcast_user_transaction(t)
                     \/ DropHandle(t) \/ RejectAlias(t) \/ process_broadcast_package(t)
                     \/ \E yes \in BOOLEAN : FundingSigned(t, yes)
                     \/ Confirm(t) \/ Evict(t)
    \/ Sync \/ Stop \/ Start \/ Crash

Next == Sends \/ Steps

Spec == Init /\ [][Next]_vars

-----------------------------------------------------------------------------
\* What reached a backend can be found and bumped after a restart: every transaction of ours that
\* did has a broadcast record (LDK's funding and anchor transactions excepted) and a change index that the store
\* knows to be revealed, whichever of its writes have failed before.
SentIsStored ==
    \A t \in sent \ {1} : /\ txs[t].kind \in {"fund", "anchor"} \/ t \in records
                          /\ txs[t].idx < revealed.disk

\* A payment that keeps the reserve keeps it: if all transactions that may still be confirmed
\* are, the wallet has the anchor reserve left - unless one was built while the wallet did not
\* know of another, or one that never considers the reserve was built: a drain, a funding
\* transaction, an anchor bump, a replacement or a child.
ReserveKept ==
    LET K == Known({t \in Tx : Live(t)}, net.conf)
    IN  ~cut => (IF IncludeUntrusted THEN Value(K) ELSE trusted_spendable(K)) >= Reserve

\* A payment and its replacements pay once: at most one of them is confirmed, whatever the
\* miners choose, and it pays the recipient what the original did.
PaidOnce ==
    \A t, u \in net.conf : txs[t].root = txs[u].root => t = u /\ txs[t].pay = txs[txs[t].root].pay

\* Two payments never send their change to one index, which would link them and make the one's
\* cancellation free the other's: unless the index was given back while in use - by a restart, by
\* the temporary drain of a send-all, by the second cancellation of an aliased candidate - or was
\* never marked (the child of an acceleration, the change of an anchor bump).
NoSharedChange ==
    \A t, u \in Tx : (/\ txs[t].root # txs[u].root /\ Live(t) /\ Live(u)
                      /\ txs[t].idx = txs[u].idx /\ txs[t].idx # NoIndex)
                    => \/ txs[t].idx \in freed
                       \/ {txs[t].kind, txs[u].kind} \cap {"cpfp", "anchor"} # {}
=============================================================================

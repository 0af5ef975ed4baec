----------------------------- MODULE WalletSync -----------------------------
(***************************************************************************)
(* The on-chain wallet sync of the transaction based chain sources         *)
(* (chain/mod.rs, chain/electrum.rs, chain/esplora.rs).  The background    *)
(* sync loop and callers of sync_wallets() share one WalletSyncStatus: the *)
(* first to register drives the sync, the others subscribe to its result.  *)
(* The driver fetches an update for every wallet account, applies them,    *)
(* and answers its subscribers.  Driver and subscribers alike then push    *)
(* user events: wallet events, evictions, SyncCompleted, BalanceChanged.   *)
(***************************************************************************)
EXTENDS Naturals, FiniteSets, SequencesExt

CONSTANTS
    Tasks,      \* callers of sync_onchain_wallet_with_events
    Loop,       \* those of them that are background tasks, which can be cancelled
    AllAccounts,  \* wallet accounts of the aggregate wallet
    Primary,    \* the primary one
    Txs,        \* transactions, each touching every account
    Blocks,     \* blocks a transaction may be confirmed in
    Pending,    \* a fetch that has not ended
    Failed,     \* one that ended with an error
    Plans       \* bounds, per question: [accounts, blocks, faults, syncs, moves]

ASSUME WalletSyncAssumption ==
    /\ Loop \subseteq Tasks
    /\ Primary \in AllAccounts
    /\ Blocks \cap {"absent", "unconf", "replaced", "received", "reorged", "evicted"} = {}
    /\ \A p \in Plans :
          /\ Primary \in p.accounts /\ p.accounts \subseteq AllAccounts
          /\ p.blocks \subseteq Blocks
          /\ p.faults \subseteq {"fetch", "persist", "push", "abort", "crash"}
          /\ "crash" \in p.faults => p.faults \cap {"push", "persist"} = {}
          /\ p.syncs \in [Tasks -> Nat] /\ p.moves \in Nat

VARIABLES
    plan,     \* one of Plans: the accounts there are, what may happen and how often
    chain,    \* the server's view: status of every transaction
    moves,    \* number of changes of the chain so far, its age
    wallet,   \* account -> [asOf: age of the update applied last, txs: status per transaction]
    status,   \* WalletSyncStatus of the on-chain wallet
    subs,     \* tasks subscribed to the sync in progress
    sync,     \* task -> its call of sync_onchain_wallet_with_events
    begun,    \* task -> calls begun
    told,     \* transaction -> on-chain events pushed about it, in order
    known,    \* NodeMetrics: last known balance
    toldBal,  \* balance in the last BalanceChanged event
    lost      \* history: a crash, a cancelled task, a failing write or a call that began
              \* during another may have lost an event

vars == <<plan, chain, moves, wallet, status, subs, sync, begun, told, known, toldBal, lost>>

Stored == {"absent", "unconf"} \cup Blocks
WalletEvent == {"confirmed", "reorged", "received", "replaced"} \X Txs

Accounts == plan.accounts
Faults == plan.faults

-----------------------------------------------------------------------------
(* The aggregate wallet *)

\* canonical_transaction_states: confirmed only if every tracking account agrees on the block.
CanonicalState(w, x) ==
    LET tracked == {w[a].txs[x] : a \in Accounts} \ {"absent"}
    IN  IF tracked = {} THEN "absent"
        ELSE IF \E b \in Blocks : tracked = {b} THEN CHOOSE b \in Blocks : tracked = {b}
        ELSE "unconf"

unconfirmed_txids(w) == {x \in Txs : CanonicalState(w, x) = "unconf"}

transaction_confirmations(w) == [x \in {y \in Txs : CanonicalState(w, y) \in Blocks}
                                    |-> CanonicalState(w, x)]

get_balances(w) ==
    [total |-> {x \in Txs : CanonicalState(w, x) # "absent"},
     spendable |-> {x \in Txs : CanonicalState(w, x) \in Blocks}]

NoBalance == [total |-> {}, spendable |-> {}]

\* What BDK reports of a transaction that was in state old when an update says new.
\* The other reports (TxDropped, ChainTipChanged) are ignored by process_wallet_events.
BdkReports(old, new) ==
    IF new \in Blocks /\ old # new THEN {"confirmed"}
    ELSE IF new = "unconf" /\ old \in Blocks THEN {"reorged"}
    ELSE IF new = "unconf" /\ old = "absent" THEN {"received"}
    ELSE IF new = "replaced" /\ old # "absent" THEN {"replaced"}
    ELSE {}

wallet_events(old, update) ==
    SetToSeq({e \in WalletEvent : e[1] \in BdkReports(old.txs[e[2]], update.txs[e[2]])})

\* A conflicting transaction made the replaced one leave the canonical set.
Applied(update) ==
    [update EXCEPT !.txs = [x \in Txs |-> IF @[x] = "replaced" THEN "absent" ELSE @[x]]]

-----------------------------------------------------------------------------
(* Calls *)

Idle == [pc |-> "idle", prev |-> {}, got |-> [a \in Accounts |-> Pending],
         due |-> {}, events |-> <<>>, cur |-> {}, err |-> FALSE,
         began |-> 0, bal |-> NoBalance]

Init ==
    /\ plan \in Plans
    /\ chain = [x \in Txs |-> "absent"]
    /\ moves = 0
    /\ wallet = [a \in Accounts |-> [asOf |-> 0, txs |-> [x \in Txs |-> "absent"]]]
    /\ status = "Completed"
    /\ subs = {}
    /\ sync = [t \in Tasks |-> Idle]
    /\ begun = [t \in Tasks |-> 0]
    /\ told = [x \in Txs |-> <<>>]
    /\ known = NoBalance
    /\ toldBal = NoBalance
    /\ lost = FALSE

\* The call of t goes on at pc with the given fields.
Goes(t, call) == sync' = [sync EXCEPT ![t] = call]
At(t, pc) == sync[t].pc = pc
To(t, pc) == Goes(t, [sync[t] EXCEPT !.pc = pc])

Return(t) == Goes(t, Idle)

unchangedWallet == UNCHANGED <<plan, chain, moves, wallet, lost>>
unchangedStatus == UNCHANGED <<status, subs>>
unchangedTold == UNCHANGED <<told, known, toldBal>>

\* A tick of the sync loop or a call of sync_wallets: note what is unconfirmed now.
Begin(t) ==
    /\ At(t, "idle") /\ begun[t] < plan.syncs[t]
    /\ begun' = [begun EXCEPT ![t] = @ + 1]
    /\ Goes(t, [Idle EXCEPT !.pc = "register", !.prev = unconfirmed_txids(wallet),
                            !.began = moves])
    /\ lost' = (lost \/ \E u \in Tasks : ~At(u, "idle"))
    /\ UNCHANGED <<plan, chain, moves, wallet>> /\ unchangedStatus /\ unchangedTold

register_or_subscribe_pending_sync(t) ==
    /\ At(t, "register")
    /\ \/ /\ status = "Completed"
          /\ status' = "InProgress"
          /\ subs' = {}
          /\ To(t, "fetch")
       \/ /\ status = "InProgress"
          /\ subs' = subs \cup {t}
          /\ To(t, "wait")
          /\ UNCHANGED status
    /\ UNCHANGED begun /\ unchangedWallet /\ unchangedTold

\* collect_additional_sync_requests fails: the sync ends before any account was asked for.
RequestsFail(t) ==
    /\ "fetch" \in Faults
    /\ At(t, "fetch") /\ sync[t].got = Idle.got
    /\ Goes(t, [sync[t] EXCEPT !.pc = "propagate", !.err = TRUE])
    /\ UNCHANGED begun /\ unchangedWallet /\ unchangedStatus /\ unchangedTold

\* One task of the JoinSet ends: with the server's view of this moment, an error or a timeout.
FetchAccount(t, a) ==
    /\ At(t, "fetch") /\ sync[t].got[a] = Pending
    /\ \E res \in {[asOf |-> moves, txs |-> chain]} \cup
                  (IF "fetch" \in Faults THEN {Failed} ELSE {}) :
         Goes(t, [sync[t] EXCEPT !.got[a] = res])
    /\ UNCHANGED begun /\ unchangedWallet /\ unchangedStatus /\ unchangedTold

AllFetched(t) ==
    /\ At(t, "fetch")
    /\ \A a \in Accounts : sync[t].got[a] # Pending
    /\ Goes(t, [sync[t] EXCEPT !.pc = "apply", !.due = Accounts])
    /\ UNCHANGED begun /\ unchangedWallet /\ unchangedStatus /\ unchangedTold

\* Mutant: the error of an account is logged only.
ApplyForgiving(t, a) ==
    LET call == sync[t] IN
    /\ At(t, "apply") /\ a \in call.due
    /\ Primary \in call.due => a = Primary
    /\ wallet' = IF call.got[a] = Failed THEN wallet
                 ELSE [wallet EXCEPT ![a] = Applied(call.got[a])]
    /\ Goes(t, [call EXCEPT !.due = @ \ {a}])
    /\ UNCHANGED <<plan, chain, moves, begun, lost>> /\ unchangedStatus /\ unchangedTold

\* apply_wallet_sync_results: the primary account first.  An update whose changes cannot be
\* persisted stays in memory, and the events that it caused are dropped with the error.
ApplyAccount(t, a) ==
    LET call == sync[t] IN
    /\ At(t, "apply") /\ a \in call.due
    /\ Primary \in call.due => a = Primary
    /\ \/ /\ call.got[a] = Failed
          /\ Goes(t, [call EXCEPT !.due = @ \ {a}, !.err = TRUE])
          /\ UNCHANGED <<wallet, lost>>
       \/ /\ call.got[a] # Failed
          /\ wallet' = [wallet EXCEPT ![a] = Applied(call.got[a])]
          /\ \/ /\ Goes(t, [call EXCEPT !.due = @ \ {a},
                                     !.events = @ \o wallet_events(wallet[a], call.got[a])])
                /\ UNCHANGED lost
             \/ /\ "persist" \in Faults /\ lost' = TRUE
                /\ Goes(t, [call EXCEPT !.due = @ \ {a}, !.err = TRUE])
    /\ UNCHANGED <<plan, chain, moves, begun>> /\ unchangedStatus /\ unchangedTold

\* update_payment_store_for_all_transactions may fail as well.
AllApplied(t) ==
    /\ At(t, "apply") /\ sync[t].due = {}
    /\ \E fails \in (IF "persist" \in Faults THEN BOOLEAN ELSE {FALSE}) :
         Goes(t, [sync[t] EXCEPT !.pc = "propagate", !.err = @ \/ fails])
    /\ UNCHANGED begun /\ unchangedWallet /\ unchangedStatus /\ unchangedTold

\* Mutant: a failed sync leaves its subscribers without a result.
PropagateOnlyOk(t) ==
    /\ At(t, "propagate")
    /\ status' = "Completed"
    /\ subs' = {}
    /\ sync' = [u \in Tasks |->
                  IF u = t \/ (u \in subs /\ ~sync[t].err)
                  THEN [sync[u] EXCEPT !.pc = "process"] ELSE sync[u]]
    /\ UNCHANGED begun /\ unchangedWallet /\ unchangedTold

\* The subscribers get the result, but none of the wallet events.
propagate_result_to_subscribers(t) ==
    /\ At(t, "propagate")
    /\ status' = "Completed"
    /\ subs' = {}
    /\ sync' = [u \in Tasks |->
                  IF u = t THEN [sync[u] EXCEPT !.pc = "process"]
                  ELSE IF u \in subs THEN [sync[u] EXCEPT !.pc = "process", !.err = sync[t].err]
                  ELSE sync[u]]
    /\ UNCHANGED begun /\ unchangedWallet /\ unchangedTold

-----------------------------------------------------------------------------
(* Events for the user *)

\* The first of equal events is kept (the seen_..._txids sets).
Deduplicated(events) ==
    LET firsts == {i \in DOMAIN events : \A j \in 1..(i - 1) : events[j] # events[i]}
    IN  [k \in 1..Cardinality(firsts) |->
            events[CHOOSE i \in firsts : Cardinality({j \in firsts : j <= i}) = k]]

\* process_wallet_events: a confirmation is told with the block all accounts agree on, and
\* left out when they do not agree.
UserEvents(events, confirmations) ==
    LET agreed(e) == e[1] = "confirmed" => e[2] \in DOMAIN confirmations
        user(e) == IF e[1] = "confirmed" THEN <<confirmations[e[2]], e[2]>> ELSE e
        kept == SelectSeq(Deduplicated(events), agreed)
    IN  [i \in DOMAIN kept |-> user(kept[i])]

process_wallet_events(t) ==
    /\ At(t, "process")
    /\ Goes(t, [sync[t] EXCEPT !.pc = "push",
                               !.events = UserEvents(@, transaction_confirmations(wallet))])
    /\ UNCHANGED begun /\ unchangedWallet /\ unchangedStatus /\ unchangedTold

\* add_event: an event whose write fails is in the queue all the same.
Tells(e) == told' = [told EXCEPT ![e[2]] = Append(@, e[1])]

PushEvent(t) ==
    LET call == sync[t] IN
    /\ At(t, "push")
    /\ \/ /\ call.events # <<>>
          /\ Tells(Head(call.events))
          /\ \/ Goes(t, [call EXCEPT !.events = Tail(@)]) /\ UNCHANGED lost
             \/ "push" \in Faults /\ lost' = TRUE /\ Return(t)
       \/ /\ call.events = <<>> /\ call.err
          /\ Return(t)
          /\ UNCHANGED <<told, lost>>
       \/ /\ call.events = <<>> /\ ~call.err
          /\ To(t, "current")
          /\ UNCHANGED <<told, lost>>
    /\ UNCHANGED <<plan, chain, moves, wallet, begun, known, toldBal>> /\ unchangedStatus

\* check_evicted_transactions takes the wallet's lock twice: first the unconfirmed ...
CurrentUnconfirmed(t) ==
    /\ At(t, "current")
    /\ Goes(t, [sync[t] EXCEPT !.pc = "evicted", !.cur = unconfirmed_txids(wallet)])
    /\ UNCHANGED begun /\ unchangedWallet /\ unchangedStatus /\ unchangedTold

\* Mutant: a transaction that left the mempool for a block counts as evicted.
EvictedIfNotPending(t) ==
    /\ At(t, "evicted")
    /\ Goes(t, [sync[t] EXCEPT !.pc = "evict",
                               !.events = SetToSeq({<<"evicted", x>> : x \in sync[t].prev \ sync[t].cur})])
    /\ UNCHANGED begun /\ unchangedWallet /\ unchangedStatus /\ unchangedTold

\* ... then the confirmed ones.
check_evicted_transactions(t) ==
    LET gone == (sync[t].prev \ sync[t].cur) \ DOMAIN transaction_confirmations(wallet) IN
    /\ At(t, "evicted")
    /\ Goes(t, [sync[t] EXCEPT !.pc = "evict",
                               !.events = SetToSeq({<<"evicted", x>> : x \in gone})])
    /\ UNCHANGED begun /\ unchangedWallet /\ unchangedStatus /\ unchangedTold

\* A failing push of an eviction is only logged.
PushEvicted(t) ==
    /\ At(t, "evict") /\ sync[t].events # <<>>
    /\ Tells(Head(sync[t].events))
    /\ Goes(t, [sync[t] EXCEPT !.events = Tail(@)])
    /\ UNCHANGED <<begun, known, toldBal>> /\ unchangedWallet /\ unchangedStatus

\* The event itself is left out: only its failing push matters.
SyncCompleted(t) ==
    /\ At(t, "evict") /\ sync[t].events = <<>>
    /\ \/ Goes(t, [sync[t] EXCEPT !.pc = "compare", !.bal = get_balances(wallet)])
       \/ "push" \in Faults /\ Return(t)
    /\ UNCHANGED begun /\ unchangedWallet /\ unchangedStatus /\ unchangedTold

\* check_and_emit_balance_update reads the known balance and drops the lock ...
CompareBalance(t) ==
    /\ At(t, "compare")
    /\ IF known = sync[t].bal THEN Return(t) ELSE To(t, "tell")
    /\ UNCHANGED begun /\ unchangedWallet /\ unchangedStatus /\ unchangedTold

BalanceChanged(t) ==
    /\ At(t, "tell")
    /\ toldBal' = sync[t].bal
    /\ \/ To(t, "note") /\ UNCHANGED lost
       \/ "push" \in Faults /\ lost' = TRUE /\ Return(t)
    /\ UNCHANGED <<plan, chain, moves, wallet, begun, told, known>> /\ unchangedStatus

\* ... and takes it again, after the event was pushed, to note the new one.
NoteBalance(t) ==
    /\ At(t, "note")
    /\ known' = sync[t].bal
    /\ Return(t)
    /\ UNCHANGED <<begun, told, toldBal>> /\ unchangedWallet /\ unchangedStatus

-----------------------------------------------------------------------------
(* The chain, cancelled tasks and crashes *)

\* Where the chain may take a transaction in status s.
NextStatuses(s) ==
    IF s = "absent" THEN {"unconf"} \cup plan.blocks
    ELSE IF s = "unconf" THEN {"absent", "replaced"} \cup plan.blocks
    ELSE IF s \in plan.blocks
         THEN ({"unconf"} \cup plan.blocks) \ {s}
    ELSE {}

ChainMoves ==
    /\ moves < plan.moves
    /\ moves' = moves + 1
    /\ \E x \in Txs : \E s \in NextStatuses(chain[x]) : chain' = [chain EXCEPT ![x] = s]
    /\ UNCHANGED <<plan, wallet, sync, begun, lost>> /\ unchangedStatus /\ unchangedTold

\* The points where a call of a background task awaits something; at "note" it is the
\* write of the event that is already in the queue.
Awaits == {"fetch", "wait", "push", "evict", "tell", "note"}

\* The runtime cancels a background task: after a failure of the background processor, or
\* when it outlives the timeout of stop().  The next start() begins with a new task.
Cancel(t) ==
    /\ "abort" \in Faults
    /\ t \in Loop /\ sync[t].pc \in Awaits
    /\ Return(t)
    /\ subs' = subs \ {t}
    /\ lost' = TRUE
    /\ UNCHANGED <<plan, chain, moves, wallet, status, begun>> /\ unchangedTold

\* Crashes are not combined with failing writes: the wallet, the event queue and the metrics
\* that a restart reads are then the ones in memory.
Crash ==
    /\ "crash" \in Faults
    /\ \E t \in Tasks : sync[t].pc # "idle"
    /\ sync' = [t \in Tasks |-> Idle]
    /\ status' = "Completed" /\ subs' = {}
    /\ lost' = TRUE
    /\ UNCHANGED <<plan, chain, moves, wallet, begun>> /\ unchangedTold

Step(t) ==
    \/ register_or_subscribe_pending_sync(t)
    \/ RequestsFail(t)
    \/ \E a \in Accounts : FetchAccount(t, a) \/ ApplyAccount(t, a)
    \/ AllFetched(t) \/ AllApplied(t)
    \/ propagate_result_to_subscribers(t)
    \/ process_wallet_events(t) \/ PushEvent(t)
    \/ CurrentUnconfirmed(t) \/ check_evicted_transactions(t) \/ PushEvicted(t)
    \/ SyncCompleted(t)
    \/ CompareBalance(t) \/ BalanceChanged(t) \/ NoteBalance(t)

Next ==
    \/ \E t \in Tasks : Begin(t) \/ Step(t) \/ Cancel(t)
    \/ ChainMoves
    \/ Crash

Spec == Init /\ [][Next]_vars

\* Every fetch has a timeout and every store write ends, so a call that can go on does.
FairSpec == Spec /\ \A t \in Tasks : WF_vars(Step(t))

-----------------------------------------------------------------------------
(* Properties *)

Drivers == {t \in Tasks : sync[t].pc \in {"fetch", "apply", "propagate"}}
AllIdle == \A t \in Tasks : sync[t].pc = "idle"

\* A sync about to report Ok has applied, to every account, an update fetched after it began:
\* apply_wallet_sync_results keeps going past a failing account, and must not forget it.
OkIsComplete ==
    \A t \in Tasks : sync[t].pc = "propagate" /\ ~sync[t].err =>
        \A a \in Accounts : wallet[a].asOf >= sync[t].began

\* What the events told so far let the user believe of a transaction.
Meaning(e) ==
    IF e \in {"received", "reorged"} THEN "unconf"
    ELSE IF e \in {"replaced", "evicted"} THEN "absent"
    ELSE e

Believed(x) == IF told[x] = <<>> THEN "absent" ELSE Meaning(Last(told[x]))

\* The user's picture is right: the on-chain events (Received, Confirmed, Reorged, Replaced,
\* Evicted) and BalanceChanged, unless a crash, a cancelled task or a failing write lost one,
\* or a call noted the unconfirmed transactions while another still synced and so missed an
\* eviction.  When no call is in progress and the accounts agree on a transaction, its last
\* event says what the wallet says, unless it was confirmed and is gone from the wallet; and
\* a balance that NodeMetrics remembers, so that the next sync stays silent, is the one told
\* last.  With one account no Received or Reorged repeats what the event before it said, and
\* no eviction is told twice in a row; several accounts may each report what they saw at
\* different moments.
ToldIsCurrent ==
    ~lost =>
        /\ AllIdle =>
              /\ \A x \in Txs, s \in Stored :
                    (\A a \in Accounts : wallet[a].txs[x] = s) =>
                        Believed(x) = s \/ (s = "absent" /\ Believed(x) \in Blocks)
              /\ known = get_balances(wallet) => toldBal = known
        /\ Cardinality(Accounts) = 1 => \A x \in Txs : \A i \in 2..Len(told[x]) :
              /\ Meaning(told[x][i]) = "unconf" => Meaning(told[x][i - 1]) # "unconf"
              /\ told[x][i] = "evicted" => told[x][i - 1] # "evicted"

\* Every call of a sync returns: the driver finishes whatever fails, and answers the others.
\* Only a driver that was cancelled leaves them waiting, subscribed to a sync that stays in
\* progress.
CallsReturn ==
    \A t \in Tasks :
        sync[t].pc # "idle" ~>
            \/ sync[t].pc = "idle"
            \/ sync[t].pc = "wait" /\ t \in subs /\ status = "InProgress" /\ Drivers = {}

=============================================================================

---------------------------- MODULE WalletAccounts ----------------------------
(***************************************************************************)
(* The set of on-chain wallets of a node (wallet/mod.rs, builder.rs,       *)
(* chain/mod.rs): address types and derived accounts that are added,       *)
(* removed and made primary while a sync with Esplora or Electrum runs,    *)
(* and what a restart makes of them.                                       *)
(*                                                                         *)
(* A new wallet must first be scanned in full; later syncs only look at    *)
(* what it has revealed.  Which of the two a wallet gets is decided by     *)
(* time stamps that are kept apart from the wallets.                       *)
(***************************************************************************)
EXTENDS Naturals, FiniteSetsExt

CONSTANTS
    Types,            \* address types: the accounts with index 0
    Derived,          \* derived accounts
    NoAccount,
    MaxMoves,         \* bound: calls that change the set of wallets
    MaxAddresses,     \* bound: addresses given out
    MaxFaults         \* bound: failed fetches and writes, restarts

Account == Types \cup Derived

ASSUME WalletAccountsAssumption ==
    /\ Types # {} /\ Types \cap Derived = {} /\ NoAccount \notin Account
    /\ {MaxMoves, MaxAddresses, MaxFaults} \subseteq Nat

VARIABLES
    loaded,     \* wallets in the aggregate
    primary,    \* its primary
    config,     \* address_type_runtime_config
    latest,     \* whether latest_onchain_wallet_sync_timestamp is set: in memory, stored
    stamps,     \* monitored_wallet_sync_timestamps: in memory, stored
    synced,     \* synced_derived_accounts
    op,         \* the call that holds operation_lock, between its steps
    sync,       \* the sync in progress
    revealed,   \* addresses revealed, by account: in memory, stored
    handed,     \* addresses given out, by account
    scanned,    \* history: wallets whose own full scan was applied
    excused,    \* history: wallets a sync took for scanned though they were not
    moves, faults

settings == <<loaded, primary, config, op, moves>>
metrics == <<latest, stamps, synced>>
addresses == <<revealed, handed>>
vars == <<settings, metrics, sync, addresses, scanned, excused, faults>>

Fault == faults < MaxFaults /\ faults' = faults + 1
Works == UNCHANGED faults
Move == moves < MaxMoves /\ moves' = moves + 1

Idle == [call |-> "none", a |-> NoAccount]
NoSync == [pc |-> "idle", full |-> FALSE, of |-> NoAccount, todo |-> {}, scans |-> {}, applied |-> FALSE]

\* Loading a wallet: what was revealed is what the store has.
Load(a) == revealed' = [revealed EXCEPT ![a].mem = revealed[a].disk]

-----------------------------------------------------------------------------
(* The accounts to sync besides the primary *)

\* Mutant: derived accounts are not synced.
MonitoredOnly == config.monitored

additional_wallet_accounts == config.monitored \cup config.derived

get_wallet_sync_timestamp(a) == a \in stamps.mem
should_use_incremental_sync(a) == IF a \in Types THEN get_wallet_sync_timestamp(a) ELSE a \in synced

-----------------------------------------------------------------------------
(* Calls.  Each holds operation_lock from its first step to its last. *)

\* Checked against the configuration; the wallet is then created without the wallets' lock.
add_monitored_address_type(a) ==
    /\ op = Idle /\ Move
    /\ a \in Types /\ a # config.primary /\ a \notin config.monitored
    /\ op' = [call |-> "monitor", a |-> a]
    /\ Load(a)
    /\ UNCHANGED <<loaded, primary, config, metrics, sync, handed, scanned, excused, faults>>

Monitor ==
    /\ op.call = "monitor" /\ op' = Idle /\ Works
    /\ loaded' = loaded \cup {op.a}
    /\ config' = [config EXCEPT !.monitored = @ \cup {op.a}]
    /\ UNCHANGED <<primary, metrics, sync, addresses, scanned, excused, moves>>

remove_monitored_address_type(a) ==
    /\ op = Idle /\ Move /\ Works
    /\ a \in config.monitored /\ a # config.primary
    /\ loaded' = loaded \ {a}
    /\ config' = [config EXCEPT !.monitored = @ \ {a}]
    /\ UNCHANGED <<primary, op, metrics, sync, addresses, scanned, excused>>

set_primary_address_type(a) ==
    /\ op = Idle /\ Move /\ Works
    /\ a \in Types /\ a # config.primary
    /\ op' = [call |-> "primary", a |-> a]
    /\ IF a \in loaded THEN UNCHANGED revealed ELSE Load(a)
    /\ UNCHANGED <<loaded, primary, config, metrics, sync, handed, scanned, excused>>

Switch ==
    /\ op.call = "primary" /\ Works
    /\ loaded' = loaded \cup {op.a} /\ primary' = op.a
    /\ config' = [config EXCEPT !.primary = op.a, !.monitored = (@ \ {op.a}) \cup {config.primary}]
    /\ op' = [op EXCEPT !.call = "clear"]
    /\ UNCHANGED <<metrics, sync, addresses, scanned, excused, moves>>

\* Mutant: the time stamp of the old primary stays.
KeepTimestamp ==
    /\ op.call = "clear" /\ op' = Idle /\ Works
    /\ UNCHANGED <<loaded, primary, config, metrics, sync, addresses, scanned, excused, moves>>

\* With the wallets' lock released: a type that was never synced is to be scanned in full.
ClearTimestamp ==
    /\ op.call = "clear" /\ op' = Idle /\ Works
    /\ latest' = [latest EXCEPT !.mem = @ /\ get_wallet_sync_timestamp(op.a)]
    /\ UNCHANGED <<loaded, primary, config, stamps, synced, sync, addresses, scanned, excused, moves>>

add_onchain_wallet_account(a) ==
    /\ op = Idle /\ Move /\ Works
    /\ a \in Derived \ loaded
    /\ op' = [call |-> "derive", a |-> a]
    /\ Load(a)
    /\ UNCHANGED <<loaded, primary, config, metrics, sync, handed, scanned, excused>>

\* add_wallet_and_persist takes the wallet out again when it cannot be stored.
Derive ==
    /\ op.call = "derive" /\ op' = Idle
    /\ \/ /\ Works
          /\ loaded' = loaded \cup {op.a}
          /\ config' = [config EXCEPT !.derived = @ \cup {op.a}]
       \/ Fault /\ UNCHANGED <<loaded, config>>
    /\ UNCHANGED <<primary, metrics, sync, addresses, scanned, excused, moves>>

remove_onchain_wallet_account(a) ==
    /\ op = Idle /\ Move /\ Works
    /\ a \in config.derived
    /\ loaded' = loaded \ {a}
    /\ op' = [call |-> "underive", a |-> a]
    /\ UNCHANGED <<primary, config, metrics, sync, addresses, scanned, excused>>

Underive ==
    /\ op.call = "underive" /\ op' = Idle /\ Works
    /\ config' = [config EXCEPT !.derived = @ \ {op.a}]
    /\ synced' = synced \ {op.a}
    /\ UNCHANGED <<loaded, primary, latest, stamps, sync, addresses, scanned, excused, moves>>

-----------------------------------------------------------------------------
(* Addresses *)

Given == MapThenSumSet(LAMBDA a : revealed[a].mem, Account)

\* Mutant: an address is given out although it could not be stored.
HandOutUnstored(a) ==
    /\ a \in loaded /\ Given < MaxAddresses
    /\ \E stored \in BOOLEAN :
         /\ IF stored THEN Works ELSE Fault
         /\ revealed' = [revealed EXCEPT ![a].mem = @ + 1,
                                         ![a].disk = IF stored THEN revealed[a].mem + 1 ELSE @]
    /\ handed' = [handed EXCEPT ![a] = revealed'[a].mem]
    /\ UNCHANGED <<settings, metrics, sync, scanned, excused>>

\* new_address_info_for: the next index is revealed and stored, and given out if that worked.
new_address_info_for(a) ==
    /\ a \in loaded /\ Given < MaxAddresses
    /\ LET n == revealed[a].mem + 1
       IN  \/ Works /\ revealed' = [revealed EXCEPT ![a] = [mem |-> n, disk |-> n]]
              /\ handed' = [handed EXCEPT ![a] = n]
           \/ Fault /\ revealed' = [revealed EXCEPT ![a].mem = n] /\ UNCHANGED handed
    /\ UNCHANGED <<settings, metrics, sync, scanned, excused>>

-----------------------------------------------------------------------------
(* The sync *)

\* The kind of the primary's sync and the list of the other accounts are read first.
ListAccounts ==
    /\ sync.pc = "idle" /\ Works
    /\ sync' = [NoSync EXCEPT !.pc = "listed", !.full = ~latest.mem, !.todo = additional_wallet_accounts]
    /\ UNCHANGED <<settings, metrics, addresses, scanned, excused>>

\* The requests: an account that is not loaded fails the whole sync.
collect_additional_sync_requests ==
    /\ sync.pc = "listed" /\ Works
    /\ sync' = IF sync.todo \subseteq loaded
               THEN [sync EXCEPT !.pc = "fetched", !.of = primary,
                                 !.scans = {a \in sync.todo : ~should_use_incremental_sync(a)}]
               ELSE NoSync
    /\ UNCHANGED <<settings, metrics, addresses, scanned, excused>>

\* The primary's update is applied to the wallet that is primary by now, or its fetch has failed.
ApplyPrimary ==
    /\ sync.pc = "fetched"
    /\ \/ /\ Works
          /\ sync' = [sync EXCEPT !.pc = "rest", !.applied = TRUE]
          /\ latest' = [latest EXCEPT !.mem = TRUE]
          /\ scanned' = IF sync.full /\ sync.of = primary THEN scanned \cup {primary} ELSE scanned
          /\ excused' = IF sync.of = primary /\ (sync.full \/ primary \in scanned) THEN excused
                        ELSE excused \cup {primary}
       \/ Fault /\ sync' = [sync EXCEPT !.pc = "rest"] /\ UNCHANGED <<latest, scanned, excused>>
    /\ UNCHANGED <<settings, stamps, synced, addresses>>

\* Another account's update: ignored when its wallet is gone, and noted otherwise.  This takes
\* operation_lock.
apply_additional_sync_results(a) ==
    /\ sync.pc = "rest" /\ a \in sync.todo /\ op = Idle
    /\ \/ /\ Works /\ a \in loaded
          /\ sync' = [sync EXCEPT !.todo = @ \ {a}, !.applied = TRUE]
          /\ stamps' = IF a \in Types THEN [stamps EXCEPT !.mem = @ \cup {a}] ELSE stamps
          /\ synced' = IF a \in Derived THEN synced \cup {a} ELSE synced
          /\ scanned' = IF a \in sync.scans THEN scanned \cup {a} ELSE scanned
       \/ /\ IF a \in loaded THEN Fault ELSE Works
          /\ sync' = [sync EXCEPT !.todo = @ \ {a}]
          /\ UNCHANGED <<stamps, synced, scanned>>
    /\ UNCHANGED <<settings, latest, addresses, excused>>

\* The time stamps are written when anything was applied.
WriteMetrics ==
    /\ sync.pc = "rest" /\ sync.todo = {} /\ sync' = NoSync
    /\ \/ /\ Works
          /\ IF sync.applied
             THEN latest' = [latest EXCEPT !.disk = latest.mem] /\ stamps' = [stamps EXCEPT !.disk = stamps.mem]
             ELSE UNCHANGED <<latest, stamps>>
       \/ sync.applied /\ Fault /\ UNCHANGED <<latest, stamps>>
    /\ UNCHANGED <<settings, synced, addresses, scanned, excused>>

-----------------------------------------------------------------------------
(* Restarts *)

\* build_additional_wallets goes on without an address type that cannot be loaded, which stays in
\* the configuration; a derived account that cannot be loaded fails the build.
Build(p, mon, der, failed) ==
    /\ loaded' = ({p} \cup mon \cup der) \ failed
    /\ primary' = p
    /\ config' = [primary |-> p, monitored |-> mon, derived |-> der]
    /\ op' = Idle /\ sync' = NoSync /\ synced' = {}
    /\ latest' = [latest EXCEPT !.mem = latest.disk]
    /\ stamps' = [stamps EXCEPT !.mem = stamps.disk]
    /\ revealed' = [a \in Account |-> [revealed[a] EXCEPT !.mem = revealed[a].disk]]
    /\ excused' = IF latest.disk /\ p \notin scanned THEN excused \cup {p} ELSE excused

\* The process ends at any point, and the node is built again from any configuration.
Restart ==
    /\ Fault
    /\ \E p \in Types, mon \in SUBSET Types, der \in SUBSET Derived :
         \E failed \in SUBSET (mon \ {p}) : Build(p, mon \ {p}, der, failed)
    /\ UNCHANGED <<handed, scanned, moves>>

-----------------------------------------------------------------------------
Init ==
    /\ \E p \in Types :
         /\ loaded = {p} /\ primary = p
         /\ config = [primary |-> p, monitored |-> {}, derived |-> {}]
    /\ latest = [mem |-> FALSE, disk |-> FALSE] /\ stamps = [mem |-> {}, disk |-> {}]
    /\ synced = {} /\ op = Idle /\ sync = NoSync
    /\ revealed = [a \in Account |-> [mem |-> 0, disk |-> 0]] /\ handed = [a \in Account |-> 0]
    /\ scanned = {} /\ excused = {} /\ moves = 0 /\ faults = 0

Begin == \E a \in Account :
    \/ add_monitored_address_type(a) \/ remove_monitored_address_type(a) \/ set_primary_address_type(a)
    \/ add_onchain_wallet_account(a) \/ remove_onchain_wallet_account(a)
    \/ new_address_info_for(a)

Finish == Monitor \/ Switch \/ ClearTimestamp \/ Derive \/ Underive

SyncStep == \/ ListAccounts \/ collect_additional_sync_requests \/ ApplyPrimary
            \/ \E a \in Account : apply_additional_sync_results(a)
            \/ WriteMetrics

Next == Begin \/ Finish \/ SyncStep \/ Restart

\* A call that has begun goes on, and the sync loop begins a sync whenever the last one is over.
FairSpec == Init /\ [][Next]_vars /\ WF_vars(Finish) /\ WF_vars(SyncStep)

-----------------------------------------------------------------------------
\* Configured address types whose wallet could not be loaded.
Missing == config.monitored \ loaded

\* An incremental sync is for wallets that have been scanned: when the next sync of a loaded wallet
\* looks only at what the wallet has revealed, its own full scan was applied before, whatever was
\* added, removed, switched or restarted meanwhile - unless the update of a sync begun before a
\* switch was applied to the new primary, or a restart made another type primary while the stored
\* time stamp was of the old one.
FullScanFirst ==
    op = Idle => \A a \in loaded :
        (IF a = primary THEN latest.mem ELSE should_use_incremental_sync(a)) => a \in scanned \cup excused

\* An address that was given out is watched for, and not given out again: it counts as revealed
\* in its wallet whenever that is loaded, after failed writes, removal, re-adding and restarts.
AddressesWatched == \A a \in loaded : handed[a] <= revealed[a].mem

\* Every wallet that stays loaded is in the end scanned in full, once faults and calls have
\* ceased - unless excused as above, or unless a configured address type is missing, which fails
\* every sync.
EveryAccountScanned == <>[](Missing # {} \/ loaded \subseteq scanned \cup excused)
=============================================================================

--------------------------- MODULE AggregateWallet ---------------------------
(***************************************************************************)
(* How transactions are put together from the coins of several wallets     *)
(* (crates/bdk-wallet-aggregate: lib.rs, utxo.rs, rbf.rs).                 *)
(*                                                                         *)
(* A coin is [op, tx, acct, val, conf, internal]: its outpoint, the        *)
(* transaction it comes from, the account that owns it, its value, whether *)
(* it is confirmed and whether it is change.  An operation that builds a   *)
(* transaction is the set of what it may build, depending on the coins     *)
(* that coin selection picks; the empty set stands for an error.           *)
(* The weight of a transaction is that of its inputs and a constant.       *)
(***************************************************************************)
EXTENDS Integers, FiniteSets, FiniteSetsExt

CONSTANTS
    DUST_LIMIT_SATS,
    Incremental       \* the rate a replacement pays on top of the one it replaces

Value(coins) == MapThenSumSet(LAMBDA c : c.val, coins)
Ops(coins) == {c.op : c \in coins}
ConfirmedCoins(coins) == {c \in coins : c.conf}
CoinsOf(coins, accounts) == {c \in coins : c.acct \in accounts}
Without(coins, txids) == {c \in coins : c.tx \notin txids}

Weight(n) == 1 + n
fee_wu(rate, n) == rate * Weight(n)

SaturatingSub(a, b) == IF a > b THEN a - b ELSE 0

\* Balance: what is confirmed or change of our own is trusted.
trusted_spendable(coins) == Value({c \in coins : c.conf \/ c.internal})
untrusted_pending(coins) == Value({c \in coins : ~c.conf /\ ~c.internal})

-----------------------------------------------------------------------------
(* Coin selection and the transaction builder of BDK *)

Funds(coins, amount, rate) == Value(coins) >= amount + fee_wu(rate, Cardinality(coins))

\* Coins are added to the required ones, in any order, until they suffice.
Selections(pool, required, amount, rate) ==
    {S \in {T \cup required : T \in SUBSET (pool \ required)} :
        /\ Funds(S, amount, rate)
        /\ S = required \/ \E c \in S \ required : ~Funds(S \ {c}, amount, rate)}

\* TxBuilder::finish: a remainder below the dust limit goes to the fee.
finish(S, amount, fee) ==
    LET rest == Value(S) - amount - fee
        change == IF rest >= DUST_LIMIT_SATS THEN rest ELSE 0
    IN  [ins |-> Ops(S), pay |-> amount, chg |-> change, fee |-> fee + rest - change]

Finished(S, amount, rate) == finish(S, amount, fee_wu(rate, Cardinality(S)))

build_tx(pool, required, amount, rate) ==
    {Finished(S, amount, rate) : S \in Selections(pool, required, amount, rate)}

\* drain_wallet().drain_to(): everything to the recipient.
drain(coins, kept, rate) ==
    LET fee == fee_wu(rate, Cardinality(coins))
        rest == Value(coins) - kept - fee
    IN  IF coins = {} \/ rest < DUST_LIMIT_SATS THEN {}
        ELSE {[ins |-> Ops(coins), pay |-> rest, chg |-> kept, fee |-> fee]}

\* select_utxos_inner: without the excluded ones; not enough is an error.
select_utxos(pool, excluded, amount, rate) ==
    Selections({c \in pool : c.op \notin excluded}, {}, amount, rate)

-----------------------------------------------------------------------------
(* Transactions from the coins of all wallets *)

\* Coin selection over all wallets at once, in a builder that takes the selected coins only.
build_tx_unified(pool, excluded, amount, rate) ==
    {Finished(S, amount, rate) : S \in select_utxos(Without(pool, excluded), {}, amount, rate)}

build_psbt_with_cross_wallet_fallback(pool, excluded, amount, rate) ==
    build_tx_unified(pool, excluded, amount, rate)

\* Channels are funded from SegWit coins.
build_and_sign_funding_tx(pool, legacy, amount, rate) ==
    build_tx_unified({c \in pool : c.acct \notin legacy}, {}, amount, rate)

build_and_sign_drain(pool, rate) == drain(pool, 0, rate)

\* The child spends every output of the parent that is ours and unspent, and nothing else.
build_cpfp(outputs, rate) == drain(outputs, 0, rate)

-----------------------------------------------------------------------------
(* Replacements *)

minimum_replacement_fee_rate(tx) == tx.fee \div Weight(Cardinality(tx.ins)) + Incremental

\* replacement_requirements: the fee of a replacement with n inputs.
required_fee(tx, n, rate) == Max({fee_wu(rate, n), tx.fee + Incremental * Weight(n)})

\* Mutant: with extra coins the inputs of the original are left out.
ReplacementOfExtras(tx, value, extra, rate) ==
    LET fee == required_fee(tx, Cardinality(tx.ins) + Cardinality(extra), rate)
    IN  [ins |-> IF extra = {} THEN tx.ins ELSE Ops(extra), pay |-> tx.pay,
         chg |-> 0, fee |-> fee]

\* replacement_inputs: all inputs of the original, and the extra coins.  The recipients are paid
\* the same.
replacement(tx, value, extra, rate) ==
    LET n == Cardinality(tx.ins) + Cardinality(extra)
        fee == required_fee(tx, n, rate)
        rest == value + Value(extra) - tx.pay - fee
        change == IF rest >= DUST_LIMIT_SATS THEN rest ELSE 0
    IN  [ins |-> tx.ins \cup Ops(extra), pay |-> tx.pay, chg |-> change, fee |-> fee + rest - change]

CanReplace(tx, value, extra, rate) ==
    value + Value(extra) >= tx.pay + required_fee(tx, Cardinality(tx.ins) + Cardinality(extra), rate)

\* Extra coins are added until they cover what the replacement lacks.
Extras(tx, value, pool, rate) ==
    {E \in SUBSET pool : /\ CanReplace(tx, value, E, rate)
                         /\ E = {} \/ \E c \in E : ~CanReplace(tx, value, E \ {c}, rate)}

\* The fee bump of BDK adds confirmed coins of the primary wallet; when they do not suffice,
\* confirmed coins of the others are offered to it as well.
build_rbf_primary_with_fallback(tx, value, primary, foreign, rate) ==
    LET own == Extras(tx, value, primary, rate)
        all == IF foreign = {} THEN {} ELSE Extras(tx, value, primary \cup foreign, rate)
    IN  {replacement(tx, value, E, rate) : E \in IF own # {} THEN own ELSE all}

\* build_cross_wallet_rbf takes the fee from the change output: there must be one, and it must
\* not become dust.
FromChange(tx, value, E, rate) ==
    IF tx.chg # 0 /\ CanReplace(tx, value, E, rate) /\ replacement(tx, value, E, rate).chg # 0
    THEN {replacement(tx, value, E, rate)} ELSE {}

build_cross_wallet_rbf_with_fallback(tx, value, pool, rate) ==
    LET first == FromChange(tx, value, {}, rate)
    IN  IF first # {} THEN first
        ELSE UNION {FromChange(tx, value, E, rate) : E \in (SUBSET pool) \ {{}}}

\* calculate_cpfp_fee_rate: what the child pays so that both reach the target on average.
calculate_cpfp_fee_rate(fee, weight, target) ==
    IF fee \div weight >= target THEN fee \div weight + Incremental
    ELSE target + ((target - fee \div weight) * weight) \div Weight(1)
==============================================================================

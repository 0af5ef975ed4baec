--------------------------- MODULE MCOnchainWallet ---------------------------
(* Two accounts with one confirmed coin each, and a deposit that is not yet confirmed. *)
EXTENDS OnchainWallet

TwoCoins == {[op |-> <<0, 1>>, tx |-> 0, acct |-> "a0", val |-> 6, conf |-> TRUE, internal |-> FALSE],
             [op |-> <<0, 2>>, tx |-> 0, acct |-> "a1", val |-> 9, conf |-> TRUE, internal |-> FALSE]}
==============================================================================

---------------------------- MODULE MCWalletSync ----------------------------
(* WalletSync with small sets, one plan per question.                       *)
EXTENDS WalletSync

CONSTANTS loop, api, acct0, acct1, tx1

Syncs(byLoop, byApi) == loop :> byLoop @@ api :> byApi

\* Two callers and two accounts with every fault but a crash; one caller and two accounts;
\* one caller with a longer history of the chain, and crashes.
ThreePlans == {
    [accounts |-> {acct0, acct1}, blocks |-> {"b1"},
     faults |-> {"fetch", "persist", "push", "abort"}, syncs |-> Syncs(1, 1), moves |-> 1],
    [accounts |-> {acct0, acct1}, blocks |-> {"b1"},
     faults |-> {}, syncs |-> Syncs(3, 0), moves |-> 2],
    [accounts |-> {acct0}, blocks |-> {"b1", "b2"},
     faults |-> {"crash"}, syncs |-> Syncs(3, 0), moves |-> 4] }
=============================================================================

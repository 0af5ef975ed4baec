----------------------------- MODULE NodeEvents -----------------------------
(***************************************************************************)
(* The components whose events go through EventHandler::handle_event, and  *)
(* the calls of the user that race with them, in one node: channels,       *)
(* liquidity requests, the async payments server and payments of URIs.     *)
(* They share the event loop, which any of them can hold up with           *)
(* ReplayEvent, and die together in a crash; so do the gossip and scores   *)
(* tasks.                                                                  *)
(***************************************************************************)
EXTENDS Channels, Liquidity, AsyncPayments, UnifiedQr, Gossip

CONSTANT Scenarios     \* the budgets to start with

vars == <<loop, left, chanVars, liquidityVars, asyncVars, qrVars, gossipVars>>

Init ==
    /\ pending = <<>> /\ handled = <<>> /\ stage = "idle"
    /\ left \in Scenarios
    /\ ChannelsInit /\ LiquidityInit /\ AsyncInit /\ QrInit /\ GossipInit

Crash ==
    /\ Spend("crashes")
    /\ LoopCrash /\ ChannelsCrash /\ LiquidityCrash /\ AsyncCrash /\ QrCrash /\ GossipCrash

Next ==
    \/ ChannelStep /\ UNCHANGED <<liquidityVars, asyncVars, qrVars, gossipVars>>
    \/ LiquidityStep /\ UNCHANGED <<chanVars, asyncVars, qrVars, gossipVars>>
    \/ AsyncStep /\ UNCHANGED <<chanVars, liquidityVars, qrVars, gossipVars>>
    \/ QrStep /\ UNCHANGED <<chanVars, liquidityVars, asyncVars, gossipVars>>
    \/ GossipStep /\ UNCHANGED <<chanVars, liquidityVars, asyncVars, qrVars>>
    \/ PersistManager /\ UNCHANGED <<chanVars, liquidityVars, asyncVars, qrVars, gossipVars>>
    \/ Crash

Spec == Init /\ [][Next]_vars
=============================================================================

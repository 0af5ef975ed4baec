----------------------------- MODULE EventLoop -----------------------------
(***************************************************************************)
(* How LDK hands its events to EventHandler::handle_event (event.rs): one  *)
(* at a time and in order; the same one again after ReplayEvent; and after *)
(* a crash again those handled since the ChannelManager was persisted.     *)
(* LDK is external.  The components whose events are handled extend this   *)
(* module.                                                                 *)
(*                                                                         *)
(* What may happen from outside is bounded by a budget: left[k] is how     *)
(* often an action of kind k may still be taken.                           *)
(***************************************************************************)
EXTENDS Naturals, Sequences

VARIABLES
    pending,  \* the events to be handled, the first one being handled
    handled,  \* the events handled since the ChannelManager was persisted
    stage,    \* what handle_event does next
    left      \* the budget

loop == <<pending, handled, stage>>

\* An event is its type and what it is about.
Current == Head(pending)
About == Current[2]

Handling(type, s) == pending # <<>> /\ Current[1] = type /\ stage = s

\* Ok(()), after LDK queued the events news meanwhile.  What was handled matters only
\* while there may be a crash.
FinishWith(news) ==
    /\ pending' = Tail(pending) \o news
    /\ handled' = IF left["crashes"] = 0 THEN <<>> ELSE Append(handled, Current)
    /\ stage' = "idle"

Finish == FinishWith(<<>>)

\* Err(ReplayEvent())
Replay == stage' = "idle" /\ UNCHANGED <<pending, handled>>

HandleNext(s) == stage' = s /\ UNCHANGED <<pending, handled>>

Emit(news) == pending' = pending \o news /\ UNCHANGED <<handled, stage>>

\* The background processor persists the ChannelManager between two events.
PersistManager ==
    /\ stage = "idle" /\ handled # <<>>
    /\ handled' = <<>>
    /\ UNCHANGED <<pending, stage, left>>

\* After a crash, what was not persisted as handled is handled again.
LoopCrash == pending' = handled \o pending /\ handled' = <<>> /\ stage' = "idle"

Spend(k) == left[k] > 0 /\ left' = [left EXCEPT ![k] = @ - 1]
=============================================================================

--------------------------- MODULE PaymentEvents ---------------------------
(***************************************************************************)
(* Lightning payments from three sides: the API calls that register, send, *)
(* claim and fail them, the handler of LDK's payment events, and the       *)
(* payment store (a DataStore) and event queue that both leave records in. *)
(*                                                                         *)
(* LDK is external: it keeps HTLCs and payments across crashes, hands its  *)
(* events to the handler one at a time, hands the same event again after   *)
(* ReplayEvent, and after a crash again those handled since the            *)
(* ChannelManager was last persisted.  A payment id is the payment hash.   *)
(***************************************************************************)
EXTENDS Naturals, Sequences, FiniteSets

CONSTANTS
    Payments,      \* payment hashes
    Threads,       \* threads calling the API
    MaxArrivals,   \* bound: times a payment is offered to us
    MaxSends,      \* bound: times LDK accepts to send a payment
    MaxCrashes,    \* bound: process deaths and, before them, removals of a payment
    MayFail,       \* whether a write to the KV store may fail
    MaxPushes,     \* bound: pushes of a user event, of which the last is persisted
    None

\* Received: an invoice, one by hash, one for a channel to be opened, a refund, an offer, or
\* spontaneous; sent: an invoice, an offer with and without an amount, or a refund.
Kinds == {"Bolt11", "ForHash", "Jit", "Refund", "Offer", "Spontaneous",
          "Send", "PayOffer", "PayOpenOffer", "GiveRefund"}

ASSUME PaymentAssumption ==
    /\ None \notin Payments
    /\ MaxArrivals \in Nat /\ MaxSends \in Nat /\ MaxCrashes \in Nat
    /\ MayFail \in BOOLEAN /\ MaxPushes \in Nat

VARIABLES
    kindOf,     \* how each payment is registered or arrives, one of Kinds; never changes
    mem,        \* DataStore.objects
    disk,       \* and what was persisted of it
    recordErr,  \* history: a write of the payment store failed
    queueMem,   \* how often each user event was pushed
    queueDisk,  \* and how often it is in the persisted queue
    queueErr,   \* history: a write of the event queue failed
    htlc,       \* LDK: the inbound HTLCs of each payment
    out,        \* LDK: the outbound payment of each id
    pending,    \* LDK: events to be handled, the first one being handled
    handled,    \* LDK: events handled since the ChannelManager was persisted
    stage,      \* what handle_event does next
    api,        \* what each API call does next
    decision,   \* what the user decided for a payment to be claimed by hand
    arrivals, claims, sends, settled,   \* history, per payment
    early,      \* history: payments LDK was done with, or lost, before they were recorded
    removed,    \* history: payments the user removed from the store
    torn,       \* history: payments recorded anew while their removal was under way
    crashes

fixed == <<kindOf, early, removed, torn, crashes>>
ldk == <<htlc, out, pending, handled>>
records == <<mem, disk, recordErr>>
queues == <<queueMem, queueDisk, queueErr>>
counts == <<arrivals, claims, sends, settled>>
vars == <<records, queues, ldk, stage, api, decision, counts, fixed>>

UserEvents == {"Claimable", "Received", "Successful", "Failed"} \X Payments
Ev(type, p) == [type |-> type, id |-> p, overLimit |-> FALSE]

New(direction, status, preimage) ==
    [direction |-> direction, status |-> status, preimage |-> preimage,
     skimmed |-> FALSE]

Init ==
    /\ kindOf \in [Payments -> Kinds]
    /\ recordErr = FALSE /\ queueErr = FALSE
    /\ mem = [p \in Payments |-> None]
    /\ disk = mem
    /\ queueMem = [e \in UserEvents |-> 0]
    /\ queueDisk = queueMem
    /\ htlc = [p \in Payments |-> "none"]
    /\ out = [p \in Payments |-> "none"]
    /\ pending = <<>> /\ handled = <<>>
    /\ stage = "idle"
    /\ api = [t \in Threads |-> <<"idle", None>>]
    /\ decision = [p \in Payments |-> "none"]
    /\ arrivals = [p \in Payments |-> 0]
    /\ claims = arrivals /\ sends = arrivals /\ settled = arrivals
    /\ early = {} /\ removed = {} /\ torn = {} /\ crashes = 0
-----------------------------------------------------------------------------
(* DataStore: insert persists first, update changes the object in place    *)
(* and persists after.                                                     *)

InsertOk(p, details) ==
    /\ mem' = [mem EXCEPT ![p] = details]
    /\ disk' = [disk EXCEPT ![p] = details]
    /\ UNCHANGED recordErr

InsertErr == MayFail /\ recordErr' = TRUE /\ UNCHANGED <<mem, disk>>

\* update() with its four outcomes, each followed by what the caller does then.
Update(p, details, updated, unchanged, notFound, failed) ==
    \/ mem[p] = None /\ UNCHANGED records /\ notFound
    \/ mem[p] # None /\ details = mem[p] /\ UNCHANGED records /\ unchanged
    \/ mem[p] # None /\ details # mem[p] /\ InsertOk(p, details) /\ updated
    \/ /\ MayFail /\ mem[p] # None /\ details # mem[p]
       /\ mem' = [mem EXCEPT ![p] = details]
       /\ recordErr' = TRUE
       /\ UNCHANGED disk
       /\ failed

WithStatus(p, status) == [mem[p] EXCEPT !.status = status]

\* add_event pushes and persists the whole queue; when that fails the event stays
\* in memory.
AddEventOk(e) ==
    /\ queueMem' = [queueMem EXCEPT ![e] = @ + 1]
    /\ queueDisk' = queueMem'
    /\ UNCHANGED queueErr

AddEventErr(e) ==
    /\ MayFail
    /\ queueMem[e] + 1 < MaxPushes
    /\ queueMem' = [queueMem EXCEPT ![e] = @ + 1]
    /\ queueErr' = TRUE
    /\ UNCHANGED queueDisk
-----------------------------------------------------------------------------
(* LDK.                                                                    *)

\* Someone pays: an invoice we gave out, an offer, or spontaneously.  A payment of
\* our own may come back to us (a circular payment), once send() has recorded it.
Arrive(p, overLimit) ==
    /\ arrivals[p] < MaxArrivals
    /\ htlc[p] # "claimable"
    /\ kindOf[p] \in {"Bolt11", "ForHash", "Jit"} => disk[p] # None \/ p \in removed
    /\ kindOf[p] = "Refund" => out[p] = "asked"
    /\ kindOf[p] \notin {"PayOffer", "PayOpenOffer", "GiveRefund"}
    /\ kindOf[p] = "Send" => out[p] = "inflight" /\ mem[p] # None
    /\ overLimit => kindOf[p] = "Jit"
    /\ arrivals' = [arrivals EXCEPT ![p] = @ + 1]
    /\ htlc' = [htlc EXCEPT ![p] = "claimable"]
    /\ pending' = Append(pending, [type |-> "PaymentClaimable", id |-> p,
                                   overLimit |-> overLimit])
    /\ UNCHANGED <<records, queues, out, handled, stage, api, decision, claims,
                   sends, settled, fixed>>

\* claim_funds: without claimable HTLCs nothing happens; otherwise PaymentClaimed
\* follows the events already waiting in q.
ClaimFunds(p, q) ==
    IF htlc[p] = "claimable"
    THEN /\ htlc' = [htlc EXCEPT ![p] = "claimed"]
         /\ claims' = [claims EXCEPT ![p] = @ + 1]
         /\ pending' = Append(q, Ev("PaymentClaimed", p))
    ELSE UNCHANGED <<htlc, claims>> /\ pending' = q

FailHtlcBackwards(p) ==
    htlc' = IF htlc[p] = "claimable" THEN [htlc EXCEPT ![p] = "failed"] ELSE htlc

\* An outbound payment succeeds or fails; a circular one once the HTLC is settled.
Resolve(p, outcome) ==
    /\ out[p] = "inflight"
    /\ htlc[p] # "claimable"
    /\ htlc[p] = "failed" => outcome = "failed"
    /\ out' = [out EXCEPT ![p] = outcome]
    /\ sends' = [sends EXCEPT ![p] = @ + (IF outcome = "sent" THEN 1 ELSE 0)]
    /\ settled' = [settled EXCEPT ![p] = @ + 1]
    /\ pending' = Append(pending, Ev(IF outcome = "sent" THEN "PaymentSent"
                                     ELSE "PaymentFailed", p))
    /\ UNCHANGED <<records, queues, htlc, handled, stage, api, decision, arrivals,
                   claims, fixed>>

\* LDK forgets a payment id minutes after its last event was handled, longer than a
\* send() call takes.
Forget(p) ==
    /\ out[p] \in {"sent", "failed"}
    /\ \A i \in DOMAIN pending : pending[i].id # p
    /\ \A t \in Threads : api[t][2] # p
    /\ out' = [out EXCEPT ![p] = "none"]
    /\ UNCHANGED <<records, queues, htlc, pending, handled, stage, api, decision,
                   counts, fixed>>

\* The background processor persists the ChannelManager between two events.
PersistManager ==
    /\ stage = "idle"
    /\ handled # <<>>
    /\ handled' = <<>>
    /\ UNCHANGED <<records, queues, htlc, out, pending, stage, api, decision,
                   counts, fixed>>
-----------------------------------------------------------------------------
(* handle_event.                                                           *)

Current == Head(pending)
Id == Current.id

\* Ok(()): LDK drops the event, durably with its next persist.
Finish(q) ==
    /\ pending' = q
    /\ handled' = Append(handled, Current)
    /\ stage' = "idle"

\* Err(ReplayEvent()): LDK keeps the event.
Replay == stage' = "idle" /\ UNCHANGED <<pending, handled>>

Goto(s) == stage' = s /\ UNCHANGED <<pending, handled>>

Handling(type, s) == pending # <<>> /\ Current.type = type /\ stage = s

\* PaymentClaimable: what the store knows decides.  Refused are circular payments,
\* payments of a known spontaneous or succeeded one, fees above our limit, and one by hash
\* that was removed, as nobody knows its preimage.
ClaimableStart ==
    /\ Handling("PaymentClaimable", "idle")
    /\ LET known == mem[Id] # None
           kind == kindOf[Id]
           refuse == \/ mem[Id].direction = "Outbound"
                     \/ mem[Id].status = "Succeeded"
                     \/ kind = "Spontaneous"
                     \/ Current.overLimit
       IN  \/ known /\ refuse /\ Goto("refuse")
           \/ known /\ ~refuse /\ kind = "Jit" /\ Goto("skim")
           \/ known /\ ~refuse /\ kind = "ForHash" /\ Goto("manual")
           \/ (known => ~refuse) /\ kind \in {"Offer", "Spontaneous"} /\ Goto("insert")
           \/ (known => ~refuse) /\ kind \in {"Bolt11", "Refund"} /\ Goto("claim")
           \/ ~known /\ kind = "Jit" /\ Goto("claim")
           \/ ~known /\ kind = "ForHash" /\ Goto("refuse")
    /\ UNCHANGED <<records, queues, htlc, out, api, decision, counts, fixed>>

RefuseHtlc ==
    /\ stage = "refuse"
    /\ FailHtlcBackwards(Id)
    /\ Goto("refused")
    /\ UNCHANGED <<records, queues, out, api, decision, counts, fixed>>

RefuseUpdate ==
    /\ stage = "refused"
    /\ Update(Id, WithStatus(Id, "Failed"), Finish(Tail(pending)),
              Finish(Tail(pending)), Finish(Tail(pending)), Replay)
    /\ UNCHANGED <<queues, htlc, out, api, decision, counts, fixed>>

RecordSkimmedFee ==
    /\ stage = "skim"
    /\ Update(Id, [mem[Id] EXCEPT !.skimmed = TRUE], Goto("claim"), Goto("claim"),
              Goto("claim"), Replay)
    /\ UNCHANGED <<queues, htlc, out, api, decision, counts, fixed>>

\* A payment registered by hash only: the user is asked.
AskUser ==
    /\ stage = "manual"
    /\ \/ AddEventOk(<<"Claimable", Id>>) /\ Finish(Tail(pending))
       \/ AddEventErr(<<"Claimable", Id>>) /\ Replay
    /\ UNCHANGED <<records, htlc, out, api, decision, counts, fixed>>

\* An error of the insert is logged and the payment claimed all the same.
InsertArrived ==
    /\ stage = "insert"
    /\ InsertOk(Id, New("Inbound", "Pending", TRUE)) \/ InsertErr
    /\ Goto("claim")
    /\ UNCHANGED <<queues, htlc, out, api, decision, counts, fixed>>

ClaimArrived ==
    /\ stage = "claim"
    /\ ClaimFunds(Id, Tail(pending))
    /\ handled' = Append(handled, Current)
    /\ stage' = "idle"
    /\ UNCHANGED <<records, queues, out, api, decision, arrivals, sends, settled,
                   fixed>>

NoteEarly(p) ==
    early' = IF mem[p] = None /\ \E t \in Threads : api[t][2] = p THEN early \cup {p} ELSE early

\* Mutant: the user is told whether or not the record changed.
RecordOutcomeAlwaysTells(type, details) ==
    /\ Handling(type, "idle")
    /\ Update(Id, details, Goto("emit"), Goto("emit"), Finish(Tail(pending)), Replay)
    /\ NoteEarly(Id)
    /\ UNCHANGED <<queues, htlc, out, api, decision, counts, kindOf, removed, torn, crashes>>

\* PaymentClaimed, PaymentSent, PaymentFailed: the status is updated, and only when
\* that changed the record the user is told.
RecordOutcome(type, details) ==
    /\ Handling(type, "idle")
    /\ Update(Id, details, Goto("emit"), Finish(Tail(pending)), Finish(Tail(pending)),
              Replay)
    /\ NoteEarly(Id)
    /\ UNCHANGED <<queues, htlc, out, api, decision, counts, kindOf, removed, torn, crashes>>

\* Mutant: the status is left out.
ClaimedNoStatus == RecordOutcome("PaymentClaimed", [mem[Id] EXCEPT !.preimage = TRUE])

Claimed == RecordOutcome("PaymentClaimed",
               [mem[Id] EXCEPT !.status = "Succeeded", !.preimage = TRUE])
Sent == RecordOutcome("PaymentSent",
            [mem[Id] EXCEPT !.status = "Succeeded", !.preimage = TRUE])
Failed == RecordOutcome("PaymentFailed", WithStatus(Id, "Failed"))

UserEventOf(type) ==
    CASE type = "PaymentClaimed" -> "Received"
      [] type = "PaymentSent" -> "Successful"
      [] type = "PaymentFailed" -> "Failed"

\* Mutant: the event is handled without telling.
TellNobody ==
    /\ stage = "emit"
    /\ Finish(Tail(pending))
    /\ UNCHANGED <<records, queues, htlc, out, api, decision, counts, fixed>>

TellUser ==
    /\ stage = "emit"
    /\ LET e == <<UserEventOf(Current.type), Id>>
       IN  \/ AddEventOk(e) /\ Finish(Tail(pending))
           \/ AddEventErr(e) /\ Replay
    /\ UNCHANGED <<records, htlc, out, api, decision, counts, fixed>>
-----------------------------------------------------------------------------
(* The API.                                                                *)

Done(t) == api' = [api EXCEPT ![t] = <<"idle", None>>]

\* receive*(), receive_via_jit_channel*(): the hash is fresh, or, for the _for_hash
\* variants, registered once by the user.
Receive(p) ==
    /\ kindOf[p] \in {"Bolt11", "ForHash", "Jit"}
    /\ mem[p] = None /\ p \notin removed
    /\ InsertOk(p, New("Inbound", "Pending", kindOf[p] # "ForHash")) \/ InsertErr
    /\ UNCHANGED <<queues, ldk, stage, api, decision, counts, fixed>>

\* claim_for_hash, called after PaymentClaimable by a user who sticks to it.
ClaimForHash(p) ==
    /\ queueMem[<<"Claimable", p>>] > 0
    /\ decision[p] # "fail"
    /\ mem[p] # None
    /\ decision' = [decision EXCEPT ![p] = "claim"]
    /\ ClaimFunds(p, pending)
    /\ UNCHANGED <<records, queues, out, handled, stage, api, arrivals, sends,
                   settled, fixed>>

\* fail_for_hash: the status first, the HTLC after it.
FailForHash(t, p) ==
    /\ queueMem[<<"Claimable", p>>] > 0
    /\ decision[p] # "claim"
    /\ api[t][1] = "idle"
    /\ decision' = [decision EXCEPT ![p] = "fail"]
    /\ LET goOn == api' = [api EXCEPT ![t] = <<"failHtlc", p>>]
       IN  Update(p, WithStatus(p, "Failed"), goOn, goOn, Done(t), Done(t))
    /\ UNCHANGED <<queues, ldk, stage, counts, fixed>>

FailForHashHtlc(t) ==
    /\ api[t][1] = "failHtlc"
    /\ FailHtlcBackwards(api[t][2])
    /\ Done(t)
    /\ UNCHANGED <<records, queues, out, pending, handled, stage, decision, counts,
                   fixed>>

\* Mutant: only a pending payment is refused.
SendCheckPending(t, p) ==
    /\ kindOf[p] = "Send"
    /\ api[t][1] = "idle"
    /\ mem[p] # None => mem[p].status # "Pending"
    /\ api' = [api EXCEPT ![t] = <<"pay", p>>]
    /\ UNCHANGED <<records, queues, ldk, stage, decision, counts, fixed>>

\* send(): refused while the store has the payment pending or succeeded.
SendCheck(t, p) ==
    /\ kindOf[p] = "Send"
    /\ api[t][1] = "idle"
    /\ mem[p] # None => mem[p].status = "Failed"
    /\ api' = [api EXCEPT ![t] = <<"pay", p>>]
    /\ UNCHANGED <<records, queues, ldk, stage, decision, counts, fixed>>

\* send_using_amount(): the same check, for an amount no less than the invoice asks for
SendUsingAmount(t, p) == SendCheck(t, p)

\* BOLT 12: the id is drawn at random, so there is nothing to check.
Fresh(t, p) == api[t][1] = "idle" /\ mem[p] = None /\ out[p] = "none" /\ settled[p] = 0

\* send() of an offer that states its amount in bitcoin
SendOffer(t, p) ==
    /\ kindOf[p] = "PayOffer"
    /\ Fresh(t, p)
    /\ api' = [api EXCEPT ![t] = <<"pay", p>>]
    /\ UNCHANGED <<records, queues, ldk, stage, decision, counts, fixed>>

\* send_using_amount(), with no less than the offer asks for, if it does
SendOfferUsingAmount(t, p) ==
    /\ kindOf[p] \in {"PayOffer", "PayOpenOffer"}
    /\ Fresh(t, p)
    /\ api' = [api EXCEPT ![t] = <<"pay", p>>]
    /\ UNCHANGED <<records, queues, ldk, stage, decision, counts, fixed>>

\* initiate_refund(): LDK awaits the invoice to pay from now on.
InitiateRefund(t, p) ==
    /\ kindOf[p] = "GiveRefund"
    /\ Fresh(t, p)
    /\ out' = [out EXCEPT ![p] = "inflight"]
    /\ api' = [api EXCEPT ![t] = <<"insertPending", p>>]
    /\ UNCHANGED <<records, queues, htlc, pending, handled, stage, decision, counts, fixed>>

\* request_refund_payment(): the invoice is sent before the payment is recorded.
RequestRefundPayment(t, p) ==
    /\ kindOf[p] = "Refund"
    /\ Fresh(t, p)
    /\ out' = [out EXCEPT ![p] = "asked"]
    /\ api' = [api EXCEPT ![t] = <<"insertRefund", p>>]
    /\ UNCHANGED <<records, queues, htlc, pending, handled, stage, decision, counts, fixed>>

\* LDK finds no route, or refuses an id it has or an invoice without the amount, or starts
\* paying.
SendPay(t) ==
    /\ api[t][1] = "pay"
    /\ LET p == api[t][2]
       IN  \/ /\ api' = [api EXCEPT ![t] = <<"insertFailed", p>>]
              /\ UNCHANGED out
           \/ (out[p] # "none" \/ kindOf[p] = "Send") /\ Done(t) /\ UNCHANGED out
           \/ /\ out[p] = "none" /\ settled[p] < MaxSends
              /\ out' = [out EXCEPT ![p] = "inflight"]
              /\ api' = [api EXCEPT ![t] = <<"insertPending", p>>]
    /\ UNCHANGED <<records, queues, htlc, pending, handled, stage, decision, counts,
                   fixed>>

Inserts == {"insertPending", "insertFailed", "insertRefund"}

SendInsert(t) ==
    /\ api[t][1] \in Inserts
    /\ LET status == IF api[t][1] = "insertFailed" THEN "Failed" ELSE "Pending"
           direction == IF api[t][1] = "insertRefund" THEN "Inbound" ELSE "Outbound"
       IN  InsertOk(api[t][2], New(direction, status, FALSE)) \/ InsertErr
    /\ Done(t)
    /\ UNCHANGED <<queues, ldk, stage, decision, counts, fixed>>

\* remove_payment(): the object goes first and, without the lock, the persisted one after.
RemovePayment(t, p) ==
    /\ api[t][1] = "idle"
    /\ p \notin removed /\ crashes = 0 /\ Cardinality(removed) < MaxCrashes
    /\ mem[p] # None
    /\ mem' = [mem EXCEPT ![p] = None]
    /\ removed' = removed \cup {p}
    /\ api' = [api EXCEPT ![t] = <<"removePersisted", p>>]
    /\ UNCHANGED <<disk, recordErr, queues, ldk, stage, decision, counts, kindOf, early, torn,
                   crashes>>

RemovePersisted(t) ==
    /\ api[t][1] = "removePersisted"
    /\ LET p == api[t][2]
       IN  \/ /\ disk' = [disk EXCEPT ![p] = None]
              /\ torn' = IF mem[p] = None THEN torn ELSE torn \cup {p}
              /\ UNCHANGED recordErr
           \/ MayFail /\ recordErr' = TRUE /\ UNCHANGED <<disk, torn>>
    /\ Done(t)
    /\ UNCHANGED <<mem, queues, ldk, stage, decision, counts, kindOf, early, removed, crashes>>

\* The process dies and starts again from what is persisted.  An HTLC that was failed
\* since the ChannelManager was persisted may be claimable again; a claimed one is
\* claimed for good, the ChannelMonitor has the preimage.
Refused(replayed) ==
    {p \in Payments : htlc[p] = "failed" /\
        \E i \in DOMAIN replayed : replayed[i].type = "PaymentClaimable" /\ replayed[i].id = p}

Crash ==
    /\ crashes + Cardinality(removed) < MaxCrashes
    /\ \E back \in SUBSET Refused(handled \o pending) :
          htlc' = [p \in Payments |-> IF p \in back THEN "claimable" ELSE htlc[p]]
    /\ crashes' = crashes + 1
    /\ early' = early \cup {api[t][2] : t \in {u \in Threads : api[u][1] \in Inserts}}
    /\ mem' = disk
    /\ queueMem' = queueDisk
    /\ pending' = handled \o pending
    /\ handled' = <<>>
    /\ stage' = "idle"
    /\ api' = [t \in Threads |-> <<"idle", None>>]
    /\ UNCHANGED <<kindOf, removed, torn, disk, recordErr, queueDisk, queueErr, out, decision,
                   counts>>

HandleEvent ==
    \/ ClaimableStart \/ RefuseHtlc \/ RefuseUpdate \/ RecordSkimmedFee
    \/ AskUser \/ InsertArrived \/ ClaimArrived
    \/ Claimed \/ Sent \/ Failed \/ TellUser

ApiStep(t) == FailForHashHtlc(t) \/ SendPay(t) \/ SendInsert(t) \/ RemovePersisted(t)

Next ==
    \/ HandleEvent
    \/ PersistManager
    \/ Crash
    \/ \E p \in Payments : Receive(p) \/ ClaimForHash(p) \/ Forget(p)
    \/ \E p \in Payments, overLimit \in BOOLEAN : Arrive(p, overLimit)
    \/ \E p \in Payments, outcome \in {"sent", "failed"} : Resolve(p, outcome)
    \/ \E t \in Threads, p \in Payments : FailForHash(t, p)
    \/ \E t \in Threads, p \in Payments :
          SendCheck(t, p) \/ SendUsingAmount(t, p) \/ RemovePayment(t, p)
    \/ \E t \in Threads, p \in Payments :
          \/ SendOffer(t, p) \/ SendOfferUsingAmount(t, p)
          \/ InitiateRefund(t, p) \/ RequestRefundPayment(t, p)
    \/ \E t \in Threads : ApiStep(t)

Spec == Init /\ [][Next]_vars

\* The background processor handles events and API calls run to their end.
FairSpec == Spec /\ WF_vars(HandleEvent) /\ \A t \in Threads : WF_vars(ApiStep(t))
-----------------------------------------------------------------------------
Quiet == pending = <<>> /\ stage = "idle" /\ \A t \in Threads : api[t][1] = "idle"

Has(p, direction, status) ==
    mem[p] # None /\ mem[p].direction = direction /\ mem[p].status = status

\* What the store and the user are told is true (event.rs 1589-1774), whatever is replayed,
\* refused or retried: a success only when LDK claimed or sent the payment, and, without a
\* crash, one PaymentReceived at most for each claim, although failed writes make LDK replay
\* events, and a failure of a payment offered once only when it was not claimed
\* (payment/store.rs 342).
OutcomesTrue ==
    \A p \in Payments :
        /\ Has(p, "Inbound", "Succeeded") \/ queueMem[<<"Received", p>>] > 0
               => claims[p] > 0
        /\ Has(p, "Outbound", "Succeeded") \/ queueMem[<<"Successful", p>>] > 0
               => sends[p] > 0
        /\ crashes = 0 => /\ queueMem[<<"Received", p>>] <= claims[p]
                          /\ arrivals[p] <= 1 /\ Has(p, "Inbound", "Failed") => claims[p] = 0

\* When all events are handled, the outcome of a payment offered to us once, and of every
\* BOLT 12 payment of ours, is persisted, although a PaymentClaimable replayed after a
\* crash may set it to failed meanwhile; unless a write of the payment store failed, or LDK
\* was done with the payment before the call that started it had recorded it
\* (bolt12.rs 148, 409, 480), or the user removed it.  Memory and disk agree even then,
\* unless the payment was recorded anew while it was removed (data_store.rs 99-123).
StatusFinallyRight ==
    Quiet /\ ~recordErr =>
        /\ \A p \in Payments \ torn : mem[p] = disk[p]
        /\ \A p \in Payments \ (early \cup removed) :
            /\ arrivals[p] = 1 /\ claims[p] > 0 =>
                   disk[p] # None /\ disk[p].status = "Succeeded"
            /\ kindOf[p] \in {"PayOffer", "PayOpenOffer", "GiveRefund"} /\ settled[p] > 0 =>
                   /\ disk[p] # None
                   /\ disk[p].status = IF sends[p] > 0 THEN "Succeeded" ELSE "Failed"

\* An invoice is paid at most once: send() refuses what the store has as pending or
\* succeeded (bolt11.rs 110-114), as long as the store could be written and the process
\* did not die between paying and recording, and the user left the record in it.
PaidAtMostOnce ==
    crashes = 0 /\ ~recordErr => \A p \in Payments \ removed : sends[p] <= 1

\* A claimed payment is eventually reported, durably (event.rs 1640-1668), unless a write
\* fails, the process dies, it was claimed before it was recorded, or was removed.
ClaimedIsTold ==
    \A p \in Payments :
        claims[p] > 0 ~> \/ queueDisk[<<"Received", p>>] > 0
                         \/ crashes > 0 \/ recordErr \/ queueErr
                         \/ p \in early \cup removed
=============================================================================

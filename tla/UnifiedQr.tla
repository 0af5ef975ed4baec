----------------------------- MODULE UnifiedQr -----------------------------
(***************************************************************************)
(* UnifiedQrPayment (payment/unified_qr.rs): a URI with an on-chain        *)
(* address and, when they can be made, a BOLT 11 invoice and a BOLT 12     *)
(* offer; send() tries the offer, then the invoice, then the chain.        *)
(*                                                                         *)
(* The lightning payments themselves are modelled by PaymentEvents; here   *)
(* an attempt is what LDK has of it and what the payment store says.       *)
(***************************************************************************)
EXTENDS EventLoop, Sequences, FiniteSets

CONSTANT QThreads      \* threads that call send()

VARIABLES
    uri,       \* what the URI has, of "offer", "invoice" and "amount"
    sending,   \* per thread, what its send() does next
    attempts,  \* LDK's and the wallet's payments for the URI
    record,    \* the status of the invoice's payment in the store
    blind,     \* history: a payment was started and its record could not be written
    again      \* history: send() was called though an earlier payment was not failed

qrVars == <<uri, sending, attempts, record, blind, again>>

QrInit ==
    /\ uri = {} /\ sending = [t \in QThreads |-> "idle"]
    /\ attempts = <<>> /\ record = "none" /\ blind = FALSE /\ again = FALSE

\* receive() leaves out what cannot be made; a URI from elsewhere may lack the amount.
Receive ==
    /\ Spend("uris")
    /\ uri' \in SUBSET {"offer", "invoice", "amount"}
    /\ UNCHANGED <<loop, sending, attempts, record, blind, again>>

Unfailed == {i \in DOMAIN attempts : attempts[i][2] # "failed"}
Quiet == \A t \in QThreads : sending[t] = "idle"

Steps(t, s) == sending' = [sending EXCEPT ![t] = s]
Start(method) == attempts' = Append(attempts, <<method, "pending">>)

Send(t) ==
    /\ Spend("payUris")
    /\ sending[t] = "idle"
    /\ Steps(t, "offer")
    /\ again' = (again \/ Unfailed # {} \/ ~Quiet)
    /\ UNCHANGED <<loop, uri, attempts, record, blind>>

\* Mutant: the result of the offer is not returned.
PayOfferGoesOn(t) ==
    /\ sending[t] = "offer"
    /\ \/ "offer" \in uri /\ Start("offer") /\ Steps(t, "invoice") /\ UNCHANGED <<left, blind>>
       \/ Steps(t, "invoice") /\ UNCHANGED <<attempts, left, blind>>
    /\ UNCHANGED <<loop, uri, record, again>>

\* bolt12_payment.send: LDK takes the payment, or refuses it; a record that cannot be
\* written is an error all the same.
PayOffer(t) ==
    /\ sending[t] = "offer"
    /\ \/ "offer" \in uri /\ Start("offer") /\ Steps(t, "idle") /\ UNCHANGED <<left, blind>>
       \/ /\ "offer" \in uri /\ Start("offer") /\ Spend("fails")
          /\ blind' = TRUE /\ Steps(t, "invoice")
       \/ Steps(t, "invoice") /\ UNCHANGED <<attempts, left, blind>>
    /\ UNCHANGED <<loop, uri, record, again>>

\* bolt11_invoice.send refuses what the store has as pending or succeeded.
PayInvoice(t) ==
    /\ sending[t] = "invoice"
    /\ LET free == "invoice" \in uri /\ record \in {"none", "failed"}
       IN  \/ /\ free /\ Start("invoice") /\ record' = "pending"
              /\ Steps(t, "idle") /\ UNCHANGED <<left, blind>>
           \/ /\ free /\ Start("invoice") /\ Spend("fails")
              /\ blind' = TRUE /\ Steps(t, "chain") /\ UNCHANGED record
           \/ /\ free /\ record' = "failed"
              /\ Steps(t, "chain") /\ UNCHANGED <<attempts, left, blind>>
           \/ ~free /\ Steps(t, "chain") /\ UNCHANGED <<attempts, record, left, blind>>
    /\ UNCHANGED <<loop, uri, again>>

\* send_to_address, which may fail
PayOnchain(t) ==
    /\ sending[t] = "chain"
    /\ \/ "amount" \in uri /\ Start("chain")
       \/ UNCHANGED attempts
    /\ Steps(t, "idle")
    /\ UNCHANGED <<loop, left, uri, record, blind, again>>

\* A lightning payment succeeds or fails, and the store is told (PaymentEvents).
Settles(i, outcome) ==
    /\ attempts[i][1] # "chain" /\ attempts[i][2] = "pending"
    /\ attempts' = [attempts EXCEPT ![i][2] = outcome]
    /\ record' = IF attempts[i][1] = "invoice" /\ record # "none" THEN outcome ELSE record
    /\ UNCHANGED <<loop, left, uri, sending, blind, again>>

QrCrash ==
    /\ sending' = [t \in QThreads |-> "idle"]
    /\ UNCHANGED <<uri, attempts, record, blind, again>>

QrStep ==
    \/ Receive
    \/ \E t \in QThreads : Send(t) \/ PayOffer(t) \/ PayInvoice(t) \/ PayOnchain(t)
    \/ \E i \in DOMAIN attempts, o \in {"sent", "failed"} : Settles(i, o)
-----------------------------------------------------------------------------
\* A URI is paid once (unified_qr.rs 134: offer first, then invoice, then chain): of the
\* payments send() starts at most one does not fail, unless the record of one that was
\* started could not be written, or send() was called again before the last one failed.
UriPaidOnce == blind \/ again \/ Cardinality(Unfailed) <= 1
=============================================================================

--------------------------- MODULE AsyncPayments ---------------------------
(***************************************************************************)
(* A node that serves often-offline recipients of async payments: it keeps *)
(* their static invoices behind rate limiters (static_invoice_store.rs,    *)
(* rate_limiter.rs) and the onion messages that arrive for peers that are  *)
(* not connected (om_mailbox.rs), and handles the LDK events about both    *)
(* (event.rs).                                                             *)
(*                                                                         *)
(* Time passes in ticks, of which a refill interval has several.           *)
(***************************************************************************)
EXTENDS EventLoop, FiniteSetsExt

CONSTANTS
    Users,           \* recipients of async payments
    MailPeers,       \* peers that receive onion messages
    MaxMessages,     \* MAX_MESSAGES_PER_PEER
    MaxPeers,        \* MAX_PEERS
    Capacity,        \* RATE_LIMITER_BUCKET_CAPACITY
    Interval,        \* RATE_LIMITER_REFILL_INTERVAL, in ticks
    MaxIdle,         \* RATE_LIMITER_MAX_IDLE, in ticks
    Absent           \* no bucket, no invoice

\* An idle time is long enough to fill a bucket (here 600s, in steps of 100ms).
ASSUME AsyncAssumption ==
    /\ MaxMessages \in Nat \ {0} /\ MaxPeers \in Nat \ {0}
    /\ Capacity \in Nat \ {0} /\ Interval \in Nat \ {0}
    /\ MaxIdle \in Nat /\ MaxIdle >= Capacity * Interval

Limiters == {"persist", "request"}

VARIABLES
    bucket,     \* per limiter and user, the bucket or Absent
    ideal,      \* history: the buckets of limiters that never collect garbage
    invoice,    \* the persisted static invoices
    asked,      \* history: the newest invoice to be persisted
    mailbox,    \* per peer, its messages
    count,      \* history: per peer, messages since it last got or lost them
    unfair      \* history: a peer was evicted although another had more messages

asyncVars == <<bucket, ideal, invoice, asked, mailbox, count, unfair>>

NoBuckets == [l \in Limiters |-> [u \in Users |-> Absent]]

AsyncInit ==
    /\ bucket = NoBuckets /\ ideal = NoBuckets
    /\ invoice = [u \in Users |-> 0] /\ asked = invoice
    /\ mailbox = [p \in MailPeers |-> <<>>]
    /\ count = [p \in MailPeers |-> 0]
    /\ unfair = FALSE
-----------------------------------------------------------------------------
(* RateLimiter.  A bucket has its tokens and the age of its last refill.   *)

Full == [tokens |-> Capacity, age |-> 0]

Refilled(b) ==
    LET tokens_to_add == b.age \div Interval
    IN  IF tokens_to_add > 0
        THEN [tokens |-> Min({b.tokens + tokens_to_add, Capacity}), age |-> 0]
        ELSE b

BucketOf(b) == Refilled(IF b = Absent THEN Full ELSE b)
Allows(b) == BucketOf(b).tokens > 0
Taken(b) == [BucketOf(b) EXCEPT !.tokens = IF @ > 0 THEN @ - 1 ELSE @]

\* Mutant: a bucket is idle as soon as it was refilled.
CollectRefilled(buckets) ==
    [u \in Users |-> IF buckets[u] # Absent /\ buckets[u].age >= Interval
                     THEN Absent ELSE buckets[u]]

garbage_collect(buckets) ==
    [u \in Users |-> IF buckets[u] # Absent /\ buckets[u].age >= MaxIdle
                     THEN Absent ELSE buckets[u]]

\* A new user is the occasion to clean up.
allow(l, u) ==
    LET taken == [bucket[l] EXCEPT ![u] = Taken(@)]
    IN  /\ bucket' = [bucket EXCEPT ![l] = IF bucket[l][u] = Absent
                                           THEN garbage_collect(taken) ELSE taken]
        /\ ideal' = [ideal EXCEPT ![l][u] = Taken(@)]

Older(b) == IF b = Absent THEN b ELSE [b EXCEPT !.age = Min({@ + 1, MaxIdle})]
Aged(all) == [l \in Limiters |-> [u \in Users |-> Older(all[l][u])]]
Tick ==
    /\ bucket' = Aged(bucket) /\ ideal' = Aged(ideal)
    /\ bucket' # bucket
    /\ UNCHANGED <<loop, left, invoice, asked, mailbox, count, unfair>>
-----------------------------------------------------------------------------
(* handle_event.                                                           *)

\* Over the limit, or when the write fails, the event is replayed.
PersistStaticInvoice ==
    /\ Handling("PersistStaticInvoice", "idle")
    /\ allow("persist", About)
    /\ \/ /\ Allows(bucket["persist"][About])
          /\ invoice' = [invoice EXCEPT ![About] = Current[3]]
          /\ Finish /\ UNCHANGED left
       \/ /\ Allows(bucket["persist"][About])
          /\ Spend("fails") /\ Replay /\ UNCHANGED invoice
       \/ ~Allows(bucket["persist"][About]) /\ Replay /\ UNCHANGED <<invoice, left>>
    /\ UNCHANGED <<asked, mailbox, count, unfair>>

\* The invoice, if there is one, is sent to whoever asks.
StaticInvoiceRequested ==
    /\ Handling("StaticInvoiceRequested", "idle")
    /\ allow("request", About)
    /\ IF Allows(bucket["request"][About]) THEN Finish ELSE Replay
    /\ UNCHANGED <<left, invoice, asked, mailbox, count, unfair>>

\* max_by_key: one of the peers with the most messages
Evicted(boxes, p) ==
    {q \in MailPeers : \A r \in MailPeers : Len(boxes[r]) <= Len(boxes[q])}

\* The oldest message makes room for the newest.
Queued(p, message) ==
    LET queue == IF Len(mailbox[p]) >= MaxMessages THEN Tail(mailbox[p]) ELSE mailbox[p]
    IN  [mailbox EXCEPT ![p] = Append(queue, message)]

OnionMessageIntercepted ==
    /\ Handling("OnionMessageIntercepted", "idle")
    /\ LET counted == [count EXCEPT ![About] = @ + 1]
           boxes == Queued(About, counted[About])
       IN  IF Cardinality({p \in MailPeers : boxes[p] # <<>>}) <= MaxPeers
           THEN mailbox' = boxes /\ count' = counted /\ UNCHANGED unfair
           ELSE \E q \in Evicted(boxes, About) :
                   /\ mailbox' = [boxes EXCEPT ![q] = <<>>]
                   /\ count' = [counted EXCEPT ![q] = 0]
                   /\ unfair' = (unfair \/ \E r \in MailPeers : Len(boxes[r]) > Len(boxes[q]))
    /\ Finish
    /\ UNCHANGED <<left, bucket, ideal, invoice, asked>>

\* The messages are taken out and forwarded.
OnionMessagePeerConnected ==
    /\ Handling("OnionMessagePeerConnected", "idle")
    /\ mailbox' = [mailbox EXCEPT ![About] = <<>>]
    /\ count' = [count EXCEPT ![About] = 0]
    /\ Finish
    /\ UNCHANGED <<left, bucket, ideal, invoice, asked, unfair>>

HandleAsyncEvent ==
    \/ PersistStaticInvoice \/ StaticInvoiceRequested
    \/ OnionMessageIntercepted \/ OnionMessagePeerConnected

\* LDK raises the events.
AsyncArrives ==
    \/ /\ Spend("asks")
       /\ \E u \in Users :
             \/ /\ asked' = [asked EXCEPT ![u] = @ + 1]
                /\ Emit(<< <<"PersistStaticInvoice", u, asked'[u]>> >>)
             \/ Emit(<< <<"StaticInvoiceRequested", u>> >>) /\ UNCHANGED asked
       /\ UNCHANGED <<bucket, ideal, invoice, mailbox, count, unfair>>
    \/ /\ Spend("mails")
       /\ \E p \in MailPeers, e \in {"OnionMessageIntercepted", "OnionMessagePeerConnected"} :
             Emit(<< <<e, p>> >>)
       /\ UNCHANGED asyncVars

\* Limiters and mailboxes are in memory only.
AsyncCrash ==
    /\ bucket' = NoBuckets /\ ideal' = NoBuckets
    /\ mailbox' = [p \in MailPeers |-> <<>>]
    /\ count' = [p \in MailPeers |-> 0]
    /\ UNCHANGED <<invoice, asked, unfair>>

AsyncStep == HandleAsyncEvent \/ AsyncArrives \/ Tick
-----------------------------------------------------------------------------
\* What the server forgets makes no difference it could avoid.  Forgetting idle users
\* changes no answer of a limiter (rate_limiter.rs 16-18): a bucket that is kept is the one
\* an ideal limiter has, and one that was dropped would be full.  When all events are
\* handled, whatever was replayed, the static invoice kept is the newest one (event.rs
\* 2341), and every peer's mailbox has its newest messages in order; only the peer with
\* the most messages ever loses its mailbox (om_mailbox.rs 28).
ForgetsWhatItMay ==
    /\ \A l \in Limiters, u \in Users :
          \/ bucket[l][u] = ideal[l][u]
          \/ bucket[l][u] = Absent /\ Refilled(ideal[l][u]) = Full
    /\ pending = <<>> => invoice = asked
    /\ Cardinality({p \in MailPeers : mailbox[p] # <<>>}) <= MaxPeers
    /\ \A p \in MailPeers :
          mailbox[p] = LET n == Min({MaxMessages, count[p]})
                       IN  [i \in 1..n |-> count[p] - n + i]
    /\ ~unfair
=============================================================================

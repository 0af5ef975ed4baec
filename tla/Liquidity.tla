----------------------------- MODULE Liquidity -----------------------------
(***************************************************************************)
(* Requests to a liquidity service (liquidity.rs): LSPS1 orders of a       *)
(* channel and LSPS2 invoices for a channel opened just in time.  A call   *)
(* sends a request, leaves the sender of a oneshot channel in the map of   *)
(* its kind, and waits five seconds for the task that handles liquidity    *)
(* events to find it there.  Answers may be late, lost, errors, or not     *)
(* what was asked for.  The protocols (lightning-liquidity) are external.  *)
(***************************************************************************)
EXTENDS EventLoop, SequencesExt

CONSTANTS
    LThreads,      \* threads calling the API
    JitCalls,      \* [amount, limit] of calls for an invoice; amount 0: variable
    Orders,        \* [lsp, client] balances of channels to order
    Limits,        \* the options an LSP may state
    Menus,         \* the menus of opening fees an LSP may offer
    ServiceOffer,  \* what we offer as a service
    TokenWanted,   \* require_token, and
    TokenGiven,    \* the token a client has
    Million,       \* parts of a proportional fee, 1000000
    Nothing

ASSUME LiquidityAssumption == Million \in Nat \ {0}

VARIABLES
    lcall,       \* what each thread's call does
    requests,    \* the pending_*_requests maps: <<kind, id>>
    wire,        \* requests the LSP has not answered
    inbox,       \* liquidity events to be handled
    nextId,      \* the next request id
    given,       \* history: what the LSP answered to each request
    agreed,      \* history: the results of successful calls
    unexpected   \* history: an answer found no request

liquidityVars == <<lcall, requests, wire, inbox, nextId, given, agreed, unexpected>>

Waiting == [op |-> "none", want |-> Nothing, kind |-> "none", id |-> 0, first |-> 0,
            seen |-> Nothing, reply |-> Nothing]

LiquidityInit ==
    /\ lcall = [t \in LThreads |-> Waiting]
    /\ requests = {} /\ wire = {} /\ inbox = <<>> /\ nextId = 1
    /\ given = <<>> /\ agreed = {} /\ unexpected = FALSE

Hangs(t) == lcall[t].op # "none" /\ lcall[t].reply = Nothing
Ends(t) == lcall' = [lcall EXCEPT ![t] = Waiting]

\* Under the map's lock the request is sent and its sender stored.
SendRequest(t, new, kind, body) ==
    /\ wire' = wire \cup {[id |-> nextId, kind |-> kind, body |-> body]}
    /\ requests' = requests \cup {<<kind, nextId>>}
    /\ lcall' = [lcall EXCEPT ![t] = [new EXCEPT !.kind = kind, !.id = nextId,
                                                 !.reply = Nothing]]
    /\ nextId' = nextId + 1
    /\ given' = Append(given, Nothing)

FirstRequest(t, op, want, kind, body) ==
    /\ Spend("calls")
    /\ lcall[t] = Waiting
    /\ SendRequest(t, [Waiting EXCEPT !.op = op, !.want = want, !.first = nextId], kind, body)
    /\ UNCHANGED <<loop, inbox, agreed, unexpected>>

\* LSPS1: request_channel asks for the options first.
request_channel(t, order) == FirstRequest(t, "order", order, "options", Nothing)
check_order_status(t, order) == FirstRequest(t, "status", order, "status", order)
\* LSPS2: an invoice for an amount or for any amount.
receive_to_jit_channel(t, want) == FirstRequest(t, "jit", want, "fees", TokenGiven)

\* The receiver is dropped, the sender stays in the map.
RequestTimesOut(t) ==
    /\ Hangs(t)
    /\ Ends(t)
    /\ UNCHANGED <<loop, left, requests, wire, inbox, nextId, given, agreed, unexpected>>
-----------------------------------------------------------------------------
(* What a call does with an answer.                                        *)

InLimits(order, l) ==
    /\ order.lsp + order.client \in l.size
    /\ order.lsp \in l.lsp
    /\ order.client \in l.client

\* lsps1_request_channel, with the limits in hand
PlaceOrder(t) ==
    LET c == lcall[t]
    IN  /\ c.kind = "options"
        /\ IF InLimits(c.want, c.reply)
           THEN SendRequest(t, [c EXCEPT !.seen = c.reply], "order", c.want)
           ELSE Ends(t) /\ UNCHANGED <<requests, wire, nextId, given>>
        /\ UNCHANGED agreed

\* and with the order, which must be the one placed.
OrderPlaced(t) ==
    LET c == lcall[t]
    IN  /\ c.kind = "order"
        /\ agreed' = IF c.reply = c.want THEN agreed \cup {c} ELSE agreed
        /\ Ends(t)
        /\ UNCHANGED <<requests, wire, nextId, given>>

StatusKnown(t) ==
    /\ lcall[t].kind = "status"
    /\ agreed' = agreed \cup {lcall[t]}
    /\ Ends(t)
    /\ UNCHANGED <<requests, wire, nextId, given>>

compute_opening_fee(amount, o) ==
    Max({o.minFee, (amount * o.prop + Million - 1) \div Million})

\* The fee an offer is judged by: in total, or for a variable amount its proportion.
Fee(want, o) == IF want.amount = 0 THEN o.prop ELSE compute_opening_fee(want.amount, o)
Eligible(want, menu) ==
    {o \in ToSet(menu) : want.amount = 0 \/ (o.min <= want.amount /\ want.amount <= o.max)}

\* The offers min_by_key may find
Cheapest(want, menu) ==
    {o \in Eligible(want, menu) : \A p \in Eligible(want, menu) : Fee(want, o) <= Fee(want, p)}

Affordable(want, o) == want.limit # Nothing => Fee(want, o) <= want.limit

\* lsps2_receive_to_jit_channel, lsps2_receive_variable_amount_to_jit_channel
BuyOffer(t) ==
    LET c == lcall[t]
        best == Cheapest(c.want, c.reply)
    IN  /\ c.kind = "fees"
        /\ \/ \E o \in best :
                 /\ Affordable(c.want, o)
                 /\ SendRequest(t, [c EXCEPT !.seen = o], "buy", <<o, c.want.amount>>)
           \/ /\ \A o \in best : ~Affordable(c.want, o)
              /\ Ends(t) /\ UNCHANGED <<requests, wire, nextId, given>>
        /\ UNCHANGED agreed

\* lsps2_create_jit_invoice puts the answer in the route hint of the invoice.
CreateJitInvoice(t) ==
    /\ lcall[t].kind = "buy"
    /\ agreed' = agreed \cup {lcall[t]}
    /\ Ends(t)
    /\ UNCHANGED <<requests, wire, nextId, given>>

TakeReply(t) ==
    /\ lcall[t].reply # Nothing
    /\ PlaceOrder(t) \/ OrderPlaced(t) \/ StatusKnown(t) \/ BuyOffer(t) \/ CreateJitInvoice(t)
    /\ UNCHANGED <<loop, left, inbox, unexpected>>
-----------------------------------------------------------------------------
(* The LSP, which may be a node like this one.                             *)

\* LSPS2ServiceEvent::GetInfo: an invalid token is rejected.
GetInfo(token) == IF TokenWanted \notin {Nothing, token} THEN {} ELSE {<<ServiceOffer>>}

\* LSPS2ServiceEvent::BuyRequest: an invalid size is not answered.  The answer, a channel
\* id, stands for what it was issued for.
BuyRequest(body) ==
    IF body[2] # 0 /\ (body[2] > ServiceOffer.max \/ body[2] < ServiceOffer.min) THEN {}
    ELSE {body}

Answers(r) ==
    CASE r.kind = "options" -> Limits
      [] r.kind = "order" -> Orders
      [] r.kind = "status" -> {r.body}
      [] r.kind = "fees" -> Menus \cup GetInfo(r.body)
      [] r.kind = "buy" -> IF r.body[1] = ServiceOffer THEN BuyRequest(r.body) ELSE {r.body}

\* An answer, or an error, which lightning-liquidity hands on as an event of its own.
LspAnswers(r) ==
    /\ wire' = wire \ {r}
    /\ \/ \E body \in Answers(r) :
             /\ inbox' = Append(inbox, [kind |-> r.kind, id |-> r.id, body |-> body])
             /\ given' = [given EXCEPT ![r.id] = body]
       \/ /\ inbox' = Append(inbox, [kind |-> "error", id |-> r.id, body |-> Nothing])
          /\ UNCHANGED given
    /\ UNCHANGED <<loop, left, lcall, requests, nextId, agreed, unexpected>>
-----------------------------------------------------------------------------
(* handle_next_event.                                                      *)

\* Mutant: the answer goes to any request of its kind.
DeliveredToAny(e) ==
    [t \in LThreads |-> IF Hangs(t) /\ lcall[t].kind = e.kind
                        THEN [lcall[t] EXCEPT !.reply = e.body] ELSE lcall[t]]

\* sender.send: when the receiver is gone the answer is dropped.
Delivered(e) ==
    [t \in LThreads |-> IF Hangs(t) /\ lcall[t].id = e.id
                        THEN [lcall[t] EXCEPT !.reply = e.body] ELSE lcall[t]]

Found(e) == <<e.kind, e.id>> \in requests

handle_next_event ==
    /\ inbox # <<>>
    /\ inbox' = Tail(inbox)
    /\ LET e == Head(inbox)
       IN  \/ /\ e.kind # "error" /\ Found(e)
              /\ requests' = requests \ {<<e.kind, e.id>>}
              /\ lcall' = Delivered(e)
              /\ UNCHANGED unexpected
           \/ /\ e.kind # "error" /\ ~Found(e)
              /\ unexpected' = TRUE
              /\ UNCHANGED <<requests, lcall>>
           \/ e.kind = "error" /\ UNCHANGED <<requests, lcall, unexpected>>
    /\ UNCHANGED <<loop, left, wire, nextId, given, agreed>>

\* Calls, maps and the requests lightning-liquidity knows of are in memory only.
LiquidityCrash ==
    /\ lcall' = [t \in LThreads |-> Waiting]
    /\ requests' = {} /\ wire' = {} /\ inbox' = <<>>
    /\ UNCHANGED <<nextId, given, agreed, unexpected>>

LiquidityStep ==
    \/ \E t \in LThreads : RequestTimesOut(t) \/ TakeReply(t)
    \/ \E t \in LThreads, o \in Orders : request_channel(t, o) \/ check_order_status(t, o)
    \/ \E t \in LThreads, w \in JitCalls : receive_to_jit_channel(t, w)
    \/ \E r \in wire : LspAnswers(r)
    \/ handle_next_event
-----------------------------------------------------------------------------
\* A call succeeds only on terms the LSP stated to that very call: the order is the one
\* placed and within the limits given for it; the invoice's channel id was issued for the
\* offer the call chose, the cheapest it was given and within the user's limit; whatever
\* other calls wait, timed out or are answered meanwhile.  And no answer comes for a
\* request that is not known (liquidity.rs 429, 490, 548, 849, 901).
AgreedTerms ==
    /\ ~unexpected
    /\ \A c \in agreed :
          /\ c.op = "order" => InLimits(c.want, given[c.first]) /\ given[c.id] = c.want
          /\ c.op = "status" => given[c.id] = c.want
          /\ c.op = "jit" =>
                LET offered == Eligible(c.want, given[c.first])
                IN  /\ given[c.id] = <<c.seen, c.want.amount>>
                    /\ c.seen \in offered
                    /\ \A o \in offered : Fee(c.want, c.seen) <= Fee(c.want, o)
                    /\ c.want.limit # Nothing => Fee(c.want, c.seen) <= c.want.limit
=============================================================================

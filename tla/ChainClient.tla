------------------------------ MODULE ChainClient ------------------------------
(***************************************************************************)
(* How a node talks to its chain backend (chain/electrum.rs, esplora.rs,   *)
(* bitcoind.rs, mod.rs, tx_broadcaster.rs, fee_estimator.rs): the queue of *)
(* packages LDK wants broadcast and the calls that submit them, Electrum's *)
(* shared connection and its replacement when it breaks, what LDK asks to  *)
(* have watched, the lightning sync on a thread that outlives its caller,  *)
(* the gate that keeps that thread from LDK once the node stops, and the   *)
(* cache of fee rates.                                                     *)
(***************************************************************************)
EXTENDS Integers, Sequences, FiniteSetsExt

CONSTANTS
    Packages,         \* packages LDK may broadcast: sequences of transactions
    UserTxs,          \* transactions the user submits, which are not in packages
    Locked,           \* transactions that are not final at first
    Outputs,          \* what LDK may register to be watched
    Estimates,        \* answers of the backend: sat/kwu by number of blocks
    QueueSize,        \* BCAST_PACKAGE_QUEUE_SIZE
    Scenarios,        \* bounds: for a kind of backend, how often each kind of thing may happen
    NoTx

Txs == UNION {Range(p) : p \in Packages} \cup UserTxs
Callers == {"loop", "user"}

ASSUME ChainClientAssumption ==
    /\ QueueSize \in Nat \ {0} /\ Locked \subseteq Txs
    /\ \A p \in Packages : Range(p) \cap UserTxs = {}
    /\ \A e \in Estimates : e[1] >= e[6] /\ e[6] >= e[144]

VARIABLES
    backend,    \* [kind, network], never changes
    status,     \* ElectrumRuntimeStatus: the number of the client in use, 0 when stopped
    stopping,   \* begin_shutdown was called, stop was not
    clients,    \* clients made so far
    gate,       \* confirm_gate, by client
    main,       \* main_client's connection, by client
    conns,      \* connections made so far
    broken,     \* connections that broke
    tasks,      \* reconnects under way
    queue,      \* the packages queued
    call,       \* what a caller is doing
    req,        \* its request at the backend
    answer,     \* the last response the user was given; the loop ignores its own
    ghosts,     \* transactions in requests nobody waits for
    abandoned,  \* history: transactions that were ever among them
    accepted,   \* the user's transactions the backend has taken
    locked,     \* transactions not yet final
    pending,    \* registrations queued while stopped
    regs,       \* registrations, by client
    onchain,    \* outputs spent or confirmed on chain
    sync,       \* the caller of the lightning sync
    thread,     \* the blocking task it spawned, by client
    told,       \* outputs LDK was told about
    fees,       \* fee_rate_cache
    offered, attempted, excused,   \* history: LDK's transactions: handed over, submitted, given up
    found,      \* history: connections a call found broken
    forgotten,  \* history: registrations a stopped client took with it
    left        \* what is left of the budget

service == <<status, stopping, clients, gate>>
lines == <<main, conns, broken, tasks, found>>
bcast == <<queue, call, req, answer, ghosts, abandoned, accepted, locked, offered, attempted, excused>>
watch == <<pending, regs, forgotten>>
light == <<onchain, sync, thread, told>>
vars == <<backend, service, lines, bcast, watch, light, fees, left>>

Spend(what) == left[what] > 0 /\ left' = [left EXCEPT ![what] = @ - 1]
Free == UNCHANGED left

Electrum == backend.kind = "electrum"
\* The client a new call works with: Esplora and Bitcoin Core have the one they were built with.
Client == IF Electrum THEN status ELSE 0
Clients == 0 .. 2
Running == status > 0 /\ ~stopping

NoCall == [pc |-> "idle", tx |-> NoTx, client |-> 0, conn |-> 0, try |-> 0, rest |-> <<>>]
NoThread == [pc |-> "none", todo |-> {}, passed |-> {}, ok |-> TRUE]
NoSync == [pc |-> "idle", client |-> 0, due |-> {}, result |-> "none"]

\* The server closed or reset the connection, or it cannot be written to.
electrum_connection_broken(k) == k \in broken

-----------------------------------------------------------------------------
(* Responses *)

Reply(form, code, message) == [form |-> form, code |-> code, message |-> message]
Txid == Reply("txid", 0, "")
\* A request without a reply: none, one under way, one that could not be written.
None == Reply("none", 0, "")
Sent == Reply("sent", 0, "")
Cut == Reply("cut", 0, "")

non_final_rejection(r) == r.code = -26 /\ r.message = "non-final"

\* Mutant: every error the server reports counts as a rejection.
ElectrumRefusals(r) == r.form \in {"string", "object"}

\* Electrum servers pass Bitcoin Core's refusal on in a string, or as it is, or with a code of their own.
classify_electrum_broadcast(r) ==
    \/ r.form = "string" /\ non_final_rejection(r)
    \/ r.form = "object" /\ (non_final_rejection(r) \/ (r.code = 2 /\ r.message = "non-final"))

\* Esplora wraps it in a string.
classify_esplora_broadcast(r) == r.form = "string" /\ non_final_rejection(r)

classify_bitcoind_broadcast(r) == r.form = "object" /\ non_final_rejection(r)

Rejects(r) == CASE backend.kind = "electrum" -> classify_electrum_broadcast(r)
                [] backend.kind = "esplora" -> classify_esplora_broadcast(r)
                [] backend.kind = "bitcoind" -> classify_bitcoind_broadcast(r)

\* Only a structured refusal of a transaction that is not final is a rejection.
Response(r) == IF r = Txid THEN "accepted" ELSE IF Rejects(r) THEN "rejected" ELSE "unknown"

Forms == CASE backend.kind = "electrum" -> {"string", "object"}
           [] backend.kind = "esplora" -> {"string"}
           [] backend.kind = "bitcoind" -> {"object"}

\* What the backend makes of a transaction when it comes to it.
Replies(t) ==
    IF t \in locked THEN {Reply(f, -26, "non-final") : f \in Forms}
                            \cup (IF Electrum THEN {Reply("object", 2, "non-final")} ELSE {})
    ELSE IF t \in accepted THEN {Txid} \cup {Reply(f, -27, "known") : f \in Forms} ELSE {Txid}
Refusals == {Reply(f, -26, "refused") : f \in Forms}

-----------------------------------------------------------------------------
(* The queue *)

\* broadcast_transactions: try_send drops the package when the queue is full.
broadcast_transactions(p) ==
    /\ Spend("offers")
    /\ offered' = offered \cup Range(p)
    /\ IF Len(queue) < QueueSize THEN queue' = Append(queue, p) /\ UNCHANGED excused
                                 ELSE excused' = excused \cup Range(p) /\ UNCHANGED queue
    /\ UNCHANGED <<backend, service, lines, call, req, answer, ghosts, abandoned, accepted, locked, attempted, watch, light, fees>>

continuously_process_broadcast_queue ==
    /\ Running /\ call["loop"].pc = "idle" /\ queue # <<>> /\ Free
    /\ call' = [call EXCEPT !["loop"] = [NoCall EXCEPT !.pc = "next", !.client = Client, !.rest = Head(queue)]]
    /\ queue' = Tail(queue)
    /\ UNCHANGED <<backend, service, lines, req, answer, ghosts, abandoned, accepted, locked, offered, attempted, excused, watch, light, fees>>

\* broadcast_user_transaction: without a client there is nothing to submit to.
broadcast_user_transaction(t) ==
    /\ call["user"].pc = "idle" /\ Spend("users")
    /\ Electrum => status > 0
    /\ call' = [call EXCEPT !["user"] = [NoCall EXCEPT !.pc = "next", !.client = Client, !.rest = <<t>>]]
    /\ UNCHANGED <<backend, service, lines, queue, req, answer, ghosts, abandoned, accepted, locked, offered, attempted, excused, watch, light, fees>>

-----------------------------------------------------------------------------
(* A broadcast *)

\* Sends caller c's request for t on the connection in use.
Send(c, t, n) ==
    LET k == main[call[c].client]
    IN  /\ call' = [call EXCEPT ![c] = [@ EXCEPT !.pc = "sent", !.tx = t, !.conn = k, !.try = n,
                                                 !.rest = IF n = 1 THEN Tail(@) ELSE @]]
        /\ req' = [req EXCEPT ![c] = IF electrum_connection_broken(k) THEN Cut ELSE Sent]
        /\ attempted' = attempted \cup {t}

process_broadcast_package(c) ==
    /\ call[c].pc = "next" /\ Free
    /\ IF call[c].rest = <<>>
       THEN call' = [call EXCEPT ![c] = NoCall] /\ UNCHANGED <<req, attempted>>
       ELSE Send(c, Head(call[c].rest), 1)
    /\ UNCHANGED <<backend, service, lines, queue, answer, ghosts, abandoned, accepted, locked, offered, excused, watch, light, fees>>

\* The backend comes to the request of c, or to one whose caller is gone.
Serve(c) ==
    /\ req[c] = Sent /\ call[c].conn \notin broken
    /\ \/ Free /\ \E r \in Replies(call[c].tx) :
            /\ req' = [req EXCEPT ![c] = r]
            /\ accepted' = IF r = Txid THEN accepted \cup ({call[c].tx} \cap UserTxs) ELSE accepted
       \/ Spend("faults") /\ UNCHANGED accepted
          /\ \E r \in Refusals : req' = [req EXCEPT ![c] = r]
    /\ UNCHANGED <<backend, service, lines, queue, call, answer, ghosts, abandoned, locked, offered, attempted, excused, watch, light, fees>>

ServeGhost(t) ==
    /\ t \in ghosts /\ Free
    /\ ghosts' = ghosts \ {t} /\ UNCHANGED abandoned
    /\ accepted' = IF t \in locked THEN accepted ELSE accepted \cup {t}
    /\ UNCHANGED <<backend, service, lines, queue, call, req, answer, locked, offered, attempted, excused, watch, light, fees>>

\* A caller that stops waiting leaves its request behind.  (What becomes of LDK's own nobody asks.)
Leave(c) ==
    LET t == IF req[c] = Sent THEN {call[c].tx} \cap UserTxs ELSE {}
    IN  ghosts' = ghosts \cup t /\ abandoned' = abandoned \cup t

\* Mutant: a package is given up when one of its transactions gets no answer.
EndUnlessUnknown(c, r) ==
    /\ answer' = IF c = "user" THEN r ELSE answer
    /\ call' = [call EXCEPT ![c] = IF r = "unknown" THEN NoCall
                                   ELSE [NoCall EXCEPT !.pc = "next", !.client = call[c].client, !.rest = call[c].rest]]
    /\ req' = [req EXCEPT ![c] = None]

\* The response r for the transaction; the next one of the package follows.
End(c, r) ==
    /\ answer' = IF c = "user" THEN r ELSE answer
    /\ call' = [call EXCEPT ![c] = [NoCall EXCEPT !.pc = "next", !.client = call[c].client, !.rest = call[c].rest]]
    /\ req' = [req EXCEPT ![c] = None]

\* broadcast_on: an answer in time.
Answered(c) ==
    /\ call[c].pc = "sent" /\ req[c] \notin {None, Sent, Cut} /\ Free
    /\ End(c, Response(req[c]))
    /\ UNCHANGED <<backend, service, lines, queue, ghosts, abandoned, accepted, locked, offered, attempted, excused, watch, light, fees>>

\* No answer in time, or no new connection: the request may still be delivered.
TimedOut(c) ==
    /\ call[c].pc \in {"sent", "reconnect"} /\ Free
    /\ End(c, "unknown") /\ Leave(c)
    /\ tasks' = {[k EXCEPT !.orphan = @ \/ k.for = c] : k \in tasks}
    /\ UNCHANGED <<backend, service, main, conns, broken, found, queue, accepted, locked, offered, attempted, excused, watch, light, fees>>

\* broadcast_with_timeout: a connection that broke is replaced, once.
ConnectionBroken(c) ==
    /\ call[c].pc = "sent" /\ electrum_connection_broken(call[c].conn) /\ Free
    /\ found' = found \cup {call[c].conn} /\ Leave(c)
    /\ IF call[c].try = 1
       THEN /\ call' = [call EXCEPT ![c].pc = "reconnect"] /\ req' = [req EXCEPT ![c] = None]
            /\ tasks' = tasks \cup {[for |-> c, orphan |-> FALSE, client |-> call[c].client,
                                     failed |-> call[c].conn, stage |-> "check"]}
            /\ UNCHANGED answer
       ELSE End(c, "unknown") /\ UNCHANGED tasks
    /\ UNCHANGED <<backend, service, main, conns, broken, queue, accepted, locked, offered, attempted, excused, watch, light, fees>>

\* A caller waiting for its reconnect retries when there is another client by now.
Reconnected(c) == \E k \in tasks :
    /\ call[c].pc = "reconnect" /\ k.for = c /\ ~k.orphan /\ k.stage \in {"new", "failed"} /\ Free
    /\ tasks' = tasks \ {k}
    /\ IF k.stage = "new" THEN Send(c, call[c].tx, 2) /\ UNCHANGED answer
                          ELSE End(c, "unknown") /\ UNCHANGED attempted
    /\ UNCHANGED <<backend, service, main, conns, broken, found, queue, ghosts, abandoned, accepted, locked, offered, excused, watch, light, fees>>

-----------------------------------------------------------------------------
(* reconnect_main_client, on a thread of its own *)

Moved(k, stage) == tasks' = (tasks \ {k}) \cup (IF k.orphan /\ stage # "connect" THEN {} ELSE {[k EXCEPT !.stage = stage]})
IsCurrent(k) == main[k.client] = k.failed

CheckCurrent(k) ==
    /\ k.stage = "check" /\ Free
    /\ Moved(k, IF IsCurrent(k) THEN "connect" ELSE "new")
    /\ UNCHANGED <<backend, service, main, conns, broken, found, bcast, watch, light, fees>>

\* Mutant: whoever connects last wins.
InstallAlways(k) == [main EXCEPT ![k.client] = conns + 1]

\* The new connection replaces the failed one, and no other.
Install(k) == IF IsCurrent(k) THEN [main EXCEPT ![k.client] = conns + 1] ELSE main

connect_main(k) ==
    /\ k.stage = "connect"
    /\ \/ Free /\ main' = Install(k) /\ conns' = conns + 1 /\ Moved(k, "new")
       \/ Spend("faults") /\ Moved(k, IF IsCurrent(k) THEN "failed" ELSE "new") /\ UNCHANGED <<main, conns>>
    /\ UNCHANGED <<backend, service, broken, found, bcast, watch, light, fees>>

\* get_address_balance, a wallet scan or a fee update finds the connection broken and has it
\* replaced without waiting.
OtherCallFails ==
    /\ Electrum /\ status > 0 /\ electrum_connection_broken(main[status]) /\ Spend("others")
    /\ found' = found \cup {main[status]}
    /\ tasks' = tasks \cup {[for |-> "other", orphan |-> TRUE, client |-> status, failed |-> main[status], stage |-> "check"]}
    /\ UNCHANGED <<backend, service, main, conns, broken, bcast, watch, light, fees>>

-----------------------------------------------------------------------------
(* Start and stop *)

\* ElectrumRuntimeClient::new
NewClient(k) == main' = [main EXCEPT ![k] = conns + 1] /\ conns' = conns + 1

\* ElectrumRuntimeStatus::start: a client with connections of its own and the registrations that
\* were queued.
start ==
    /\ status = 0 /\ clients < 2
    /\ \/ /\ Free /\ status' = clients + 1 /\ clients' = clients + 1
          /\ gate' = [gate EXCEPT ![clients + 1] = TRUE]
          /\ IF Electrum THEN /\ NewClient(clients + 1)
                              /\ regs' = [regs EXCEPT ![clients + 1] = pending] /\ pending' = {}
                         ELSE UNCHANGED <<main, conns, regs, pending>>
       \/ Electrum /\ Spend("faults") /\ UNCHANGED <<status, clients, gate, main, conns, regs, pending>>
    /\ UNCHANGED <<backend, stopping, broken, tasks, found, bcast, forgotten, light, fees>>

\* Node::stop: the gate is closed, then the broadcast loop is aborted.
begin_shutdown ==
    /\ Running /\ Spend("stops")
    /\ stopping' = TRUE /\ gate' = [gate EXCEPT ![status] = FALSE]
    /\ call' = [call EXCEPT !["loop"] = NoCall] /\ req' = [req EXCEPT !["loop"] = None]
    /\ Leave("loop")
    /\ excused' = excused \cup Range(call["loop"].rest) \cup ({call["loop"].tx} \ {NoTx})
    /\ tasks' = {[k EXCEPT !.orphan = @ \/ k.for = "loop"] : k \in tasks}
    /\ UNCHANGED <<backend, status, clients, main, conns, broken, found, queue, answer, accepted, locked, offered, attempted, watch, light, fees>>

\* ElectrumRuntimeStatus::stop: the client goes, with what was registered with it.
stop ==
    /\ stopping /\ stopping' = FALSE /\ status' = 0 /\ Free
    /\ forgotten' = IF Electrum THEN forgotten \cup regs[status] ELSE forgotten
    /\ UNCHANGED <<backend, clients, gate, lines, bcast, pending, regs, light, fees>>

-----------------------------------------------------------------------------
(* Filter *)

Registered == UNION {regs[k] : k \in Clients} \cup pending

\* ElectrumRuntimeStatus: with the client, or queued until there is one.
RegisterElectrum(o) ==
    IF status = 0 THEN pending' = pending \cup {o} /\ UNCHANGED regs
                  ELSE regs' = [regs EXCEPT ![status] = @ \cup {o}] /\ UNCHANGED pending

RegisterEsplora(o) == regs' = [regs EXCEPT ![0] = @ \cup {o}] /\ UNCHANGED pending

\* LDK registers a transaction or an output; Bitcoin Core's blocks are looked at in full.
register_output(o) ==
    /\ backend.kind # "bitcoind" /\ o \notin Registered /\ Spend("outputs")
    /\ IF Electrum THEN RegisterElectrum(o) ELSE RegisterEsplora(o)
    /\ UNCHANGED <<backend, service, lines, bcast, forgotten, light, fees>>

-----------------------------------------------------------------------------
(* The lightning sync of Esplora and Electrum *)

\* What LDK should hear of: registered with this client or on its way to it, and confirmed.
Due == ((Registered \ forgotten) \cap onchain) \ told

sync_lightning_wallet ==
    /\ backend.kind # "bitcoind" /\ sync.pc = "idle" /\ Spend("syncs")
    /\ Electrum => status > 0
    /\ thread[Client].pc = "none"
    /\ sync' = [pc |-> "wait", client |-> Client, due |-> Due, result |-> "none"]
    /\ thread' = [thread EXCEPT ![Client] = [NoThread EXCEPT !.pc = "fetch"]]
    /\ UNCHANGED <<backend, service, lines, bcast, watch, onchain, told, fees>>

\* A thread whose caller has gone just ends.
Ending(k) == IF sync.pc = "wait" /\ sync.client = k THEN "over" ELSE "none"

\* tx_sync.sync: what is confirmed of the registered outputs; or the backend fails.
Fetch(k) ==
    /\ thread[k].pc = "fetch"
    /\ \/ Free /\ thread' = [thread EXCEPT ![k].pc = "tell", ![k].todo = (regs[k] \cap onchain) \ told]
       \/ Spend("faults") /\ thread' = [thread EXCEPT ![k].pc = Ending(k), ![k].ok = FALSE]
    /\ UNCHANGED <<backend, service, lines, bcast, watch, onchain, sync, told, fees>>

\* ConfirmGate; Esplora has none.
is_active(k) == ~Electrum \/ gate[k]

\* with_confirmables: the gate is looked at, and then the update is passed on.  A closed gate
\* swallows it.
with_confirmables(k, o) ==
    /\ thread[k].pc = "tell" /\ o \in thread[k].todo /\ thread[k].passed = {} /\ Free
    /\ thread' = [thread EXCEPT ![k].todo = @ \ {o}, ![k].passed = IF is_active(k) THEN {o} ELSE {}]
    /\ UNCHANGED <<backend, service, lines, bcast, watch, onchain, sync, told, fees>>

transactions_confirmed(k) ==
    /\ thread[k].passed # {} /\ Free
    /\ told' = told \cup thread[k].passed
    /\ thread' = [thread EXCEPT ![k].passed = {}]
    /\ UNCHANGED <<backend, service, lines, bcast, watch, onchain, sync, fees>>

AllTold(k) ==
    /\ thread[k].pc = "tell" /\ thread[k].todo = {} /\ thread[k].passed = {} /\ Free
    /\ thread' = [thread EXCEPT ![k].pc = Ending(k)]
    /\ UNCHANGED <<backend, service, lines, bcast, watch, onchain, sync, told, fees>>

\* Mutant: the caller does not look at the gate again.
ResultOfThread(k) == IF thread[k].ok THEN "ok" ELSE "failed"

\* sync_confirmables: the gate was open throughout.
sync_confirmables(k) == IF thread[k].ok /\ is_active(k) THEN "ok" ELSE "failed"

\* The result is in; the time stamp and the archived monitors are stored, or cannot be.
SyncDone ==
    LET k == sync.client
    IN  /\ sync.pc = "wait" /\ thread[k].pc = "over"
        /\ \/ Free /\ sync' = [sync EXCEPT !.pc = "idle", !.result = sync_confirmables(k)]
           \/ Spend("faults") /\ sync' = [sync EXCEPT !.pc = "idle", !.result = "failed"]
        /\ thread' = [thread EXCEPT ![k] = NoThread]
        /\ UNCHANGED <<backend, service, lines, bcast, watch, onchain, told, fees>>

\* The caller gives up.  Electrum's thread goes on without it; Esplora's sync ends where it is.
SyncTimeout ==
    LET k == sync.client
    IN  /\ sync.pc = "wait" /\ Free
        /\ sync' = [sync EXCEPT !.pc = "idle", !.result = "failed"]
        /\ thread' = IF Electrum /\ thread[k].pc # "over" THEN thread ELSE [thread EXCEPT ![k] = NoThread]
        /\ UNCHANGED <<backend, service, lines, bcast, watch, onchain, told, fees>>

-----------------------------------------------------------------------------
(* Fee rates *)

\* Four of get_all_conf_targets, in its order, with their number of blocks and their fallback.
Targets == <<"MaximumFeeEstimate", "UrgentOnChainSweep", "MinAllowedNonAnchor", "ChannelCloseMinimum">>
get_num_block_defaults_for_target == <<1, 6, 144, 144>>
get_fallback_rate_for_target == <<8000, 5000, 253, 500>>
FeerateFloor == 253

apply_post_estimation_adjustments(i, rate) ==
    CASE Targets[i] = "MinAllowedNonAnchor" -> Max({IF rate > 250 THEN rate - 250 ELSE 0, FeerateFloor})
      [] Targets[i] = "MaximumFeeEstimate" -> (rate * 11) \div 10 + 2500
      [] OTHER -> rate

estimate_fee_rate(i) ==
    Max({IF i \in DOMAIN fees THEN fees[i] ELSE get_fallback_rate_for_target[i], FeerateFloor})

Adjusted(e, n) == [i \in 1 .. n |-> apply_post_estimation_adjustments(i, e[i])]

\* Mutant: an incomplete answer is used on every network.
UpdatesFromAnyPrefix == {Adjusted([i \in 1 .. 4 |-> Max({e[get_num_block_defaults_for_target[i]], 250})], n) : e \in Estimates, n \in 0 .. 4}

\* Electrum's batch: one answer for all targets, which may be short except on mainnet.
BatchUpdates ==
    {Adjusted([i \in 1 .. 4 |-> Max({e[get_num_block_defaults_for_target[i]], 250})], n) :
        e \in Estimates, n \in IF backend.network = "bitcoin" THEN {4} ELSE 0 .. 4}

\* Esplora's map: one answer; nothing in it stands for 1 sat/vB, which mainnet does not allow.
MapUpdates ==
    {Adjusted([i \in 1 .. 4 |-> Max({e[get_num_block_defaults_for_target[i]], 250})], 4) : e \in Estimates}
        \cup (IF backend.network = "bitcoin" THEN {} ELSE {Adjusted(<<250, 250, 250, 250>>, 4)})

\* Bitcoin Core's: one request for each target, answered with the estimate of that moment; on
\* regtest 1 sat/vB stands for an answer that did not come.
get_fee_estimate_for_target(i) ==
    {e[get_num_block_defaults_for_target[i]] : e \in Estimates} \cup (IF backend.network = "regtest" THEN {250} ELSE {})

RequestUpdates ==
    {Adjusted(<<a, b, c, d>>, 4) : a \in get_fee_estimate_for_target(1), b \in get_fee_estimate_for_target(2),
                                   c \in get_fee_estimate_for_target(3), d \in get_fee_estimate_for_target(4)}

\* A failed update changes nothing.
update_fee_rate_estimates ==
    /\ status > 0 /\ Spend("fees")
    /\ fees' \in CASE backend.kind = "electrum" -> BatchUpdates
                   [] backend.kind = "esplora" -> MapUpdates
                   [] backend.kind = "bitcoind" -> RequestUpdates
    /\ UNCHANGED <<backend, service, lines, bcast, watch, light>>

-----------------------------------------------------------------------------
(* The world *)

Break == /\ Electrum /\ status > 0 /\ main[status] \notin broken /\ Spend("faults")
         /\ broken' = broken \cup {main[status]}
         /\ UNCHANGED <<backend, service, main, conns, tasks, found, bcast, watch, light, fees>>

\* A block: locked transactions become final.
Unlock == /\ locked # {} /\ Free /\ locked' = {}
          /\ UNCHANGED <<backend, service, lines, queue, call, req, answer, ghosts, abandoned, accepted, offered, attempted, excused, watch, light, fees>>

ConfirmOutput(o) == /\ o \notin onchain /\ o \in Registered /\ Free /\ onchain' = onchain \cup {o}
                    /\ UNCHANGED <<backend, service, lines, bcast, watch, sync, thread, told, fees>>
-----------------------------------------------------------------------------
Init ==
    /\ \E sc \in Scenarios : backend = sc.backend /\ left = sc.budget
    /\ status = 0 /\ stopping = FALSE /\ clients = 0 /\ gate = [k \in Clients |-> FALSE]
    /\ main = [k \in Clients |-> 0] /\ conns = 0 /\ broken = {} /\ tasks = {} /\ found = {}
    /\ queue = <<>> /\ call = [c \in Callers |-> NoCall] /\ req = [c \in Callers |-> None]
    /\ answer = "none" /\ ghosts = {} /\ abandoned = {} /\ accepted = {} /\ locked = Locked
    /\ offered = {} /\ attempted = {} /\ excused = {}
    /\ pending = {} /\ regs = [k \in Clients |-> {}] /\ forgotten = {}
    /\ onchain = {} /\ sync = NoSync /\ thread = [k \in Clients |-> NoThread] /\ told = {}
    /\ fees = <<>>

CallStep(c) == process_broadcast_package(c) \/ Answered(c) \/ TimedOut(c) \/ ConnectionBroken(c) \/ Reconnected(c)
LoopStep == continuously_process_broadcast_queue \/ CallStep("loop")
Reconnect == \E k \in tasks : CheckCurrent(k) \/ connect_main(k)
ThreadStep(k) == Fetch(k) \/ transactions_confirmed(k) \/ AllTold(k) \/ \E o \in Outputs : with_confirmables(k, o)

Next ==
    \/ \E p \in Packages : broadcast_transactions(p)
    \/ \E t \in UserTxs : broadcast_user_transaction(t)
    \/ LoopStep \/ CallStep("user") \/ Reconnect
    \/ \E c \in Callers : Serve(c)
    \/ \E t \in ghosts : ServeGhost(t)
    \/ OtherCallFails \/ Break \/ Unlock
    \/ start \/ begin_shutdown \/ stop
    \/ \E o \in Outputs : register_output(o) \/ ConfirmOutput(o)
    \/ sync_lightning_wallet \/ SyncDone \/ SyncTimeout
    \/ \E k \in Clients : ThreadStep(k)
    \/ update_fee_rate_estimates

\* The loop's task and the reconnecting threads run; a call ends at the latest when it times out.
FairSpec == Init /\ [][Next]_vars /\ WF_vars(LoopStep) /\ WF_vars(Reconnect)

-----------------------------------------------------------------------------
\* A response can be relied on, since the wallet keeps or releases the transaction's inputs by it:
\* "accepted" is said only of a transaction the backend has taken, and "rejected" never of one it
\* has taken - a lost reply, a retry on a new connection and a second submission included - unless
\* an earlier request for it was left unanswered and may still be, or have been, delivered.
AnswersTrue ==
    [][call["user"].pc \in {"sent", "reconnect"} /\ call'["user"].pc = "next" =>
         LET t == call["user"].tx
         IN  /\ answer' = "accepted" => t \in accepted
             /\ answer' = "rejected" => t \notin accepted \/ t \in abandoned]_vars

\* A connection is replaced only if a call found it broken, however many calls fail on the same
\* connection and reconnect at once: the fresh one of the first is kept.
HealthyKept == [][\A k \in Clients : main'[k] # main[k] => main[k] = 0 \/ main[k] \in found]_vars

\* A lightning sync that reports success has told LDK of everything that was registered, before
\* the start or since, and confirmed when it began: nothing was swallowed by the gate of a stopping
\* node - except what was registered with a client that was stopped, which the next one never
\* hears of.
OkIsTold ==
    [][sync.pc = "wait" /\ sync'.pc = "idle" /\ sync'.result = "ok" => sync.due \subseteq told]_vars

\* On mainnet the rates LDK reads always fit together - the least it accepts from a peer is not
\* above its own closing rate, and its sweep rate not above its maximum - though some come from
\* the cache and some may be fallbacks.  Bitcoin Core is asked for one target after the other and
\* can answer with estimates of different moments.
FeesCoherent ==
    backend.network = "bitcoin" /\ backend.kind # "bitcoind" =>
        /\ estimate_fee_rate(3) <= estimate_fee_rate(4)
        /\ estimate_fee_rate(2) <= estimate_fee_rate(1)

\* Every transaction LDK hands over is submitted while the node stays up, whatever happens to the
\* ones before it, unless the queue was full or the node was stopped with its package in hand.
PackagesSubmitted ==
    <>[]Running => \A t \in Txs : t \in offered ~> t \in attempted \cup excused
=============================================================================

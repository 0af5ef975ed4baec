-------------------------- MODULE WalletSyncProofs --------------------------
(***************************************************************************)
(* Completeness of the on-chain wallet sync for any number of callers,     *)
(* accounts, faults, cancelled tasks and crashes.                          *)
(*                                                                         *)
(* The argument: an update that a driver applied to an account could only  *)
(* be undone by the older update of another driver.  There is none, since  *)
(* the status stays in progress as long as somebody drives, and also when  *)
(* the driver was cancelled.                                               *)
(***************************************************************************)
EXTENDS WalletSync, TLAPS

Driving == {"fetch", "apply", "propagate"}

Fields == {"pc", "prev", "got", "due", "events", "cur", "err", "began", "bal"}
IsCall(r) == r = [f \in Fields |-> r[f]]

IsUpdate(u) == u = [asOf |-> u.asOf, txs |-> u.txs]

\* A call as it can be at any point: it began in the past, and an update that it fetched is
\* not older than that.
GoodCall(r) ==
    /\ IsCall(r)
    /\ r.began \in Nat /\ r.began <= moves
    /\ r.got = [a \in Accounts |-> r.got[a]]
    /\ \A a \in Accounts : r.got[a] \notin {Pending, Failed} =>
          IsUpdate(r.got[a]) /\ r.got[a].asOf \in Nat /\ r.got[a].asOf >= r.began

Shapes ==
    /\ moves \in Nat
    /\ sync = [t \in Tasks |-> sync[t]]
    /\ \A t \in Tasks : GoodCall(sync[t])
    /\ wallet = [a \in Accounts |-> wallet[a]]
    /\ \A a \in Accounts : wallet[a].asOf \in Nat

\* At most one call drives, and the status says so.
OneDriver ==
    \A t \in Tasks : sync[t].pc \in Driving =>
        status = "InProgress" /\ \A u \in Tasks : sync[u].pc \in Driving => u = t

\* What a driver without an error has done so far.
AppliedSoFar ==
    \A t \in Tasks :
        /\ sync[t].pc = "apply" => \A a \in Accounts : sync[t].got[a] # Pending
        /\ sync[t].pc = "apply" /\ ~sync[t].err =>
              \A a \in Accounts \ sync[t].due : wallet[a].asOf >= sync[t].began
        /\ sync[t].pc = "propagate" /\ ~sync[t].err =>
              \A a \in Accounts : wallet[a].asOf >= sync[t].began

IInv == Shapes /\ OneDriver /\ AppliedSoFar
-----------------------------------------------------------------------------
\* An idle call is good whatever the plan.
LEMMA IdleGood ==
    ASSUME moves \in Nat
    PROVE  GoodCall(Idle) /\ Idle.pc = "idle" /\ Idle.began = 0
  <1>1. IsCall(Idle)
    BY DEF Idle, IsCall, Fields
  <1>2. /\ Idle.pc = "idle" /\ Idle.began = 0
        /\ Idle.got = [a \in Accounts |-> Pending]
    BY DEF Idle
  <1>3. Idle.got = [a \in Accounts |-> Idle.got[a]]
    BY <1>2
  <1>4. \A a \in Accounts : Idle.got[a] = Pending
    BY <1>2
  <1> QED BY <1>1, <1>2, <1>3, <1>4 DEF GoodCall

\* Nothing has begun in the initial state.
LEMMA InitIInv == Init => IInv
  <1> SUFFICES ASSUME Init PROVE IInv
    OBVIOUS
  <1>1. moves \in Nat /\ \A t \in Tasks : sync[t] = Idle
    BY DEF Init
  <1>2. Shapes
    BY <1>1, IdleGood DEF Init, Shapes
  <1>3. OneDriver /\ AppliedSoFar
    BY <1>1, IdleGood DEF OneDriver, AppliedSoFar, Driving
  <1> QED BY <1>2, <1>3 DEF IInv

\* A step of a call after which it does not drive, and which leaves wallets and status alone.
LEMMA QuietIInv ==
    ASSUME IInv, NEW t \in Tasks, NEW r, GoodCall(r), r.pc \notin Driving,
           sync' = [sync EXCEPT ![t] = r],
           UNCHANGED <<plan, moves, wallet, status>>
    PROVE  IInv'
  <1>1. sync = [u \in Tasks |-> sync[u]]
    BY DEF IInv, Shapes
  <1>2. sync' = [u \in Tasks |-> IF u = t THEN r ELSE sync[u]]
    BY <1>1
  <1>3. sync'[t] = r /\ \A u \in Tasks \ {t} : sync'[u] = sync[u]
    BY <1>2
  <1>4. Accounts' = Accounts
    BY DEF Accounts
  <1>5. \A c : GoodCall(c) => GoodCall(c)'
    BY <1>4 DEF GoodCall
  <1>6. Shapes'
    BY <1>2, <1>3, <1>4, <1>5 DEF IInv, Shapes
  <1>7. \A u \in Tasks : sync'[u].pc \in Driving => u # t /\ sync'[u] = sync[u]
    BY <1>3
  <1>8. OneDriver'
    BY <1>7 DEF IInv, OneDriver
  <1>9. AppliedSoFar'
    BY <1>4, <1>7 DEF IInv, AppliedSoFar, Driving
  <1> QED BY <1>6, <1>8, <1>9 DEF IInv

\* A step of the driver that leaves wallets, status and the chain alone.
LEMMA DriverIInv ==
    ASSUME IInv, NEW t \in Tasks, sync[t].pc \in Driving, NEW r, GoodCall(r),
           r.pc = "apply" => \A a \in Accounts : r.got[a] # Pending,
           r.pc = "apply" /\ ~r.err => \A a \in Accounts \ r.due : wallet[a].asOf >= r.began,
           r.pc = "propagate" /\ ~r.err => \A a \in Accounts : wallet[a].asOf >= r.began,
           sync' = [sync EXCEPT ![t] = r],
           UNCHANGED <<plan, moves, wallet, status>>
    PROVE  IInv'
  <1>1. sync = [u \in Tasks |-> sync[u]]
    BY DEF IInv, Shapes
  <1>2. sync' = [u \in Tasks |-> IF u = t THEN r ELSE sync[u]]
    BY <1>1
  <1>3. sync'[t] = r /\ \A u \in Tasks \ {t} : sync'[u] = sync[u]
    BY <1>2
  <1>4. Accounts' = Accounts
    BY DEF Accounts
  <1>5. \A c : GoodCall(c) => GoodCall(c)'
    BY <1>4 DEF GoodCall
  <1>6. Shapes'
    BY <1>2, <1>3, <1>4, <1>5 DEF IInv, Shapes
  <1>7. OneDriver'
    BY <1>3 DEF IInv, OneDriver
  <1>8. AppliedSoFar'
    <2>1. ASSUME NEW u \in Tasks, u # t, sync'[u].pc \in Driving PROVE FALSE
      BY <2>1, <1>3 DEF IInv, OneDriver
    <2> QED BY <2>1, <1>3, <1>4 DEF AppliedSoFar, Driving
  <1> QED BY <1>6, <1>7, <1>8 DEF IInv
-----------------------------------------------------------------------------
\* The changes of a call that do not touch what it fetched keep it good.
LEMMA SameFetched ==
    ASSUME NEW r, NEW c, GoodCall(r), IsCall(c), c.began = r.began, c.got = r.got
    PROVE  GoodCall(c)
  BY DEF GoodCall

\* A call of the sync begins: it does not drive yet.
LEMMA BeginIInv ==
    ASSUME IInv, NEW t \in Tasks, Begin(t)
    PROVE  IInv'
  <1> DEFINE r == [Idle EXCEPT !.pc = "register", !.prev = unconfirmed_txids(wallet),
                               !.began = moves]
  <1>1. moves \in Nat
    BY DEF IInv, Shapes
  <1>2. GoodCall(r) /\ r.pc = "register"
    <2>1. GoodCall(Idle) /\ IsCall(Idle)
      BY <1>1, IdleGood DEF GoodCall
    <2>2. IsCall(r) /\ r.pc = "register" /\ r.began = moves /\ r.got = Idle.got
      BY <2>1 DEF IsCall, Fields
    <2>3. Idle.got = [a \in Accounts |-> Pending]
      BY DEF Idle
    <2> HIDE DEF r
    <2>4. r.got = [a \in Accounts |-> r.got[a]] /\ \A a \in Accounts : r.got[a] = Pending
      BY <2>2, <2>3
    <2> QED BY <1>1, <2>2, <2>4 DEF GoodCall
  <1>3. sync' = [sync EXCEPT ![t] = r] /\ UNCHANGED <<plan, moves, wallet, status>>
    BY DEF Begin, Goes, unchangedStatus
  <1> HIDE DEF r
  <1> QED BY <1>2, <1>3, QuietIInv DEF Driving

\* The first to register drives, which nobody else does then; the others subscribe.
LEMMA RegisterIInv ==
    ASSUME IInv, NEW t \in Tasks, register_or_subscribe_pending_sync(t)
    PROVE  IInv'
  <1> DEFINE r(pc) == [sync[t] EXCEPT !.pc = pc]
  <1>1. GoodCall(sync[t]) /\ IsCall(sync[t])
    BY DEF IInv, Shapes, GoodCall
  <1>2. /\ GoodCall(r("wait")) /\ r("wait").pc = "wait"
        /\ GoodCall(r("fetch")) /\ r("fetch").pc = "fetch"
    <2>1. /\ IsCall(r("wait")) /\ r("wait").began = sync[t].began /\ r("wait").got = sync[t].got
          /\ IsCall(r("fetch")) /\ r("fetch").began = sync[t].began /\ r("fetch").got = sync[t].got
          /\ r("wait").pc = "wait" /\ r("fetch").pc = "fetch"
      BY <1>1 DEF IsCall, Fields
    <2> QED BY <2>1, <1>1, SameFetched
  <1>3. UNCHANGED <<plan, moves, wallet>>
    BY DEF register_or_subscribe_pending_sync, unchangedWallet
  <1>4. CASE status = "InProgress" /\ sync' = [sync EXCEPT ![t] = r("wait")] /\ status' = status
    BY <1>2, <1>3, <1>4, QuietIInv DEF Driving
  <1>5. CASE status = "Completed" /\ sync' = [sync EXCEPT ![t] = r("fetch")] /\ status' = "InProgress"
    <2> DEFINE c == r("fetch")
    <2>1. sync = [u \in Tasks |-> sync[u]]
      BY DEF IInv, Shapes
    <2>2. sync' = [u \in Tasks |-> IF u = t THEN c ELSE sync[u]]
      BY <1>5, <2>1
    <2> HIDE DEF c
    <2>3. sync'[t] = c /\ \A u \in Tasks \ {t} : sync'[u] = sync[u]
      BY <2>2
    <2>4. c.pc = "fetch" /\ GoodCall(c)
      BY <1>2 DEF c
    <2>5. Accounts' = Accounts
      BY <1>3 DEF Accounts
    <2>6. \A x : GoodCall(x) => GoodCall(x)'
      BY <1>3, <2>5 DEF GoodCall
    <2>7. Shapes'
      BY <1>3, <2>2, <2>3, <2>4, <2>5, <2>6 DEF IInv, Shapes
    <2>8. \A u \in Tasks : sync'[u].pc \in Driving => u = t
      BY <1>5, <2>3 DEF IInv, OneDriver
    <2>9. OneDriver'
      BY <1>5, <2>8 DEF OneDriver
    <2>10. AppliedSoFar'
      BY <2>3, <2>4, <2>8 DEF AppliedSoFar, Driving
    <2> QED BY <2>7, <2>9, <2>10 DEF IInv
  <1> QED BY <1>4, <1>5 DEF register_or_subscribe_pending_sync, To, Goes

\* Fetching: results arrive one by one, each not older than the call.
LEMMA FetchIInv ==
    ASSUME IInv, NEW t \in Tasks,
           \/ RequestsFail(t) \/ AllFetched(t)
           \/ \E a \in Accounts : FetchAccount(t, a)
    PROVE  IInv'
  <1>1. GoodCall(sync[t]) /\ IsCall(sync[t]) /\ moves \in Nat
    BY DEF IInv, Shapes, GoodCall
  <1>2. CASE RequestsFail(t)
    <2> DEFINE r == [sync[t] EXCEPT !.pc = "propagate", !.err = TRUE]
    <2>1. /\ IsCall(r) /\ r.began = sync[t].began /\ r.got = sync[t].got
          /\ r.pc = "propagate" /\ r.err = TRUE
      BY <1>1 DEF IsCall, Fields
    <2>2. /\ sync' = [sync EXCEPT ![t] = r] /\ sync[t].pc \in Driving
          /\ UNCHANGED <<plan, moves, wallet, status>>
      BY <1>2 DEF RequestsFail, Goes, At, Driving, unchangedWallet, unchangedStatus
    <2> HIDE DEF r
    <2>3. GoodCall(r)
      BY <2>1, <1>1, SameFetched
    <2> QED BY <2>1, <2>2, <2>3, DriverIInv
  <1>3. CASE AllFetched(t)
    <2> DEFINE r == [sync[t] EXCEPT !.pc = "apply", !.due = Accounts]
    <2>1. /\ IsCall(r) /\ r.began = sync[t].began /\ r.got = sync[t].got
          /\ r.pc = "apply" /\ r.due = Accounts
      BY <1>1 DEF IsCall, Fields
    <2>2. /\ sync' = [sync EXCEPT ![t] = r] /\ sync[t].pc \in Driving
          /\ \A a \in Accounts : sync[t].got[a] # Pending
          /\ UNCHANGED <<plan, moves, wallet, status>>
      BY <1>3 DEF AllFetched, Goes, At, Driving, unchangedWallet, unchangedStatus
    <2> HIDE DEF r
    <2>3. GoodCall(r)
      BY <2>1, <1>1, SameFetched
    <2> QED BY <2>1, <2>2, <2>3, DriverIInv
  <1>4. ASSUME NEW a \in Accounts, FetchAccount(t, a) PROVE IInv'
    <2> DEFINE update == [asOf |-> moves, txs |-> chain]
    <2>1. PICK res : /\ res \in {update, Failed}
                     /\ sync' = [sync EXCEPT ![t] = [sync[t] EXCEPT !.got[a] = res]]
      BY <1>4 DEF FetchAccount, Goes
    <2> DEFINE r == [sync[t] EXCEPT !.got[a] = res]
    <2>2. /\ IsCall(r) /\ r.began = sync[t].began /\ r.pc = sync[t].pc
          /\ r.got = [sync[t].got EXCEPT ![a] = res]
      BY <1>1 DEF IsCall, Fields
    <2>3. sync[t].pc = "fetch" /\ UNCHANGED <<plan, moves, wallet, status>>
      BY <1>4 DEF FetchAccount, At, unchangedWallet, unchangedStatus
    <2>4. sync' = [sync EXCEPT ![t] = r]
      BY <2>1
    <2> HIDE DEF r
    <2>5. sync[t].got = [b \in Accounts |-> sync[t].got[b]]
      BY <1>1 DEF GoodCall
    <2>6. r.got = [b \in Accounts |-> IF b = a THEN res ELSE sync[t].got[b]]
      BY <2>2, <2>5
    <2>7. sync[t].began \in Nat /\ sync[t].began <= moves
      BY <1>1 DEF GoodCall
    <2>8. res \notin {Pending, Failed} => IsUpdate(res) /\ res.asOf = moves
      BY <2>1 DEF IsUpdate
    <2>9. ASSUME NEW b \in Accounts, r.got[b] \notin {Pending, Failed}
          PROVE  IsUpdate(r.got[b]) /\ r.got[b].asOf \in Nat /\ r.got[b].asOf >= r.began
      <3>1. CASE b = a
        BY <3>1, <2>2, <2>6, <2>7, <2>8, <2>9, <1>1
      <3>2. CASE b # a
        BY <3>2, <2>2, <2>6, <2>9, <1>1 DEF GoodCall
      <3> QED BY <3>1, <3>2
    <2>10. GoodCall(r)
      BY <2>2, <2>6, <2>7, <2>9 DEF GoodCall
    <2> QED BY <2>2, <2>3, <2>4, <2>10, DriverIInv DEF Driving
  <1> QED BY <1>2, <1>3, <1>4

\* An update is applied to one account, or its error is kept: the other accounts and the
\* updates of others are left alone.
LEMMA ApplyIInv ==
    ASSUME IInv, NEW t \in Tasks, NEW a \in Accounts, ApplyAccount(t, a)
    PROVE  IInv'
  <1>1. /\ GoodCall(sync[t]) /\ IsCall(sync[t]) /\ moves \in Nat
        /\ sync[t].pc = "apply" /\ sync[t].got[a] # Pending
        /\ UNCHANGED <<plan, moves, status>>
    BY DEF IInv, Shapes, GoodCall, AppliedSoFar, ApplyAccount, At, unchangedStatus
  <1>2. CASE sync[t].got[a] = Failed
    <2> DEFINE r == [sync[t] EXCEPT !.due = @ \ {a}, !.err = TRUE]
    <2>1. /\ IsCall(r) /\ r.began = sync[t].began /\ r.got = sync[t].got
          /\ r.pc = sync[t].pc /\ r.err = TRUE
      BY <1>1 DEF IsCall, Fields
    <2>2. sync' = [sync EXCEPT ![t] = r] /\ wallet' = wallet
      BY <1>2 DEF ApplyAccount, Goes
    <2> HIDE DEF r
    <2>3. GoodCall(r)
      BY <2>1, <1>1, SameFetched
    <2>4. \A b \in Accounts : r.got[b] # Pending
      BY <2>1, <1>1 DEF IInv, AppliedSoFar
    <2> QED BY <2>1, <2>2, <2>3, <2>4, <1>1, DriverIInv DEF Driving
  <1>3. CASE sync[t].got[a] # Failed
    <2>1. PICK ev, er : /\ er = sync[t].err \/ er = TRUE
                        /\ sync' = [sync EXCEPT ![t] = [sync[t] EXCEPT !.due = @ \ {a},
                                                           !.events = ev, !.err = er]]
      <3>1. CASE sync' = [sync EXCEPT ![t] = [sync[t] EXCEPT !.due = @ \ {a},
                              !.events = @ \o wallet_events(wallet[a], sync[t].got[a])]]
        <4> DEFINE ev == sync[t].events \o wallet_events(wallet[a], sync[t].got[a])
        <4>1. [sync[t] EXCEPT !.due = @ \ {a}, !.events = ev]
                = [sync[t] EXCEPT !.due = @ \ {a}, !.events = ev, !.err = sync[t].err]
          <5> HIDE DEF ev
          <5> QED BY <1>1 DEF IsCall, Fields
        <4> QED BY <3>1, <4>1
      <3>2. CASE sync' = [sync EXCEPT ![t] = [sync[t] EXCEPT !.due = @ \ {a}, !.err = TRUE]]
        <4>1. [sync[t] EXCEPT !.due = @ \ {a}, !.err = TRUE]
                = [sync[t] EXCEPT !.due = @ \ {a}, !.events = sync[t].events, !.err = TRUE]
          BY <1>1 DEF IsCall, Fields
        <4> QED BY <3>2, <4>1
      <3> QED BY <1>3, <3>1, <3>2 DEF ApplyAccount, Goes
    <2> DEFINE r == [sync[t] EXCEPT !.due = @ \ {a}, !.events = ev, !.err = er]
    <2>2. /\ IsCall(r) /\ r.began = sync[t].began /\ r.got = sync[t].got
          /\ r.pc = "apply" /\ r.due = sync[t].due \ {a} /\ r.err = er
      BY <1>1 DEF IsCall, Fields
    <2>3. sync' = [sync EXCEPT ![t] = r]
      BY <2>1
    <2> HIDE DEF r
    <2>4. GoodCall(r)
      BY <2>2, <1>1, SameFetched
    <2> DEFINE u == sync[t].got[a]
    <2>5. IsUpdate(u) /\ u.asOf \in Nat /\ u.asOf >= sync[t].began
      BY <1>1, <1>3 DEF GoodCall
    <2>6. wallet' = [wallet EXCEPT ![a] = Applied(u)]
      BY <1>3 DEF ApplyAccount
    <2>7. Applied(u).asOf = u.asOf
      BY <2>5 DEF Applied, IsUpdate
    <2> HIDE DEF u
    <2>8. wallet = [b \in Accounts |-> wallet[b]] /\ \A b \in Accounts : wallet[b].asOf \in Nat
      BY DEF IInv, Shapes
    <2>9. wallet' = [b \in Accounts |-> IF b = a THEN Applied(u) ELSE wallet[b]]
      BY <2>6, <2>8
    <2>10. wallet'[a].asOf = u.asOf /\ \A b \in Accounts \ {a} : wallet'[b] = wallet[b]
      BY <2>7, <2>9
    <2>11. sync' = [v \in Tasks |-> IF v = t THEN r ELSE sync[v]]
      BY <2>3 DEF IInv, Shapes
    <2>12. sync'[t] = r /\ \A v \in Tasks \ {t} : sync'[v] = sync[v]
      BY <2>11
    <2>13. Accounts' = Accounts
      BY <1>1 DEF Accounts
    <2>14. \A c : GoodCall(c) => GoodCall(c)'
      BY <1>1, <2>13 DEF GoodCall
    <2>15. Shapes'
      <3>1. \A b \in Accounts : wallet'[b].asOf \in Nat
        BY <2>5, <2>8, <2>10
      <3>2. wallet' = [b \in Accounts |-> wallet'[b]]
        BY <2>9
      <3>3. sync' = [v \in Tasks |-> sync'[v]]
        BY <2>11
      <3>4. \A v \in Tasks : GoodCall(sync[v])'
        BY <2>4, <2>12, <2>14 DEF IInv, Shapes
      <3> QED BY <1>1, <2>13, <3>1, <3>2, <3>3, <3>4 DEF Shapes
    <2>16. \A v \in Tasks : sync'[v].pc \in Driving => v = t /\ sync[v].pc \in Driving
      BY <1>1, <2>12 DEF IInv, OneDriver, Driving
    <2>17. OneDriver'
      BY <1>1, <2>16 DEF IInv, OneDriver
    <2>18. ASSUME ~r.err, NEW b \in Accounts \ r.due PROVE wallet'[b].asOf >= r.began
      <3>1. ~sync[t].err
        BY <2>1, <2>2, <2>18
      <3>2. CASE b = a
        BY <3>2, <2>2, <2>5, <2>10
      <3>3. CASE b # a
        BY <3>1, <3>3, <1>1, <2>2, <2>10 DEF IInv, AppliedSoFar
      <3> QED BY <3>2, <3>3
    <2>19. AppliedSoFar'
      <3>1. \A b \in Accounts : r.got[b] # Pending
        BY <1>1, <2>2 DEF IInv, AppliedSoFar
      <3> QED BY <2>2, <2>12, <2>13, <2>16, <2>18, <3>1 DEF AppliedSoFar, Driving
    <2> QED BY <2>15, <2>17, <2>19 DEF IInv
  <1> QED BY <1>2, <1>3

\* All accounts are done: without an error each has its update.
LEMMA AllAppliedIInv ==
    ASSUME IInv, NEW t \in Tasks, AllApplied(t)
    PROVE  IInv'
  <1>1. /\ GoodCall(sync[t]) /\ IsCall(sync[t])
        /\ sync[t].pc = "apply" /\ sync[t].due = {}
        /\ UNCHANGED <<plan, moves, wallet, status>>
    BY DEF IInv, Shapes, GoodCall, AllApplied, At, unchangedWallet, unchangedStatus
  <1>2. PICK fails : sync' = [sync EXCEPT ![t] = [sync[t] EXCEPT !.pc = "propagate",
                                                      !.err = @ \/ fails]]
    BY DEF AllApplied, Goes
  <1> DEFINE r == [sync[t] EXCEPT !.pc = "propagate", !.err = @ \/ fails]
  <1>3. /\ IsCall(r) /\ r.began = sync[t].began /\ r.got = sync[t].got
        /\ r.pc = "propagate" /\ r.err = (sync[t].err \/ fails)
    BY <1>1 DEF IsCall, Fields
  <1>4. sync' = [sync EXCEPT ![t] = r]
    BY <1>2
  <1> HIDE DEF r
  <1>5. GoodCall(r)
    BY <1>1, <1>3, SameFetched
  <1>6. ~r.err => \A a \in Accounts : wallet[a].asOf >= r.began
    BY <1>1, <1>3 DEF IInv, AppliedSoFar
  <1> QED BY <1>1, <1>3, <1>4, <1>5, <1>6, DriverIInv DEF Driving

\* Driver and subscribers get the result; nobody drives any more.
LEMMA PropagateIInv ==
    ASSUME IInv, NEW t \in Tasks, propagate_result_to_subscribers(t)
    PROVE  IInv'
  <1>1. /\ \A u \in Tasks : GoodCall(sync[u]) /\ IsCall(sync[u])
        /\ sync[t].pc = "propagate" /\ UNCHANGED <<plan, moves, wallet>>
    BY DEF IInv, Shapes, GoodCall, propagate_result_to_subscribers, At, unchangedWallet
  <1>2. Accounts' = Accounts
    BY <1>1 DEF Accounts
  <1>3. \A c : GoodCall(c) => GoodCall(c)'
    BY <1>1, <1>2 DEF GoodCall
  <1>4. ASSUME NEW u \in Tasks
        PROVE  GoodCall(sync'[u]) /\ sync'[u].pc \notin Driving
    <2> DEFINE r == [sync[u] EXCEPT !.pc = "process"]
               c == [sync[u] EXCEPT !.pc = "process", !.err = sync[t].err]
    <2>1. /\ IsCall(r) /\ r.began = sync[u].began /\ r.got = sync[u].got /\ r.pc = "process"
          /\ IsCall(c) /\ c.began = sync[u].began /\ c.got = sync[u].got /\ c.pc = "process"
      BY <1>1 DEF IsCall, Fields
    <2>2. sync'[u] \in {r, c} \/ (sync'[u] = sync[u] /\ u # t)
      BY DEF propagate_result_to_subscribers
    <2> HIDE DEF r, c
    <2>3. GoodCall(r) /\ GoodCall(c)
      BY <1>1, <2>1, SameFetched
    <2>4. u # t => sync[u].pc \notin Driving
      BY <1>1 DEF IInv, OneDriver, Driving
    <2> QED BY <1>1, <2>1, <2>2, <2>3, <2>4 DEF Driving
  <1>5. sync' = [u \in Tasks |-> sync'[u]]
    BY DEF propagate_result_to_subscribers
  <1>6. Shapes'
    BY <1>1, <1>2, <1>3, <1>4, <1>5 DEF IInv, Shapes
  <1>7. OneDriver' /\ AppliedSoFar'
    BY <1>4 DEF OneDriver, AppliedSoFar, Driving
  <1> QED BY <1>6, <1>7 DEF IInv

\* What a call does after it has its result changes neither wallets nor status.
LEMMA AfterIInv ==
    ASSUME IInv, NEW t \in Tasks, NEW r, sync' = [sync EXCEPT ![t] = r],
           IsCall(r), r.began = sync[t].began, r.got = sync[t].got, r.pc \notin Driving,
           UNCHANGED <<plan, moves, wallet, status>>
    PROVE  IInv'
  <1>1. GoodCall(r)
    BY SameFetched DEF IInv, Shapes
  <1> QED BY <1>1, QuietIInv

\* A call that returns, or a task that is cancelled, is idle again.
LEMMA ReturnIInv ==
    ASSUME IInv, NEW t \in Tasks, Return(t), UNCHANGED <<plan, moves, wallet, status>>
    PROVE  IInv'
  <1>1. GoodCall(Idle) /\ Idle.pc \notin Driving
    BY IdleGood DEF IInv, Shapes, Driving
  <1> QED BY <1>1, QuietIInv DEF Return, Goes

\* Processing and pushing events, one action after the other.
LEMMA EventsIInv ==
    ASSUME IInv, NEW t \in Tasks,
           \/ process_wallet_events(t) \/ PushEvent(t) \/ CurrentUnconfirmed(t)
           \/ check_evicted_transactions(t) \/ PushEvicted(t) \/ SyncCompleted(t)
           \/ CompareBalance(t) \/ BalanceChanged(t) \/ NoteBalance(t) \/ Cancel(t)
    PROVE  IInv'
  <1> DEFINE Same == UNCHANGED <<plan, moves, wallet, status>>
  <1>1. IsCall(sync[t])
    BY DEF IInv, Shapes, GoodCall
  <1>2. ASSUME NEW pc, pc \notin Driving, Same, Goes(t, [sync[t] EXCEPT !.pc = pc])
        PROVE  IInv'
    <2> DEFINE r == [sync[t] EXCEPT !.pc = pc]
    <2>1. IsCall(r) /\ r.began = sync[t].began /\ r.got = sync[t].got /\ r.pc = pc
      BY <1>1 DEF IsCall, Fields
    <2>2. sync' = [sync EXCEPT ![t] = r]
      BY <1>2 DEF Goes
    <2> HIDE DEF r
    <2> QED BY <1>2, <2>1, <2>2, AfterIInv
  <1>3. ASSUME NEW pc, NEW x, pc \notin Driving, Same, Goes(t, [sync[t] EXCEPT !.pc = pc, !.events = x])
        PROVE  IInv'
    <2> DEFINE r == [sync[t] EXCEPT !.pc = pc, !.events = x]
    <2>1. IsCall(r) /\ r.began = sync[t].began /\ r.got = sync[t].got /\ r.pc = pc
      BY <1>1 DEF IsCall, Fields
    <2>2. sync' = [sync EXCEPT ![t] = r]
      BY <1>3 DEF Goes
    <2> HIDE DEF r
    <2> QED BY <1>3, <2>1, <2>2, AfterIInv
  <1>4. ASSUME NEW x, sync[t].pc \notin Driving, Same, Goes(t, [sync[t] EXCEPT !.events = x])
        PROVE  IInv'
    <2> DEFINE r == [sync[t] EXCEPT !.events = x]
    <2>1. IsCall(r) /\ r.began = sync[t].began /\ r.got = sync[t].got /\ r.pc = sync[t].pc
      BY <1>1 DEF IsCall, Fields
    <2>2. sync' = [sync EXCEPT ![t] = r]
      BY <1>4 DEF Goes
    <2> HIDE DEF r
    <2> QED BY <1>4, <2>1, <2>2, AfterIInv
  <1>5. ASSUME NEW pc, NEW x, pc \notin Driving, Same, Goes(t, [sync[t] EXCEPT !.pc = pc, !.cur = x])
        PROVE  IInv'
    <2> DEFINE r == [sync[t] EXCEPT !.pc = pc, !.cur = x]
    <2>1. IsCall(r) /\ r.began = sync[t].began /\ r.got = sync[t].got /\ r.pc = pc
      BY <1>1 DEF IsCall, Fields
    <2>2. sync' = [sync EXCEPT ![t] = r]
      BY <1>5 DEF Goes
    <2> HIDE DEF r
    <2> QED BY <1>5, <2>1, <2>2, AfterIInv
  <1>6. ASSUME NEW pc, NEW x, pc \notin Driving, Same, Goes(t, [sync[t] EXCEPT !.pc = pc, !.bal = x])
        PROVE  IInv'
    <2> DEFINE r == [sync[t] EXCEPT !.pc = pc, !.bal = x]
    <2>1. IsCall(r) /\ r.began = sync[t].began /\ r.got = sync[t].got /\ r.pc = pc
      BY <1>1 DEF IsCall, Fields
    <2>2. sync' = [sync EXCEPT ![t] = r]
      BY <1>6 DEF Goes
    <2> HIDE DEF r
    <2> QED BY <1>6, <2>1, <2>2, AfterIInv
  <1>7. CASE process_wallet_events(t)
    <2> DEFINE x == UserEvents(sync[t].events, transaction_confirmations(wallet))
    <2>1. Same /\ Goes(t, [sync[t] EXCEPT !.pc = "push", !.events = x])
      BY <1>7 DEF process_wallet_events, unchangedWallet, unchangedStatus
    <2> HIDE DEF x
    <2>2. "push" \notin Driving
      BY DEF Driving
    <2> QED BY <2>1, <2>2, <1>3, Zenon
  <1>8. CASE PushEvent(t)
    <2>1. Same /\ sync[t].pc = "push"
      BY <1>8 DEF PushEvent, At, unchangedStatus
    <2>2. CASE Goes(t, [sync[t] EXCEPT !.events = Tail(@)])
      <3> DEFINE x == Tail(sync[t].events)
      <3>1. Goes(t, [sync[t] EXCEPT !.events = x])
        BY <2>2
      <3> HIDE DEF x
      <3> QED BY <2>1, <3>1, <1>4 DEF Driving
    <2>3. CASE Return(t)
      BY <2>1, <2>3, ReturnIInv
    <2>4. CASE To(t, "current")
      BY <2>1, <2>4, <1>2 DEF Driving, To
    <2> QED BY <1>8, <2>2, <2>3, <2>4 DEF PushEvent
  <1>9. CASE CurrentUnconfirmed(t)
    <2> DEFINE x == unconfirmed_txids(wallet)
    <2>1. Same /\ Goes(t, [sync[t] EXCEPT !.pc = "evicted", !.cur = x])
      BY <1>9 DEF CurrentUnconfirmed, unchangedWallet, unchangedStatus
    <2> HIDE DEF x
    <2>2. "evicted" \notin Driving
      BY DEF Driving
    <2> QED BY <2>1, <2>2, <1>5, Zenon
  <1>10. CASE check_evicted_transactions(t)
    <2>1. PICK x : Same /\ Goes(t, [sync[t] EXCEPT !.pc = "evict", !.events = x])
      BY <1>10 DEF check_evicted_transactions, unchangedWallet, unchangedStatus
    <2>2. "evict" \notin Driving
      BY DEF Driving
    <2> QED BY <2>1, <2>2, <1>3, Zenon
  <1>11. CASE PushEvicted(t)
    <2> DEFINE x == Tail(sync[t].events)
    <2>1. Same /\ sync[t].pc = "evict" /\ Goes(t, [sync[t] EXCEPT !.events = x])
      BY <1>11 DEF PushEvicted, At, unchangedWallet, unchangedStatus
    <2> HIDE DEF x
    <2> QED BY <2>1, <1>4 DEF Driving
  <1>12. CASE SyncCompleted(t)
    <2> DEFINE x == get_balances(wallet)
    <2>1. Same /\ (Return(t) \/ Goes(t, [sync[t] EXCEPT !.pc = "compare", !.bal = x]))
      BY <1>12 DEF SyncCompleted, unchangedWallet, unchangedStatus
    <2> HIDE DEF x
    <2>2. "compare" \notin Driving
      BY DEF Driving
    <2>3. CASE Goes(t, [sync[t] EXCEPT !.pc = "compare", !.bal = x])
      BY <2>1, <2>2, <2>3, <1>6, Zenon
    <2> QED BY <2>1, <2>3, ReturnIInv
  <1>13. CASE CompareBalance(t)
    <2>1. Same /\ (Return(t) \/ To(t, "tell"))
      BY <1>13 DEF CompareBalance, unchangedWallet, unchangedStatus
    <2> QED BY <2>1, <1>2, ReturnIInv DEF Driving, To
  <1>14. CASE BalanceChanged(t)
    <2>1. Same /\ (Return(t) \/ To(t, "note"))
      BY <1>14 DEF BalanceChanged, unchangedStatus
    <2> QED BY <2>1, <1>2, ReturnIInv DEF Driving, To
  <1>15. CASE NoteBalance(t) \/ Cancel(t)
    <2>1. Same /\ Return(t)
      BY <1>15 DEF NoteBalance, Cancel, unchangedWallet, unchangedStatus
    <2> QED BY <2>1, ReturnIInv
  <1> QED BY <1>7, <1>8, <1>9, <1>10, <1>11, <1>12, <1>13, <1>14, <1>15

\* The chain moves on: what was fetched is not older than before.
LEMMA ChainIInv ==
    ASSUME IInv, ChainMoves
    PROVE  IInv'
  <1>1. moves \in Nat /\ moves' = moves + 1 /\ UNCHANGED <<plan, wallet, sync, status>>
    BY DEF IInv, Shapes, ChainMoves, unchangedStatus
  <1>2. Accounts' = Accounts
    BY <1>1 DEF Accounts
  <1>3. \A c : GoodCall(c) => GoodCall(c)'
    <2> SUFFICES ASSUME NEW c, GoodCall(c) PROVE GoodCall(c)'
      OBVIOUS
    <2>1. c.began \in Nat /\ c.began <= moves'
      BY <1>1 DEF GoodCall
    <2> QED BY <1>2, <2>1 DEF GoodCall
  <1> QED BY <1>1, <1>2, <1>3 DEF IInv, Shapes, OneDriver, AppliedSoFar

\* After a crash nobody drives, and the status is that of a new process.
LEMMA CrashIInv ==
    ASSUME IInv, Crash
    PROVE  IInv'
  <1>1. moves \in Nat /\ UNCHANGED <<plan, moves, wallet>> /\ sync' = [t \in Tasks |-> Idle]
    BY DEF IInv, Shapes, Crash
  <1>2. Accounts' = Accounts
    BY <1>1 DEF Accounts
  <1>3. \A t \in Tasks : sync'[t] = Idle
    BY <1>1
  <1>4. GoodCall(Idle) /\ Idle.pc = "idle"
    BY <1>1, IdleGood
  <1>5. \A c : GoodCall(c) => GoodCall(c)'
    BY <1>1, <1>2 DEF GoodCall
  <1>6. Shapes'
    BY <1>1, <1>2, <1>3, <1>4, <1>5 DEF IInv, Shapes
  <1>7. OneDriver' /\ AppliedSoFar'
    BY <1>3, <1>4 DEF OneDriver, AppliedSoFar, Driving
  <1> QED BY <1>6, <1>7 DEF IInv

\* Every step keeps the invariant.
LEMMA NextIInv == IInv /\ [Next]_vars => IInv'
  <1> SUFFICES ASSUME IInv, [Next]_vars PROVE IInv'
    OBVIOUS
  <1>1. ASSUME NEW t \in Tasks, Begin(t) \/ Step(t) \/ Cancel(t) PROVE IInv'
    BY <1>1, BeginIInv, RegisterIInv, FetchIInv, ApplyIInv, AllAppliedIInv, PropagateIInv,
       EventsIInv DEF Step
  <1>2. CASE UNCHANGED vars
    BY <1>2 DEF vars, IInv, Shapes, GoodCall, Accounts, OneDriver, AppliedSoFar
  <1> QED BY <1>1, <1>2, ChainIInv, CrashIInv DEF Next

\* A sync that is about to report Ok has applied, to every account, an update that was fetched
\* after it began; for any number of callers, accounts, failing fetches and writes, cancelled
\* tasks and crashes.
THEOREM SyncIsComplete == Spec => []OkIsComplete
  <1>1. IInv => OkIsComplete
    BY DEF IInv, AppliedSoFar, OkIsComplete
  <1> QED BY <1>1, InitIInv, NextIInv, PTL DEF Spec

\* No two calls drive a sync at the same time, whoever registers, is cancelled or returns.
THEOREM OneDriverAtATime == Spec => []OneDriver
  <1>1. IInv => OneDriver
    BY DEF IInv
  <1> QED BY <1>1, InitIInv, NextIInv, PTL DEF Spec
=============================================================================

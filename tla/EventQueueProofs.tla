-------------------------- MODULE EventQueueProofs --------------------------
(***************************************************************************)
(* Durability of the event queue for any number of tasks, events, failing  *)
(* and aborted calls and restarts, as long as the queue's length fits into *)
(* its u16 prefix.                                                         *)
(*                                                                         *)
(* The argument: once a call has its answer Ok, the bytes on disk and all  *)
(* bytes in flight that could still replace them have its effect.  A write *)
(* that does not, and is issued later, is what overtaken records.          *)
(***************************************************************************)
EXTENDS EventQueue, TLAPS

Has(d, e) == e \in Elems(d.items)

\* The bytes have the effect of the call o: the event is there, or gone.
Right(o, d) == o[1] = "add" <=> Has(d, o[2])

\* The effect of the call o still counts: no write overtook it, nobody popped its event.
Live(o) == o[2] \notin overtaken /\ (o[1] = "add" => o[2] \notin popped)

InFlight(t) == call[t].pc \in {"issued", "orphaned"}

\* n is the number of events pushed so far.
GoodQueue(q, n) ==
    /\ q \in Seq(Events)
    /\ Len(q) <= n
    /\ Increasing(q)
    /\ \A i \in DOMAIN q : q[i] <= n

GoodData(d, n) == d = [len |-> Len(d.items), items |-> d.items] /\ GoodQueue(d.items, n)

CallRecords ==
    [pc : {"idle", "encoded", "issued", "orphaned", "ok", "err"},
     op : Calls \cup {<<"none", 0>>},
     data : [len : Nat, items : Seq(Events)],
     version : Nat]

Types ==
    /\ pushed \in 0 .. MaxEvents
    /\ call \in [Tasks -> CallRecords]
    /\ nextVersion \in Nat /\ diskVersion \in Nat
    /\ acked \subseteq issued

GoodQueues ==
    /\ GoodQueue(queue, pushed) /\ GoodData(disk, pushed)
    /\ \A t \in Tasks : GoodData(call[t].data, pushed)

\* Writes in flight have versions of their own, none of which was applied.
Versions ==
    /\ diskVersion < nextVersion
    /\ \A t \in Tasks : InFlight(t) =>
          /\ call[t].version < nextVersion
          /\ call[t].version # diskVersion
          /\ \A u \in Tasks : InFlight(u) /\ call[u].version = call[t].version => u = t

\* A call's own bytes have its effect; once issued, it is among the issued.
OwnEffect ==
    \A t \in Tasks : call[t].op \in Calls =>
       /\ call[t].pc \in {"encoded", "issued", "orphaned"} => Right(call[t].op, call[t].data)
       /\ call[t].pc \in {"issued", "orphaned", "ok"} => call[t].op \in issued

\* The disk and every write that may still be applied have the effect of o.
Settled(o) ==
    /\ Right(o, disk)
    /\ \A t \in Tasks : InFlight(t) /\ call[t].version > diskVersion => Right(o, call[t].data)

AckedSettled == \A o \in acked : Live(o) => Settled(o)

OkSettled ==
    \A t \in Tasks : call[t].op \in Calls /\ call[t].pc = "ok" /\ Live(call[t].op)
                        => Settled(call[t].op)

\* What is newer than a write in flight has its effect.
FlightSettled ==
    \A t \in Tasks : call[t].op \in Calls /\ InFlight(t) /\ Live(call[t].op) =>
       /\ diskVersion > call[t].version => Right(call[t].op, disk)
       /\ \A u \in Tasks : InFlight(u) /\ call[u].version > call[t].version
                              => Right(call[t].op, call[u].data)

IInv ==
    /\ Types /\ issued \subseteq Calls
    /\ GoodQueues
    /\ Versions
    /\ OwnEffect
    /\ AckedSettled /\ OkSettled /\ FlightSettled
-----------------------------------------------------------------------------
\* A length below the modulus is its own remainder, so Encode keeps the length.
LEMMA SmallRemainder ==
    ASSUME NEW a \in Nat, NEW b \in Nat, a < b
    PROVE  a % b = a
  OBVIOUS

\* Encoding a queue that fits into the length prefix loses nothing.
LEMMA EncodeGood ==
    ASSUME MaxEvents < U16, NEW n \in 0 .. MaxEvents, NEW q, GoodQueue(q, n)
    PROVE  GoodData(Encode(q), n) /\ Encode(q).items = q
  <1>1. Len(q) \in Nat /\ Len(q) < U16
    BY BoundsAssumption DEF GoodQueue
  <1>2. Len(q) % U16 = Len(q)
    BY <1>1, SmallRemainder, BoundsAssumption
  <1> QED BY <1>2 DEF Encode, GoodData

\* Decoding such bytes gives the queue that was encoded.
LEMMA DecodeGood ==
    ASSUME NEW n \in Nat, NEW d, GoodData(d, n)
    PROVE  Decode(d) = d.items
  <1>1. d.len = Len(d.items) /\ d.items \in Seq(Events)
    BY DEF GoodData, GoodQueue
  <1> QED BY <1>1 DEF Decode

\* A longer history only adds room.
LEMMA GoodMonotone ==
    ASSUME NEW m \in Nat, NEW n \in Nat, m <= n
    PROVE  /\ \A q : GoodQueue(q, m) => GoodQueue(q, n)
           /\ \A d : GoodData(d, m) => GoodData(d, n)
  <1>1. ASSUME NEW q, GoodQueue(q, m) PROVE GoodQueue(q, n)
    <2>1. \A i \in DOMAIN q : q[i] \in Events /\ q[i] <= m
      BY <1>1 DEF GoodQueue
    <2> QED BY <1>1, <2>1 DEF GoodQueue, Events
  <1> QED BY <1>1 DEF GoodData

\* add_event pushes a number larger than all before.
LEMMA AppendGood ==
    ASSUME NEW n \in Nat, n < MaxEvents, NEW q, GoodQueue(q, n)
    PROVE  GoodQueue(Append(q, n + 1), n + 1) /\ n + 1 \in Elems(Append(q, n + 1))
  <1> DEFINE r == Append(q, n + 1)
  <1>1. q \in Seq(Events) /\ n + 1 \in Events /\ Len(q) \in Nat /\ Len(q) <= n
    BY BoundsAssumption DEF GoodQueue, Events
  <1>2. /\ r \in Seq(Events) /\ Len(r) = Len(q) + 1
        /\ r[Len(q) + 1] = n + 1
        /\ \A i \in 1 .. Len(q) : r[i] = q[i] /\ q[i] <= n /\ q[i] \in Nat
    <2>1. r \in Seq(Events) /\ Len(r) = Len(q) + 1 /\ r[Len(q) + 1] = n + 1
      BY <1>1
    <2>2. \A i \in 1 .. Len(q) : r[i] = q[i]
      BY <1>1
    <2>3. DOMAIN q = 1 .. Len(q) /\ \A i \in 1 .. Len(q) : q[i] \in Events
      BY <1>1
    <2> QED BY <2>1, <2>2, <2>3 DEF GoodQueue, Events
  <1>3. \A i, j \in DOMAIN r : i < j => r[i] < r[j]
    <2> SUFFICES ASSUME NEW i \in 1 .. Len(q) + 1, NEW j \in 1 .. Len(q) + 1, i < j
                 PROVE  r[i] < r[j]
      BY <1>1, <1>2
    <2>1. i \in 1 .. Len(q)
      BY <1>1
    <2>2. CASE j = Len(q) + 1
      BY <2>1, <2>2, <1>2
    <2>3. CASE j \in 1 .. Len(q)
      BY <2>1, <2>3, <1>1, <1>2 DEF GoodQueue, Increasing
    <2> QED BY <2>2, <2>3, <1>1
  <1>4. \A i \in DOMAIN r : r[i] <= n + 1
    BY <1>1, <1>2
  <1>5. n + 1 \in Elems(r)
    BY <1>1, <1>2 DEF Elems
  <1> QED BY <1>1, <1>2, <1>3, <1>4, <1>5 DEF GoodQueue, Increasing

\* event_handled removes the head, which is nowhere else in the queue.
LEMMA TailGood ==
    ASSUME NEW n \in Nat, NEW q, GoodQueue(q, n), q # <<>>
    PROVE  /\ GoodQueue(Tail(q), n) /\ Head(q) \in Events
           /\ Head(q) \notin Elems(Tail(q))
  <1> DEFINE r == Tail(q)
  <1>1. /\ q \in Seq(Events) /\ Len(q) \in Nat /\ Len(q) >= 1 /\ Len(q) <= n
        /\ Head(q) = q[1]
    BY DEF GoodQueue
  <1>2. r \in Seq(Events) /\ Len(r) = Len(q) - 1 /\ \A i \in 1 .. Len(r) : r[i] = q[i + 1]
    BY <1>1
  <1>3. \A i \in 1 .. Len(q) : q[i] \in Events /\ q[i] \in Nat /\ q[i] <= n
    <2>1. DOMAIN q = 1 .. Len(q) /\ \A i \in 1 .. Len(q) : q[i] \in Events
      BY <1>1
    <2> QED BY <2>1 DEF GoodQueue, Events
  <1>4. \A i, j \in DOMAIN r : i < j => r[i] < r[j]
    BY <1>1, <1>2 DEF GoodQueue, Increasing
  <1>5. \A i \in DOMAIN r : r[i] <= n
    BY <1>1, <1>2, <1>3
  <1>6. \A i \in 1 .. Len(r) : q[1] < r[i]
    BY <1>1, <1>2 DEF GoodQueue, Increasing
  <1>7. q[1] \notin Elems(r)
    BY <1>1, <1>2, <1>3, <1>6 DEF Elems
  <1> QED BY <1>1, <1>2, <1>3, <1>4, <1>5, <1>7 DEF GoodQueue, Increasing
-----------------------------------------------------------------------------
\* What the proofs of the actions share: the invariant and the shape of a call.
LEMMA CallShape ==
    ASSUME IInv, NEW t \in Tasks
    PROVE  /\ call[t] \in CallRecords /\ DOMAIN call = Tasks
           /\ call[t].version \in Nat /\ call[t].op \in Calls \cup {<<"none", 0>>}
  BY DEF IInv, Types, CallRecords

\* The initial state satisfies the invariant: nothing is pushed, nothing acknowledged.
LEMMA InitIInv ==
    ASSUME Init, MaxEvents < U16
    PROVE  IInv
  <1>1. GoodQueue(<<>>, 0)
    BY DEF GoodQueue, Increasing
  <1>2. 0 \in 0 .. MaxEvents
    BY BoundsAssumption
  <1>3. GoodData(Encode(<<>>), 0) /\ Encode(<<>>).items = <<>>
    BY <1>1, <1>2, EncodeGood
  <1>4. Encode(<<>>) \in [len : Nat, items : Seq(Events)]
    BY <1>3 DEF GoodData, GoodQueue
  <1>5. Idle \in CallRecords
    BY <1>4 DEF Idle, CallRecords
  <1>6. <<"none", 0>> \notin Calls
    BY DEF Calls, Events
  <1>7. Types /\ issued \subseteq Calls
    BY <1>2, <1>5 DEF Init, Types
  <1>8. \A t \in Tasks : call[t] = Idle
    BY DEF Init
  <1>9. GoodQueues
    BY <1>1, <1>3, <1>8 DEF Init, GoodQueues, Idle
  <1>10. Versions /\ OwnEffect /\ AckedSettled /\ OkSettled /\ FlightSettled
    BY <1>6, <1>8 DEF Init, Versions, OwnEffect, AckedSettled, OkSettled, FlightSettled,
                      InFlight, Idle
  <1> QED BY <1>7, <1>9, <1>10 DEF IInv

\* A step that encodes: the task was idle, its bytes have the effect of its call, and what
\* the other calls and the disk hold is left alone.  A pop only makes fewer effects count.
LEMMA EncodeIInv ==
    ASSUME IInv, NEW t \in Tasks, call[t].pc = "idle",
           pushed \in 0 .. MaxEvents, pushed' \in 0 .. MaxEvents, pushed <= pushed',
           GoodQueue(queue', pushed'),
           NEW o \in Calls \cup {<<"none", 0>>}, NEW d,
           GoodData(d, pushed'), o \in Calls => Right(o, d),
           call' = [call EXCEPT ![t] = [pc |-> "encoded", op |-> o, data |-> d, version |-> 0]],
           popped \subseteq popped',
           UNCHANGED <<disk, diskVersion, nextVersion, acked, issued, overtaken>>
    PROVE  IInv'
  <1> DEFINE new == [pc |-> "encoded", op |-> o, data |-> d, version |-> 0]
  <1>1. call \in [Tasks -> CallRecords] /\ new \in CallRecords
    BY DEF IInv, Types, CallRecords, GoodData, GoodQueue
  <1>2. call'[t] = new /\ \A u \in Tasks \ {t} : call'[u] = call[u]
    BY <1>1
  <1>3. Types' /\ (issued \subseteq Calls)'
    BY <1>1 DEF IInv, Types
  <1>4. GoodQueues'
    <2>1. pushed \in Nat /\ pushed' \in Nat
      OBVIOUS
    <2>2. GoodData(disk', pushed')
      BY <2>1, GoodMonotone DEF IInv, GoodQueues
    <2>3. ASSUME NEW u \in Tasks PROVE GoodData(call'[u].data, pushed')
      <3>1. CASE u = t
        BY <3>1, <1>2
      <3>2. CASE u # t
        BY <3>2, <1>2, <2>1, GoodMonotone DEF IInv, GoodQueues
      <3> QED BY <3>1, <3>2
    <2> QED BY <2>2, <2>3 DEF GoodQueues
  <1>5. \A u \in Tasks : InFlight(u)' => InFlight(u) /\ u # t /\ call'[u] = call[u]
    BY <1>2 DEF InFlight
  <1>6. Versions'
    BY <1>5 DEF IInv, Versions
  <1>7. OwnEffect'
    BY <1>2 DEF IInv, OwnEffect, Right, Has
  <1>8. \A x : Live(x)' => Live(x)
    BY DEF Live
  <1>9. \A x : Right(x, disk)' <=> Right(x, disk)
    BY DEF Right, Has
  <1>10. \A x : Settled(x) => Settled(x)'
    BY <1>5 DEF Settled, Right, Has
  <1>11. AckedSettled'
    BY <1>8, <1>10 DEF IInv, AckedSettled
  <1>12. OkSettled'
    BY <1>2, <1>8, <1>10 DEF IInv, OkSettled
  <1>13. FlightSettled'
    BY <1>5, <1>8 DEF IInv, FlightSettled, Right, Has
  <1> QED BY <1>3, <1>4, <1>6, <1>7, <1>11, <1>12, <1>13 DEF IInv

\* add_event pushes and encodes.
LEMMA AddIInv ==
    ASSUME IInv, MaxEvents < U16, NEW p \in Producers, AddEventLocked(p)
    PROVE  IInv'
  <1>1. p \in Tasks /\ pushed \in 0 .. MaxEvents /\ pushed' = pushed + 1
        /\ pushed < MaxEvents /\ pushed' \in 0 .. MaxEvents
    BY BoundsAssumption DEF AddEventLocked, Tasks, IInv, Types
  <1>2. GoodQueue(queue', pushed') /\ pushed' \in Elems(queue')
    BY <1>1, AppendGood DEF AddEventLocked, IInv, GoodQueues
  <1>3. GoodData(Encode(queue'), pushed') /\ Encode(queue').items = queue'
    BY <1>1, <1>2, EncodeGood
  <1>4. <<"add", pushed'>> \in Calls
    BY <1>1 DEF Calls, Events
  <1>5. Right(<<"add", pushed'>>, Encode(queue'))
    BY <1>2, <1>3 DEF Right, Has
  <1>6. /\ call[p].pc = "idle" /\ pushed <= pushed'
        /\ call' = [call EXCEPT ![p] = [pc |-> "encoded", op |-> <<"add", pushed'>>,
                                        data |-> Encode(queue'), version |-> 0]]
        /\ popped \subseteq popped'
        /\ UNCHANGED <<disk, diskVersion, nextVersion, acked, issued, overtaken>>
    BY <1>1 DEF AddEventLocked, history
  <1> QED BY <1>1, <1>2, <1>3, <1>4, <1>5, <1>6, EncodeIInv

\* event_handled pops and encodes.
LEMMA HandledIInv ==
    ASSUME IInv, MaxEvents < U16, NEW c \in Consumers, EventHandledLocked(c)
    PROVE  IInv'
  <1> DEFINE o == IF queue = <<>> THEN <<"none", 0>> ELSE <<"pop", Head(queue)>>
  <1>1. c \in Tasks /\ pushed \in 0 .. MaxEvents /\ pushed' = pushed /\ pushed \in Nat
    BY BoundsAssumption DEF EventHandledLocked, Tasks, IInv, Types
  <1>2. GoodQueue(queue, pushed)
    BY DEF IInv, GoodQueues
  <1>3. /\ GoodQueue(queue', pushed') /\ popped \subseteq popped'
        /\ o \in Calls \cup {<<"none", 0>>}
        /\ o \in Calls => o[1] # "add" /\ o[2] \notin Elems(queue')
    <2>1. CASE queue = <<>>
      <3>1. <<"none", 0>> \notin Calls
        BY DEF Calls, Events
      <3> QED BY <2>1, <3>1, <1>1, <1>2 DEF EventHandledLocked
    <2>2. CASE queue # <<>>
      <3>1. /\ GoodQueue(Tail(queue), pushed) /\ Head(queue) \in Events
            /\ Head(queue) \notin Elems(Tail(queue))
        BY <2>2, <1>1, <1>2, TailGood
      <3>2. o = <<"pop", Head(queue)>> /\ o[1] = "pop" /\ o[2] = Head(queue)
        BY <2>2
      <3>3. queue' = Tail(queue) /\ popped \subseteq popped'
        BY <2>2 DEF EventHandledLocked
      <3>4. o \in Calls
        BY <3>1, <3>2 DEF Calls
      <3> QED BY <3>1, <3>2, <3>3, <3>4, <1>1
    <2> QED BY <2>1, <2>2
  <1>4. GoodData(Encode(queue'), pushed') /\ Encode(queue').items = queue'
    BY <1>1, <1>3, EncodeGood
  <1>5. o \in Calls => Right(o, Encode(queue'))
    BY <1>3, <1>4 DEF Right, Has
  <1>6. /\ call[c].pc = "idle"
        /\ call' = [call EXCEPT ![c] = [pc |-> "encoded", op |-> o, data |-> Encode(queue'),
                                        version |-> 0]]
        /\ UNCHANGED <<disk, diskVersion, nextVersion, acked, issued, overtaken>>
    BY DEF EventHandledLocked
  <1> HIDE DEF o
  <1>7. pushed <= pushed' /\ pushed' \in 0 .. MaxEvents
    BY <1>1
  <1> QED BY <1>1, <1>3, <1>4, <1>5, <1>6, <1>7, EncodeIInv

\* The write is issued: whatever was issued before and still counts is in its bytes.
LEMMA PersistIInv ==
    ASSUME IInv, NEW t \in Tasks, PersistQueue(t)
    PROVE  IInv'
  <1> DEFINE d == call[t].data
  <1>1. call \in [Tasks -> CallRecords] /\ nextVersion \in Nat /\ diskVersion \in Nat
    BY DEF IInv, Types
  <1>2. /\ call'[t].pc = "issued" /\ call'[t].version = nextVersion
        /\ call'[t].op = call[t].op /\ call'[t].data = d
        /\ \A u \in Tasks \ {t} : call'[u] = call[u]
        /\ call[t].pc = "encoded"
    BY <1>1 DEF PersistQueue, CallRecords
  <1>3. Types' /\ (issued \subseteq Calls)'
    <2>1. call' \in [Tasks -> CallRecords]
      <3> DEFINE r == [call[t] EXCEPT !.pc = "issued", !.version = nextVersion]
      <3>1. r \in CallRecords
        BY <1>1 DEF CallRecords
      <3>2. call' = [call EXCEPT ![t] = r]
        BY <1>1 DEF PersistQueue
      <3> HIDE DEF r
      <3> QED BY <1>1, <3>1, <3>2
    <2>2. /\ pushed' = pushed /\ nextVersion' \in Nat /\ diskVersion' \in Nat
          /\ acked' = acked /\ issued \subseteq issued' /\ issued' \subseteq issued \cup Calls
      BY <1>1 DEF PersistQueue
    <2> QED BY <2>1, <2>2 DEF IInv, Types
  <1>4. GoodQueues'
    <2>1. \A u \in Tasks : call'[u].data = call[u].data
      BY <1>2
    <2> QED BY <2>1 DEF IInv, GoodQueues, PersistQueue
  <1>5. \A u \in Tasks : InFlight(u)' => u = t \/ (InFlight(u) /\ call'[u] = call[u])
    BY <1>2 DEF InFlight
  <1>6. \A u \in Tasks : InFlight(u) => u # t /\ call[u].version < nextVersion
                                         /\ call[u].version \in Nat
    <2>1. \A u \in Tasks : call[u].version \in Nat
      BY <1>1 DEF CallRecords
    <2> QED BY <1>2, <2>1 DEF IInv, Versions, InFlight
  <1>7. diskVersion < nextVersion /\ nextVersion' = nextVersion + 1 /\ diskVersion' = diskVersion
    BY DEF IInv, Versions, PersistQueue
  <1>8. Versions'
    BY <1>1, <1>2, <1>5, <1>6, <1>7 DEF IInv, Versions
  <1>9. OwnEffect'
    <2>1. call[t].op \in Calls => call[t].op \in issued'
      BY DEF PersistQueue
    <2>2. issued \subseteq issued'
      BY DEF PersistQueue
    <2>3. ASSUME NEW u \in Tasks, call'[u].op \in Calls
          PROVE  /\ call'[u].pc \in {"encoded", "issued", "orphaned"}
                       => Right(call'[u].op, call'[u].data)
                 /\ call'[u].pc \in {"issued", "orphaned", "ok"} => call'[u].op \in issued'
      <3>1. CASE u = t
        BY <3>1, <2>1, <2>3, <1>2 DEF IInv, OwnEffect
      <3>2. CASE u # t
        BY <3>2, <2>2, <2>3, <1>2 DEF IInv, OwnEffect
      <3> QED BY <3>1, <3>2
    <2> QED BY <2>3 DEF OwnEffect, Right, Has
  <1>10. \A x : Live(x)' => Live(x)
    BY DEF Live, PersistQueue
  <1>11. \A x \in issued : Live(x)' => Right(x, d)
    BY DEF Live, PersistQueue, Right, Has, IInv, Calls
  <1>12. \A x \in issued : Live(x)' /\ Settled(x) => Settled(x)'
    BY <1>2, <1>5, <1>7, <1>11 DEF Settled, Right, Has, PersistQueue
  <1>13. AckedSettled'
    BY <1>10, <1>12 DEF IInv, Types, AckedSettled, PersistQueue
  <1>14. OkSettled'
    BY <1>2, <1>10, <1>12 DEF IInv, OwnEffect, OkSettled
  <1>15. FlightSettled'
    <2> SUFFICES ASSUME NEW u \in Tasks, call'[u].op \in Calls, InFlight(u)', Live(call[u].op)'
                 PROVE  /\ diskVersion > call'[u].version => Right(call[u].op, disk)
                        /\ \A v \in Tasks : InFlight(v)' /\ call'[v].version > call'[u].version
                              => Right(call[u].op, call'[v].data)
      <3>1. \A u \in Tasks : call'[u].op = call[u].op
        BY <1>2
      <3>2. disk' = disk /\ diskVersion' = diskVersion
        BY DEF PersistQueue
      <3> QED BY <3>1, <3>2 DEF FlightSettled, Right, Has, Live
    <2>1. CASE u = t
      BY <2>1, <1>1, <1>2, <1>5, <1>6, <1>7
    <2>2. CASE u # t
      <3>1. InFlight(u) /\ call'[u] = call[u] /\ call[u].op \in issued /\ Live(call[u].op)
        BY <2>2, <1>2, <1>5, <1>10 DEF IInv, OwnEffect, InFlight
      <3>2. Right(call[u].op, d)
        BY <3>1, <1>11
      <3>3. ASSUME NEW v \in Tasks, InFlight(v)', call'[v].version > call'[u].version
            PROVE  Right(call[u].op, call'[v].data)
        <4>1. CASE v = t
          BY <4>1, <3>2, <1>2
        <4>2. CASE v # t
          BY <4>2, <3>1, <3>3, <1>5 DEF IInv, FlightSettled
        <4> QED BY <4>1, <4>2
      <3> QED BY <3>1, <3>3 DEF IInv, FlightSettled
    <2> QED BY <2>1, <2>2
  <1> QED BY <1>3, <1>4, <1>8, <1>9, <1>13, <1>14, <1>15 DEF IInv

\* A step of one call that leaves the disk alone and issues nothing keeps what is settled.
LEMMA QuietIInv ==
    ASSUME IInv, NEW t \in Tasks, NEW r \in CallRecords,
           call' = [call EXCEPT ![t] = r],
           GoodData(r.data, pushed),
           r.pc # "encoded", r.pc # "ok", r.op \in Calls => r.pc = "err" \/ r.op = call[t].op,
           r.pc \in {"issued", "orphaned"} =>
              InFlight(t) /\ r.data = call[t].data /\ r.version = call[t].version,
           acked \subseteq acked', acked' \subseteq issued,
           \A x \in acked' \ acked : Live(x) => Settled(x),
           UNCHANGED <<queue, disk, diskVersion, nextVersion, pushed, issued, popped, overtaken>>
    PROVE  IInv'
  <1>1. call \in [Tasks -> CallRecords]
    BY DEF IInv, Types
  <1>2. call'[t] = r /\ \A u \in Tasks \ {t} : call'[u] = call[u]
    BY <1>1
  <1>3. Types' /\ (issued \subseteq Calls)'
    BY <1>1 DEF IInv, Types
  <1>4. GoodQueues'
    BY <1>2 DEF IInv, GoodQueues
  <1>5. \A u \in Tasks : InFlight(u)' => /\ InFlight(u)
                                         /\ call'[u].data = call[u].data
                                         /\ call'[u].version = call[u].version
                                         /\ call'[u].op \in Calls => call'[u].op = call[u].op
    BY <1>2 DEF InFlight
  <1>6. Versions'
    BY <1>5 DEF IInv, Versions
  <1>7. \A x : Live(x)' <=> Live(x)
    BY DEF Live
  <1>8. \A x : Settled(x) => Settled(x)'
    BY <1>5 DEF Settled, Right, Has
  <1>9. OwnEffect'
    <2>1. ASSUME NEW u \in Tasks, call'[u].op \in Calls
          PROVE  /\ call'[u].pc \in {"encoded", "issued", "orphaned"}
                       => Right(call'[u].op, call'[u].data)
                 /\ call'[u].pc \in {"issued", "orphaned", "ok"} => call'[u].op \in issued
      <3>1. CASE u = t
        BY <3>1, <2>1, <1>2 DEF IInv, OwnEffect, InFlight
      <3>2. CASE u # t
        BY <3>2, <2>1, <1>2 DEF IInv, OwnEffect
      <3> QED BY <3>1, <3>2
    <2> QED BY <2>1 DEF OwnEffect, Right, Has
  <1>10. AckedSettled'
    BY <1>7, <1>8 DEF IInv, AckedSettled
  <1>11. OkSettled'
    BY <1>2, <1>7, <1>8 DEF IInv, OkSettled
  <1>12. FlightSettled'
    <2>1. ASSUME NEW u \in Tasks, call'[u].op \in Calls, InFlight(u)', Live(call'[u].op)
          PROVE  /\ diskVersion > call'[u].version => Right(call'[u].op, disk)
                 /\ \A v \in Tasks : InFlight(v)' /\ call'[v].version > call'[u].version
                       => Right(call'[u].op, call'[v].data)
      BY <2>1, <1>5 DEF IInv, FlightSettled
    <2> QED BY <2>1, <1>7 DEF FlightSettled, Right, Has, Live
  <1> QED BY <1>3, <1>4, <1>6, <1>9, <1>10, <1>11, <1>12 DEF IInv

\* The bytes of an idle or answered call are those of the empty queue.
LEMMA IdleGood ==
    ASSUME IInv, MaxEvents < U16,
           NEW pc \in {"idle", "ok", "err"}, NEW o \in Calls \cup {<<"none", 0>>}
    PROVE  /\ [Idle EXCEPT !.pc = pc, !.op = o] \in CallRecords
           /\ GoodData([Idle EXCEPT !.pc = pc, !.op = o].data, pushed)
           /\ [Idle EXCEPT !.pc = pc, !.op = o].pc = pc
           /\ [Idle EXCEPT !.pc = pc, !.op = o].op = o
           /\ Idle \in CallRecords /\ GoodData(Idle.data, pushed)
           /\ Idle.pc = "idle" /\ Idle.op \notin Calls
  <1>1. pushed \in 0 .. MaxEvents
    BY DEF IInv, Types
  <1>2. GoodQueue(<<>>, pushed)
    BY <1>1, BoundsAssumption DEF GoodQueue, Increasing
  <1>3. GoodData(Encode(<<>>), pushed)
    BY <1>1, <1>2, EncodeGood
  <1>4. Encode(<<>>) \in [len : Nat, items : Seq(Events)]
    BY <1>3 DEF GoodData, GoodQueue
  <1>5. <<"none", 0>> \notin Calls
    BY DEF Calls, Events
  <1> QED BY <1>3, <1>4, <1>5 DEF Idle, CallRecords

\* An aborted caller's write stays in flight.
LEMMA CancelIInv ==
    ASSUME IInv, NEW t \in Tasks, Cancel(t)
    PROVE  IInv'
  <1> DEFINE r == [call[t] EXCEPT !.pc = "orphaned"]
  <1>1. call \in [Tasks -> CallRecords] /\ call[t].pc = "issued"
    BY DEF IInv, Types, Cancel
  <1>2. /\ r \in CallRecords /\ r.pc = "orphaned" /\ r.op = call[t].op
        /\ r.data = call[t].data /\ r.version = call[t].version
    BY <1>1 DEF CallRecords
  <1>3. call' = [call EXCEPT ![t] = r]
    BY <1>1 DEF Cancel
  <1>4. GoodData(r.data, pushed) /\ acked \subseteq issued
    BY <1>2 DEF IInv, GoodQueues, Types
  <1>5. UNCHANGED <<queue, disk, diskVersion, nextVersion, pushed, issued, popped, overtaken, acked>>
    BY DEF Cancel, history
  <1> HIDE DEF r
  <1> QED BY <1>1, <1>2, <1>3, <1>4, <1>5, QuietIInv DEF InFlight

\* The store reports an error: the call is told, or nobody is.
LEMMA ErrIInv ==
    ASSUME IInv, MaxEvents < U16, NEW t \in Tasks, StoreErr(t)
    PROVE  IInv'
  <1> DEFINE r == Answered(t, "err")
  <1>1. call[t].op \in Calls \cup {<<"none", 0>>}
    BY CallShape
  <1>2. /\ r \in CallRecords /\ GoodData(r.data, pushed)
        /\ r.pc \in {"err", "idle"} /\ (r.op \in Calls => r.pc = "err")
    BY <1>1, IdleGood DEF Answered
  <1>3. call' = [call EXCEPT ![t] = r] /\ acked \subseteq issued
    BY DEF StoreErr, IInv, Types
  <1>4. UNCHANGED <<queue, disk, diskVersion, nextVersion, pushed, issued, popped, overtaken, acked>>
    BY DEF StoreErr, history
  <1> HIDE DEF r
  <1> QED BY <1>2, <1>3, <1>4, QuietIInv

\* The call returns Ok, and with that its effect is acknowledged.
LEMMA ReturnOkIInv ==
    ASSUME IInv, MaxEvents < U16, NEW t \in Tasks, ReturnOk(t)
    PROVE  IInv'
  <1>1. Idle \in CallRecords /\ GoodData(Idle.data, pushed) /\ Idle.pc = "idle" /\ Idle.op \notin Calls
    BY IdleGood
  <1>2. call' = [call EXCEPT ![t] = Idle] /\ acked' = acked \cup ({call[t].op} \cap Calls)
        /\ call[t].pc = "ok"
    BY DEF ReturnOk
  <1>3. acked' \subseteq issued
    BY <1>2 DEF IInv, Types, OwnEffect
  <1>4. \A x \in acked' \ acked : Live(x) => Settled(x)
    BY <1>2 DEF IInv, OkSettled
  <1>5. UNCHANGED <<queue, disk, diskVersion, nextVersion, pushed, issued, popped, overtaken>>
    BY DEF ReturnOk
  <1> QED BY <1>1, <1>2, <1>3, <1>4, <1>5, QuietIInv

\* The call returns the error.
LEMMA ReturnErrIInv ==
    ASSUME IInv, MaxEvents < U16, NEW t \in Tasks, ReturnErr(t)
    PROVE  IInv'
  <1>1. Idle \in CallRecords /\ GoodData(Idle.data, pushed) /\ Idle.pc = "idle" /\ Idle.op \notin Calls
    BY IdleGood
  <1>2. call' = [call EXCEPT ![t] = Idle] /\ acked \subseteq issued
    BY DEF ReturnErr, IInv, Types
  <1>3. UNCHANGED <<queue, disk, diskVersion, nextVersion, pushed, issued, popped, overtaken, acked>>
    BY DEF ReturnErr, history
  <1> QED BY <1>1, <1>2, <1>3, QuietIInv

\* The store applies the write or skips it for a newer one: either way the disk, and what
\* may still replace it, has the effect of the call afterwards.
LEMMA StoreOkIInv ==
    ASSUME IInv, MaxEvents < U16, NEW t \in Tasks, StoreOk(t)
    PROVE  IInv'
  <1> DEFINE r == Answered(t, "ok")
  <1>1. call \in [Tasks -> CallRecords] /\ InFlight(t)
    BY DEF IInv, Types, StoreOk, InFlight
  <1>2. /\ r \in CallRecords /\ GoodData(r.data, pushed) /\ r.pc \in {"ok", "idle"}
        /\ (r.op \in Calls => r.op = call[t].op /\ r.pc = "ok")
    BY IdleGood, CallShape DEF Answered
  <1>3. call' = [call EXCEPT ![t] = r]
    BY DEF StoreOk
  <1> HIDE DEF r
  <1>4. call'[t] = r /\ \A u \in Tasks \ {t} : call'[u] = call[u]
    BY <1>1, <1>3
  <1>5. UNCHANGED <<queue, nextVersion, pushed, acked, issued, popped, overtaken>>
    BY DEF StoreOk, history
  <1>6. /\ \A u \in Tasks : call[u].version \in Nat
        /\ diskVersion \in Nat /\ diskVersion' \in Nat
        /\ \/ /\ call[t].version > diskVersion
              /\ disk' = call[t].data /\ diskVersion' = call[t].version
           \/ /\ call[t].version < diskVersion
              /\ disk' = disk /\ diskVersion' = diskVersion
    <2>1. \A u \in Tasks : call[u].version \in Nat
      BY <1>1 DEF CallRecords
    <2>2. diskVersion \in Nat /\ call[t].version # diskVersion
      BY <1>1 DEF IInv, Types, Versions
    <2> QED BY <2>1, <2>2 DEF StoreOk
  <1>7. \A u \in Tasks : InFlight(u)' => InFlight(u) /\ u # t /\ call'[u] = call[u]
    BY <1>2, <1>4 DEF InFlight
  <1>8. Types' /\ (issued \subseteq Calls)'
    BY <1>1, <1>2, <1>3, <1>5, <1>6 DEF IInv, Types
  <1>9. GoodQueues'
    <2>1. GoodData(disk', pushed)
      BY <1>6 DEF IInv, GoodQueues
    <2> QED BY <2>1, <1>2, <1>4, <1>5 DEF IInv, GoodQueues
  <1>10. Versions'
    BY <1>1, <1>5, <1>6, <1>7 DEF IInv, Versions
  <1>11. OwnEffect'
    <2>1. ASSUME NEW u \in Tasks, call'[u].op \in Calls
          PROVE  /\ call'[u].pc \in {"encoded", "issued", "orphaned"}
                       => Right(call'[u].op, call'[u].data)
                 /\ call'[u].pc \in {"issued", "orphaned", "ok"} => call'[u].op \in issued
      <3>1. CASE u = t
        BY <3>1, <2>1, <1>1, <1>2, <1>4 DEF IInv, OwnEffect, InFlight
      <3>2. CASE u # t
        BY <3>2, <2>1, <1>4 DEF IInv, OwnEffect
      <3> QED BY <3>1, <3>2
    <2> QED BY <2>1, <1>5 DEF OwnEffect, Right, Has
  <1>12. \A x : Live(x)' <=> Live(x)
    BY <1>5 DEF Live
  <1>13. ASSUME NEW x, Settled(x) PROVE Settled(x)'
    <2>1. Right(x, disk')
      BY <1>1, <1>6, <1>13 DEF Settled
    <2>2. \A u \in Tasks : InFlight(u)' /\ call'[u].version > diskVersion' => Right(x, call'[u].data)
      BY <1>6, <1>7, <1>13 DEF Settled
    <2> QED BY <2>1, <2>2 DEF Settled, Right, Has
  <1>14. ASSUME NEW x \in Calls, x = call[t].op, Live(x) PROVE Settled(x)'
    <2>1. Right(x, call[t].data)
      BY <1>1, <1>14 DEF IInv, OwnEffect, InFlight
    <2>2. /\ diskVersion > call[t].version => Right(x, disk)
          /\ \A u \in Tasks : InFlight(u) /\ call[u].version > call[t].version
                => Right(x, call[u].data)
      BY <1>1, <1>14 DEF IInv, FlightSettled
    <2>3. Right(x, disk')
      BY <2>1, <2>2, <1>6
    <2>4. \A u \in Tasks : InFlight(u)' /\ call'[u].version > diskVersion' => Right(x, call'[u].data)
      BY <2>2, <1>6, <1>7
    <2> QED BY <2>3, <2>4 DEF Settled, Right, Has
  <1>15. AckedSettled'
    BY <1>5, <1>12, <1>13 DEF IInv, AckedSettled
  <1>16. OkSettled'
    <2>1. ASSUME NEW u \in Tasks, NEW x \in Calls, x = call'[u].op, call'[u].pc = "ok", Live(x)
          PROVE  Settled(x)'
      <3>1. CASE u = t
        BY <3>1, <2>1, <1>2, <1>4, <1>14
      <3>2. CASE u # t
        <4>1. Settled(x)
          BY <3>2, <2>1, <1>4 DEF IInv, OkSettled
        <4> QED BY <4>1, <1>13
      <3> QED BY <3>1, <3>2
    <2> QED BY <2>1, <1>12 DEF OkSettled
  <1>17. FlightSettled'
    <2>1. ASSUME NEW u \in Tasks, call[u].op \in Calls, InFlight(u)', Live(call[u].op)
          PROVE  /\ diskVersion' > call[u].version => Right(call[u].op, disk')
                 /\ \A v \in Tasks : InFlight(v)' /\ call[v].version > call[u].version
                       => Right(call[u].op, call[v].data)
      <3>1. InFlight(u) /\ u # t
        BY <2>1, <1>7
      <3>2. /\ diskVersion > call[u].version => Right(call[u].op, disk)
            /\ \A v \in Tasks : InFlight(v) /\ call[v].version > call[u].version
                  => Right(call[u].op, call[v].data)
        BY <2>1, <3>1 DEF IInv, FlightSettled
      <3> QED BY <3>2, <1>1, <1>6, <1>7
    <2> QED BY <2>1, <1>7, <1>12 DEF FlightSettled, Right, Has, Live
  <1> QED BY <1>8, <1>9, <1>10, <1>11, <1>15, <1>16, <1>17 DEF IInv

\* After a restart there are no calls, and the queue is what the disk has.  An event that is
\* back counts as neither popped nor confirmed.
LEMMA RestartIInv ==
    ASSUME IInv, MaxEvents < U16, Restart
    PROVE  IInv'
  <1> DEFINE back == Elems(Decode(disk))
  <1>1. /\ pushed \in Nat /\ GoodData(disk, pushed) /\ GoodQueue(disk.items, pushed)
        /\ Decode(disk) = disk.items
    <2>1. pushed \in Nat /\ GoodData(disk, pushed)
      BY BoundsAssumption DEF IInv, Types, GoodQueues
    <2> QED BY <2>1, DecodeGood DEF GoodData
  <1>2. Idle \in CallRecords /\ GoodData(Idle.data, pushed) /\ Idle.pc = "idle" /\ Idle.op \notin Calls
    BY IdleGood
  <1>3. /\ call' = [t \in Tasks |-> Idle] /\ queue' = disk.items
        /\ disk' = disk /\ diskVersion' = 0 /\ nextVersion' = 1
        /\ pushed' = pushed /\ overtaken' = overtaken
        /\ popped' = popped \ back /\ issued' = issued \ ({"pop"} \X back)
        /\ acked' = acked \ ({"pop"} \X back)
    BY <1>1 DEF Restart
  <1>4. \A t \in Tasks : call'[t] = Idle
    BY <1>3
  <1>5. Types' /\ (issued \subseteq Calls)'
    BY <1>2, <1>3 DEF IInv, Types
  <1>6. GoodQueues'
    BY <1>1, <1>2, <1>3, <1>4 DEF GoodQueues
  <1>7. \A t \in Tasks : ~InFlight(t)'
    BY <1>2, <1>4 DEF InFlight
  <1>8. Versions' /\ OwnEffect' /\ OkSettled' /\ FlightSettled'
    BY <1>2, <1>3, <1>4, <1>7 DEF Versions, OwnEffect, OkSettled, FlightSettled
  <1>9. AckedSettled'
    <2>1. ASSUME NEW o \in acked', Live(o)' PROVE Right(o, disk)
      <3>1. o \in acked /\ o \in Calls /\ o \notin {"pop"} \X back /\ Has(disk, o[2]) <=> o[2] \in back
        BY <1>1, <1>3 DEF IInv, Types, Has
      <3>2. CASE o[2] \in back
        BY <3>1, <3>2, <1>1 DEF Right, Has, Calls
      <3>3. CASE o[2] \notin back
        <4>1. Live(o)
          BY <2>1, <3>3, <1>3 DEF Live
        <4> QED BY <3>1, <4>1, <1>3 DEF IInv, AckedSettled, Settled
      <3> QED BY <3>2, <3>3
    <2>2. \A o \in acked' : Live(o)' => Settled(o)'
      BY <2>1, <1>3, <1>7 DEF Settled, Right, Has
    <2> QED BY <2>2 DEF AckedSettled
  <1> QED BY <1>5, <1>6, <1>8, <1>9 DEF IInv

\* Steps that only concern who waits for an event.
LEMMA WaitIInv ==
    ASSUME IInv,
           UNCHANGED <<queue, call, disk, diskVersion, nextVersion, pushed, acked, issued,
                       popped, overtaken>>
    PROVE  IInv'
  BY DEF IInv, Types, GoodQueues, Versions, OwnEffect, AckedSettled, OkSettled, FlightSettled,
         Settled, Live, Right, Has, InFlight

\* Every step keeps the invariant.
LEMMA NextIInv ==
    ASSUME IInv, MaxEvents < U16, [Next]_vars
    PROVE  IInv'
  <1>1. ASSUME NEW p \in Producers, AddEventLocked(p) PROVE IInv'
    BY <1>1, AddIInv
  <1>2. ASSUME NEW t \in Tasks, PersistQueue(t) PROVE IInv'
    BY <1>2, PersistIInv
  <1>3. ASSUME NEW t \in Tasks, StoreOk(t) PROVE IInv'
    BY <1>3, StoreOkIInv
  <1>4. ASSUME NEW t \in Tasks, StoreErr(t) PROVE IInv'
    BY <1>4, ErrIInv
  <1>5. ASSUME NEW t \in Tasks, ReturnOk(t) PROVE IInv'
    BY <1>5, ReturnOkIInv
  <1>6. ASSUME NEW t \in Tasks, ReturnErr(t) PROVE IInv'
    BY <1>6, ReturnErrIInv
  <1>7. ASSUME NEW t \in Tasks, Cancel(t) PROVE IInv'
    BY <1>7, CancelIInv
  <1>8. ASSUME NEW c \in Consumers, NextEventAsync(c) \/ Poll(c) PROVE IInv'
    BY <1>8, WaitIInv DEF NextEventAsync, Poll, history
  <1>9. ASSUME NEW c \in Consumers, EventHandledLocked(c) PROVE IInv'
    BY <1>9, HandledIInv
  <1>10. CASE Restart
    BY <1>10, RestartIInv
  <1>11. CASE UNCHANGED vars
    BY <1>11, WaitIInv DEF vars
  <1> QED BY <1>1, <1>2, <1>3, <1>4, <1>5, <1>6, <1>7, <1>8, <1>9, <1>10, <1>11
          DEF Next, CallStep, ConsumerStep

\* The invariant gives the property: what is acknowledged and counts is settled.
LEMMA IInvDurable ==
    ASSUME IInv
    PROVE  DurableUnlessOvertaken
  <1>1. pushed \in Nat /\ GoodData(disk, pushed) /\ Decode(disk) = disk.items
    <2>1. pushed \in Nat /\ GoodData(disk, pushed)
      BY BoundsAssumption DEF IInv, Types, GoodQueues
    <2> QED BY <2>1, DecodeGood
  <1>2. Increasing(queue) /\ Increasing(Decode(disk))
    BY <1>1 DEF IInv, GoodQueues, GoodData, GoodQueue
  <1>3. \A e \in Events : OnDisk(e) <=> Has(disk, e)
    BY <1>1 DEF OnDisk, Has
  <1>4. ASSUME NEW e \in Events, e \notin overtaken, <<"add", e>> \in acked, e \notin popped
        PROVE  OnDisk(e)
    <2> DEFINE o == <<"add", e>>
    <2>1. o[1] = "add" /\ o[2] = e /\ o \in acked
      BY <1>4
    <2> HIDE DEF o
    <2>2. Right(o, disk)
      BY <2>1, <1>4 DEF IInv, AckedSettled, Settled, Live
    <2> QED BY <2>1, <2>2, <1>3 DEF Right
  <1>5. ASSUME NEW e \in Events, e \notin overtaken, <<"pop", e>> \in acked
        PROVE  ~OnDisk(e)
    <2> DEFINE o == <<"pop", e>>
    <2>1. o[1] # "add" /\ o[2] = e /\ o \in acked
      BY <1>5
    <2> HIDE DEF o
    <2>2. Right(o, disk)
      BY <2>1, <1>5 DEF IInv, AckedSettled, Settled, Live
    <2> QED BY <2>1, <2>2, <1>3 DEF Right
  <1> QED BY <1>2, <1>4, <1>5 DEF DurableUnlessOvertaken

\* As long as the queue's length fits into its u16 prefix, an event whose add_event returned
\* Ok is on disk until event_handled pops it, and a pop that returned Ok is on disk too, for
\* any number of tasks, failing writes, aborted calls and restarts; the queue and its bytes
\* are always in order and without duplicates.
THEOREM AckedIsDurable ==
    ASSUME MaxEvents < U16
    PROVE  Spec => []DurableUnlessOvertaken
  <1>1. Init => IInv
    BY InitIInv
  <1>2. IInv /\ [Next]_vars => IInv'
    BY NextIInv
  <1>3. IInv => DurableUnlessOvertaken
    BY IInvDurable
  <1> QED BY <1>1, <1>2, <1>3, PTL DEF Spec
=============================================================================

----------------------------- MODULE EventQueue -----------------------------
(***************************************************************************)
(* The queue of user events: add_event is called by the LDK event handler, *)
(* by the chain sync tasks and by API calls, all at the same time;         *)
(* consumers take events with next_event_async and confirm them with       *)
(* event_handled.  Events are numbered in the order of their push.         *)
(*                                                                         *)
(* The store is the promise VersionedKVStore makes: a write is ordered     *)
(* when KVStore::write is called, and a write older than the one applied   *)
(* is skipped and reported Ok.                                             *)
(***************************************************************************)
EXTENDS Naturals, Sequences

CONSTANTS
    Producers,   \* tasks that call add_event
    Consumers,   \* tasks that loop over next_event_async and event_handled
    MaxEvents,   \* bound: events pushed over the whole behaviour
    MaxCrashes,  \* bound: process deaths
    U16,         \* the modulus of the length prefix, 2^16 in the code
    MayFail,     \* whether a store write may return an error
    MayCancel,   \* whether a task may be aborted at its await
    None

ASSUME BoundsAssumption ==
    /\ MaxEvents \in Nat
    /\ MaxCrashes \in Nat
    /\ U16 \in Nat \ {0}
    /\ MayFail \in BOOLEAN
    /\ MayCancel \in BOOLEAN

Tasks == Producers \cup Consumers
Events == 1 .. MaxEvents

VARIABLES
    queue,        \* the VecDeque
    waker,        \* the one waker slot: a consumer or None
    call,         \* per task: the add_event or event_handled call under way
    wait,         \* per consumer: "off", "poll" (scheduled), "parked", "got"
    disk,         \* the bytes last applied
    diskVersion,  \* and their version, 0 after a start
    nextVersion,  \* the store's version counter
    pushed,       \* number of events pushed
    crashes,
    acked,        \* history: the calls (<<op, event>>) that returned Ok
    issued,       \* history: the calls that have called KVStore::write
    popped,       \* history: events taken out of the queue by event_handled
    overtaken     \* history: events that a write encoded before, but issued after,
                  \* the call that added or popped them gets wrong

vars == <<queue, waker, call, wait, disk, diskVersion, nextVersion, pushed,
          crashes, acked, issued, popped, overtaken>>
history == <<acked, issued, popped, overtaken>>

Elems(s) == {s[i] : i \in DOMAIN s}

\* EventQueueSerWrapper: a u16 length, then every event.
Encode(q) == [len |-> Len(q) % U16, items |-> q]

\* EventQueueDeserWrapper: as many events as the length says.
Decode(d) == SubSeq(d.items, 1, d.len)

Idle == [pc |-> "idle", op |-> <<"none", 0>>, data |-> Encode(<<>>), version |-> 0]

Calls == {"add", "pop"} \X Events

Init ==
    /\ queue = <<>>
    /\ waker = None
    /\ call = [t \in Tasks |-> Idle]
    /\ wait = [c \in Consumers |-> "off"]
    /\ disk = Encode(<<>>)
    /\ diskVersion = 0
    /\ nextVersion = 1
    /\ pushed = 0
    /\ crashes = 0
    /\ acked = {} /\ issued = {} /\ popped = {} /\ overtaken = {}
-----------------------------------------------------------------------------
\* add_event up to the end of the locked block: push and encode.
AddEventLocked(p) ==
    /\ call[p].pc = "idle"
    /\ pushed < MaxEvents
    /\ pushed' = pushed + 1
    /\ queue' = Append(queue, pushed + 1)
    /\ call' = [call EXCEPT ![p] = [pc |-> "encoded", op |-> <<"add", pushed + 1>>,
                                    data |-> Encode(queue'), version |-> 0]]
    /\ UNCHANGED <<waker, wait, disk, diskVersion, nextVersion, crashes, history>>

\* event_handled up to the end of its locked block: pop and encode.  The user
\* calls it after next_event_async returned an event.
EventHandledLocked(c) ==
    /\ call[c].pc = "idle"
    /\ wait[c] = "got"
    /\ wait' = [wait EXCEPT ![c] = "off"]
    /\ IF queue = <<>>
       THEN UNCHANGED <<queue, popped>>
       ELSE queue' = Tail(queue) /\ popped' = popped \cup {Head(queue)}
    /\ call' = [call EXCEPT ![c] = [pc |-> "encoded",
                                    op |-> IF queue = <<>> THEN <<"none", 0>>
                                           ELSE <<"pop", Head(queue)>>,
                                    data |-> Encode(queue'), version |-> 0]]
    /\ UNCHANGED <<waker, disk, diskVersion, nextVersion, pushed, crashes, acked,
                   issued, overtaken>>

\* persist_queue calls KVStore::write after the queue's lock was released.
PersistQueue(t) ==
    /\ call[t].pc = "encoded"
    /\ call' = [call EXCEPT ![t].pc = "issued", ![t].version = nextVersion]
    /\ nextVersion' = nextVersion + 1
    /\ LET written == Elems(call[t].data.items)
       IN  overtaken' = overtaken
             \cup {e \in Events : <<"add", e>> \in issued /\ e \notin popped \cup written}
             \cup {e \in Events : <<"pop", e>> \in issued /\ e \in written}
    /\ issued' = issued \cup ({call[t].op} \cap Calls)
    /\ UNCHANGED <<queue, waker, wait, disk, diskVersion, pushed, crashes, acked,
                   popped>>

\* The caller's task is aborted at the await; the store finishes on its own.
Cancel(t) ==
    /\ MayCancel
    /\ call[t].pc = "issued"
    /\ call' = [call EXCEPT ![t].pc = "orphaned"]
    /\ UNCHANGED <<queue, waker, wait, disk, diskVersion, nextVersion, pushed,
                   crashes, history>>

\* The await ends with the store's answer; an aborted caller is not there any more.
Answered(t, answer) ==
    IF call[t].pc = "issued"
    THEN [Idle EXCEPT !.pc = answer, !.op = call[t].op]
    ELSE Idle

\* Mutant: the last write to run wins.
StoreLastWins(t) ==
    /\ call[t].pc \in {"issued", "orphaned"}
    /\ disk' = call[t].data /\ diskVersion' = call[t].version
    /\ call' = [call EXCEPT ![t] = Answered(t, "ok")]
    /\ UNCHANGED <<queue, waker, wait, nextVersion, pushed, crashes, history>>

\* The store applies the write, or skips it when a newer one was applied.
StoreOk(t) ==
    /\ call[t].pc \in {"issued", "orphaned"}
    /\ IF call[t].version > diskVersion
       THEN disk' = call[t].data /\ diskVersion' = call[t].version
       ELSE UNCHANGED <<disk, diskVersion>>
    /\ call' = [call EXCEPT ![t] = Answered(t, "ok")]
    /\ UNCHANGED <<queue, waker, wait, nextVersion, pushed, crashes, history>>

StoreErr(t) ==
    /\ MayFail
    /\ call[t].pc \in {"issued", "orphaned"}
    /\ call' = [call EXCEPT ![t] = Answered(t, "err")]
    /\ UNCHANGED <<queue, waker, wait, disk, diskVersion, nextVersion, pushed,
                   crashes, history>>

\* The call returns Ok: it takes the waker, if there is one, and wakes it.
ReturnOk(t) ==
    /\ call[t].pc = "ok"
    /\ wait' = [c \in Consumers |-> IF c = waker THEN "poll" ELSE wait[c]]
    /\ waker' = None
    /\ acked' = acked \cup ({call[t].op} \cap Calls)
    /\ call' = [call EXCEPT ![t] = Idle]
    /\ UNCHANGED <<queue, disk, diskVersion, nextVersion, pushed, crashes,
                   issued, popped, overtaken>>

\* persist_queue(..).await? returned the error: nothing is undone, nobody woken.
ReturnErr(t) ==
    /\ call[t].pc = "err"
    /\ call' = [call EXCEPT ![t] = Idle]
    /\ UNCHANGED <<queue, waker, wait, disk, diskVersion, nextVersion, pushed,
                   crashes, history>>

\* next_event_async or wait_next_event is called.
NextEventAsync(c) ==
    /\ wait[c] = "off"
    /\ call[c].pc = "idle"
    /\ wait' = [wait EXCEPT ![c] = "poll"]
    /\ UNCHANGED <<queue, waker, call, disk, diskVersion, nextVersion, pushed,
                   crashes, history>>

\* Mutant: the waker is not registered.
PollForgetsWaker(c) ==
    /\ wait[c] = "poll"
    /\ wait' = [wait EXCEPT ![c] = IF queue # <<>> THEN "got" ELSE "parked"]
    /\ UNCHANGED <<queue, waker, call, disk, diskVersion, nextVersion, pushed,
                   crashes, history>>

\* EventFuture::poll, which keeps the queue's lock while it sets the waker.
Poll(c) ==
    /\ wait[c] = "poll"
    /\ IF queue # <<>>
       THEN wait' = [wait EXCEPT ![c] = "got"] /\ UNCHANGED waker
       ELSE wait' = [wait EXCEPT ![c] = "parked"] /\ waker' = c
    /\ UNCHANGED <<queue, call, disk, diskVersion, nextVersion, pushed, crashes,
                   history>>

\* The process dies; the next one reads the queue back from the store.  An event
\* that was popped but is still on disk is in the queue again.
Restart ==
    /\ crashes < MaxCrashes
    /\ crashes' = crashes + 1
    /\ queue' = Decode(disk)
    /\ waker' = None
    /\ call' = [t \in Tasks |-> Idle]
    /\ wait' = [c \in Consumers |-> "off"]
    /\ diskVersion' = 0
    /\ nextVersion' = 1
    /\ LET back == Elems(Decode(disk))
       IN  /\ popped' = popped \ back
           /\ issued' = issued \ ({"pop"} \X back)
           /\ acked' = acked \ ({"pop"} \X back)
    /\ UNCHANGED <<disk, pushed, overtaken>>

CallStep(t) ==
    \/ PersistQueue(t)
    \/ StoreOk(t)
    \/ StoreErr(t)
    \/ ReturnOk(t)
    \/ ReturnErr(t)

ConsumerStep(c) ==
    \/ NextEventAsync(c)
    \/ Poll(c)
    \/ EventHandledLocked(c)

Next ==
    \/ \E p \in Producers : AddEventLocked(p)
    \/ \E t \in Tasks : CallStep(t) \/ Cancel(t)
    \/ \E c \in Consumers : ConsumerStep(c)
    \/ Restart

Spec == Init /\ [][Next]_vars

\* Store writes end, woken tasks are polled, and the user keeps consuming.
FairSpec ==
    /\ Spec
    /\ \A t \in Tasks : WF_vars(CallStep(t))
    /\ \A c \in Consumers : WF_vars(ConsumerStep(c))
-----------------------------------------------------------------------------
OnDisk(e) == e \in Elems(Decode(disk))
Increasing(s) == \A i, j \in DOMAIN s : i < j => s[i] < s[j]

\* Whatever calls overlap, fail, are aborted or die with the process, neither the queue nor
\* its persisted form ever holds an event twice or out of order, and what returned Ok is
\* durable: the event of an add_event until event_handled pops it, and the pop itself.  One
\* exception: a call that encoded the queue before another pushed or popped, and called
\* KVStore::write after it, overtakes the other's write.
DurableUnlessOvertaken ==
    /\ Increasing(queue) /\ Increasing(Decode(disk))
    /\ \A e \in Events \ overtaken :
          /\ <<"add", e>> \in acked /\ e \notin popped => OnDisk(e)
          /\ <<"pop", e>> \in acked => ~OnDisk(e)

\* No wakeup is lost: an event whose add_event returned Ok reaches a consumer that
\* keeps calling next_event_async and event_handled, through failed and aborted
\* calls and restarts, unless its write was overtaken as above.
EveryEventDelivered ==
    \A e \in Events : <<"add", e>> \in acked ~> e \in popped \cup overtaken
=============================================================================

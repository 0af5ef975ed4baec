--------------------------- MODULE NodeLifecycle ---------------------------
(***************************************************************************)
(* Node::start and Node::stop (lib.rs), the task generations of            *)
(* RuntimeControl (runtime.rs), and the failure of LDK's background        *)
(* processor, which marks the node as failed from its own task.            *)
(*                                                                         *)
(* lifecycle_lock makes start and stop exclude each other, so one control  *)
(* point (step) does for both; tasks, the processor and its failure        *)
(* handler run concurrently.  Each wait of stop ends with the tasks or     *)
(* with a timeout, after which what still runs is remembered as leftover.  *)
(***************************************************************************)
EXTENDS Naturals, FiniteSets

CONSTANTS
    MaxStarts,    \* bound: start attempts that get past the first checks
    MaxInbound,   \* bound: inbound connections per start
    MayFailSetup, \* whether the fee rate update or binding a listener may fail
    NONE

Groups == {"background", "cancellable"}
Group == [sync |-> "background", liquidity |-> "background",
          gossip |-> "cancellable", network |-> "cancellable", inbound |-> "cancellable"]
Names == DOMAIN Group
Generations == 0..2 * MaxStarts + MaxStarts
Tasks == [name : Names, start : 1..MaxStarts, tracker : 0..MaxStarts, n : 0..MaxInbound]

ASSUME LifecycleAssumption ==
    MaxStarts \in Nat \ {0} /\ MaxInbound \in Nat /\ MayFailSetup \in BOOLEAN

VARIABLES
    step,        \* where the call that holds lifecycle_lock is, or "idle"
    result,      \* what the last call returned
    isRunning, failed, generation,
    starts,      \* start attempts so far
    chain,       \* the Electrum client: "stopped", "started", or "gated" (begin_shutdown)
    tracker,     \* per group: the current TaskTracker, and whether it is closed
    cancelled,   \* trackers whose token is cancelled
    live,        \* tracked tasks that run
    signalled,   \* tasks that were sent the stop signal
    processor,   \* per generation: what its background processor does
    slot,        \* generation of background_processor_task, or NONE
    waitingFor,  \* generation of the processor stop has taken from the slot, or NONE
    bpSignalled, \* the processor was sent its stop signal
    leftovers,   \* leftover_task_trackers
    leftoverProcessor,
    unreported,  \* history: a failure was recorded and no call has returned it yet
    botched      \* history: a start has failed halfway

flags == <<isRunning, failed, generation, chain>>
tracked == <<tracker, cancelled, live, signalled, leftovers>>
processing == <<processor, slot, waitingFor, bpSignalled, leftoverProcessor>>
history == <<unreported, botched>>
vars == <<step, result, flags, starts, tracked, processing, history>>

Finished == {"none", "ok", "err", "aborted"}

Init ==
    /\ step = "idle" /\ result = "ok"
    /\ isRunning = FALSE /\ failed = FALSE /\ generation = 0
    /\ starts = 0 /\ chain = "stopped"
    /\ tracker = [g \in Groups |-> [id |-> 0, closed |-> FALSE]]
    /\ cancelled = {} /\ live = {} /\ signalled = {} /\ leftovers = {}
    /\ processor = [g \in Generations |-> "none"]
    /\ slot = NONE /\ waitingFor = NONE /\ leftoverProcessor = NONE
    /\ bpSignalled = FALSE
    /\ unreported = FALSE /\ botched = FALSE

\* A call gives its result and releases lifecycle_lock.
Return(r) ==
    /\ step' = "idle" /\ result' = r
    /\ unreported' = (unreported /\ r # "PersistenceFailed")
    /\ botched' = (botched \/ r = "error")

Continue(s) == step' = s /\ UNCHANGED <<result, history>>

TasksOf(t) == {task \in live : <<Group[task.name], task.tracker>> = t}
Current(g) == <<g, tracker[g].id>>
-----------------------------------------------------------------------------
(* Node::start                                                             *)

Start ==
    /\ step = "idle"
    /\ \/ isRunning /\ Return("AlreadyRunning") /\ UNCHANGED starts
       \/ ~isRunning /\ failed /\ Return("PersistenceFailed") /\ UNCHANGED starts
       \/ /\ ~isRunning /\ ~failed
          /\ starts < MaxStarts
          /\ starts' = starts + 1
          /\ Continue("drain")
    /\ UNCHANGED <<flags, tracked, processing>>

\* drain_detached_work
LeftoversDone ==
    /\ \A t \in leftovers : TasksOf(t) = {}
    /\ leftoverProcessor # NONE => processor[leftoverProcessor] \in Finished

\* Mutant: a start does not wait for what earlier ones left behind.
AllowTaskSpawnsAnyway ==
    /\ step = "drain"
    /\ leftovers' = {} /\ leftoverProcessor' = NONE
    /\ tracker' = [g \in Groups |-> [id |-> starts, closed |-> FALSE]]
    /\ Continue("chain")
    /\ UNCHANGED <<flags, starts, cancelled, live, signalled, processor, slot, waitingFor,
                   bpSignalled>>

\* allow_task_spawns: a closed generation of tasks is replaced by a new one.
AllowTaskSpawns ==
    /\ step = "drain"
    /\ LeftoversDone
    /\ leftovers' = {} /\ leftoverProcessor' = NONE
    /\ tracker' = [g \in Groups |-> IF tracker[g].closed
                                    THEN [id |-> starts, closed |-> FALSE]
                                    ELSE tracker[g]]
    /\ Continue("chain")
    /\ UNCHANGED <<flags, starts, cancelled, live, signalled, processor, slot, waitingFor,
                   bpSignalled>>

\* A processor that is done by the time of the timeout is not put back.
DrainTimeout ==
    /\ step = "drain"
    /\ ~LeftoversDone
    /\ leftoverProcessor' = IF leftoverProcessor # NONE
                               /\ processor[leftoverProcessor] \in Finished
                            THEN NONE ELSE leftoverProcessor
    /\ Return("AlreadyRunning")
    /\ UNCHANGED <<flags, starts, tracked, processor, slot, waitingFor, bpSignalled>>

ChainSourceStart ==
    /\ step = "chain"
    /\ \/ /\ chain' = IF chain = "stopped" THEN "started" ELSE chain
          /\ Continue("fees")
       \/ /\ MayFailSetup /\ chain = "stopped"
          /\ UNCHANGED chain /\ Return("error")
    /\ UNCHANGED <<isRunning, failed, generation, starts, tracked, processing>>

UpdateFeeRates ==
    /\ step = "fees"
    /\ Continue("sync") \/ (MayFailSetup /\ Return("error"))
    /\ UNCHANGED <<flags, starts, tracked, processing>>

\* spawn_tracked_task ignores a task for a closed tracker.
Spawned(names, s, k) ==
    {[name |-> n, start |-> s, tracker |-> tracker[Group[n]].id, n |-> k] :
        n \in {m \in names : ~tracker[Group[m]].closed}}

Spawn(names) ==
    /\ live' = live \cup Spawned(names, starts, 0)
    /\ UNCHANGED <<tracker, cancelled, signalled, leftovers>>

SpawnSyncTasks ==
    /\ step = "sync"
    /\ Spawn({"sync", "gossip"})
    /\ Continue("listen")
    /\ UNCHANGED <<flags, starts, processing>>

\* Resolving or binding a listening address may fail, and start returns at once.
Listen ==
    /\ step = "listen"
    /\ \/ Spawn({"network"}) /\ Continue("process")
       \/ MayFailSetup /\ Return("error") /\ UNCHANGED tracked
    /\ UNCHANGED <<flags, starts, processing>>

SpawnBackgroundProcessor ==
    /\ step = "process"
    /\ generation' = generation + 1
    /\ processor' = [processor EXCEPT ![generation + 1] = "run"]
    /\ slot' = generation + 1
    /\ bpSignalled' = FALSE
    /\ Continue("liquidity")
    /\ UNCHANGED <<isRunning, failed, chain, starts, tracked, waitingFor, leftoverProcessor>>

SpawnLiquidityTask ==
    /\ step = "liquidity"
    /\ Spawn({"liquidity"})
    /\ Continue("up")
    /\ UNCHANGED <<flags, starts, processing>>

SetRunning ==
    /\ step = "up"
    /\ isRunning' = TRUE
    /\ Continue("recheck")
    /\ UNCHANGED <<failed, generation, chain, starts, tracked, processing>>

\* Mutant: the second look at the flag is missing.
StartWithoutRecheck ==
    /\ step = "recheck"
    /\ Return("ok")
    /\ UNCHANGED <<flags, starts, tracked, processing>>

StartRecheck ==
    /\ step = "recheck"
    /\ IF failed
       THEN isRunning' = FALSE /\ Return("PersistenceFailed")
       ELSE UNCHANGED isRunning /\ Return("ok")
    /\ UNCHANGED <<failed, generation, chain, starts, tracked, processing>>
-----------------------------------------------------------------------------
(* Node::stop                                                              *)

Stop ==
    /\ step = "idle"
    /\ IF isRunning \/ failed
       THEN isRunning' = FALSE /\ Continue("bump")
       ELSE UNCHANGED isRunning /\ Return("NotRunning")
    /\ UNCHANGED <<failed, generation, chain, starts, tracked, processing>>

BumpGeneration ==
    /\ step = "bump"
    /\ generation' = generation + 1
    /\ Continue("close")
    /\ UNCHANGED <<isRunning, failed, chain, starts, tracked, processing>>

Close == tracker' = [g \in Groups |-> [tracker[g] EXCEPT !.closed = TRUE]]
Gate == chain' = IF chain = "started" THEN "gated" ELSE chain

CloseTaskAdmission ==
    /\ step = "close"
    /\ Close
    /\ Continue("signal")
    /\ UNCHANGED <<flags, starts, cancelled, live, signalled, leftovers, processing>>

\* chain_source.begin_shutdown() and stop_sender.send(())
SendStop ==
    /\ step = "signal"
    /\ Gate
    /\ signalled' = live
    /\ Continue("cancel")
    /\ UNCHANGED <<isRunning, failed, generation, starts, tracker, cancelled, live, leftovers,
                   processing>>

\* The wait for the tasks of a tracker ended, with the tasks or by the timeout.
Detach(g) == leftovers' = leftovers \cup (IF TasksOf(Current(g)) # {} THEN {Current(g)} ELSE {})

\* abort_cancellable_background_tasks: the token, and then the wait.
CancelCancellable ==
    /\ step = "cancel"
    /\ IF Current("cancellable") \notin cancelled
       THEN /\ cancelled' = cancelled \cup {Current("cancellable")}
            /\ UNCHANGED <<step, result, history, leftovers>>
       ELSE /\ UNCHANGED cancelled
            /\ Detach("cancellable")
            /\ Continue("wait")
    /\ UNCHANGED <<flags, starts, tracker, live, signalled, processing>>

\* Mutant: no timeout.
WaitBackgroundForever ==
    /\ step = "wait"
    /\ TasksOf(Current("background")) = {}
    /\ Continue("chain stop")
    /\ UNCHANGED <<flags, starts, tracked, processing>>

\* wait_on_background_tasks
WaitBackground ==
    /\ step = "wait"
    /\ IF TasksOf(Current("background")) = {}
       THEN Continue("chain stop") /\ UNCHANGED cancelled
       ELSE /\ cancelled' = cancelled \cup {Current("background")}
            /\ Continue("wait again")
    /\ UNCHANGED <<flags, starts, tracker, live, signalled, leftovers, processing>>

WaitBackgroundAgain ==
    /\ step = "wait again"
    /\ Detach("background")
    /\ Continue("chain stop")
    /\ UNCHANGED <<flags, starts, tracker, cancelled, live, signalled, processing>>

\* chain_source.stop(), the signal to the processor, and taking its handle.
ChainSourceStop ==
    /\ step = "chain stop"
    /\ chain' = "stopped"
    /\ bpSignalled' = TRUE
    /\ waitingFor' = slot /\ slot' = NONE
    /\ Continue(IF slot = NONE THEN "swap" ELSE "processor")
    /\ UNCHANGED <<isRunning, failed, generation, starts, tracked, processor, leftoverProcessor>>

\* Without an answer in time the processor's task is aborted,
WaitProcessor ==
    /\ step = "processor"
    /\ Continue(IF processor[waitingFor] \in Finished THEN "swap" ELSE "abort")
    /\ UNCHANGED <<flags, starts, tracked, processing>>

\* and without an answer to that it is left over.
AbortProcessor ==
    /\ step = "abort"
    /\ IF processor[waitingFor] \in Finished
       THEN UNCHANGED <<leftoverProcessor, waitingFor>>
       ELSE leftoverProcessor' = waitingFor /\ waitingFor' = NONE
    /\ Continue("swap")
    /\ UNCHANGED <<flags, starts, tracked, processor, slot, bpSignalled>>

StopSwap ==
    /\ step = "swap"
    /\ failed' = FALSE
    /\ Return(IF failed \/ (waitingFor # NONE /\ processor[waitingFor] = "err")
              THEN "PersistenceFailed" ELSE "ok")
    /\ waitingFor' = NONE
    /\ UNCHANGED <<isRunning, generation, chain, starts, tracked, processor, slot, bpSignalled,
                   leftoverProcessor>>
-----------------------------------------------------------------------------
(* Tasks, and the background processor with its failure handler.           *)

\* A task ends after the stop signal, or at an await once its token is cancelled.
TaskEnds(task) ==
    /\ task \in live
    /\ task \in signalled \/ <<Group[task.name], task.tracker>> \in cancelled
    /\ live' = live \ {task} /\ signalled' = signalled \ {task}
    /\ UNCHANGED <<step, result, flags, starts, tracker, cancelled, leftovers, processing, history>>

\* A listener that has not stopped accepts a connection and spawns a task for it.
Accept(task) ==
    /\ task \in live /\ task.name = "network"
    /\ \E k \in 1..MaxInbound :
          /\ ~\E other \in live : other.name = "inbound" /\ other.start = task.start /\ other.n = k
          /\ live' = live \cup Spawned({"inbound"}, task.start, k)
    /\ UNCHANGED <<step, result, flags, starts, tracker, cancelled, signalled, leftovers, processing,
                   history>>

\* process_events_async returns: an error at any time, Ok after the stop signal.
ProcessorReturns(g) ==
    /\ processor[g] = "run"
    /\ \/ processor' = [processor EXCEPT ![g] = "check"]
       \/ bpSignalled /\ processor' = [processor EXCEPT ![g] = "ok"]
       \/ /\ (step = "abort" /\ waitingFor = g) \/ leftoverProcessor = g
          /\ processor' = [processor EXCEPT ![g] = "aborted"]
    /\ UNCHANGED <<step, result, flags, starts, tracked, slot, waitingFor, bpSignalled,
                   leftoverProcessor, history>>

HandlerGoto(g, s) == processor' = [processor EXCEPT ![g] = s]

\* handle_background_processor_failure, one shared access at a time.
CheckGeneration(g) ==
    /\ processor[g] = "check"
    /\ HandlerGoto(g, IF g = generation THEN "set failed" ELSE "err")
    /\ UNCHANGED <<flags, tracked, history>>

SetFailed(g) ==
    /\ processor[g] = "set failed"
    /\ failed' = TRUE /\ unreported' = TRUE
    /\ HandlerGoto(g, "set stopped")
    /\ UNCHANGED <<isRunning, generation, chain, tracked, botched>>

SetStopped(g) ==
    /\ processor[g] = "set stopped"
    /\ isRunning' = FALSE
    /\ HandlerGoto(g, "close")
    /\ UNCHANGED <<failed, generation, chain, tracked, history>>

CloseAdmission(g) ==
    /\ processor[g] = "close"
    /\ Close
    /\ HandlerGoto(g, "gate")
    /\ UNCHANGED <<flags, cancelled, live, signalled, leftovers, history>>

GateChainSource(g) ==
    /\ processor[g] = "gate"
    /\ Gate
    /\ HandlerGoto(g, "cancel")
    /\ UNCHANGED <<isRunning, failed, generation, tracked, history>>

CancelTrackedTasks(g) ==
    /\ processor[g] = "cancel"
    /\ Close
    /\ cancelled' = cancelled \cup {Current(h) : h \in Groups}
    /\ HandlerGoto(g, "err")
    /\ UNCHANGED <<flags, live, signalled, leftovers, history>>

HandleFailure(g) ==
    /\ \/ CheckGeneration(g) \/ SetFailed(g) \/ SetStopped(g)
       \/ CloseAdmission(g) \/ GateChainSource(g) \/ CancelTrackedTasks(g)
    /\ UNCHANGED <<step, result, starts, slot, waitingFor, bpSignalled, leftoverProcessor>>

Lifecycle ==
    \/ Start \/ AllowTaskSpawns \/ DrainTimeout \/ ChainSourceStart \/ UpdateFeeRates
    \/ SpawnSyncTasks \/ Listen \/ SpawnBackgroundProcessor \/ SpawnLiquidityTask
    \/ SetRunning \/ StartRecheck
    \/ Stop \/ BumpGeneration \/ CloseTaskAdmission \/ SendStop \/ CancelCancellable
    \/ WaitBackground \/ WaitBackgroundAgain \/ ChainSourceStop \/ WaitProcessor
    \/ AbortProcessor \/ StopSwap

Next ==
    \/ Lifecycle
    \/ \E task \in live : TaskEnds(task) \/ Accept(task)
    \/ \E g \in Generations : ProcessorReturns(g) \/ HandleFailure(g)

Spec == Init /\ [][Next]_vars

\* The thread in start or stop goes on: every wait has a timeout.  Nothing is assumed of
\* the tasks.
FairSpec == Spec /\ WF_vars(step # "idle" /\ Lifecycle)
-----------------------------------------------------------------------------
Busy(g) == processor[g] \notin Finished

TwoGenerations ==
    \/ \E a, b \in live : a.start # b.start
    \/ \E g, h \in Generations : Busy(g) /\ Busy(h) /\ g # h
    \/ step = "process" /\ slot # NONE

\* Tasks and processors of two starts never run at the same time, although stop gives up
\* waiting for some; a new processor finds its slot empty (runtime.rs 289) and start finds the
\* chain source stopped (the assertion in electrum.rs 682), unless a start failed halfway.
OneGenerationUnlessBotched ==
    TwoGenerations \/ (step = "chain" /\ chain # "stopped") => botched

\* A failure of the background processor does not go unnoticed.  A node that says it runs has
\* a processor whose failure would still be recorded, and as long as that runs, open task
\* trackers, a started chain source and a sync task; also when the processor failed during
\* start.  A recorded failure stays recorded until some call has returned it.
FailureIsNoticed ==
    step = "idle" =>
        /\ isRunning =>
              /\ slot = generation
              /\ processor[slot] \in {"run", "check", "set failed", "set stopped"}
              /\ processor[slot] = "run" =>
                    /\ \A g \in Groups : ~tracker[g].closed
                    /\ chain = "started"
                    /\ \E task \in live : task.name = "sync"
        /\ unreported => failed

\* start and stop return, whatever the tasks and the processor do.
CallsReturn == step # "idle" ~> step = "idle"
=============================================================================

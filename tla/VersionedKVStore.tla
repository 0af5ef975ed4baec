-------------------------- MODULE VersionedKVStore --------------------------
(***************************************************************************)
(* The write path of SqliteStore and VssStore.  Both order the writes and  *)
(* removals of one key with a store-wide version counter and a per-key     *)
(* mutex that holds the last version written.  The mutexes live in a map   *)
(* that is created on demand and cleaned up when nobody holds a reference. *)
(*                                                                         *)
(* An operation o stands for one call of write() or remove(); it carries   *)
(* its own value, so the content of a key is the operation that produced   *)
(* it.  An Arc<Mutex<u64>> is named by the operation that allocated it.    *)
(***************************************************************************)
EXTENDS Naturals

CONSTANTS
    Ops,    \* the write and remove calls issued over the store's lifetime
    Keys,   \* locking keys (namespaces and key)
    None    \* no operation, no mutex

ASSUME NoneNotAnOp == None \notin Ops

VARIABLES
    nextVersion,   \* next_write_version
    locks,         \* write_version_locks: the mutex of each key, or None
    lastWritten,   \* the u64 behind each mutex
    pc,            \* where each call is
    key,           \* the locking key of each call
    version,       \* the version each call was given, 0 before (and after a crash)
    lockRef,       \* the Arc each call holds, or None
    result,        \* what the call returns
    disk,          \* the content of each key: the last operation applied
    issuedBefore   \* history: the calls that had their lock when o was issued

vars == <<nextVersion, locks, lastWritten, pc, key, version, lockRef, result,
          disk, issuedBefore>>

PCs == {"idle", "versioned", "queued", "writing", "unlocked", "cleaned",
        "done", "dead"}

TypeOK ==
    /\ nextVersion \in Nat \ {0}
    /\ locks \in [Keys -> Ops \cup {None}]
    /\ lastWritten \in [Ops -> Nat]
    /\ pc \in [Ops -> PCs]
    /\ key \in [Ops -> Keys]
    /\ version \in [Ops -> Nat]
    /\ lockRef \in [Ops -> Ops \cup {None}]
    /\ result \in [Ops -> {"none", "ok", "err"}]
    /\ disk \in [Keys -> Ops \cup {None}]
    /\ issuedBefore \in [Ops -> SUBSET Ops]

Init ==
    /\ nextVersion = 1
    /\ locks = [k \in Keys |-> None]
    /\ lastWritten = [o \in Ops |-> 0]
    /\ pc = [o \in Ops |-> "idle"]
    /\ key \in [Ops -> Keys]
    /\ version = [o \in Ops |-> 0]
    /\ lockRef = [o \in Ops |-> None]
    /\ result = [o \in Ops |-> "none"]
    /\ disk = [k \in Keys |-> None]
    /\ issuedBefore = [o \in Ops |-> {}]

Issued(o) == pc[o] \notin {"idle", "versioned"}

\* get_new_version_and_lock_ref, first half: the atomic fetch_add.
FetchVersion(o) ==
    /\ pc[o] = "idle"
    /\ version' = [version EXCEPT ![o] = nextVersion]
    /\ nextVersion' = nextVersion + 1
    /\ pc' = [pc EXCEPT ![o] = "versioned"]
    /\ issuedBefore' = [issuedBefore EXCEPT ![o] = {p \in Ops : Issued(p)}]
    /\ UNCHANGED <<locks, lastWritten, key, lockRef, result, disk>>

\* Second half: get_inner_lock_ref clones the key's mutex, allocating one
\* that holds 0 when the map has none (entry().or_default()).
GetInnerLockRef(o) ==
    /\ pc[o] = "versioned"
    /\ pc' = [pc EXCEPT ![o] = "queued"]
    /\ IF locks[key[o]] = None
       THEN /\ locks' = [locks EXCEPT ![key[o]] = o]
            /\ lockRef' = [lockRef EXCEPT ![o] = o]
            /\ lastWritten' = [lastWritten EXCEPT ![o] = 0]
       ELSE /\ lockRef' = [lockRef EXCEPT ![o] = locks[key[o]]]
            /\ UNCHANGED <<locks, lastWritten>>
    /\ UNCHANGED <<nextVersion, key, version, result, disk, issuedBefore>>

\* The call ends before execute_locked_write: the key is invalid (Err), or the
\* future or the blocking task is dropped before it first runs (nobody is told).
\* Either way its Arc goes without clean_locks.
DropUnstarted(o, res) ==
    /\ pc[o] = "queued"
    /\ pc' = [pc EXCEPT ![o] = "done"]
    /\ lockRef' = [lockRef EXCEPT ![o] = None]
    /\ result' = [result EXCEPT ![o] = res]
    /\ UNCHANGED <<nextVersion, locks, lastWritten, key, version, disk,
                   issuedBefore>>

InnerLockFree(i) == \A p \in Ops : ~(pc[p] = "writing" /\ lockRef[p] = i)

\* Mutant: no stale check.
LockInnerNoCheck(o) ==
    /\ pc[o] = "queued"
    /\ InnerLockFree(lockRef[o])
    /\ pc' = [pc EXCEPT ![o] = "writing"]
    /\ UNCHANGED <<nextVersion, locks, lastWritten, key, version, lockRef, result,
                   disk, issuedBefore>>

\* execute_locked_write takes the mutex and compares versions: a stale call
\* returns Ok without touching the store, any other goes on to its callback.
LockInner(o) ==
    /\ pc[o] = "queued"
    /\ InnerLockFree(lockRef[o])
    /\ IF version[o] <= lastWritten[lockRef[o]]
       THEN /\ pc' = [pc EXCEPT ![o] = "unlocked"]
            /\ result' = [result EXCEPT ![o] = "ok"]
       ELSE /\ pc' = [pc EXCEPT ![o] = "writing"]
            /\ UNCHANGED result
    /\ UNCHANGED <<nextVersion, locks, lastWritten, key, version, lockRef, disk,
                   issuedBefore>>

\* The callback wrote or deleted the row, the version is recorded, the mutex freed.
CallbackOk(o) ==
    /\ pc[o] = "writing"
    /\ disk' = [disk EXCEPT ![key[o]] = o]
    /\ lastWritten' = [lastWritten EXCEPT ![lockRef[o]] = version[o]]
    /\ result' = [result EXCEPT ![o] = "ok"]
    /\ pc' = [pc EXCEPT ![o] = "unlocked"]
    /\ UNCHANGED <<nextVersion, locks, key, version, lockRef, issuedBefore>>

\* The callback failed.  The row is as it was or, when the answer of the VSS
\* server is what got lost, already replaced; the version is not recorded.
CallbackErr(o) ==
    /\ pc[o] = "writing"
    /\ disk' \in {disk, [disk EXCEPT ![key[o]] = o]}
    /\ result' = [result EXCEPT ![o] = "err"]
    /\ pc' = [pc EXCEPT ![o] = "unlocked"]
    /\ UNCHANGED <<nextVersion, locks, lastWritten, key, version, lockRef,
                   issuedBefore>>

Holders(i) == {p \in Ops : lockRef[p] = i}

\* Mutant: waits for the other holders instead of leaving the entry to them.
CleanLocksWaits(o) ==
    /\ pc[o] = "unlocked"
    /\ Holders(lockRef[o]) = {o}
    /\ locks' = [locks EXCEPT ![key[o]] = None]
    /\ pc' = [pc EXCEPT ![o] = "cleaned"]
    /\ UNCHANGED <<nextVersion, lastWritten, key, version, lockRef, result,
                   disk, issuedBefore>>

\* clean_locks: strong_count = 2 is the map's Arc and our own.
CleanLocks(o) ==
    /\ pc[o] = "unlocked"
    /\ locks' = IF Holders(lockRef[o]) = {o}
                THEN [locks EXCEPT ![key[o]] = None]
                ELSE locks
    /\ pc' = [pc EXCEPT ![o] = "cleaned"]
    /\ UNCHANGED <<nextVersion, lastWritten, key, version, lockRef, result,
                   disk, issuedBefore>>

\* execute_locked_write returns and drops its Arc.
Return(o) ==
    /\ pc[o] = "cleaned"
    /\ lockRef' = [lockRef EXCEPT ![o] = None]
    /\ pc' = [pc EXCEPT ![o] = "done"]
    /\ UNCHANGED <<nextVersion, locks, lastWritten, key, version, result, disk,
                   issuedBefore>>

\* The process dies and a new store is built over the same data: the counter
\* restarts at 1, no mutex survives, calls under way never return.
Crash ==
    /\ nextVersion' = 1
    /\ locks' = [k \in Keys |-> None]
    /\ lastWritten' = [o \in Ops |-> 0]
    /\ version' = [o \in Ops |-> 0]
    /\ lockRef' = [o \in Ops |-> None]
    /\ pc' = [o \in Ops |-> IF pc[o] \in {"idle", "done"} THEN pc[o] ELSE "dead"]
    /\ UNCHANGED <<key, result, disk, issuedBefore>>

Step(o) ==
    \/ FetchVersion(o)
    \/ GetInnerLockRef(o)
    \/ LockInner(o)
    \/ CallbackOk(o)
    \/ CallbackErr(o)
    \/ CleanLocks(o)
    \/ Return(o)

Next ==
    \/ \E o \in Ops : Step(o)
    \/ \E o \in Ops, res \in {"none", "err"} : DropUnstarted(o, res)
    \/ Crash

Spec == Init /\ [][Next]_vars
-----------------------------------------------------------------------------
Acked(o) == pc[o] = "done" /\ result[o] = "ok"

\* Every call that holds an Arc holds the one in the map, so all calls in flight
\* on one key exclude each other and compare against the same last version, and
\* strong_count is at least 2 in clean_locks (its debug_assert).  A mutex must
\* never be removed from the map while a call still uses it.  (A call that has
\* run clean_locks may keep its Arc a little longer; it does not lock it again.)
LockRefsAgree ==
    \A o \in Ops : pc[o] \in {"queued", "writing", "unlocked"} =>
        /\ lockRef[o] # None
        /\ locks[key[o]] = lockRef[o]

\* What the version counter is for: once a write has returned Ok, no call on the
\* key whose write() had returned its future before this one was called can be
\* the content of the key, however late that call runs, whatever fails, and
\* whatever crashes in between.
NewestIssuedWins ==
    \A o \in Ops : Acked(o) =>
        /\ disk[key[o]] # None
        /\ disk[key[o]] \notin issuedBefore[o]

\* Under fair scheduling of the runtime, and as the stores' callbacks end (a
\* SQLite statement, a bounded number of retries of a VSS request), every call
\* that was issued returns or its process dies: no lost mutex, no deadlock.
EveryCallEnds ==
    \A o \in Ops : pc[o] = "queued" ~> pc[o] \in {"done", "dead"}

FairSpec ==
    /\ Spec
    /\ \A o \in Ops : WF_vars(Step(o))
=============================================================================

----------------------- MODULE VersionedKVStoreProofs -----------------------
(***************************************************************************)
(* Type correctness of the versioned store and the two facts its design    *)
(* rests on, for any number of calls and keys.                             *)
(***************************************************************************)
EXTENDS VersionedKVStore, TLAPS

HoldsRef == {"queued", "writing", "unlocked", "cleaned"}

\* A call holds an Arc exactly between get_inner_lock_ref and its return, and a
\* mutex is named by a call that has reached get_inner_lock_ref.
RefInv ==
    /\ \A o \in Ops : lockRef[o] # None <=> pc[o] \in HoldsRef
    /\ \A o \in Ops : lockRef[o] # None => Issued(lockRef[o])
    /\ \A k \in Keys : locks[k] # None => Issued(locks[k]) /\ key[locks[k]] = k

\* Versions grow in the order of issue.
VersionInv ==
    /\ \A o \in Ops : version[o] < nextVersion
    /\ \A o \in Ops : pc[o] \in {"versioned", "queued", "writing"} => version[o] > 0
    /\ \A o \in Ops : \A w \in issuedBefore[o] :
          /\ w # o
          /\ Issued(w)
          /\ version[o] > 0 => version[w] < version[o]

\* The holder of a mutex is alone and is newer than what was last written.
WriterInv ==
    /\ \A o \in Ops : pc[o] = "writing" => version[o] > lastWritten[lockRef[o]]
    /\ \A o, p \in Ops :
          pc[o] = "writing" /\ pc[p] = "writing" /\ lockRef[o] = lockRef[p] => o = p

\* What a mutex remembers is not newer than what is on disk.
DiskInv ==
    \A k \in Keys : locks[k] # None /\ lastWritten[locks[k]] > 0 =>
        /\ disk[k] # None
        /\ version[disk[k]] >= lastWritten[locks[k]]

Completed(o) == pc[o] \in {"unlocked", "cleaned", "done"} /\ result[o] = "ok"

\* Once o has succeeded, the older calls still under way find a newer version
\* behind their mutex.
CompletedInv ==
    \A o \in Ops : Completed(o) =>
        /\ disk[key[o]] # None
        /\ disk[key[o]] \notin issuedBefore[o]
        /\ \A w \in issuedBefore[o] :
              key[w] = key[o] /\ pc[w] \in {"queued", "writing"}
                  => version[o] > 0 /\ lastWritten[lockRef[w]] >= version[o]

IInv ==
    /\ TypeOK
    /\ LockRefsAgree
    /\ RefInv
    /\ VersionInv
    /\ WriterInv
    /\ DiskInv
    /\ CompletedInv
-----------------------------------------------------------------------------
\* Every step of a store keeps the types: the calls' fields stay in range.
LEMMA TypeStep == TypeOK /\ [Next]_vars => TypeOK'
<1> SUFFICES ASSUME TypeOK, [Next]_vars PROVE TypeOK'
    OBVIOUS
<1> USE NoneNotAnOp DEF TypeOK, PCs
<1>1. ASSUME NEW o \in Ops, FetchVersion(o) PROVE TypeOK'
    BY <1>1 DEF FetchVersion
<1>2. ASSUME NEW o \in Ops, GetInnerLockRef(o) PROVE TypeOK'
    BY <1>2 DEF GetInnerLockRef
<1>3. ASSUME NEW o \in Ops, LockInner(o) PROVE TypeOK'
    BY <1>3 DEF LockInner
<1>4. ASSUME NEW o \in Ops, CallbackOk(o) PROVE TypeOK'
    BY <1>4 DEF CallbackOk
<1>5. ASSUME NEW o \in Ops, CallbackErr(o) PROVE TypeOK'
    BY <1>5 DEF CallbackErr
<1>6. ASSUME NEW o \in Ops, CleanLocks(o) PROVE TypeOK'
    BY <1>6 DEF CleanLocks
<1>7. ASSUME NEW o \in Ops, Return(o) PROVE TypeOK'
    BY <1>7 DEF Return
<1>8. ASSUME NEW o \in Ops, NEW res \in {"none", "err"}, DropUnstarted(o, res)
      PROVE  TypeOK'
    BY <1>8 DEF DropUnstarted
<1>9. CASE Crash
    BY <1>9 DEF Crash
<1>10. CASE UNCHANGED vars
    BY <1>10 DEF vars
<1>11. QED
    BY <1>1, <1>2, <1>3, <1>4, <1>5, <1>6, <1>7, <1>8, <1>9, <1>10
    DEF Next, Step

\* The versions, mutexes, results and contents of the stores always have their
\* types.
THEOREM TypeCorrect == Spec => []TypeOK
<1>1. Init => TypeOK
    BY DEF Init, TypeOK, PCs
<1>2. QED
    BY <1>1, TypeStep, PTL DEF Spec
-----------------------------------------------------------------------------
\* A store that was just built satisfies the invariant.
LEMMA InitIInv == Init => IInv
    BY NoneNotAnOp
    DEF Init, IInv, TypeOK, PCs, LockRefsAgree, RefInv, VersionInv, WriterInv,
        DiskInv, CompletedInv, Completed, HoldsRef, Issued

\* A new version is above every version given out, so above those of the
\* calls already issued.
LEMMA FetchVersionStep ==
    ASSUME IInv, TypeOK', NEW o \in Ops, FetchVersion(o)
    PROVE  IInv'
<1> USE NoneNotAnOp DEF IInv, TypeOK, FetchVersion
<1>1. LockRefsAgree'
    BY DEF LockRefsAgree, RefInv, HoldsRef, Issued
<1>2. RefInv'
    BY DEF RefInv, LockRefsAgree, HoldsRef, Issued
<1>3. VersionInv'
    BY DEF VersionInv, Issued
<1>4. WriterInv'
    BY DEF WriterInv, RefInv, LockRefsAgree, HoldsRef, Issued, InnerLockFree,
           VersionInv
<1>5. DiskInv'
    BY DEF DiskInv, RefInv, LockRefsAgree, VersionInv, WriterInv, HoldsRef,
           Issued
<1>6. CompletedInv'
    BY DEF CompletedInv, Completed, RefInv, LockRefsAgree, VersionInv,
           WriterInv, DiskInv, HoldsRef, Issued
<1>7. QED
    BY <1>1, <1>2, <1>3, <1>4, <1>5, <1>6 DEF IInv

\* A fresh mutex is named by a call nobody refers to yet; an existing one is
\* shared.
LEMMA GetInnerLockRefStep ==
    ASSUME IInv, TypeOK', NEW o \in Ops, GetInnerLockRef(o)
    PROVE  IInv'
<1> USE NoneNotAnOp DEF IInv, TypeOK, GetInnerLockRef
<1>1. LockRefsAgree'
    BY DEF LockRefsAgree, RefInv, HoldsRef, Issued
<1>2. RefInv'
  <2>1. CASE locks[key[o]] = None
      BY <2>1 DEF RefInv, HoldsRef, Issued
  <2>2. CASE locks[key[o]] # None
      BY <2>2 DEF RefInv, HoldsRef, Issued
  <2>3. QED
      BY <2>1, <2>2
<1>3. VersionInv'
    BY DEF VersionInv, Issued
<1>4. WriterInv'
  <2>1. \A p \in Ops : pc'[p] = "writing" =>
            pc[p] = "writing" /\ p # o /\ lockRef'[p] = lockRef[p] /\ lockRef[p] \in Ops
      BY DEF RefInv, HoldsRef
  <2>2. \A p \in Ops : pc[p] = "writing" => lastWritten'[lockRef[p]] = lastWritten[lockRef[p]]
      BY DEF RefInv, HoldsRef, Issued
  <2>3. QED
      BY <2>1, <2>2 DEF WriterInv
<1>5. DiskInv'
    BY DEF DiskInv, RefInv, LockRefsAgree, VersionInv, WriterInv, HoldsRef,
           Issued
<1>6. CompletedInv'
    BY DEF CompletedInv, Completed, RefInv, LockRefsAgree, VersionInv,
           WriterInv, DiskInv, HoldsRef, Issued
<1>7. QED
    BY <1>1, <1>2, <1>3, <1>4, <1>5, <1>6 DEF IInv

\* A stale call may answer Ok: what is on disk is at least as new as it is.
LEMMA LockInnerStep ==
    ASSUME IInv, TypeOK', NEW o \in Ops, LockInner(o)
    PROVE  IInv'
<1> USE NoneNotAnOp DEF IInv, TypeOK, LockInner
<1>1. LockRefsAgree'
    BY DEF LockRefsAgree, RefInv, HoldsRef, Issued
<1>2. RefInv'
    BY DEF RefInv, LockRefsAgree, HoldsRef, Issued
<1>3. VersionInv'
    BY DEF VersionInv, Issued
<1>4. WriterInv'
    BY DEF WriterInv, RefInv, LockRefsAgree, HoldsRef, Issued, InnerLockFree,
           VersionInv
<1>5. DiskInv'
    BY DEF DiskInv, RefInv, LockRefsAgree, VersionInv, WriterInv, HoldsRef,
           Issued
<1>6. CompletedInv'
    BY DEF CompletedInv, Completed, RefInv, LockRefsAgree, VersionInv,
           WriterInv, DiskInv, HoldsRef, Issued
<1>7. QED
    BY <1>1, <1>2, <1>3, <1>4, <1>5, <1>6 DEF IInv

\* A call that writes is newer than the last version, so it is not older
\* than any call that succeeded.
LEMMA CallbackOkStep ==
    ASSUME IInv, TypeOK', NEW o \in Ops, CallbackOk(o)
    PROVE  IInv'
<1> USE NoneNotAnOp DEF IInv, TypeOK, CallbackOk
<1>1. LockRefsAgree'
    BY DEF LockRefsAgree, RefInv, HoldsRef, Issued
<1>2. RefInv'
    BY DEF RefInv, LockRefsAgree, HoldsRef, Issued
<1>3. VersionInv'
    BY DEF VersionInv, Issued
<1>4. WriterInv'
    BY DEF WriterInv, RefInv, LockRefsAgree, HoldsRef, Issued, InnerLockFree,
           VersionInv
<1>5. DiskInv'
    BY DEF DiskInv, RefInv, LockRefsAgree, VersionInv, WriterInv, HoldsRef,
           Issued
<1>6. CompletedInv'
    BY DEF CompletedInv, Completed, RefInv, LockRefsAgree, VersionInv,
           WriterInv, DiskInv, HoldsRef, Issued
<1>7. QED
    BY <1>1, <1>2, <1>3, <1>4, <1>5, <1>6 DEF IInv

\* A failed callback may leave its value on disk, but never an older one
\* than the last recorded.
LEMMA CallbackErrStep ==
    ASSUME IInv, TypeOK', NEW o \in Ops, CallbackErr(o)
    PROVE  IInv'
<1> USE NoneNotAnOp DEF IInv, TypeOK, CallbackErr
<1>1. LockRefsAgree'
    BY DEF LockRefsAgree, RefInv, HoldsRef, Issued
<1>2. RefInv'
    BY DEF RefInv, LockRefsAgree, HoldsRef, Issued
<1>3. VersionInv'
    BY DEF VersionInv, Issued
<1>4. WriterInv'
    BY DEF WriterInv, RefInv, LockRefsAgree, HoldsRef, Issued, InnerLockFree,
           VersionInv
<1>5. DiskInv'
    BY DEF DiskInv, RefInv, LockRefsAgree, VersionInv, WriterInv, HoldsRef,
           Issued
<1>6. CompletedInv'
    BY DEF CompletedInv, Completed, RefInv, LockRefsAgree, VersionInv,
           WriterInv, DiskInv, HoldsRef, Issued
<1>7. QED
    BY <1>1, <1>2, <1>3, <1>4, <1>5, <1>6 DEF IInv

\* The entry goes only when no other call holds the mutex.
LEMMA CleanLocksStep ==
    ASSUME IInv, TypeOK', NEW o \in Ops, CleanLocks(o)
    PROVE  IInv'
<1> USE NoneNotAnOp DEF IInv, TypeOK, CleanLocks
<1>1. LockRefsAgree'
    BY DEF LockRefsAgree, RefInv, HoldsRef, Issued, Holders
<1>2. RefInv'
    BY DEF RefInv, LockRefsAgree, HoldsRef, Issued, Holders
<1>3. VersionInv'
    BY DEF VersionInv, Issued, Holders
<1>4. WriterInv'
    BY DEF WriterInv, RefInv, LockRefsAgree, HoldsRef, Issued, InnerLockFree,
           VersionInv, Holders
<1>5. DiskInv'
    BY DEF DiskInv, RefInv, LockRefsAgree, VersionInv, WriterInv, HoldsRef,
           Issued, Holders
<1>6. CompletedInv'
    BY DEF CompletedInv, Completed, RefInv, LockRefsAgree, VersionInv,
           WriterInv, DiskInv, HoldsRef, Issued, Holders
<1>7. QED
    BY <1>1, <1>2, <1>3, <1>4, <1>5, <1>6 DEF IInv

\* Dropping the Arc after clean_locks disturbs nothing.
LEMMA ReturnStep ==
    ASSUME IInv, TypeOK', NEW o \in Ops, Return(o)
    PROVE  IInv'
<1> USE NoneNotAnOp DEF IInv, TypeOK, Return
<1>1. LockRefsAgree'
    BY DEF LockRefsAgree, RefInv, HoldsRef, Issued
<1>2. RefInv'
    BY DEF RefInv, LockRefsAgree, HoldsRef, Issued
<1>3. VersionInv'
    BY DEF VersionInv, Issued
<1>4. WriterInv'
    BY DEF WriterInv, RefInv, LockRefsAgree, HoldsRef, Issued, InnerLockFree,
           VersionInv
<1>5. DiskInv'
    BY DEF DiskInv, RefInv, LockRefsAgree, VersionInv, WriterInv, HoldsRef,
           Issued
<1>6. CompletedInv'
    BY DEF CompletedInv, Completed, RefInv, LockRefsAgree, VersionInv,
           WriterInv, DiskInv, HoldsRef, Issued
<1>7. QED
    BY <1>1, <1>2, <1>3, <1>4, <1>5, <1>6 DEF IInv

\* A call dropped before it ran leaves only its map entry behind.
LEMMA DropUnstartedStep ==
    ASSUME IInv, TypeOK', NEW o \in Ops, NEW res \in {"none", "err"},
           DropUnstarted(o, res)
    PROVE  IInv'
<1> USE NoneNotAnOp DEF IInv, TypeOK, DropUnstarted
<1>1. LockRefsAgree'
    BY DEF LockRefsAgree, RefInv, HoldsRef, Issued
<1>2. RefInv'
    BY DEF RefInv, LockRefsAgree, HoldsRef, Issued
<1>3. VersionInv'
    BY DEF VersionInv, Issued
<1>4. WriterInv'
    BY DEF WriterInv, RefInv, LockRefsAgree, HoldsRef, Issued, InnerLockFree,
           VersionInv
<1>5. DiskInv'
    BY DEF DiskInv, RefInv, LockRefsAgree, VersionInv, WriterInv, HoldsRef,
           Issued
<1>6. CompletedInv'
    BY DEF CompletedInv, Completed, RefInv, LockRefsAgree, VersionInv,
           WriterInv, DiskInv, HoldsRef, Issued
<1>7. QED
    BY <1>1, <1>2, <1>3, <1>4, <1>5, <1>6 DEF IInv

\* After a crash nothing is in flight and what is on disk stays.
LEMMA CrashStep ==
    ASSUME IInv, TypeOK', Crash
    PROVE  IInv'
<1> USE NoneNotAnOp DEF IInv, TypeOK, Crash
<1>1. LockRefsAgree'
    BY DEF LockRefsAgree, RefInv, HoldsRef, Issued
<1>2. RefInv'
    BY DEF RefInv, LockRefsAgree, HoldsRef, Issued
<1>3. VersionInv'
    BY DEF VersionInv, Issued
<1>4. WriterInv'
    BY DEF WriterInv, RefInv, LockRefsAgree, HoldsRef, Issued, InnerLockFree,
           VersionInv
<1>5. DiskInv'
    BY DEF DiskInv, RefInv, LockRefsAgree, VersionInv, WriterInv, HoldsRef,
           Issued
<1>6. CompletedInv'
    BY DEF CompletedInv, Completed, RefInv, LockRefsAgree, VersionInv,
           WriterInv, DiskInv, HoldsRef, Issued
<1>7. QED
    BY <1>1, <1>2, <1>3, <1>4, <1>5, <1>6 DEF IInv

\* The inductive step, one case per action.
LEMMA NextIInv == IInv /\ [Next]_vars => IInv'
<1> SUFFICES ASSUME IInv, [Next]_vars PROVE IInv'
    OBVIOUS
<1>1. TypeOK'
    BY TypeStep DEF IInv
<1>2. CASE \E o \in Ops : Step(o)
    BY <1>1, <1>2, FetchVersionStep, GetInnerLockRefStep, LockInnerStep,
       CallbackOkStep, CallbackErrStep, CleanLocksStep, ReturnStep DEF Step
<1>3. CASE \E o \in Ops, res \in {"none", "err"} : DropUnstarted(o, res)
    BY <1>1, <1>3, DropUnstartedStep
<1>4. CASE Crash
    BY <1>1, <1>4, CrashStep
<1>5. CASE UNCHANGED vars
    BY <1>5 DEF vars, IInv, TypeOK, LockRefsAgree, RefInv, VersionInv, WriterInv,
       DiskInv, CompletedInv, Completed, Issued
<1>6. QED
    BY <1>2, <1>3, <1>4, <1>5 DEF Next

\* The strengthening that the two theorems below follow from.
THEOREM InductiveInvariant == Spec => []IInv
    BY InitIInv, NextIInv, PTL DEF Spec

\* clean_locks never takes a mutex out of the map that a call still has to lock:
\* at any time all calls in flight on one key share one mutex.
THEOREM OneMutexPerKey == Spec => []LockRefsAgree
<1>1. IInv => LockRefsAgree
    BY DEF IInv
<1>2. QED
    BY <1>1, InductiveInvariant, PTL

\* A write that returned Ok is never undone by a write or a removal issued
\* before it, whatever the order they run in, fail in or crash in.
THEOREM AckedWritesStay == Spec => []NewestIssuedWins
<1>1. IInv => NewestIssuedWins
    BY DEF IInv, CompletedInv, Completed, NewestIssuedWins, Acked
<1>2. QED
    BY <1>1, InductiveInvariant, PTL
=============================================================================

---------------------------- MODULE LockerProofs ----------------------------
(***************************************************************************)
(* Mutual exclusion of the named locks, for any number of goroutines, names *)
(* and lock objects.                                                        *)
(*                                                                         *)
(* The argument: every caller between entry and return is counted in its    *)
(* object's waiters (CountsCoverCallers), so the Unlock that sees a count   *)
(* of one is made by the only caller left and the entry it deletes is       *)
(* nobody else's.  Hence all callers of one name refer to one object, and   *)
(* the object's RWMutex excludes them.                                      *)
(***************************************************************************)
EXTENDS Locker, FiniteSetTheorems, TLAPS

(* A leaf that names no prover is given to the SMT solver, for 30 s at most. *)
USE SMTT(30)

Writes(t) == pc[t] = "claimed" \/ (pc[t] = "held" /\ mode[t] # "RLock")

CallersAgree ==
    \A t \in Threads :
        /\ pc[t] # "panicked"
        /\ pc[t] \in Active => /\ name[t] \in Names
                               /\ obj[t] \in Objects
                               /\ locks[name[t]] = obj[t]
        /\ pc[t] = "claimed" => mode[t] = "Lock"
        /\ pc[t] = "queued" => mode[t] = "RLock"

CountsCoverCallers == \A o \in Objects : Cardinality(Refs(o)) <= waiters[o]

MutexAgrees ==
    \A t \in Threads :
        /\ Writes(t) => owner[obj[t]] = t
        /\ pc[t] = "held" /\ mode[t] # "RLock" => readers[obj[t]] = {}
        /\ pc[t] = "held" /\ mode[t] = "RLock" => t \in readers[obj[t]]

QueueAgrees ==
    \A o \in Objects : \A t \in queued[o] : pc[t] = "queued" /\ obj[t] = o

IInv ==
    TypeOK /\ CallersAgree /\ CountsCoverCallers /\ MutexAgrees /\ QueueAgrees

-----------------------------------------------------------------------------
(* The callers of an object are finitely many.                             *)
LEMMA RefsFinite ==
    ASSUME NEW o
    PROVE  IsFiniteSet(Refs(o)) /\ Cardinality(Refs(o)) \in Nat
<1>1. Refs(o) \subseteq Threads
  BY DEF Refs
<1>2. IsFiniteSet(Refs(o))
  BY <1>1, FiniteThreads, FS_Subset
<1> QED
  BY <1>2, FS_CardinalityType

(* The same holds of the callers in the next state.                        *)
LEMMA NextRefsFinite ==
    ASSUME NEW o
    PROVE  IsFiniteSet(Refs(o)') /\ Cardinality(Refs(o)') \in Nat
<1>1. Refs(o)' \subseteq Threads
  BY DEF Refs
<1>2. IsFiniteSet(Refs(o)')
  BY <1>1, FiniteThreads, FS_Subset
<1> QED
  BY <1>2, FS_CardinalityType

(* A thread whose object's count is one is the object's only caller: this   *)
(* is why the Unlock that deletes an entry takes it from nobody.            *)
LEMMA LastCallerIsAlone ==
    ASSUME IInv, NEW t \in Threads, NEW u \in Threads,
           pc[t] \in Active, pc[u] \in Active, obj[t] = obj[u],
           waiters[obj[t]] = 1
    PROVE  t = u
<1> DEFINE o == obj[t]
<1>1. o \in Objects /\ t \in Refs(o) /\ u \in Refs(o)
  BY DEF IInv, CallersAgree, Refs
<1>2. Cardinality(Refs(o)) <= 1
  BY <1>1 DEF IInv, CountsCoverCallers
<1>3. SUFFICES ASSUME t # u PROVE FALSE
  OBVIOUS
<1>4. IsFiniteSet({t, u}) /\ Cardinality({t, u}) = 2
  <2>1. IsFiniteSet({t}) /\ Cardinality({t}) = 1
    BY FS_Singleton, ZenonT(40)
  <2> DEFINE S == {t}
  <2>2. u \notin S /\ IsFiniteSet(S) /\ Cardinality(S) = 1
    BY <2>1, <1>3
  <2> HIDE DEF S
  <2>4. IsFiniteSet(S \cup {u}) /\ Cardinality(S \cup {u}) = Cardinality(S) + 1
    BY <2>2, FS_AddElement
  <2>3. S \cup {u} = {t, u}
    BY DEF S
  <2> QED
    BY <2>2, <2>3, <2>4
<1>5. {t, u} \subseteq Refs(o)
  BY <1>1
<1>6. Cardinality({t, u}) <= Cardinality(Refs(o))
  BY <1>4, <1>5, RefsFinite, FS_Subset
<1> QED
  BY <1>2, <1>4, <1>6, RefsFinite

-----------------------------------------------------------------------------
(* The inductive invariant holds initially.                                *)
LEMMA InitIInv == Init => IInv
<1> SUFFICES ASSUME Init PROVE IInv
  OBVIOUS
<1>1. TypeOK
  BY DEF Init, TypeOK, Active
<1>2. CallersAgree
  BY DEF Init, CallersAgree, Active
<1>3. CountsCoverCallers
  <2> SUFFICES ASSUME NEW o \in Objects PROVE Cardinality(Refs(o)) <= waiters[o]
    BY DEF CountsCoverCallers
  <2>1. Refs(o) = {}
    BY DEF Init, Refs, Active
  <2> QED
    BY <2>1, FS_EmptySet DEF Init
<1>4. MutexAgrees
  BY DEF Init, MutexAgrees, Writes
<1>5. QueueAgrees
  BY DEF Init, QueueAgrees
<1> QED
  BY <1>1, <1>2, <1>3, <1>4, <1>5 DEF IInv

-----------------------------------------------------------------------------
(* Finding an existing entry preserves the invariant.                      *)
LEMMA EnterExistingIInv ==
    ASSUME IInv, NEW t \in Threads, NEW n \in Names, NEW m \in Modes,
           pc[t] = "idle",
           pc' = [pc EXCEPT ![t] = "entered"],
           mode' = [mode EXCEPT ![t] = m],
           name' = [name EXCEPT ![t] = n],
           EnterExisting(t, n)
    PROVE  IInv'
<1> DEFINE o == locks[n]
<1>1. o \in Objects /\ o # None
  BY DEF IInv, TypeOK, EnterExisting
<1>2. TypeOK'
  BY <1>1 DEF IInv, TypeOK, EnterExisting, mutex, Active
<1>3. CallersAgree'
  BY <1>1 DEF IInv, TypeOK, CallersAgree, EnterExisting, mutex, Active
<1>4. CountsCoverCallers'
  <2> SUFFICES ASSUME NEW p \in Objects
               PROVE  Cardinality(Refs(p)') <= waiters'[p]
    BY DEF CountsCoverCallers
  <2>1. CASE p = o
    <3>1. Refs(p)' = Refs(p) \cup {t} /\ t \notin Refs(p)
      BY <2>1 DEF IInv, TypeOK, EnterExisting, Refs, Active
    <3>2. Cardinality(Refs(p)') = Cardinality(Refs(p)) + 1
      BY <3>1, RefsFinite, FS_AddElement, ZenonT(40)
    <3>3. waiters'[p] = waiters[p] + 1
      BY <1>1, <2>1 DEF IInv, TypeOK, EnterExisting
    <3> QED
      BY <3>2, <3>3, RefsFinite DEF IInv, CountsCoverCallers, TypeOK
  <2>2. CASE p # o
    <3>1. Refs(p)' = Refs(p)
      BY <2>2 DEF IInv, TypeOK, EnterExisting, Refs, Active
    <3> QED
      BY <3>1, <2>2, <1>1 DEF IInv, TypeOK, CountsCoverCallers, EnterExisting
  <2> QED
    BY <2>1, <2>2
<1>5. MutexAgrees'
  BY DEF IInv, TypeOK, MutexAgrees, Writes, EnterExisting, mutex
<1>6. QueueAgrees'
  BY DEF IInv, TypeOK, QueueAgrees, EnterExisting, mutex
<1> QED
  BY <1>2, <1>3, <1>4, <1>5, <1>6 DEF IInv

(* Creating an entry preserves the invariant: the object is nobody's.      *)
LEMMA EnterNewIInv ==
    ASSUME IInv, NEW t \in Threads, NEW n \in Names, NEW m \in Modes,
           pc[t] = "idle",
           pc' = [pc EXCEPT ![t] = "entered"],
           mode' = [mode EXCEPT ![t] = m],
           name' = [name EXCEPT ![t] = n],
           EnterNew(t, n)
    PROVE  IInv'
<1> PICK o \in Objects :
        /\ Unreferenced(o)
        /\ locks' = [locks EXCEPT ![n] = o]
        /\ waiters' = [waiters EXCEPT ![o] = 1]
        /\ owner' = [owner EXCEPT ![o] = None]
        /\ readers' = [readers EXCEPT ![o] = {}]
        /\ queued' = [queued EXCEPT ![o] = {}]
        /\ obj' = [obj EXCEPT ![t] = o]
  BY ZenonT(40) DEF EnterNew
<1>1. \A u \in Threads : pc[u] \in Active => obj[u] # o
  BY DEF Unreferenced, Refs
<1>2. \A u \in Threads : pc[u] \in Active => name[u] # n
  BY NoneIsFresh DEF IInv, CallersAgree, EnterNew
<1>3. TypeOK'
  BY DEF IInv, TypeOK, Active
<1>4. CallersAgree'
  BY <1>1, <1>2 DEF IInv, TypeOK, CallersAgree, Active
<1>5. CountsCoverCallers'
  <2> SUFFICES ASSUME NEW p \in Objects
               PROVE  Cardinality(Refs(p)') <= waiters'[p]
    BY DEF CountsCoverCallers
  <2>1. CASE p = o
    <3>1. Refs(p)' = {t}
      BY <2>1, <1>1 DEF IInv, TypeOK, Refs, Active
    <3>2. Cardinality({t}) = 1
      BY FS_Singleton, ZenonT(40)
    <3>3. waiters'[p] = 1
      BY <2>1 DEF IInv, TypeOK
    <3> QED
      BY <3>1, <3>2, <3>3
  <2>2. CASE p # o
    <3>1. Refs(p)' = Refs(p)
      BY <2>2 DEF IInv, TypeOK, Refs, Active
    <3> QED
      BY <3>1, <2>2 DEF IInv, TypeOK, CountsCoverCallers
  <2> QED
    BY <2>1, <2>2
<1>6. MutexAgrees'
  BY <1>1 DEF IInv, TypeOK, MutexAgrees, Writes, Active, CallersAgree
<1>7. QueueAgrees'
  BY DEF IInv, TypeOK, QueueAgrees
<1> QED
  BY <1>3, <1>4, <1>5, <1>6, <1>7 DEF IInv
-----------------------------------------------------------------------------
(* A step that touches neither the table nor the counts, and in which t     *)
(* moves between two points of its call, keeps the counts right.            *)
LEMMA SameRefsKeepCounts ==
    ASSUME CountsCoverCallers, waiters' = waiters,
           \A o \in Objects : Refs(o)' = Refs(o)
    PROVE  CountsCoverCallers'
BY DEF CountsCoverCallers

(* Waiting for the RWMutex and taking it preserve the invariant.           *)
LEMMA AcquireIInv ==
    ASSUME IInv, NEW t \in Threads, Acquire(t)
    PROVE  IInv'
<1>1. CASE ClaimWrite(t)
  <2>1. obj[t] \in Objects
    BY <1>1 DEF IInv, CallersAgree, ClaimWrite, Active
  <2>2. TypeOK'
    BY <1>1, <2>1 DEF IInv, TypeOK, ClaimWrite, call, Active
  <2>3. CallersAgree'
    BY <1>1, <2>1 DEF IInv, TypeOK, CallersAgree, ClaimWrite, call, Active
  <2>4. CountsCoverCallers'
    <3>1. \A o \in Objects : Refs(o)' = Refs(o)
      BY <1>1 DEF IInv, TypeOK, Refs, ClaimWrite, call, Active
    <3> QED
      BY <1>1, <3>1, SameRefsKeepCounts DEF IInv, ClaimWrite
  <2>5. MutexAgrees'
    BY <1>1, <2>1, NoneIsFresh DEF IInv, TypeOK, MutexAgrees, Writes, ClaimWrite, call
  <2>6. QueueAgrees'
    BY <1>1 DEF IInv, TypeOK, QueueAgrees, ClaimWrite, call
  <2> QED
    BY <2>2, <2>3, <2>4, <2>5, <2>6 DEF IInv
<1>2. CASE AcquireWrite(t)
  <2>1. obj[t] \in Objects /\ mode[t] = "Lock" /\ owner[obj[t]] = t
    BY <1>2 DEF IInv, CallersAgree, MutexAgrees, Writes, AcquireWrite, Active
  <2>2. TypeOK'
    BY <1>2, <2>1 DEF IInv, TypeOK, AcquireWrite, mutex, call, Active
  <2>3. CallersAgree'
    BY <1>2, <2>1 DEF IInv, TypeOK, CallersAgree, AcquireWrite, mutex, call, Active
  <2>4. CountsCoverCallers'
    <3>1. \A o \in Objects : Refs(o)' = Refs(o)
      BY <1>2 DEF IInv, TypeOK, Refs, AcquireWrite, mutex, call, Active
    <3> QED
      BY <1>2, <3>1, SameRefsKeepCounts DEF IInv, AcquireWrite
  <2>5. MutexAgrees'
    BY <1>2, <2>1 DEF IInv, TypeOK, MutexAgrees, Writes, AcquireWrite, mutex, call
  <2>6. QueueAgrees'
    BY <1>2 DEF IInv, TypeOK, QueueAgrees, AcquireWrite, mutex, call
  <2> QED
    BY <2>2, <2>3, <2>4, <2>5, <2>6 DEF IInv
<1>3. CASE AcquireRead(t)
  <2>1. obj[t] \in Objects
    BY <1>3 DEF IInv, CallersAgree, AcquireRead, Active
  <2>2. TypeOK'
    BY <1>3, <2>1 DEF IInv, TypeOK, AcquireRead, call, Active
  <2>3. CallersAgree'
    BY <1>3, <2>1 DEF IInv, TypeOK, CallersAgree, AcquireRead, call, Active
  <2>4. CountsCoverCallers'
    <3>1. \A o \in Objects : Refs(o)' = Refs(o)
      BY <1>3 DEF IInv, TypeOK, Refs, AcquireRead, call, Active
    <3> QED
      BY <1>3, <3>1, SameRefsKeepCounts DEF IInv, AcquireRead
  <2>5. MutexAgrees'
    BY <1>3, <2>1, NoneIsFresh DEF IInv, TypeOK, MutexAgrees, Writes, AcquireRead, call
  <2>6. QueueAgrees'
    BY <1>3 DEF IInv, TypeOK, QueueAgrees, AcquireRead, call
  <2> QED
    BY <2>2, <2>3, <2>4, <2>5, <2>6 DEF IInv
<1>4. CASE QueueRead(t)
  <2>1. obj[t] \in Objects
    BY <1>4 DEF IInv, CallersAgree, QueueRead, Active
  <2>2. TypeOK'
    BY <1>4, <2>1 DEF IInv, TypeOK, QueueRead, call, Active
  <2>3. CallersAgree'
    BY <1>4, <2>1 DEF IInv, TypeOK, CallersAgree, QueueRead, call, Active
  <2>4. CountsCoverCallers'
    <3>1. \A o \in Objects : Refs(o)' = Refs(o)
      BY <1>4 DEF IInv, TypeOK, Refs, QueueRead, call, Active
    <3> QED
      BY <1>4, <3>1, SameRefsKeepCounts DEF IInv, QueueRead
  <2>5. MutexAgrees'
    BY <1>4, <2>1 DEF IInv, TypeOK, MutexAgrees, Writes, QueueRead, call
  <2>6. QueueAgrees'
    BY <1>4, <2>1 DEF IInv, TypeOK, QueueAgrees, QueueRead, call
  <2> QED
    BY <2>2, <2>3, <2>4, <2>5, <2>6 DEF IInv
<1>5. CASE TryLockSucceeds(t)
  <2>1. obj[t] \in Objects
    BY <1>5 DEF IInv, CallersAgree, TryLockSucceeds, Active
  <2>2. TypeOK'
    BY <1>5, <2>1 DEF IInv, TypeOK, TryLockSucceeds, call, Active
  <2>3. CallersAgree'
    BY <1>5, <2>1 DEF IInv, TypeOK, CallersAgree, TryLockSucceeds, call, Active
  <2>4. CountsCoverCallers'
    <3>1. \A o \in Objects : Refs(o)' = Refs(o)
      BY <1>5 DEF IInv, TypeOK, Refs, TryLockSucceeds, call, Active
    <3> QED
      BY <1>5, <3>1, SameRefsKeepCounts DEF IInv, TryLockSucceeds
  <2>5. MutexAgrees'
    BY <1>5, <2>1, NoneIsFresh
    DEF IInv, TypeOK, MutexAgrees, Writes, TryLockSucceeds, call
  <2>6. QueueAgrees'
    BY <1>5 DEF IInv, TypeOK, QueueAgrees, TryLockSucceeds, call
  <2> QED
    BY <2>2, <2>3, <2>4, <2>5, <2>6 DEF IInv
<1>6. CASE TryLockFails(t)
  <2>2. TypeOK'
    BY <1>6 DEF IInv, TypeOK, TryLockFails, Return, mutex, Active
  <2>3. CallersAgree'
    BY <1>6 DEF IInv, TypeOK, CallersAgree, TryLockFails, Return, mutex, Active
  <2>4. CountsCoverCallers'
    <3> SUFFICES ASSUME NEW o \in Objects
                 PROVE  Cardinality(Refs(o)') <= waiters'[o]
      BY DEF CountsCoverCallers
    <3>1. Refs(o)' \in SUBSET Refs(o)
      BY <1>6 DEF IInv, TypeOK, Refs, TryLockFails, Return, mutex, Active
    <3>2. Cardinality(Refs(o)') <= Cardinality(Refs(o))
      BY <3>1, RefsFinite, FS_Subset
    <3> QED
      BY <1>6, <3>2, RefsFinite, NextRefsFinite
      DEF IInv, TypeOK, CountsCoverCallers, TryLockFails
  <2>5. MutexAgrees'
    BY <1>6 DEF IInv, TypeOK, MutexAgrees, Writes, TryLockFails, Return, mutex
  <2>6. QueueAgrees'
    BY <1>6 DEF IInv, TypeOK, QueueAgrees, TryLockFails, Return, mutex
  <2> QED
    BY <2>2, <2>3, <2>4, <2>5, <2>6 DEF IInv
<1> QED
  BY <1>1, <1>2, <1>3, <1>4, <1>5, <1>6 DEF Acquire

-----------------------------------------------------------------------------
(* Unlock preserves the invariant, and in particular does not panic.       *)
LEMMA UnlockIInv ==
    ASSUME IInv, NEW t \in Threads, Unlock(t)
    PROVE  IInv'
<1> DEFINE o == locks[name[t]]
<1>1. pc[t] = "held" /\ name[t] \in Names /\ o \in Objects /\ obj[t] = o
  BY DEF IInv, CallersAgree, Unlock, Active
<1>2. CanRelease(t, o)
  BY <1>1, NoneIsFresh DEF IInv, MutexAgrees, Writes, CanRelease
<1>3. (ReleaseWrite(t, o) \/ ReleaseRead(t, o)) /\ DropReference(t, o) /\ Return(t)
  BY <1>2 DEF Unlock, Release
<1> HIDE DEF o
<1>4. \A u \in Threads : u # t =>
        /\ pc'[u] = pc[u] \/ (u \in queued[o] /\ pc'[u] = "held")
        /\ mode'[u] = mode[u] /\ name'[u] = name[u] /\ obj'[u] = obj[u]
  BY <1>3 DEF ReleaseWrite, ReleaseRead, Return, IInv, TypeOK
<1>5. pc'[t] = "idle"
  BY <1>3 DEF ReleaseWrite, ReleaseRead, IInv, TypeOK
<1>6. \A u \in queued[o] : u \in Threads /\ pc[u] = "queued" /\ obj[u] = o /\ mode[u] = "RLock"
  BY <1>1 DEF IInv, TypeOK, QueueAgrees, CallersAgree
<1>7. \A u \in Threads : pc[u] \in Active /\ obj[u] = o /\ u # t => waiters[o] # 1
  BY <1>1, LastCallerIsAlone DEF Active
<1>8. t \in Refs(o)
  BY <1>1 DEF Refs, Active
<1>9. waiters[o] \in Nat /\ waiters[o] >= 1
  <2>1. Cardinality(Refs(o)) # 0
    BY <1>8, RefsFinite, FS_EmptySet
  <2>2. Cardinality(Refs(o)) <= waiters[o] /\ waiters[o] \in Nat
    BY <1>1 DEF IInv, CountsCoverCallers, TypeOK
  <2> QED
    BY <2>1, <2>2, RefsFinite
<1>10. TypeOK'
  <2>1. waiters' \in [Objects -> Nat] /\ locks' \in [Names -> Objects \cup {None}]
    BY <1>1, <1>3, <1>9 DEF DropReference, IInv, TypeOK
  <2>2. CASE ReleaseWrite(t, o)
    BY <1>1, <1>3, <2>1, <2>2 DEF ReleaseWrite, Return, IInv, TypeOK, Active
  <2>3. CASE ReleaseRead(t, o)
    BY <1>1, <1>3, <2>1, <2>3 DEF ReleaseRead, Return, IInv, TypeOK, Active
  <2> QED
    BY <1>3, <2>2, <2>3
<1>11. CallersAgree'
  <2> SUFFICES ASSUME NEW u \in Threads
               PROVE  /\ pc'[u] # "panicked"
                      /\ pc'[u] \in Active => /\ name'[u] \in Names
                                              /\ obj'[u] \in Objects
                                              /\ locks'[name'[u]] = obj'[u]
                      /\ pc'[u] = "claimed" => mode'[u] = "Lock"
                      /\ pc'[u] = "queued" => mode'[u] = "RLock"
    BY DEF CallersAgree
  <2>1. CASE u = t
    BY <2>1, <1>5 DEF Active
  <2>2. CASE u # t
    <3>1. pc[u] # "panicked" /\ (pc'[u] \in Active => pc[u] \in Active)
      BY <2>2, <1>4, <1>6 DEF IInv, CallersAgree, Active
    <3>2. pc[u] \in Active => locks'[name[u]] = obj[u]
      <4> SUFFICES ASSUME pc[u] \in Active PROVE locks'[name[u]] = obj[u]
        OBVIOUS
      <4>1. name[u] \in Names /\ locks[name[u]] = obj[u]
        BY DEF IInv, CallersAgree
      <4>2. CASE waiters[o] = 1
        <5>1. obj[u] # o
          BY <4>2, <2>2, <1>7
        <5>2. name[u] # name[t]
          BY <5>1, <4>1 DEF o
        <5> QED
          BY <4>1, <5>2, <1>3, <4>2 DEF DropReference, IInv, TypeOK
      <4>3. CASE waiters[o] # 1
        BY <4>1, <4>3, <1>3 DEF DropReference
      <4> QED
        BY <4>2, <4>3
    <3> QED
      BY <2>2, <3>1, <3>2, <1>4, <1>6 DEF IInv, CallersAgree, Active
  <2> QED
    BY <2>1, <2>2
<1>12. CountsCoverCallers'
  <2> SUFFICES ASSUME NEW p \in Objects
               PROVE  Cardinality(Refs(p)') <= waiters'[p]
    BY DEF CountsCoverCallers
  <2>1. Refs(p)' = Refs(p) \ {t}
    BY <1>4, <1>5, <1>6 DEF Refs, Active
  <2>2. CASE p = o
    <3>1. Cardinality(Refs(p)') = Cardinality(Refs(p)) - 1
      BY <2>1, <2>2, <1>8, RefsFinite, FS_RemoveElement, ZenonT(40)
    <3>2. waiters'[p] = waiters[p] - 1
      BY <2>2, <1>1, <1>3 DEF DropReference, IInv, TypeOK
    <3> QED
      BY <3>1, <3>2, RefsFinite DEF IInv, TypeOK, CountsCoverCallers
  <2>3. CASE p # o
    <3>1. Refs(p)' = Refs(p)
      BY <2>1, <2>3, <1>1 DEF Refs
    <3>2. waiters'[p] = waiters[p]
      BY <2>3, <1>3 DEF DropReference, IInv, TypeOK
    <3> QED
      BY <3>1, <3>2 DEF IInv, CountsCoverCallers
  <2> QED
    BY <2>2, <2>3
<1>13. MutexAgrees'
  <2> SUFFICES ASSUME NEW u \in Threads
               PROVE  /\ Writes(u)' => owner'[obj'[u]] = u
                      /\ pc'[u] = "held" /\ mode'[u] # "RLock" => readers'[obj'[u]] = {}
                      /\ pc'[u] = "held" /\ mode'[u] = "RLock" => u \in readers'[obj'[u]]
    BY DEF MutexAgrees
  <2>1. CASE u = t
    BY <2>1, <1>5 DEF Writes
  <2>2. CASE u # t /\ ReleaseWrite(t, o)
    <3>1. owner[o] = t
      BY <1>1, <2>2 DEF IInv, MutexAgrees, Writes, ReleaseWrite
    <3>2. readers[o] = {}
      BY <1>1, <2>2 DEF IInv, MutexAgrees, ReleaseWrite
    <3>3. Writes(u) => obj[u] # o
      BY <2>2, <3>1 DEF IInv, MutexAgrees
    <3>4. Writes(u)' => Writes(u)
      BY <2>2, <1>4, <1>6 DEF Writes
    <3>5. pc'[u] = "held" /\ mode'[u] # "RLock" => Writes(u) /\ pc[u] = "held"
      BY <2>2, <1>4, <1>6 DEF Writes
    <3> QED
      BY <2>2, <1>1, <1>4, <1>6, <3>2, <3>3, <3>4, <3>5
      DEF IInv, TypeOK, MutexAgrees, Writes, ReleaseWrite
  <2>3. CASE u # t /\ ReleaseRead(t, o)
    BY <2>3, <1>1, <1>3 DEF IInv, TypeOK, MutexAgrees, Writes, ReleaseRead, Return
  <2> QED
    BY <1>3, <2>1, <2>2, <2>3
<1>14. QueueAgrees'
  <2> SUFFICES ASSUME NEW p \in Objects, NEW u \in queued'[p]
               PROVE  pc'[u] = "queued" /\ obj'[u] = p
    BY DEF QueueAgrees
  <2>1. u \in queued[p] /\ (p # o \/ ReleaseRead(t, o))
    BY <1>1, <1>3 DEF ReleaseWrite, ReleaseRead, IInv, TypeOK
  <2>2. u \in Threads /\ pc[u] = "queued" /\ obj[u] = p /\ u # t
    BY <2>1, <1>1 DEF IInv, TypeOK, QueueAgrees
  <2>3. CASE ReleaseRead(t, o)
    BY <2>2, <2>3, <1>4, <1>3 DEF ReleaseRead, IInv, TypeOK
  <2>4. CASE p # o
    BY <2>2, <2>4, <1>4, <1>6
  <2> QED
    BY <2>1, <2>3, <2>4
<1> QED
  BY <1>10, <1>11, <1>12, <1>13, <1>14 DEF IInv

-----------------------------------------------------------------------------
(* Every step preserves the inductive invariant.                           *)
LEMMA NextIInv == IInv /\ [Next]_vars => IInv'
<1> SUFFICES ASSUME IInv, [Next]_vars PROVE IInv'
  OBVIOUS
<1>1. ASSUME NEW t \in Threads, Enter(t) PROVE IInv'
  <2> PICK n \in Names, m \in Modes :
        /\ pc[t] = "idle"
        /\ pc' = [pc EXCEPT ![t] = "entered"]
        /\ mode' = [mode EXCEPT ![t] = m]
        /\ name' = [name EXCEPT ![t] = n]
        /\ EnterExisting(t, n) \/ EnterNew(t, n)
    BY <1>1, ZenonT(40) DEF Enter
  <2> QED
    BY EnterExistingIInv, EnterNewIInv, ZenonT(40)
<1>2. CASE UNCHANGED vars
  BY <1>2 DEF vars, mutex, call, IInv, TypeOK, CallersAgree, CountsCoverCallers,
              Refs, MutexAgrees, Writes, QueueAgrees
<1> QED
  BY <1>1, <1>2, AcquireIInv, UnlockIInv DEF Next

(* The locks are type correct: in particular no waiters count ever goes     *)
(* below zero, whatever the callers of Lock, RLock and TryLock do.          *)
THEOREM TypeCorrect == Spec => []TypeOK
<1>1. IInv => TypeOK
  BY DEF IInv
<1> QED
  BY <1>1, InitIInv, NextIInv, PTL DEF Spec

(* An entry stays in the table, under its caller's object, as long as any   *)
(* caller uses or waits for it; Unlock and RUnlock therefore never fail.    *)
THEOREM EntriesOutliveCallers == Spec => []EntryOutlivesCallers
<1>1. IInv => EntryOutlivesCallers
  BY DEF IInv, CallersAgree, EntryOutlivesCallers
<1> QED
  BY <1>1, InitIInv, NextIInv, PTL DEF Spec

(* Two threads hold one name together only as readers.                     *)
THEOREM LockExcludes == Spec => []MutualExclusion
<1>1. IInv => MutualExclusion
  <2> SUFFICES ASSUME IInv, NEW t \in Threads, NEW u \in Threads, t # u,
                      pc[t] = "held", pc[u] = "held", name[t] = name[u]
               PROVE  mode[t] = "RLock" /\ mode[u] = "RLock"
    BY DEF MutualExclusion
  <2>1. obj[t] = obj[u]
    BY DEF IInv, CallersAgree, Active
  <2> QED
    BY <2>1 DEF IInv, MutexAgrees, Writes
<1> QED
  BY <1>1, InitIInv, NextIInv, PTL DEF Spec
=============================================================================

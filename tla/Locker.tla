------------------------------- MODULE Locker -------------------------------
(***************************************************************************)
(* The named reader/writer locks of pkg/locker, as the server uses them     *)
(* through server/backend/sync: a table from names to reference-counted     *)
(* RWMutexes.  An entry is created by the first caller that asks for the    *)
(* name and deleted by the Unlock that brings its waiters count to zero.    *)
(*                                                                         *)
(* Every step taken while the table's own mutex (Locker.mu) is held is one  *)
(* action; the wait for the named RWMutex happens outside that mutex, so a  *)
(* caller first enters (counts itself and remembers the lock object it      *)
(* found) and acquires the object later.                                    *)
(*                                                                         *)
(* The RWMutex is Go's: a writer first claims the mutex (owner), which      *)
(* makes later readers queue behind it, then waits for the readers that     *)
(* already hold it; its Unlock admits all queued readers at once.           *)
(***************************************************************************)
EXTENDS Integers, FiniteSets

CONSTANTS
    Threads,     \* goroutines that call the locker
    Names,       \* lock names
    Objects,     \* addresses of lockCtr values; an unreferenced one is reused
    Modes,       \* the calls in use: a subset of {"Lock", "RLock", "TryLock"}
    None,        \* no lock object, no thread
    MaxWaiters   \* bound on one object's waiters count

ASSUME FiniteThreads == IsFiniteSet(Threads)
ASSUME NoneIsFresh ==
    None \notin Threads /\ None \notin Objects /\ None \notin Names /\ None \notin Modes
ASSUME ModesKnown == Modes \subseteq {"Lock", "RLock", "TryLock"}
ASSUME BoundIsNat == MaxWaiters \in Nat

VARIABLES
    locks,     \* Locker.locks: name -> lock object, or None
    waiters,   \* lockCtr.waiters of each object
    owner,     \* the writer that has claimed the object's RWMutex, or None
    readers,   \* threads that hold the object for reading
    queued,    \* readers that arrived behind a writer
    pc,        \* where each thread is in its call
    mode,      \* which call each thread made
    name,      \* the name it passed
    obj        \* the lock object it found under that name

mutex == <<owner, readers, queued>>
call == <<mode, name, obj>>
vars == <<locks, waiters, mutex, pc, call>>

Active == {"entered", "claimed", "queued", "held"}

(* The threads that hold a reference to object o.                          *)
Refs(o) == {t \in Threads : pc[t] \in Active /\ obj[t] = o}

Init ==
    /\ locks = [n \in Names |-> None]
    /\ waiters = [o \in Objects |-> 0]
    /\ owner = [o \in Objects |-> None]
    /\ readers = [o \in Objects |-> {}]
    /\ queued = [o \in Objects |-> {}]
    /\ pc = [t \in Threads |-> "idle"]
    /\ mode = [t \in Threads |-> None]
    /\ name = [t \in Threads |-> None]
    /\ obj = [t \in Threads |-> None]

-----------------------------------------------------------------------------
(* Lock, RLock and TryLock up to the release of Locker.mu: find the entry   *)
(* or create one with a zero count, and count the caller in.                *)
Unreferenced(o) == Refs(o) = {} /\ \A n \in Names : locks[n] # o

(* Mutant: the caller is not counted in before Locker.mu is released.      *)
EnterExistingUncounted(t, n) ==
    /\ locks[n] # None
    /\ waiters[locks[n]] < MaxWaiters
    /\ obj' = [obj EXCEPT ![t] = locks[n]]
    /\ UNCHANGED <<locks, waiters, mutex>>

EnterExisting(t, n) ==
    /\ locks[n] # None
    /\ waiters[locks[n]] < MaxWaiters
    /\ waiters' = [waiters EXCEPT ![locks[n]] = @ + 1]
    /\ obj' = [obj EXCEPT ![t] = locks[n]]
    /\ UNCHANGED <<locks, mutex>>

EnterNew(t, n) ==
    /\ locks[n] = None
    /\ \E o \in Objects :
        /\ Unreferenced(o)
        /\ locks' = [locks EXCEPT ![n] = o]
        /\ waiters' = [waiters EXCEPT ![o] = 1]
        /\ owner' = [owner EXCEPT ![o] = None]
        /\ readers' = [readers EXCEPT ![o] = {}]
        /\ queued' = [queued EXCEPT ![o] = {}]
        /\ obj' = [obj EXCEPT ![t] = o]

Enter(t) ==
    \E n \in Names, m \in Modes :
        /\ pc[t] = "idle"
        /\ pc' = [pc EXCEPT ![t] = "entered"]
        /\ mode' = [mode EXCEPT ![t] = m]
        /\ name' = [name EXCEPT ![t] = n]
        /\ EnterExisting(t, n) \/ EnterNew(t, n)

(* The caller forgets its call when it returns.                            *)
Return(t) ==
    /\ mode' = [mode EXCEPT ![t] = None]
    /\ name' = [name EXCEPT ![t] = None]
    /\ obj' = [obj EXCEPT ![t] = None]

-----------------------------------------------------------------------------
(* nameLock.Lock(): claim the RWMutex, then wait for its readers.          *)
ClaimWrite(t) ==
    /\ pc[t] = "entered" /\ mode[t] = "Lock"
    /\ owner[obj[t]] = None
    /\ owner' = [owner EXCEPT ![obj[t]] = t]
    /\ pc' = [pc EXCEPT ![t] = "claimed"]
    /\ UNCHANGED <<locks, waiters, readers, queued, call>>

(* Mutant: the writer does not wait for the readers that hold the lock.    *)
AcquireWriteAtOnce(t) ==
    /\ pc[t] = "claimed"
    /\ pc' = [pc EXCEPT ![t] = "held"]
    /\ UNCHANGED <<locks, waiters, mutex, call>>

AcquireWrite(t) ==
    /\ pc[t] = "claimed"
    /\ readers[obj[t]] = {}
    /\ pc' = [pc EXCEPT ![t] = "held"]
    /\ UNCHANGED <<locks, waiters, mutex, call>>

(* nameLock.RLock(): taken at once, or queued behind a writer.             *)
AcquireRead(t) ==
    /\ pc[t] = "entered" /\ mode[t] = "RLock"
    /\ owner[obj[t]] = None
    /\ readers' = [readers EXCEPT ![obj[t]] = @ \cup {t}]
    /\ pc' = [pc EXCEPT ![t] = "held"]
    /\ UNCHANGED <<locks, waiters, owner, queued, call>>

QueueRead(t) ==
    /\ pc[t] = "entered" /\ mode[t] = "RLock"
    /\ owner[obj[t]] # None
    /\ queued' = [queued EXCEPT ![obj[t]] = @ \cup {t}]
    /\ pc' = [pc EXCEPT ![t] = "queued"]
    /\ UNCHANGED <<locks, waiters, owner, readers, call>>

(* nameLock.TryLock(): the count taken on entry stays when it fails.       *)
TryLockSucceeds(t) ==
    /\ pc[t] = "entered" /\ mode[t] = "TryLock"
    /\ owner[obj[t]] = None /\ readers[obj[t]] = {}
    /\ owner' = [owner EXCEPT ![obj[t]] = t]
    /\ pc' = [pc EXCEPT ![t] = "held"]
    /\ UNCHANGED <<locks, waiters, readers, queued, call>>

TryLockFails(t) ==
    /\ pc[t] = "entered" /\ mode[t] = "TryLock"
    /\ owner[obj[t]] # None \/ readers[obj[t]] # {}
    /\ pc' = [pc EXCEPT ![t] = "idle"]
    /\ Return(t)
    /\ UNCHANGED <<locks, waiters, mutex>>

-----------------------------------------------------------------------------
(* Unlock and RUnlock look the entry up again, by name.  A missing entry    *)
(* is ErrNoSuchLock, which internalLocker turns into a panic; releasing an  *)
(* RWMutex nobody holds that way is fatal in Go.                            *)
CanRelease(t, o) ==
    /\ o # None
    /\ IF mode[t] = "RLock" THEN readers[o] # {} ELSE owner[o] # None

(* The decrement, and the deletion of the entry nobody waits for.          *)
DropReference(t, o) ==
    /\ waiters' = [waiters EXCEPT ![o] = @ - 1]
    /\ locks' = IF waiters[o] = 1 THEN [locks EXCEPT ![name[t]] = None]
                ELSE locks

(* Mutant: the writer's release admits no queued reader.                   *)
ReleaseWriteAlone(t, o) ==
    /\ mode[t] # "RLock"
    /\ owner' = [owner EXCEPT ![o] = None]
    /\ pc' = [pc EXCEPT ![t] = "idle"]
    /\ UNCHANGED <<readers, queued>>

ReleaseWrite(t, o) ==
    /\ mode[t] # "RLock"
    /\ owner' = [owner EXCEPT ![o] = None]
    /\ readers' = [readers EXCEPT ![o] = queued[o]]
    /\ queued' = [queued EXCEPT ![o] = {}]
    /\ pc' = [u \in Threads |->
                IF u = t THEN "idle"
                ELSE IF u \in queued[o] THEN "held"
                ELSE pc[u]]

ReleaseRead(t, o) ==
    /\ mode[t] = "RLock"
    /\ readers' = [readers EXCEPT ![o] = @ \ {t}]
    /\ pc' = [pc EXCEPT ![t] = "idle"]
    /\ UNCHANGED <<owner, queued>>

Release(t, o) ==
    /\ ReleaseWrite(t, o) \/ ReleaseRead(t, o)
    /\ DropReference(t, o)
    /\ Return(t)

Panic(t) ==
    /\ pc' = [pc EXCEPT ![t] = "panicked"]
    /\ UNCHANGED <<locks, waiters, mutex, call>>

Unlock(t) ==
    LET o == locks[name[t]] IN
    /\ pc[t] = "held"
    /\ IF CanRelease(t, o) THEN Release(t, o) ELSE Panic(t)

-----------------------------------------------------------------------------
Acquire(t) ==
    \/ ClaimWrite(t) \/ AcquireWrite(t)
    \/ AcquireRead(t) \/ QueueRead(t)
    \/ TryLockSucceeds(t) \/ TryLockFails(t)

Next ==
    \E t \in Threads : Enter(t) \/ Acquire(t) \/ Unlock(t)

Spec == Init /\ [][Next]_vars

(* A goroutine that is not blocked runs; sync.Mutex hands the writer claim  *)
(* to waiters in turn (its starvation mode), hence strong fairness for it;  *)
(* every caller unlocks (all call sites unlock in a defer).                 *)
Fairness ==
    \A t \in Threads :
        /\ SF_vars(ClaimWrite(t))
        /\ WF_vars(AcquireWrite(t) \/ AcquireRead(t) \/ QueueRead(t))
        /\ WF_vars(TryLockSucceeds(t) \/ TryLockFails(t))
        /\ WF_vars(Unlock(t))

FairSpec == Spec /\ Fairness

-----------------------------------------------------------------------------
TypeOK ==
    /\ locks \in [Names -> Objects \cup {None}]
    /\ waiters \in [Objects -> Nat]
    /\ owner \in [Objects -> Threads \cup {None}]
    /\ readers \in [Objects -> SUBSET Threads]
    /\ queued \in [Objects -> SUBSET Threads]
    /\ pc \in [Threads -> Active \cup {"idle", "panicked"}]
    /\ mode \in [Threads -> Modes \cup {None}]
    /\ name \in [Threads -> Names \cup {None}]
    /\ obj \in [Threads -> Objects \cup {None}]

(* Two threads hold the same NAME only if both hold it for reading.  The    *)
(* hazard is an entry deleted while somebody still refers to its object: a  *)
(* third caller would then lock a second object under the same name.        *)
MutualExclusion ==
    \A t, u \in Threads :
        t # u /\ pc[t] = "held" /\ pc[u] = "held" /\ name[t] = name[u]
            => mode[t] = "RLock" /\ mode[u] = "RLock"

(* Unlock and RUnlock find the very object their caller locked, so they     *)
(* return neither ErrNoSuchLock (a panic in internalLocker) nor release a   *)
(* mutex somebody else holds, and a waiter's object is never dropped from   *)
(* the table under it.                                                      *)
EntryOutlivesCallers ==
    \A t \in Threads : /\ pc[t] # "panicked"
                       /\ pc[t] \in Active => locks[name[t]] = obj[t]

(* "Lock references are automatically cleaned up on `Unlock` if nothing     *)
(* else is waiting for the lock" (package comment): an entry is in the      *)
(* table only while some caller uses or waits for the name.                 *)
CleanedUp ==
    \A n \in Names :
        locks[n] # None => \E t \in Threads : pc[t] \in Active /\ name[t] = n

(* Every Lock and RLock call returns, however readers and writers           *)
(* interleave: a steady stream of readers does not starve a writer, and a   *)
(* reader queued behind a writer is admitted.                               *)
CallersServed ==
    \A t \in Threads : pc[t] = "entered" ~> pc[t] \in {"held", "idle"}
=============================================================================

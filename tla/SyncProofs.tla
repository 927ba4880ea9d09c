----------------------------- MODULE SyncProofs -----------------------------
(***************************************************************************)
(* What each replica holds and what each request and reply carries, in     *)
(* terms of the log: the invariant SyncInv, that the steps of clients keep *)
(* it, and what a pull brings.                                             *)
(***************************************************************************)
EXTENDS RetentionProofs

(* A leaf that names no prover is given to the SMT solver, for 30 s at most. *)
USE SMTT(30)

\* A document that is neither reopened, compacted, detached nor removed, on a
\* server whose handlers finish: what ChangeLog describes.
OneLog ==
    /\ MaxGens = 1 /\ MaxEpoch = 0 /\ "crash" \notin Faults
    /\ Kinds \subseteq {"attach", "sync", "pushonly"}

\* A snapshot is built for a request the row has counted nothing of: pullPack
\* replays the request's changes on the document as it was before the push,
\* which holds the ones an earlier attempt stored.
SnapshotsFresh ==
    \A c \in Clients, s \in Slots :
      InService(req[c][s]) /\ awaited[c] = s /\ PullsSnapshot(req[c][s])
        => req[c][s].from = req[c][s].info.clientSeq

Among(l, x, lo, hi) == \E i \in lo..hi : l[i] = x

Count(b) == IF b THEN 1 ELSE 0

\* Replica c, at checkpoint p and with k changes made, has applied these and
\* the others' changes up to its server seq.
Replica(c, l, p, k, a) ==
    /\ p.serverSeq <= Len(l) /\ p.clientSeq <= k
    /\ \A x \in Change : a[x] = Count(IF x[1] = c THEN x[3] <= k ELSE Among(l, x, 1, p.serverSeq))
    /\ \A i \in 1..Len(l) : l[i][1] = c => l[i][3] <= k

\* A request on its way: what the push stored of it follows what the row
\* counted, and nothing of its client is stored behind it.
Serviced(c, l, k, r) ==
    /\ r.pc \in {"sent", "pushed"} => r.from <= r.to /\ r.to <= k
    /\ r.pc = "pushed" =>
         /\ r.initial <= r.seen /\ r.seen <= Len(l) /\ r.acked <= k
         /\ \A i \in (r.initial + 1)..r.seen : l[i][1] = c
         /\ \A i \in 1..Len(l) : l[i][1] = c => l[i][3] <= r.acked
         /\ \A x \in Change : x[1] = c => (Among(l, x, 1, r.initial) <=> x[3] <= r.info.clientSeq)
         /\ \/ r.acked = r.to
            \/ r.acked = r.info.clientSeq /\ r.to <= r.acked

\* The request c waits for starts from its checkpoint, and the reply brings
\* what lies between the checkpoint and the server seq it names.
Answered(c, l, p, k, r) ==
    /\ r.pc \in {"sent", "pushed"} => r.serverSeq = p.serverSeq /\ r.from = p.clientSeq
    /\ r.pc = "replied" => r.acked <= k
    /\ r.pc = "replied" /\ r.kind # "pushonly" =>
         /\ p.serverSeq <= r.seen /\ r.seen <= Len(l)
         /\ r.snapshot => p.clientSeq <= r.acked
         /\ \A x \in Change : r.content[x] = Count(
              IF r.snapshot THEN IF x[1] = c THEN x[3] <= r.acked ELSE Among(l, x, 1, r.seen)
              ELSE x[1] # c /\ Among(l, x, p.serverSeq + 1, r.seen))

Synchronised(c, l, p, k, a, q, aw) ==
    /\ Replica(c, l, p, k, a)
    /\ \A s \in Slots : Serviced(c, l, k, q[s])
    /\ aw # None => Answered(c, l, p, k, q[aw])

SyncInv ==
    /\ log \in Seq(Change)
    /\ \A c \in Clients :
         Synchronised(c, log, cp[c], seq[c], applied[c], req[c], awaited[c])

RefInv == IInv /\ KeptInv /\ SyncInv

-----------------------------------------------------------------------------
(* With one Document object per client and no compaction.                    *)

LEMMA ChangeParts ==
    ASSUME OneLog, NEW x \in Change
    PROVE  x[1] \in Clients /\ x[2] = 1 /\ x[3] \in 1..MaxSeq /\ x = <<x[1], 1, x[3]>>
BY DEF Change, OneLog

LEMMA NoMismatch ==
    ASSUME OneLog, TypeOK, NEW info \in Row
    PROVE  ~EpochMismatch(info)
BY DEF OneLog, TypeOK, Row, EpochMismatch

PresentIsLogged ==
    \A x \in Change : Present(x) <=> Stored(x)

LEMMA PresentLogged == TypeOK /\ log \in Seq(Change) => PresentIsLogged
<1> SUFFICES ASSUME TypeOK, log \in Seq(Change) PROVE PresentIsLogged
  OBVIOUS
<1>1. ~Stored(Compacted)
  BY LenProperties, CompactedIsNoChange DEF Stored
<1> QED
  BY <1>1, PresentIsStored DEF PresentMeansStored, PresentIsLogged

(* What is stored once is counted once. *)
LEMMA SpanOnce ==
    ASSUME TypeOK, log \in Seq(Change), StoredOnce, NEW lo \in Nat, NEW hi \in Nat,
           lo >= 1, hi <= Len(log), NEW X, NEW x \in Change
    PROVE  Span(lo, hi, X)[x] = Count(x \notin X /\ Among(log, x, lo, hi))
<1> DEFINE at == {i \in lo..hi : log[i] = x}
           own == [y \in Change |-> IF y \in X THEN 0
                                    ELSE Cardinality({i \in lo..hi : log[i] = y})]
<1>1. Len(log) \in Nat /\ \A i \in lo..hi : i \in 1..Len(log) /\ log[i] # Compacted
  BY LenProperties, CompactedIsNoChange
<1>2. Span(lo, hi, X) = own
  BY <1>1 DEF Span
<1>3. own[x] = IF x \in X THEN 0 ELSE Cardinality(at)
  OBVIOUS
<1>4. Cardinality(at) = Count(Among(log, x, lo, hi))
  <2>1. CASE at = {}
    <3>1. ~Among(log, x, lo, hi)
      BY <2>1 DEF Among
    <3>2. Cardinality({}) = 0
      BY FS_EmptySet, ZenonT(40)
    <3> HIDE DEF at
    <3> QED
      BY <2>1, <3>1, <3>2 DEF Count
  <2>2. ASSUME NEW i \in at PROVE Cardinality(at) = Count(Among(log, x, lo, hi))
    <3>1. at = {i}
      BY <1>1 DEF StoredOnce
    <3>2. Among(log, x, lo, hi)
      BY DEF Among
    <3>3. Cardinality({i}) = 1
      BY FS_Singleton, ZenonT(40)
    <3> HIDE DEF at
    <3> QED
      BY <3>1, <3>2, <3>3 DEF Count
  <2> QED
    BY <2>1, <2>2
<1> HIDE DEF at, own
<1> QED
  BY <1>2, <1>3, <1>4 DEF Count

(* A longer log.  The part of it that a client has seen is as it was. *)
Prefix(l, m) == Len(l) <= Len(m) /\ \A i \in 1..Len(l) : m[i] = l[i]

-----------------------------------------------------------------------------
(* The steps. *)

\* A step of c leaves the other replicas and their requests alone.
Apart(c) ==
    \A d \in Clients : d # c => /\ cp'[d] = cp[d] /\ seq'[d] = seq[d] /\ applied'[d] = applied[d]
                                /\ req'[d] = req[d] /\ awaited'[d] = awaited[d]

(* A prefix of the log and what follows it have nothing in common. *)
LEMMA AmongSplit ==
    ASSUME NEW x, NEW p \in Nat, NEW n \in Nat, p <= n
    PROVE  /\ Among(log, x, 1, n) <=> Among(log, x, 1, p) \/ Among(log, x, p + 1, n)
           /\ StoredOnce /\ Len(log) \in Nat /\ n <= Len(log)
                => ~(Among(log, x, 1, p) /\ Among(log, x, p + 1, n))
<1>1. \A i : i \in 1..n <=> i \in 1..p \/ i \in (p + 1)..n
  OBVIOUS
<1>2. ASSUME StoredOnce, Len(log) \in Nat, n <= Len(log),
             NEW i \in 1..p, NEW j \in (p + 1)..n, log[i] = log[j]
      PROVE  FALSE
  <2>1. i \in 1..Len(log) /\ j \in 1..Len(log) /\ i # j
    BY <1>2
  <2> QED
    BY <1>2, <2>1 DEF StoredOnce
<1> QED
  BY <1>1, <1>2 DEF Among

(* Nothing is left out of a push that is not refused. *)
LEMMA PushStores ==
    ASSUME OneLog, IInv, NEW c \in Clients, NEW s \in Slots, Push(c, s)
    PROVE  \/ Fail(c, s) /\ UNCHANGED log
           \/ /\ Admitted(c, req[c][s])
              /\ Store(c, s, Info(c, req[c][s]), Pushables(c, req[c][s], Info(c, req[c][s])))
<1>1. req[c][s] \in Request /\ req[c][s].kind \notin {"detach", "remove"}
  <2>1. req[c][s] \in Request
    BY DEF IInv, TypeOK
  <2>2. req[c][s].kind \in {"attach", "sync", "pushonly"}
    BY DEF IInv, KindsSent
  <2> QED
    BY <2>1, <2>2
<1>2. ~EpochMismatch(Info(c, req[c][s]))
  BY <1>1, InfoType, NoMismatch, ZenonT(40) DEF IInv
<1> QED
  BY <1>1, <1>2 DEF Push, Refused

(* Of the client's own changes, the log holds those the row counts. *)
LEMMA OwnStored ==
    ASSUME OneLog, RefInv, NEW c \in Clients, NEW s \in Slots, Push(c, s), Admitted(c, req[c][s])
    PROVE  LET r == req[c][s]
               n == Info(c, r).clientSeq
           IN  /\ n \in 0..MaxSeq /\ r.from <= n
               /\ \A x \in Change : x[1] = c => (Stored(x) <=> x[3] <= n)
<1> DEFINE r == req[c][s]
           n == Info(c, r).clientSeq
<1>1. r \in Request /\ r.pc = "sent" /\ Info(c, r) \in Row
  BY InfoType DEF RefInv, IInv, TypeOK, Push
<1>2. n \in 0..MaxSeq /\ r.from \in 0..MaxSeq
  BY <1>1 DEF Request, Row
<1>3. \A x \in Change : Stored(x) /\ x[1] = c => x[3] <= n
  BY PushKeepsCovered DEF RefInv
<1>4. ASSUME NEW k \in Held[c], NEW i \in 1..k, k \in 0..MaxSeq
      PROVE  <<c, 1, i>> \in Change /\ Stored(<<c, 1, i>>)
  <2>1. PICK g \in Gens[c] : Present(<<c, g, i>>)
    BY DEF Held
  <2>2. g = 1
    BY DEF Gens, OneLog, RefInv, IInv, TypeOK
  <2>3. <<c, 1, i>> \in Change
    BY <1>4, BoundsNat DEF Change, OneLog
  <2>4. PresentIsLogged
    BY PresentLogged, ZenonT(40) DEF RefInv, IInv, SyncInv
  <2> QED
    BY <2>1, <2>2, <2>3, <2>4, ZenonT(40) DEF PresentIsLogged
<1>5. r.from \in Held[c] /\ n \in Held[c]
  <2>1. r.from \in Held[c] /\ row[c].clientSeq \in Held[c] /\ 0 \in Held[c]
    BY <1>1, NothingHeld DEF RefInv, KeptInv, HeldInv, RequestHeld, ZeroHeld
  <2>2. n \in {r.from, 0, row[c].clientSeq}
    BY DEF Info, Seeded
  <2> QED
    BY <2>1, <2>2, ZenonT(40)
<1>6. r.from <= n
  <2>1. CASE r.from = 0
    BY <1>2, <2>1
  <2>2. CASE r.from # 0
    <3>1. r.from \in 1..r.from
      BY <1>2, <2>2
    <3>2. <<c, 1, r.from>> \in Change /\ Stored(<<c, 1, r.from>>)
      BY <1>2, <1>4, <1>5, <3>1, ZenonT(40)
    <3> HIDE DEF r, n
    <3> QED
      BY <1>3, <3>2, ZenonT(40)
  <2> QED
    BY <2>1, <2>2, ZenonT(40)
<1>7. ASSUME NEW x \in Change, x[1] = c, x[3] <= n PROVE Stored(x)
  <2>1. x = <<c, 1, x[3]>> /\ x[3] \in 1..n
    BY <1>2, <1>7, ChangeParts
  <2> HIDE DEF n
  <2> QED
    BY <1>2, <1>4, <1>5, <2>1, ZenonT(40)
<1> QED
  BY <1>2, <1>3, <1>6, <1>7, ZenonT(40)

LEMMA OneSynchronised ==
    ASSUME SyncInv, log' = log, NEW c \in Clients, Apart(c),
           Synchronised(c, log, cp'[c], seq'[c], applied'[c], req'[c], awaited'[c])
    PROVE  SyncInv'
BY ZenonT(40) DEF SyncInv, Apart

(* Requests that end, and clients that stop waiting. *)
LEMMA DroppedSync ==
    ASSUME TypeOK, SyncInv, UNCHANGED <<log, cp, seq, applied>>, NEW c \in Clients, Apart(c),
           \A t \in Slots : req'[c][t] = req[c][t] \/ req'[c][t] = Free,
           awaited'[c] = awaited[c] \/ awaited'[c] = None
    PROVE  SyncInv'
<1>1. Synchronised(c, log, cp[c], seq[c], applied[c], req[c], awaited[c])
  BY ZenonT(40) DEF SyncInv
<1>2. \A t \in Slots : Serviced(c, log, seq[c], req'[c][t])
  BY <1>1, FreeFields DEF Synchronised, Serviced
<1>3. awaited'[c] # None => Answered(c, log, cp[c], seq[c], req'[c][awaited'[c]])
  <2>1. awaited[c] \in Slots \cup {None}
    BY DEF TypeOK
  <2> QED
    BY <1>1, <2>1, FreeFields, ZenonT(40) DEF Synchronised, Answered
<1> QED
  BY <1>1, <1>2, <1>3, OneSynchronised, ZenonT(40) DEF Synchronised

LEMMA FailSync ==
    ASSUME TypeOK, SyncInv, UNCHANGED <<log, replica>>, NEW c \in Clients, NEW s \in Slots, Fail(c, s)
    PROVE  SyncInv'
<1>1. Apart(c)
  BY FailEffect DEF Apart, OnlyRequest, replica
<1>2. \A t \in Slots : req'[c][t] = req[c][t] \/ req'[c][t] = Free
  BY FailEffect DEF OnlyRequest
<1> QED
  BY <1>1, <1>2, FailEffect, DroppedSync, ZenonT(40) DEF replica

LEMMA ClientSync ==
    ASSUME OneLog, RefInv
    PROVE  \A c \in Clients : \/ Edit(c) \/ GiveUp(c) \/ Deliver(c)
                              \/ \E k \in AllKinds : Send(c, k)
                              \/ \E s \in Slots : Lose(c, s)
                              => SyncInv'
<1>GiveUpSync.
  ASSUME TypeOK, SyncInv, NEW c \in Clients, GiveUp(c) \/ \E s \in Slots : Lose(c, s)
  PROVE  SyncInv'
  <2> USE <1>GiveUpSync
  <2>1. /\ UNCHANGED <<log, cp, seq, applied>> /\ Apart(c)
        /\ \A t \in Slots : req'[c][t] = req[c][t] \/ req'[c][t] = Free
        /\ awaited'[c] = awaited[c] \/ awaited'[c] = None
    <3>1. CASE GiveUp(c)
      BY <3>1, ZenonT(40) DEF GiveUp, Apart, TypeOK, server, replica
    <3>2. CASE \E s \in Slots : Lose(c, s)
      BY <3>2 DEF Lose, Apart, TypeOK, server, replica
    <3> QED
      BY <3>1, <3>2, ZenonT(40)
  <2> QED
    BY <2>1, DroppedSync, ZenonT(40)
<1>SendSync.
  ASSUME TypeOK, SyncInv, NEW c \in Clients, NEW k \in AllKinds, Send(c, k)
  PROVE  SyncInv'
  <2> USE <1>SendSync
  <2>1. PICK s \in Slots, r \in Request :
               /\ OnlyRequest(c, s, r) /\ r.pc = "sent" /\ r.serverSeq = cp[c].serverSeq
               /\ r.from = cp[c].clientSeq /\ r.to = seq[c]
               /\ awaited'[c] = s /\ \A d \in Clients : d # c => awaited'[d] = awaited[d]
    BY SendEffect, ZenonT(40)
  <2>2. UNCHANGED <<log, cp, seq, applied>>
    BY SendEffect, ZenonT(40)
  <2>3. Synchronised(c, log, cp[c], seq[c], applied[c], req[c], awaited[c])
    BY DEF SyncInv
  <2>4. seq[c] \in Nat
    BY BoundsNat DEF TypeOK
  <2>5. \A t \in Slots : Serviced(c, log, seq[c], req'[c][t])
    BY <2>1, <2>3, <2>4 DEF Synchronised, Serviced, Replica, OnlyRequest
  <2>6. Answered(c, log, cp[c], seq[c], req'[c][s])
    BY <2>1 DEF Answered, OnlyRequest
  <2> QED
    BY <2>1, <2>2, <2>3, <2>5, <2>6, OneSynchronised, ZenonT(40) DEF Synchronised, Apart, OnlyRequest
<1>EditSync.
  ASSUME OneLog, TypeOK, SyncInv, NEW c \in Clients, Edit(c)
  PROVE  SyncInv'
  <2> USE <1>EditSync
  <2>1. /\ UNCHANGED <<log, cp, req, awaited>> /\ seq'[c] = seq[c] + 1 /\ Apart(c)
        /\ seq[c] \in Nat /\ seq'[c] <= MaxSeq
    BY BoundsNat DEF Edit, server, calls, Apart, TypeOK
  <2>2. Synchronised(c, log, cp[c], seq[c], applied[c], req[c], awaited[c])
    BY ZenonT(40) DEF SyncInv
  <2>3. \A x \in Change : applied'[c][x] = applied[c][x] + Count(x = <<c, 1, seq[c] + 1>>)
    <3>1. gen[c] = 1
      BY DEF OneLog, TypeOK
    <3> QED
      BY <3>1 DEF Edit, TypeOK, Plus, Once, Count
  <2>4. \A x \in Change : x[3] \in Nat /\ (x = <<c, 1, seq[c] + 1>> <=> x[1] = c /\ x[3] = seq[c] + 1)
    BY ChangeParts, BoundsNat
  <2>5. Replica(c, log, cp[c], seq'[c], applied'[c])
    <3>1. Replica(c, log, cp[c], seq[c], applied[c])
      BY <2>2 DEF Synchronised
    <3>2. cp[c].clientSeq \in Nat /\ \A i \in 1..Len(log) : log[i][3] \in Nat
      <4>1. cp[c].clientSeq \in 0..MaxSeq /\ \A i \in 1..Len(log) : log[i] \in Change
        BY LenProperties DEF TypeOK, SyncInv
      <4> QED
        BY <2>4, <4>1, BoundsNat
    <3>3. \A x \in Change : applied'[c][x] =
            Count(IF x[1] = c THEN x[3] <= seq'[c] ELSE Among(log, x, 1, cp[c].serverSeq))
      BY <2>1, <2>3, <2>4, <3>1 DEF Replica, Count
    <3> QED
      BY <2>1, <3>1, <3>2, <3>3 DEF Replica
  <2>6. ASSUME NEW r \in Request PROVE r.to \in Nat /\ r.acked \in Nat
    BY BoundsNat DEF Request
  <2>7. \A t \in Slots : Serviced(c, log, seq'[c], req[c][t])
    <3> SUFFICES ASSUME NEW t \in Slots PROVE Serviced(c, log, seq'[c], req[c][t])
      OBVIOUS
    <3>1. PICK r \in Request : r = req[c][t] /\ Serviced(c, log, seq[c], r)
      BY <2>2 DEF Synchronised, TypeOK
    <3> QED
      BY <2>1, <2>6, <3>1 DEF Serviced
  <2>8. awaited[c] # None => Answered(c, log, cp[c], seq'[c], req[c][awaited[c]])
    <3> SUFFICES ASSUME awaited[c] # None
                 PROVE  Answered(c, log, cp[c], seq'[c], req[c][awaited[c]])
      BY ZenonT(40)
    <3>1. PICK r \in Request : r = req[c][awaited[c]] /\ Answered(c, log, cp[c], seq[c], r)
      BY <2>2 DEF Synchronised, TypeOK
    <3>2. r.pc = "replied" => r.acked <= seq'[c]
      BY <2>1, <2>6, <3>1 DEF Answered
    <3> QED
      BY <3>1, <3>2, ZenonT(40) DEF Answered
  <2> QED
    BY <2>1, <2>2, <2>5, <2>7, <2>8, OneSynchronised, ZenonT(40) DEF Synchronised
(* The reply takes the replica from its checkpoint to the server seq the     *)
(* reply names; a snapshot together with what is not yet acknowledged.       *)
<1>DeliverSync.
  ASSUME OneLog, IInv, SyncInv, NEW c \in Clients, Deliver(c)
  PROVE  SyncInv'
  <2> USE <1>DeliverSync
  <2>1. PICK s \in Slots, r \in Request :
               /\ awaited[c] = s /\ r = req[c][s] /\ r.pc = "replied" /\ OnlyRequest(c, s, Free)
               /\ cp'[c].serverSeq = IF r.kind = "pushonly" THEN cp[c].serverSeq
                                     ELSE Max2(cp[c].serverSeq, r.seen)
               /\ cp'[c].clientSeq = Max2(cp[c].clientSeq, r.acked)
               /\ applied'[c] = IF r.kind = "pushonly" THEN applied[c] ELSE ApplyPack(c, r)
    BY DeliverEffect, ZenonT(40) DEF IInv
  <2>2. UNCHANGED <<log, seq>> /\ awaited'[c] = None /\ Apart(c)
    BY <2>1, DeliverEffect, ZenonT(40) DEF IInv, Apart, OnlyRequest
  <2>3. /\ Replica(c, log, cp[c], seq[c], applied[c])
        /\ \A t \in Slots : Serviced(c, log, seq[c], req[c][t])
        /\ Answered(c, log, cp[c], seq[c], r)
    BY <2>1, NoneIsNoSlot, ZenonT(40) DEF SyncInv, Synchronised
  <2>4. /\ cp[c].serverSeq \in Nat /\ cp[c].clientSeq \in Nat /\ seq[c] \in Nat
        /\ r.seen \in Nat /\ r.acked \in Nat /\ Len(log) \in Nat
    <3>1. cp[c].clientSeq \in 0..MaxSeq /\ cp[c].serverSeq \in Nat /\ seq[c] \in 0..MaxSeq
      BY DEF IInv, TypeOK
    <3>2. r.seen \in Nat /\ r.acked \in 0..MaxSeq
      BY DEF Request
    <3> QED
      BY <3>1, <3>2, BoundsNat, LenProperties DEF SyncInv
  <2>5. \A t \in Slots : Serviced(c, log, seq[c], req'[c][t])
    BY <2>1, <2>3, FreeFields, ZenonT(40) DEF Serviced, OnlyRequest
  <2>6. cp'[c].clientSeq <= seq[c]
    BY <2>1, <2>3, <2>4, ZenonT(40) DEF Answered, Replica, Max2
  <2>7. CASE r.kind = "pushonly"
    BY <2>1, <2>2, <2>3, <2>5, <2>6, <2>7, OneSynchronised, ZenonT(40) DEF Synchronised, Replica
  <2>8. CASE r.kind # "pushonly"
    <3>1. /\ cp[c].serverSeq <= r.seen /\ r.seen <= Len(log)
          /\ r.snapshot => cp[c].clientSeq <= r.acked
          /\ r.acked <= seq[c]
          /\ \A x \in Change : r.content[x] = Count(
                IF r.snapshot THEN IF x[1] = c THEN x[3] <= r.acked ELSE Among(log, x, 1, r.seen)
                ELSE x[1] # c /\ Among(log, x, cp[c].serverSeq + 1, r.seen))
      BY <2>1, <2>3, <2>8, ZenonT(40) DEF Answered
    <3>2. cp'[c].serverSeq = r.seen
      BY <2>1, <2>4, <2>8, <3>1 DEF Max2
    <3>3. ASSUME NEW x \in Change
          PROVE  applied'[c][x] = Count(IF x[1] = c THEN x[3] <= seq[c] ELSE Among(log, x, 1, r.seen))
      <4>1. x[3] \in Nat
        BY ChangeParts, BoundsNat
      <4>2. CASE r.snapshot
        <5>1. Max2(cp[c].clientSeq, r.acked) = r.acked /\ gen[c] = 1
          BY <2>4, <3>1, <4>2 DEF Max2, OneLog, IInv, TypeOK
        <5>2. applied'[c][x] = r.content[x] + Count(x \in Batch(c, 1, r.acked, seq[c]))
          BY <2>1, <2>8, <4>2, <5>1, ZenonT(40) DEF ApplyPack, Plus, Once, Count
        <5>3. x \in Batch(c, 1, r.acked, seq[c]) <=> x[1] = c /\ x[3] > r.acked /\ x[3] <= seq[c]
          BY <2>4, <4>1, ChangeParts DEF Batch
        <5> QED
          BY <2>4, <3>1, <4>1, <4>2, <5>2, <5>3 DEF Count
      <4>3. CASE ~r.snapshot
        <5>1. applied'[c][x] = applied[c][x] + r.content[x]
          BY <2>1, <2>8, <4>3, ZenonT(40) DEF ApplyPack, Plus
        <5>2. applied[c][x] = Count(IF x[1] = c THEN x[3] <= seq[c] ELSE Among(log, x, 1, cp[c].serverSeq))
          BY <2>3 DEF Replica
        <5>3. /\ Among(log, x, 1, r.seen) <=> \/ Among(log, x, 1, cp[c].serverSeq)
                                              \/ Among(log, x, cp[c].serverSeq + 1, r.seen)
              /\ ~(Among(log, x, 1, cp[c].serverSeq) /\ Among(log, x, cp[c].serverSeq + 1, r.seen))
          <6>1. StoredOnce
            BY DEF IInv
          <6> QED
            BY <2>4, <3>1, <6>1, AmongSplit, ZenonT(40)
        <5> QED
          BY <3>1, <4>3, <5>1, <5>2, <5>3 DEF Count
      <4> QED
        BY <4>2, <4>3
    <3>4. Replica(c, log, cp'[c], seq[c], applied'[c])
      BY <2>3, <2>6, <3>1, <3>2, <3>3, ZenonT(40) DEF Replica
    <3> QED
      BY <2>2, <2>5, <3>4, OneSynchronised, ZenonT(40) DEF Synchronised
  <2> QED
    BY <2>7, <2>8, ZenonT(40)
<1> QED
  <2>1. IInv /\ SyncInv /\ TypeOK
    BY DEF RefInv, IInv
  <2> QED
    BY <2>1, <1>GiveUpSync, <1>SendSync, <1>EditSync, <1>DeliverSync, ZenonT(40)

(* What the reply brings.  The changes of the request's client in the log    *)
(* are all acknowledged, and those of others up to the request's own push    *)
(* are there before it.                                                      *)
LEMMA ContentSync ==
    ASSUME OneLog, IInv, SyncInv, SnapshotsFresh, NEW c \in Clients, NEW s \in Slots,
           NEW r \in Request, r = req[c][s], r.pc = "pushed", awaited[c] = s,
           ~(r.initial < r.serverSeq), NEW x \in Change
    PROVE  /\ PullsSnapshot(r) =>
                Snapshot(c, r)[x] =
                     Count(IF x[1] = c THEN x[3] <= r.acked ELSE Among(log, x, 1, r.seen))
           /\ Span(r.serverSeq + 1, r.initial, OwnChanges(c, r))[x] =
                Count(x[1] # c /\ Among(log, x, r.serverSeq + 1, r.seen))
<1>1. /\ TypeOK /\ log \in Seq(Change) /\ StoredOnce /\ Len(log) \in Nat
  BY LenProperties, ZenonT(40) DEF IInv, SyncInv
<1>2. /\ r.from \in Nat /\ r.to \in Nat /\ r.initial \in Nat /\ r.seen \in Nat
      /\ r.serverSeq \in Nat /\ r.acked \in Nat /\ r.info.clientSeq \in Nat /\ r.gen = 1
  <2>1. /\ r.from \in 0..MaxSeq /\ r.to \in 0..MaxSeq /\ r.acked \in 0..MaxSeq
        /\ r.initial \in Nat /\ r.seen \in Nat /\ r.serverSeq \in Nat /\ r.info \in Row
        /\ r.gen \in 1..MaxGens
    BY ZenonT(40) DEF Request
  <2>2. r.info.clientSeq \in 0..MaxSeq
    BY <2>1, ZenonT(40) DEF Row
  <2> QED
    BY <2>1, <2>2, BoundsNat DEF OneLog
<1>3. /\ r.from <= r.to
      /\ r.initial <= r.seen /\ r.seen <= Len(log)
      /\ \A i \in (r.initial + 1)..r.seen : log[i][1] = c
      /\ \A i \in 1..Len(log) : log[i][1] = c => log[i][3] <= r.acked
      /\ x[1] = c => (Among(log, x, 1, r.initial) <=> x[3] <= r.info.clientSeq)
      /\ \/ r.acked = r.to
         \/ r.acked = r.info.clientSeq /\ r.to <= r.acked
  <2>1. Serviced(c, log, seq[c], r)
    BY DEF SyncInv, Synchronised
  <2> QED
    BY <2>1, ZenonT(40) DEF Serviced
<1>4. x[3] \in Nat
  BY ChangeParts, BoundsNat
<1>5. ASSUME NEW lo \in Nat, lo >= 1, lo <= r.initial + 1, x[1] # c
      PROVE  Among(log, x, lo, r.initial) <=> Among(log, x, lo, r.seen)
  <2>1. \A i \in lo..r.seen : i \in lo..r.initial \/ i \in (r.initial + 1)..r.seen
    BY <1>2, <1>3
  <2>2. \A i \in lo..r.initial : i \in lo..r.seen
    BY <1>2, <1>3
  <2> QED
    BY <1>3, <1>5, <2>1, <2>2, ZenonT(40) DEF Among
<1>6. ASSUME PullsSnapshot(r)
      PROVE  Snapshot(c, r)[x] =
               Count(IF x[1] = c THEN x[3] <= r.acked ELSE Among(log, x, 1, r.seen))
  <2>1. r.from = r.info.clientSeq /\ r.acked = r.to
    <3>1. r.from = r.info.clientSeq
      BY <1>6, ZenonT(40) DEF SnapshotsFresh, InService
    <3> QED
      BY <1>2, <1>3, <3>1
  <2>2. Span(1, r.initial, {})[x] = Count(Among(log, x, 1, r.initial))
    <3>1. Span(1, r.initial, {})[x] = Count(x \notin {} /\ Among(log, x, 1, r.initial))
      BY <1>1, <1>2, <1>3, SpanOnce
    <3> QED
      BY <3>1, ZenonT(40) DEF Count
  <2>3. Snapshot(c, r)[x] = Span(1, r.initial, {})[x] + Count(x \in Batch(c, 1, r.from, r.to))
    BY <1>2 DEF Snapshot, Plus, Once, Count
  <2>4. x \in Batch(c, 1, r.from, r.to) <=> x[1] = c /\ x[3] > r.from /\ x[3] <= r.to
    BY <1>2, <1>4, ChangeParts DEF Batch
  <2>5. x[1] # c => (Among(log, x, 1, r.initial) <=> Among(log, x, 1, r.seen))
    BY <1>2, <1>5
  <2> QED
    BY <1>2, <1>3, <1>4, <2>1, <2>2, <2>3, <2>4, <2>5 DEF Count
<1>7. Span(r.serverSeq + 1, r.initial, OwnChanges(c, r))[x] =
        Count(x[1] # c /\ Among(log, x, r.serverSeq + 1, r.seen))
  <2>1. r.serverSeq + 1 \in Nat /\ r.serverSeq + 1 >= 1 /\ r.serverSeq + 1 <= r.initial + 1
    BY <1>2
  <2>2. r.initial <= Len(log)
    BY <1>1, <1>2, <1>3
  <2>3. Span(r.serverSeq + 1, r.initial, OwnChanges(c, r))[x] =
          Count(x \notin OwnChanges(c, r) /\ Among(log, x, r.serverSeq + 1, r.initial))
    BY <1>1, <1>2, <2>1, <2>2, SpanOnce
  <2>4. x \in OwnChanges(c, r) <=> x[1] = c /\ x[3] <= r.acked
    BY DEF OwnChanges
  <2>5. CASE x[1] = c
    <3>1. Among(log, x, r.serverSeq + 1, r.initial) => x \in OwnChanges(c, r)
      <4> SUFFICES ASSUME NEW i \in (r.serverSeq + 1)..r.initial, log[i] = x
                   PROVE  x[3] <= r.acked
        BY <2>4, <2>5, ZenonT(40) DEF Among
      <4>1. i \in 1..Len(log)
        BY <1>1, <1>2, <2>2
      <4> QED
        BY <1>3, <2>5, <4>1, ZenonT(40)
    <3> QED
      BY <2>3, <2>5, <3>1, ZenonT(40) DEF Count
  <2>6. CASE x[1] # c
    <3>1. Among(log, x, r.serverSeq + 1, r.initial) <=> Among(log, x, r.serverSeq + 1, r.seen)
      BY <1>5, <2>1, <2>6
    <3> QED
      BY <2>3, <2>4, <2>6, <3>1 DEF Count
  <2> QED
    BY <2>5, <2>6, ZenonT(40)
<1> QED
  BY <1>6, <1>7, ZenonT(40)
=============================================================================

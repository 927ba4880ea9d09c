---------------------------- MODULE AppliedProofs ----------------------------
(***************************************************************************)
(* That document synchronisation applies every change exactly once, for    *)
(* any clients, requests, thresholds and bounds, as long as no snapshot is *)
(* built for a request of which an earlier attempt was stored.             *)
(***************************************************************************)
EXTENDS SyncProofs

(* A leaf that names no prover is given to the SMT solver, for 30 s at most. *)
USE SMTT(30)

LEMMA InitRef == Init => RefInv
<1> SUFFICES ASSUME Init PROVE RefInv
  OBVIOUS
<1>1. /\ log = <<>> /\ log \in Seq(Change) /\ Len(log) = 0
  BY EmptySeq, ZenonT(40) DEF Init
<1>2. ASSUME NEW c \in Clients
      PROVE  Synchronised(c, log, cp[c], seq[c], applied[c], req[c], awaited[c])
  <2>1. /\ cp[c].serverSeq = 0 /\ cp[c].clientSeq = 0 /\ seq[c] = 0 /\ awaited[c] = None
        /\ \A x \in Change : applied[c][x] = 0
        /\ \A s \in Slots : req[c][s].pc = "free"
    BY FreeFields DEF Init, Empty
  <2>2. \A x \in Change : ~(x[3] <= 0) /\ ~Among(log, x, 1, 0)
    BY BoundsNat DEF Change, Among
  <2>3. Replica(c, log, cp[c], seq[c], applied[c])
    BY <1>1, <2>1, <2>2 DEF Replica, Count
  <2> QED
    BY <2>1, <2>3 DEF Synchronised, Serviced
<1> QED
  BY <1>1, <1>2, InitStored, InitKept DEF RefInv, SyncInv

LEMMA NextRef ==
    ASSUME OneLog
    PROVE  RefInv /\ SnapshotsFresh /\ [Next]_vars => RefInv'
<1>AmongGrown.
  ASSUME NEW l \in Seq(Change), NEW m \in Seq(Change), Prefix(l, m),
         NEW x, NEW lo \in Nat, NEW hi \in Nat, lo >= 1, hi <= Len(l)
  PROVE  Among(m, x, lo, hi) <=> Among(l, x, lo, hi)
  <2> USE <1>AmongGrown
  <2>1. \A i \in lo..hi : i \in 1..Len(l) /\ m[i] = l[i]
    BY LenProperties DEF Prefix
  <2> QED
    BY <2>1, ZenonT(40) DEF Among
<1>ReplicaGrown.
  ASSUME NEW l \in Seq(Change), NEW m \in Seq(Change), Prefix(l, m), NEW c,
         NEW p \in [serverSeq : Nat, clientSeq : 0..MaxSeq], NEW k \in Nat, NEW a,
         Replica(c, l, p, k, a),
         \A i \in (Len(l) + 1)..Len(m) : m[i][1] = c => m[i][3] <= k
  PROVE  Replica(c, m, p, k, a)
  <2> USE <1>ReplicaGrown
  <2>1. Len(l) \in Nat /\ Len(m) \in Nat /\ p.serverSeq \in Nat /\ p.serverSeq <= Len(l)
    BY LenProperties DEF Replica
  <2>2. \A x : Among(m, x, 1, p.serverSeq) <=> Among(l, x, 1, p.serverSeq)
    BY <2>1, <1>AmongGrown
  <2>3. p.serverSeq <= Len(m) /\ p.clientSeq <= k
    BY <2>1 DEF Replica, Prefix
  <2>4. \A x \in Change : a[x] = Count(IF x[1] = c THEN x[3] <= k ELSE Among(m, x, 1, p.serverSeq))
    BY <2>2 DEF Replica, Count
  <2>5. \A i \in 1..Len(m) : m[i][1] = c => m[i][3] <= k
    BY <2>1 DEF Replica, Prefix
  <2> QED
    BY <2>3, <2>4, <2>5, ZenonT(40) DEF Replica
<1>ServicedGrown.
  ASSUME NEW l \in Seq(Change), NEW m \in Seq(Change), Prefix(l, m), NEW c, NEW k \in Nat,
         NEW r \in Request, Serviced(c, l, k, r),
         r.pc = "pushed" => \A i \in (Len(l) + 1)..Len(m) : m[i][1] # c
  PROVE  Serviced(c, m, k, r)
  <2> USE <1>ServicedGrown
  <2>1. r.initial \in Nat /\ r.seen \in Nat /\ Len(l) \in Nat /\ Len(m) \in Nat
    BY LenProperties, ZenonT(40) DEF Request
  <2>2. CASE r.pc = "pushed"
    <3>1. /\ r.initial <= r.seen /\ r.seen <= Len(l)
          /\ \A i \in (r.initial + 1)..r.seen : l[i][1] = c
          /\ \A i \in 1..Len(l) : l[i][1] = c => l[i][3] <= r.acked
      BY <2>2 DEF Serviced
    <3>2. \A x : Among(m, x, 1, r.initial) <=> Among(l, x, 1, r.initial)
      <4>1. 1 \in Nat /\ 1 >= 1 /\ r.initial <= Len(l)
        BY <2>1, <3>1
      <4> QED
        BY <2>1, <4>1, <1>AmongGrown, ZenonT(40)
    <3>3. r.seen <= Len(m) /\ \A i \in (r.initial + 1)..r.seen : m[i][1] = c
      <4>1. r.seen <= Len(m) /\ \A i \in (r.initial + 1)..r.seen : i \in 1..Len(l)
        BY <2>1, <3>1 DEF Prefix
      <4> QED
        BY <3>1, <4>1, ZenonT(40) DEF Prefix
    <3>4. \A i \in 1..Len(m) : m[i][1] = c => m[i][3] <= r.acked
      BY <2>1, <2>2, <3>1 DEF Prefix
    <3> QED
      BY <2>2, <3>2, <3>3, <3>4, ZenonT(40) DEF Serviced
  <2> QED
    BY <2>2 DEF Serviced
<1>AnsweredGrown.
  ASSUME NEW l \in Seq(Change), NEW m \in Seq(Change), Prefix(l, m), NEW c, NEW k \in Nat,
         NEW p \in [serverSeq : Nat, clientSeq : 0..MaxSeq], NEW r \in Request,
         Answered(c, l, p, k, r)
  PROVE  Answered(c, m, p, k, r)
  <2> USE <1>AnsweredGrown
  <2>1. r.seen \in Nat /\ p.serverSeq \in Nat /\ Len(l) \in Nat /\ Len(m) \in Nat
    BY LenProperties, ZenonT(40) DEF Request
  <2>2. CASE r.pc = "replied" /\ r.kind # "pushonly"
    <3>1. r.seen <= Len(l) /\ r.seen <= Len(m)
      BY <2>1, <2>2 DEF Answered, Prefix
    <3>2. p.serverSeq + 1 \in Nat /\ p.serverSeq + 1 >= 1
      BY <2>1
    <3>3. \A x : /\ Among(m, x, 1, r.seen) <=> Among(l, x, 1, r.seen)
                 /\ Among(m, x, p.serverSeq + 1, r.seen) <=> Among(l, x, p.serverSeq + 1, r.seen)
      BY <2>1, <3>1, <3>2, <1>AmongGrown
    <3>4. \A x \in Change : r.content[x] = Count(
              IF r.snapshot THEN IF x[1] = c THEN x[3] <= r.acked ELSE Among(m, x, 1, r.seen)
              ELSE x[1] # c /\ Among(m, x, p.serverSeq + 1, r.seen))
      BY <2>2, <3>3, ZenonT(40) DEF Answered, Count
    <3> QED
      BY <2>2, <3>1, <3>4, ZenonT(40) DEF Answered
  <2> QED
    BY <2>2 DEF Answered
(* The changes of a push follow the client's own ones in the log. *)
<1>StoreSync.
  ASSUME OneLog, RefInv, NEW c \in Clients, NEW s \in Slots, Push(c, s), Admitted(c, req[c][s]),
         Store(c, s, Info(c, req[c][s]), Pushables(c, req[c][s], Info(c, req[c][s])))
  PROVE  SyncInv'
  <2> USE <1>StoreSync
  <2>1. PICK r \in Request, info \in Row : r = req[c][s] /\ info = Info(c, r)
    BY InfoType DEF RefInv, IInv, TypeOK
  <2>2. /\ r.pc = "sent" /\ UNCHANGED <<cp, seq, applied>>
        /\ \A t \in Slots : req[c][t].pc # "pushed"
    BY <2>1, ZenonT(40) DEF Push, replica, DocPullKeyFree, InService
  <2>3. /\ info.clientSeq \in 0..MaxSeq /\ r.from <= info.clientSeq
        /\ \A x \in Change : x[1] = c => (Stored(x) <=> x[3] <= info.clientSeq)
    BY <2>1, OwnStored, ZenonT(40)
  <2>4. PICK changes \in Seq(Change) :
               /\ changes = Pushables(c, r, info)
               /\ \A i \in 1..Len(changes) : /\ changes[i][1] = c
                                             /\ changes[i][3] = Max2(r.from, info.clientSeq) + i
                                             /\ changes[i][3] <= r.to
    BY PushablesType
  <2>5. PICK q \in Request :
               /\ OnlyRequest(c, s, q)
               /\ q.pc = "pushed" /\ q.serverSeq = r.serverSeq /\ q.from = r.from /\ q.to = r.to
               /\ q.info = info /\ q.initial = Len(log) /\ q.seen = Len(log) + Len(changes)
               /\ q.acked = IF changes = <<>> THEN info.clientSeq ELSE r.to
    BY <2>1, <2>4, StoreEffect DEF RefInv, IInv
  <2>6. log' = log \o changes /\ awaited' = awaited
    BY <2>1, <2>4, StoreEffect DEF RefInv, IInv
  <2>7. log \in Seq(Change) /\ Len(log) \in Nat /\ Len(changes) \in Nat
    BY LenProperties, ZenonT(40) DEF RefInv, SyncInv
  <2>8. /\ log' \in Seq(Change) /\ Len(log') = Len(log) + Len(changes)
        /\ \A i \in 1..Len(log') : log'[i] = IF i <= Len(log) THEN log[i]
                                              ELSE changes[i - Len(log)]
    BY <2>6, <2>7, ConcatProperties
  <2>9. Prefix(log, log')
    BY <2>7, <2>8 DEF Prefix
  <2>10. \A i \in (Len(log) + 1)..Len(log') :
           log'[i][1] = c /\ log'[i][3] <= r.to /\ log'[i][3] > info.clientSeq
    <3> SUFFICES ASSUME NEW i \in (Len(log) + 1)..Len(log')
                 PROVE  log'[i][1] = c /\ log'[i][3] <= r.to /\ log'[i][3] > info.clientSeq
      OBVIOUS
    <3>1. /\ i - Len(log) \in 1..Len(changes) /\ log'[i] = changes[i - Len(log)]
          /\ i - Len(log) > 0 /\ i - Len(log) \in Nat
      BY <2>7, <2>8
    <3>2. Max2(r.from, info.clientSeq) = info.clientSeq /\ info.clientSeq \in Nat
      <4>1. r.from \in 0..MaxSeq
        BY ZenonT(40) DEF Request
      <4> QED
        BY <2>3, <4>1, BoundsNat DEF Max2
    <3> QED
      BY <2>4, <3>1, <3>2
  <2>11. \A d \in Clients :
           /\ cp[d] \in [serverSeq : Nat, clientSeq : 0..MaxSeq] /\ seq[d] \in Nat
           /\ req[d] \in [Slots -> Request] /\ awaited[d] \in Slots \cup {None}
           /\ Replica(d, log, cp[d], seq[d], applied[d])
           /\ \A t \in Slots : Serviced(d, log, seq[d], req[d][t])
           /\ awaited[d] # None => Answered(d, log, cp[d], seq[d], req[d][awaited[d]])
    BY BoundsNat DEF RefInv, IInv, TypeOK, SyncInv, Synchronised
  <2>12. ASSUME NEW d \in Clients, d # c
         PROVE  Synchronised(d, log, cp[d], seq[d], applied[d], req[d], awaited[d])'
    <3>1. \A i \in (Len(log) + 1)..Len(log') : log'[i][1] # d
      BY <2>10, <2>12
    <3>2. Replica(d, log', cp[d], seq[d], applied[d])
      <4>1. \A i \in (Len(log) + 1)..Len(log') : log'[i][1] = d => log'[i][3] <= seq[d]
        BY <3>1, ZenonT(40)
      <4> QED
        BY <2>7, <2>8, <2>9, <2>11, <4>1, <1>ReplicaGrown, ZenonT(40)
    <3>3. \A t \in Slots : Serviced(d, log', seq[d], req[d][t])
      BY <2>7, <2>8, <2>9, <2>11, <3>1, <1>ServicedGrown, ZenonT(40)
    <3>4. awaited[d] # None => Answered(d, log', cp[d], seq[d], req[d][awaited[d]])
      BY <2>7, <2>8, <2>9, <2>11, <1>AnsweredGrown, ZenonT(40)
    <3>5. req'[d] = req[d]
      BY <2>5, <2>12, ZenonT(40) DEF OnlyRequest
    <3> QED
      BY <2>2, <2>6, <3>2, <3>3, <3>4, <3>5, ZenonT(40) DEF Synchronised
  <2>13. r.from \in Nat /\ r.to \in Nat /\ info.clientSeq \in Nat /\ r.from <= r.to /\ r.to <= seq[c]
    <3>1. r.from \in 0..MaxSeq /\ r.to \in 0..MaxSeq
      BY DEF Request
    <3>2. r.from <= r.to /\ r.to <= seq[c]
      <4>1. Serviced(c, log, seq[c], r)
        BY <2>1, <2>11, ZenonT(40)
      <4> QED
        BY <2>2, <4>1, ZenonT(40) DEF Serviced
    <3> QED
      BY <2>3, <3>1, <3>2, BoundsNat
  <2>14. Replica(c, log', cp[c], seq[c], applied[c])
    <3>1. \A i \in (Len(log) + 1)..Len(log') : log'[i][1] = c => log'[i][3] <= seq[c]
      <4>1. \A i \in (Len(log) + 1)..Len(log') : log'[i][3] \in Nat
        <5>1. \A i \in 1..Len(log') : log'[i] \in Change
          BY <2>8, LenProperties, ZenonT(40)
        <5> QED
          <6>1. \A i \in (Len(log) + 1)..Len(log') : i \in 1..Len(log')
            BY <2>7, <2>8
          <6>2. \A x \in Change : x[3] \in Nat
            BY ChangeParts, BoundsNat
          <6> QED
            BY <5>1, <6>1, <6>2, ZenonT(40)
      <4> QED
        BY <2>10, <2>11, <2>13, <4>1
    <3> QED
      BY <2>7, <2>8, <2>9, <2>11, <3>1, <1>ReplicaGrown, ZenonT(40)
  <2>15. Serviced(c, log', seq[c], q)
    <3>1. info.clientSeq <= seq[c]
      <4>1. CASE info.clientSeq # 0
        <5>1. <<c, 1, info.clientSeq>> \in Change
          BY <2>3, <4>1, BoundsNat DEF Change, OneLog
        <5>2. PICK i \in 1..Len(log) : log[i] = <<c, 1, info.clientSeq>>
          <6>1. <<c, 1, info.clientSeq>>[1] = c /\ <<c, 1, info.clientSeq>>[3] <= info.clientSeq
            BY <2>13
          <6>2. Stored(<<c, 1, info.clientSeq>>)
            BY <2>3, <5>1, <6>1, ZenonT(40)
          <6> QED
            BY <6>2, ZenonT(40) DEF Stored
        <5> QED
          BY <2>11, <5>2 DEF Replica
      <4> QED
        BY <2>11, <2>13, <4>1
    <3>2. q.initial <= q.seen /\ q.seen = Len(log') /\ q.acked <= seq[c]
      BY <2>5, <2>7, <2>8, <2>13, <3>1
    <3>3. Len(changes) = Max2(0, r.to - info.clientSeq)
      <4>1. Max2(r.from, info.clientSeq) = info.clientSeq
        BY <2>3, <2>13 DEF Max2
      <4>2. Max2(0, r.to - info.clientSeq) \in Nat
        BY <2>13 DEF Max2
      <4>3. DOMAIN changes = 1..Max2(0, r.to - info.clientSeq)
        BY <2>4, <4>1, ZenonT(40) DEF Pushables
      <4>4. DOMAIN changes = 1..Len(changes)
        BY LenProperties
      <4> QED
        BY <2>7, <4>2, <4>3, <4>4
    <3>4. \/ q.acked = r.to /\ r.to > info.clientSeq
          \/ q.acked = info.clientSeq /\ r.to <= info.clientSeq /\ Len(changes) = 0
      <4>1. CASE changes = <<>>
        <5>1. Len(changes) = 0
          BY <4>1, ZenonT(40)
        <5> QED
          BY <2>5, <2>13, <3>3, <4>1, <5>1 DEF Max2
      <4>2. CASE changes # <<>>
        <5>1. Len(changes) # 0
          BY <4>2, EmptySeq, ZenonT(40)
        <5> QED
          BY <2>5, <2>13, <3>3, <4>2, <5>1 DEF Max2
      <4> QED
        BY <4>1, <4>2, ZenonT(40)
    <3>5. \A i \in 1..Len(log') : log'[i][1] = c => log'[i][3] <= q.acked
      <4> SUFFICES ASSUME NEW i \in 1..Len(log'), log'[i][1] = c PROVE log'[i][3] <= q.acked
        OBVIOUS
      <4>1. log'[i] \in Change
        BY <2>8, LenProperties, ZenonT(40)
      <4>2. log'[i][3] \in Nat
        BY <4>1, ChangeParts, BoundsNat
      <4>3. CASE i <= Len(log)
        <5>1. i \in 1..Len(log) /\ log'[i] = log[i]
          BY <2>7, <2>8, <4>3
        <5>2. log'[i][3] <= info.clientSeq
          BY <2>3, <4>1, <5>1, ZenonT(40) DEF Stored
        <5> QED
          BY <2>13, <3>4, <4>2, <5>2
      <4>4. CASE ~(i <= Len(log))
        <5>1. i \in (Len(log) + 1)..Len(log') /\ Len(changes) # 0
          BY <2>7, <2>8, <4>4
        <5> QED
          BY <2>10, <3>4, <5>1
      <4> QED
        BY <4>3, <4>4, ZenonT(40)
    <3>6. \A x \in Change : x[1] = c => (Among(log', x, 1, q.initial) <=> x[3] <= q.info.clientSeq)
      <4> SUFFICES ASSUME NEW x \in Change, x[1] = c
                   PROVE  Among(log', x, 1, Len(log)) <=> x[3] <= info.clientSeq
        BY <2>5, ZenonT(40)
      <4>1. Among(log', x, 1, Len(log)) <=> Among(log, x, 1, Len(log))
        BY <2>7, <2>8, <2>9, <1>AmongGrown
      <4> QED
        BY <2>3, <4>1, ZenonT(40) DEF Among, Stored
    <3>7. \A i \in (q.initial + 1)..q.seen : log'[i][1] = c
      BY <2>5, <2>8, <2>10
    <3> QED
      BY <2>5, <2>8, <2>13, <3>2, <3>4, <3>5, <3>6, <3>7 DEF Serviced
  <2>16. \A t \in Slots : Serviced(c, log', seq[c], req'[c][t])
    <3> SUFFICES ASSUME NEW t \in Slots, t # s PROVE Serviced(c, log', seq[c], req'[c][t])
      BY <2>5, <2>15 DEF OnlyRequest
    <3>1. req'[c][t] = req[c][t] /\ req[c][t] \in Request
      BY <2>5, <2>11, ZenonT(40) DEF OnlyRequest
    <3> QED
      BY <2>2, <2>7, <2>8, <2>9, <2>11, <3>1, <1>ServicedGrown, ZenonT(40)
  <2>17. awaited[c] # None => Answered(c, log', cp[c], seq[c], req'[c][awaited[c]])
    <3>1. CASE awaited[c] = s
      <4>1. Answered(c, log, cp[c], seq[c], r) /\ req'[c][s] = q
        BY <2>1, <2>5, <2>11, <3>1, NoneIsNoSlot, ZenonT(40) DEF OnlyRequest
      <4>2. q.serverSeq = cp[c].serverSeq /\ q.from = cp[c].clientSeq /\ q.pc # "replied"
        BY <2>2, <2>5, <4>1, ZenonT(40) DEF Answered
      <4>3. Answered(c, log', cp[c], seq[c], q)
        BY <4>2, ZenonT(40) DEF Answered
      <4> QED
        BY <3>1, <4>1, <4>3, ZenonT(40)
    <3>2. CASE awaited[c] # s /\ awaited[c] # None
      <4>1. PICK t \in Slots : t = awaited[c] /\ t # s
        BY <2>11, <3>2, ZenonT(40)
      <4>2. req'[c][t] = req[c][t] /\ req[c][t] \in Request /\ Answered(c, log, cp[c], seq[c], req[c][t])
        BY <2>5, <2>11, <3>2, <4>1, ZenonT(40) DEF OnlyRequest
      <4>3. Answered(c, log', cp[c], seq[c], req[c][t])
        BY <2>7, <2>8, <2>9, <2>11, <4>2, <1>AnsweredGrown, ZenonT(40)
      <4> QED
        BY <4>1, <4>2, <4>3, ZenonT(40)
    <3> QED
      BY <3>1, <3>2, ZenonT(40)
  <2>18. Synchronised(c, log, cp[c], seq[c], applied[c], req[c], awaited[c])'
    BY <2>2, <2>6, <2>14, <2>16, <2>17, ZenonT(40) DEF Synchronised
  <2> QED
    BY <2>8, <2>12, <2>18, ZenonT(40) DEF SyncInv
<1>PullFinishes.
  ASSUME OneLog, IInv, NEW c \in Clients, NEW s \in Slots, Pull(c, s)
  PROVE  LET r == req[c][s]
         IN  \/ Fail(c, s)
             \/ r.kind = "pushonly" /\ Finish(c, s, r.serverSeq, FALSE, Empty)
             \/ /\ r.kind # "pushonly" /\ ~(r.initial < r.serverSeq)
                /\ Finish(c, s, r.seen, PullsSnapshot(r),
                          IF PullsSnapshot(r) THEN Snapshot(c, r)
                          ELSE Span(r.serverSeq + 1, r.initial, OwnChanges(c, r)))
  <2> USE <1>PullFinishes
  <2>1. req[c][s] \in Request
    BY DEF IInv, TypeOK
  <2>2. req[c][s].info \in Row
    BY <2>1 DEF Request
  <2>3. ~EpochMismatch(req[c][s].info)
    BY <2>2, NoMismatch DEF IInv
  <2>4. CASE PullFails(req[c][s])
    BY <2>4 DEF Pull
  <2>5. CASE ~PullFails(req[c][s]) /\ req[c][s].kind = "pushonly"
    BY <2>3, <2>5, ZenonT(40) DEF Pull
  <2>6. CASE ~PullFails(req[c][s]) /\ req[c][s].kind # "pushonly"
    <3>1. ~(req[c][s].initial < req[c][s].serverSeq)
      BY <2>3, <2>6 DEF PullFails
    <3> QED
      BY <2>3, <2>6, <3>1, ZenonT(40) DEF Pull
  <2> QED
    BY <2>4, <2>5, <2>6, ZenonT(40)
<1>PullSync.
  ASSUME OneLog, IInv, SyncInv, SnapshotsFresh, NEW c \in Clients, NEW s \in Slots, Pull(c, s)
  PROVE  SyncInv'
  <2> USE <1>PullSync
  <2>1. PICK r \in Request : r = req[c][s] /\ r.pc = "pushed"
    BY ZenonT(40) DEF IInv, TypeOK, Pull
  <2>2. UNCHANGED <<log, replica>> /\ TypeOK
    BY DEF Pull, IInv
  <2>3. CASE Fail(c, s)
    BY <2>2, <2>3, FailSync, ZenonT(40)
  <2>4. ASSUME NEW n \in Nat, NEW b \in BOOLEAN, NEW m \in [Change -> Nat], Finish(c, s, n, b, m),
               awaited[c] # s
        PROVE  SyncInv'
    <3>1. OnlyRequest(c, s, Free) /\ awaited' = awaited
      BY <2>2, <2>4, FinishEffect
    <3>2. Apart(c) /\ \A t \in Slots : req'[c][t] = req[c][t] \/ req'[c][t] = Free
      BY <2>2, <3>1 DEF Apart, OnlyRequest, replica
    <3> QED
      BY <2>2, <3>1, <3>2, DroppedSync, ZenonT(40) DEF replica
  <2>5. ASSUME NEW n \in Nat, NEW b \in BOOLEAN, NEW m \in [Change -> Nat], Finish(c, s, n, b, m),
               awaited[c] = s,
               r.kind # "pushonly" =>
                 /\ cp[c].serverSeq <= n /\ n <= Len(log)
                 /\ b => cp[c].clientSeq <= r.acked
                 /\ \A x \in Change : m[x] = Count(
                      IF b THEN IF x[1] = c THEN x[3] <= r.acked ELSE Among(log, x, 1, n)
                      ELSE x[1] # c /\ Among(log, x, cp[c].serverSeq + 1, n))
        PROVE  SyncInv'
    <3>1. PICK q \in Request : /\ OnlyRequest(c, s, q)
                               /\ q.pc = "replied" /\ q.kind = r.kind /\ q.acked = r.acked
                               /\ q.seen = n /\ q.snapshot = b /\ q.content = m
      BY <2>1, <2>2, <2>5, FinishEffect
    <3>2. awaited' = awaited
      BY <2>2, <2>5, FinishEffect, ZenonT(40)
    <3>3. Apart(c) /\ UNCHANGED <<cp, seq, applied>>
      BY <2>2, <3>1, <3>2, ZenonT(40) DEF Apart, OnlyRequest, replica
    <3>4. /\ Replica(c, log, cp[c], seq[c], applied[c])
          /\ \A t \in Slots : Serviced(c, log, seq[c], req[c][t])
      BY ZenonT(40) DEF SyncInv, Synchronised
    <3>5. Serviced(c, log, seq[c], q)
      BY <3>1 DEF Serviced
    <3>6. \A t \in Slots : Serviced(c, log, seq[c], req'[c][t])
      BY <3>1, <3>4, <3>5, ZenonT(40) DEF OnlyRequest
    <3>7. r.acked <= seq[c]
      BY <2>1, <3>4, ZenonT(40) DEF Serviced
    <3>8. Answered(c, log, cp[c], seq[c], q)
      BY <2>5, <3>1, <3>7, ZenonT(40) DEF Answered
    <3>9. Answered(c, log, cp[c], seq[c], req'[c][awaited[c]])
      BY <2>5, <3>1, <3>8, ZenonT(40) DEF OnlyRequest
    <3> QED
      BY <2>2, <3>2, <3>3, <3>4, <3>6, <3>9, OneSynchronised, ZenonT(40) DEF Synchronised
  <2>6. CASE r.kind = "pushonly" /\ Finish(c, s, r.serverSeq, FALSE, Empty)
    <3>1. r.serverSeq \in Nat /\ Empty \in [Change -> Nat] /\ FALSE \in BOOLEAN
      BY EmptyType DEF Request
    <3> QED
      BY <2>4, <2>5, <2>6, <3>1, ZenonT(40)
  <2>7. ASSUME r.kind # "pushonly", ~(r.initial < r.serverSeq),
               NEW m, m = IF PullsSnapshot(r) THEN Snapshot(c, r)
                          ELSE Span(r.serverSeq + 1, r.initial, OwnChanges(c, r)),
               Finish(c, s, r.seen, PullsSnapshot(r), m)
        PROVE  SyncInv'
    <3>1. m \in [Change -> Nat]
      BY <2>2, <2>7, ContentType, ZenonT(40)
    <3>2. r.seen \in Nat /\ r.initial \in Nat /\ r.serverSeq \in Nat
      BY DEF Request
    <3>3. PullsSnapshot(r) \in BOOLEAN
      BY DEF PullsSnapshot
    <3>4. CASE awaited[c] # s
      BY <2>4, <2>7, <3>1, <3>2, <3>3, <3>4, ZenonT(40)
    <3>5. CASE awaited[c] = s
      <4>1. Serviced(c, log, seq[c], r) /\ Answered(c, log, cp[c], seq[c], r)
        BY <2>1, <3>5, NoneIsNoSlot, ZenonT(40) DEF SyncInv, Synchronised
      <4>2. /\ r.serverSeq = cp[c].serverSeq /\ r.from = cp[c].clientSeq
            /\ r.initial <= r.seen /\ r.seen <= Len(log)
        BY <2>1, <4>1, ZenonT(40) DEF Serviced, Answered
      <4>3. cp[c].serverSeq <= r.seen
        BY <2>7, <3>2, <4>2
      <4>4. ASSUME NEW x \in Change
            PROVE  /\ PullsSnapshot(r) =>
                        m[x] = Count(IF x[1] = c THEN x[3] <= r.acked ELSE Among(log, x, 1, r.seen))
                   /\ ~PullsSnapshot(r) => m[x] = Count(x[1] # c /\ Among(log, x, r.serverSeq + 1, r.seen))
        BY <2>1, <2>7, <3>5, ContentSync
      <4>5. \A x \in Change : m[x] = Count(
              IF PullsSnapshot(r) THEN IF x[1] = c THEN x[3] <= r.acked ELSE Among(log, x, 1, r.seen)
              ELSE x[1] # c /\ Among(log, x, cp[c].serverSeq + 1, r.seen))
        BY <4>2, <4>4, ZenonT(40) DEF Count
      <4>6. PullsSnapshot(r) => cp[c].clientSeq <= r.acked
        <5>1. PullsSnapshot(r) => r.from = r.info.clientSeq
          BY <2>1, <3>5, ZenonT(40) DEF SnapshotsFresh, InService
        <5>2. r.from \in 0..MaxSeq
          BY DEF Request
        <5> QED
          BY <2>1, <4>1, <4>2, <5>1, <5>2, BoundsNat DEF Serviced
      <4> QED
        BY <2>5, <2>7, <3>1, <3>2, <3>3, <3>5, <4>2, <4>3, <4>5, <4>6, ZenonT(40)
    <3> QED
      BY <3>4, <3>5, ZenonT(40)
  <2> QED
    <3>1. \/ Fail(c, s)
          \/ r.kind = "pushonly" /\ Finish(c, s, r.serverSeq, FALSE, Empty)
          \/ /\ r.kind # "pushonly" /\ ~(r.initial < r.serverSeq)
             /\ Finish(c, s, r.seen, PullsSnapshot(r),
                       IF PullsSnapshot(r) THEN Snapshot(c, r)
                       ELSE Span(r.serverSeq + 1, r.initial, OwnChanges(c, r)))
      BY <2>1, <1>PullFinishes, ZenonT(40)
    <3> QED
      BY <2>3, <2>6, <2>7, <3>1, ZenonT(40)
<1> SUFFICES ASSUME RefInv, SnapshotsFresh, [Next]_vars PROVE RefInv'
  OBVIOUS
<1>1. IInv' /\ KeptInv'
  BY NextStored, NextTypeOK, NextHeld, NextPatient DEF RefInv, KeptInv, OneLog
<1>2. IInv /\ SyncInv /\ TypeOK
  BY DEF RefInv, IInv
<1>3. CASE \E c \in Clients : \/ Edit(c) \/ GiveUp(c) \/ Deliver(c)
                              \/ \E k \in AllKinds : Send(c, k)
                              \/ \E s \in Slots : Lose(c, s)
  BY <1>1, <1>3, ClientSync, ZenonT(40) DEF RefInv
<1>6. ASSUME NEW c \in Clients, NEW s \in Slots, Push(c, s)
      PROVE  SyncInv'
  <2>1. CASE Fail(c, s) /\ UNCHANGED log
    BY <1>2, <1>6, <2>1, FailSync, ZenonT(40) DEF Push
  <2>2. CASE /\ Admitted(c, req[c][s])
             /\ Store(c, s, Info(c, req[c][s]), Pushables(c, req[c][s], Info(c, req[c][s])))
    BY <1>6, <2>2, <1>StoreSync, ZenonT(40)
  <2> QED
    BY <1>2, <1>6, <2>1, <2>2, PushStores, ZenonT(40)
<1>7. CASE \E c \in Clients, s \in Slots : Push(c, s) \/ Pull(c, s)
  BY <1>1, <1>2, <1>6, <1>7, <1>PullSync, ZenonT(40) DEF RefInv
<1>8. CASE UNCHANGED vars
  BY <1>1, <1>2, <1>8, ZenonT(40) DEF RefInv, SyncInv, vars, server, replica, calls
<1>9. /\ \A c \in Clients : ~NewDocument(c) /\ \A s \in Slots : ~Crash(c, s)
      /\ ~Compact
  BY <1>2 DEF NewDocument, Crash, Compact, OneLog, TypeOK
<1> QED
  BY <1>3, <1>7, <1>8, <1>9, ZenonT(40) DEF Next

(* Every attached replica has applied each change up to its server seq and   *)
(* each of its own changes exactly once, however many requests are lost,     *)
(* retried or overtaken, for a document that is neither compacted, detached, *)
(* removed nor reopened, and as long as no snapshot is built for a request   *)
(* an earlier attempt of which was stored.                                   *)
THEOREM AppliesOnce ==
    ASSUME OneLog
    PROVE  Spec /\ []SnapshotsFresh => []AppliedExactlyOnce
<1>1. Init => RefInv
  BY InitRef
<1>2. RefInv /\ SnapshotsFresh /\ [Next]_vars => RefInv'
  BY NextRef, ZenonT(40)
<1>3. RefInv => AppliedExactlyOnce
  <2> SUFFICES ASSUME RefInv, NEW c \in Clients, NEW x \in Change
               PROVE  applied[c][x] = IF x \in Own(c) THEN 1 ELSE Span(1, cp[c].serverSeq, {})[x]
    BY ZenonT(40) DEF AppliedExactlyOnce
  <2>1. Replica(c, log, cp[c], seq[c], applied[c])
    BY ZenonT(40) DEF RefInv, SyncInv, Synchronised
  <2>2. cp[c].serverSeq \in Nat /\ cp[c].serverSeq <= Len(log) /\ Len(log) \in Nat /\ seq[c] \in Nat
    BY <2>1, LenProperties, BoundsNat DEF RefInv, IInv, TypeOK, SyncInv, Replica
  <2>3. Span(1, cp[c].serverSeq, {})[x] = Count(Among(log, x, 1, cp[c].serverSeq))
    <3>1. Span(1, cp[c].serverSeq, {})[x] = Count(x \notin {} /\ Among(log, x, 1, cp[c].serverSeq))
      BY <2>2, SpanOnce DEF RefInv, IInv, SyncInv
    <3> QED
      BY <3>1, ZenonT(40) DEF Count
  <2>4. x \in Own(c) <=> x[1] = c /\ x[3] <= seq[c]
    <3>1. gen[c] = 1
      BY DEF RefInv, IInv, TypeOK, OneLog
    <3>2. x[3] \in 1..MaxSeq /\ x = <<x[1], 1, x[3]>>
      BY ChangeParts, ZenonT(40)
    <3> QED
      BY <2>2, <3>1, <3>2, BoundsNat DEF Own
  <2>5. x[1] = c /\ Among(log, x, 1, cp[c].serverSeq) => x[3] <= seq[c]
    <3> SUFFICES ASSUME x[1] = c, NEW i \in 1..cp[c].serverSeq, log[i] = x PROVE x[3] <= seq[c]
      BY DEF Among
    <3>1. i \in 1..Len(log)
      BY <2>2
    <3> QED
      BY <2>1, <3>1, ZenonT(40) DEF Replica
  <2>6. applied[c][x] = Count(IF x[1] = c THEN x[3] <= seq[c] ELSE Among(log, x, 1, cp[c].serverSeq))
    BY <2>1 DEF Replica
  <2> QED
    BY <2>3, <2>4, <2>5, <2>6, ZenonT(40) DEF Count
<1> QED
  BY <1>1, <1>2, <1>3, PTL DEF Spec
=============================================================================

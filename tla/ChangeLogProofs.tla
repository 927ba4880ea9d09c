--------------------------- MODULE ChangeLogProofs ---------------------------
(***************************************************************************)
(* That document synchronisation implements ChangeLog, step by step, for   *)
(* any clients, requests, thresholds and bounds: the invariant of          *)
(* SyncProofs tells what the abstract log, positions and counts become.    *)
(* That no snapshot is built for a request of which an earlier attempt was *)
(* stored is a hypothesis, which clients that wait for their replies meet. *)
(***************************************************************************)
EXTENDS AppliedProofs

(* A leaf that names no prover is given to the SMT solver, for 30 s at most. *)
USE SMTT(30)

-----------------------------------------------------------------------------
(* The refinement of ChangeLog. *)

Pair == Clients \X (1..MaxSeq)

\* The state of ChangeLog that CL maps this one to.
Entries == [i \in 1..Len(log) |-> <<log[i][1], log[i][3]>>]
Positions == [c \in Clients |-> cp[c].serverSeq]
Counts == [c \in Clients |-> [x \in Pair |-> applied[c][<<x[1], 1, x[2]>>]]]

OneMore(f, c, y) ==
    [d \in Clients |-> [x \in Pair |-> IF d = c /\ x = y THEN f[d][x] + 1 ELSE f[d][x]]]

NextPairs(c, n, m) == [i \in 1..m |-> <<c, n + i>>]

(* Document synchronisation implements ChangeLog: pushes publish the changes *)
(* of a client once and in order, replies take replicas forward in the log,  *)
(* and everything the retries, lost replies and overtaking requests add is   *)
(* stuttering.                                                               *)
THEOREM Implements ==
    ASSUME OneLog
    PROVE  Spec /\ []SnapshotsFresh => ImplementsChangeLog
<1>InitImplements. Init => CL!Init
  <2> SUFFICES ASSUME Init PROVE CL!Init
    OBVIOUS
  <2>1. Entries = <<>> /\ seq = [c \in Clients |-> 0]
    BY DEF Init, Entries
  <2>2. Positions = [c \in Clients |-> 0]
    BY DEF Init, Positions
  <2>3. Counts = [c \in Clients |-> [x \in Pair |-> 0]]
    <3>1. MaxGens \in Nat \ {0}
      BY BoundsNat
    <3>2. \A x \in Pair : <<x[1], 1, x[2]>> \in Change
      BY <3>1 DEF Pair, Change
    <3> QED
      BY <3>2 DEF Init, Counts, Empty
  <2> QED
    BY <2>1, <2>2, <2>3 DEF CL!Init, CL!Change, Entries, Positions, Counts, Pair
<1>CountedOnce.
  ASSUME NEW f \in [Clients -> [Pair -> Nat]], NEW c \in Clients, NEW y \in Pair,
         NEW g, g = OneMore(f, c, y)
  PROVE  g = [f EXCEPT ![c][y] = @ + 1]
  <2> USE <1>CountedOnce
  <2>2. [f EXCEPT ![c][y] = @ + 1] \in [Clients -> [Pair -> Nat]] /\ g \in [Clients -> [Pair -> Nat]]
    BY DEF OneMore
  <2>1. ASSUME NEW d \in Clients PROVE [f EXCEPT ![c][y] = @ + 1][d] = g[d]
    <3>1. CASE d = c
      <4>1. [f EXCEPT ![c][y] = @ + 1][d] = [f[c] EXCEPT ![y] = f[c][y] + 1]
        BY <3>1
      <4>2. g[d] = [x \in Pair |-> IF x = y THEN f[c][x] + 1 ELSE f[c][x]]
        BY <3>1 DEF OneMore
      <4>3. [f[c] EXCEPT ![y] = f[c][y] + 1] = [x \in Pair |-> IF x = y THEN f[c][x] + 1 ELSE f[c][x]]
        OBVIOUS
      <4> QED
        BY <4>1, <4>2, <4>3
    <3>2. CASE d # c
      <4>1. [f EXCEPT ![c][y] = @ + 1][d] = f[d]
        BY <3>2
      <4>2. g[d] = [x \in Pair |-> f[d][x]]
        BY <3>2 DEF OneMore
      <4>3. f[d] = [x \in Pair |-> f[d][x]]
        BY ZenonT(40)
      <4> QED
        BY <4>1, <4>2, <4>3
    <3> QED
      BY <3>1, <3>2
  <2> QED
    BY <2>1, <2>2, ZenonT(40)
(* An edit makes a change. *)
<1>EditImplements.
  ASSUME OneLog, TypeOK, NEW c \in Clients, Edit(c)
  PROVE  CL!Make(c)
  <2> USE <1>EditImplements
  <2>1. /\ UNCHANGED <<log, cp>> /\ seq[c] < MaxSeq /\ seq' = [seq EXCEPT ![c] = @ + 1]
        /\ seq[c] \in Nat
    BY BoundsNat DEF Edit, server, TypeOK
  <2>2. ASSUME NEW d \in Clients, NEW x \in Pair
        PROVE  applied'[d][<<x[1], 1, x[2]>>] =
                 IF d = c /\ x = <<c, seq[c] + 1>> THEN applied[d][<<x[1], 1, x[2]>>] + 1
                 ELSE applied[d][<<x[1], 1, x[2]>>]
    <3>1. gen[c] = 1
      BY DEF OneLog, TypeOK
    <3>2. <<x[1], 1, x[2]>> \in Change /\ x = <<x[1], x[2]>>
      BY DEF Pair, Change, OneLog
    <3>3. <<x[1], 1, x[2]>> = <<c, 1, seq[c] + 1>> <=> x = <<c, seq[c] + 1>>
      BY <3>2
    <3> QED
      BY <3>1, <3>2, <3>3 DEF Edit, TypeOK, Plus, Once
  <2>3. Counts' = [Counts EXCEPT ![c][<<c, seq[c] + 1>>] = @ + 1]
    <3>1. <<c, seq[c] + 1>> \in Pair
      BY <2>1, BoundsNat DEF Pair
    <3>2. PICK y \in Pair : y = <<c, seq[c] + 1>>
      BY <3>1
    <3>3. Counts' = [d \in Clients |-> [x \in Pair |->
                       IF d = c /\ x = y THEN Counts[d][x] + 1 ELSE Counts[d][x]]]
      BY <2>2, <3>2 DEF Counts
    <3>4. Counts \in [Clients -> [Pair -> Nat]]
      <4>1. \A x \in Pair : <<x[1], 1, x[2]>> \in Change
        BY DEF Pair, Change, OneLog
      <4> QED
        BY <4>1 DEF Counts, TypeOK
    <3>5. Counts' = [Counts EXCEPT ![c][y] = @ + 1]
      <4>1. PICK f \in [Clients -> [Pair -> Nat]] : f = Counts
        BY <3>4, ZenonT(40)
      <4>2. Counts' = OneMore(f, c, y)
        BY <3>3, <4>1, ZenonT(40) DEF OneMore
      <4>3. Counts' = [f EXCEPT ![c][y] = @ + 1]
        BY <4>2, <1>CountedOnce
      <4> QED
        BY <4>1, <4>3, ZenonT(40)
    <3> QED
      BY <3>2, <3>5
  <2>4. Entries' = Entries /\ Positions' = Positions
    BY <2>1 DEF Entries, Positions
  <2> QED
    BY <2>1, <2>3, <2>4, ZenonT(40) DEF CL!Make, Entries, Positions, Counts, Pair, CL!Change
<1>NextPairsType.
  ASSUME NEW c \in Clients, NEW n \in Nat, NEW m \in Nat, n + m <= MaxSeq
  PROVE  /\ NextPairs(c, n, m) \in Seq(Pair) /\ Len(NextPairs(c, n, m)) = m
         /\ \A i \in 1..m : NextPairs(c, n, m)[i] = <<c, n + i>>
  <2> USE <1>NextPairsType
  <2>1. \A i \in 1..m : <<c, n + i>> \in Pair
    BY BoundsNat DEF Pair
  <2>2. /\ NextPairs(c, n, m) \in [1..m -> Pair]
        /\ \A i \in 1..m : NextPairs(c, n, m)[i] = <<c, n + i>>
    BY <2>1 DEF NextPairs
  <2>3. NextPairs(c, n, m) \in Seq(Pair)
    BY <2>2, SeqDef
  <2>4. Len(NextPairs(c, n, m)) \in Nat /\ DOMAIN NextPairs(c, n, m) = 1..Len(NextPairs(c, n, m))
    BY <2>3, LenProperties
  <2>5. Len(NextPairs(c, n, m)) = m
    BY <2>2, <2>4
  <2> QED
    BY <2>2, <2>3, <2>5
(* A push publishes the next changes of its client, if it stores any. *)
<1>StoreImplements.
  ASSUME OneLog, RefInv, NEW c \in Clients, NEW s \in Slots, Push(c, s), Admitted(c, req[c][s]),
         Store(c, s, Info(c, req[c][s]), Pushables(c, req[c][s], Info(c, req[c][s])))
  PROVE  CL!Publish(c) \/ UNCHANGED CL!vars
  <2> USE <1>StoreImplements
  <2>1. PICK r \in Request, info \in Row : r = req[c][s] /\ info = Info(c, r)
    BY InfoType DEF RefInv, IInv, TypeOK
  <2>2. PICK n \in 0..MaxSeq :
               /\ n = info.clientSeq /\ r.from <= n
               /\ \A x \in Change : x[1] = c => (Stored(x) <=> x[3] <= n)
    BY <2>1, OwnStored, ZenonT(40)
  <2>3. r.to \in Nat /\ r.to <= seq[c] /\ seq[c] \in 0..MaxSeq /\ r.from \in Nat /\ r.gen = 1
    <3>1. r.to \in 0..MaxSeq /\ r.from \in 0..MaxSeq /\ r.gen \in 1..MaxGens
      BY DEF Request
    <3>2. seq[c] \in 0..MaxSeq
      BY ZenonT(40) DEF RefInv, IInv, TypeOK
    <3>3. r.to <= seq[c]
      BY <2>1, ZenonT(40) DEF RefInv, SyncInv, Synchronised, Serviced, Push
    <3> QED
      BY <3>1, <3>2, <3>3, BoundsNat DEF OneLog
  <2>4. UNCHANGED <<cp, seq, applied>> /\ log' = log \o Pushables(c, r, info)
    BY <2>1, ZenonT(40) DEF Push, replica, Store
  <2>5. Positions' = Positions /\ Counts' = Counts
    BY <2>4, ZenonT(40) DEF Positions, Counts
  <2>6. Pushables(c, r, info) = [i \in 1..Max2(0, r.to - n) |-> <<c, 1, n + i>>]
    <3>1. Max2(r.from, info.clientSeq) = n
      BY <2>2, <2>3, BoundsNat DEF Max2
    <3> QED
      BY <2>3, <3>1, ZenonT(40) DEF Pushables
  <2>7. CASE r.to <= n
    <3>1. Pushables(c, r, info) = <<>>
      BY <2>3, <2>6, <2>7, BoundsNat DEF Max2
    <3>2. log' = log
      BY <2>4, <3>1, ConcatEmptySeq, ZenonT(40) DEF RefInv, SyncInv
    <3>3. Entries' = Entries
      BY <3>2 DEF Entries
    <3> QED
      BY <2>4, <2>5, <3>3, ZenonT(40) DEF CL!vars, Entries, Positions, Counts, Pair
  <2>8. CASE ~(r.to <= n)
    <3>1. PICK m \in 1..(seq[c] - n) : m = r.to - n /\ Max2(0, r.to - n) = m
      BY <2>3, <2>8, BoundsNat DEF Max2
    <3>2. n \in 0..seq[c]
      BY <2>3, <2>8, BoundsNat
    <3>3. log \in Seq(Change) /\ Len(log) \in Nat /\ m \in Nat
      BY <2>3, BoundsNat, LenProperties DEF RefInv, SyncInv
    <3>4. PICK changes \in Seq(Change) : /\ log' = log \o changes /\ Len(changes) = m
                                         /\ \A i \in 1..m : changes[i] = <<c, 1, n + i>>
      <4>1. PICK changes \in Seq(Change) : changes = Pushables(c, r, info)
        BY PushablesType, ZenonT(40)
      <4>2. changes = [i \in 1..m |-> <<c, 1, n + i>>]
        BY <2>6, <3>1, <4>1, ZenonT(40)
      <4>3. DOMAIN changes = 1..m /\ \A i \in 1..m : changes[i] = <<c, 1, n + i>>
        BY <4>2
      <4>4. DOMAIN changes = 1..Len(changes) /\ Len(changes) \in Nat
        BY LenProperties
      <4>5. Len(changes) = m
        BY <3>3, <4>3, <4>4
      <4> QED
        BY <2>4, <4>1, <4>3, <4>5, ZenonT(40)
    <3>5. PICK pairs \in Seq(Pair) : /\ pairs = NextPairs(c, n, m) /\ Len(pairs) = m
                                     /\ \A i \in 1..m : pairs[i] = <<c, n + i>>
      <4>1. n \in Nat /\ n + m <= MaxSeq
        BY <2>3, <3>1, <3>3, BoundsNat
      <4> QED
        BY <3>3, <4>1, <1>NextPairsType, ZenonT(40)
    <3>6. Entries \in Seq(Pair) /\ Len(Entries) = Len(log)
      <4>1. \A i \in 1..Len(log) : <<log[i][1], log[i][3]>> \in Pair
        <5>1. \A i \in 1..Len(log) : log[i] \in Change
          BY <3>3, LenProperties, ZenonT(40)
        <5> QED
          BY <5>1, ChangeParts, ZenonT(40) DEF Pair
      <4>2. Entries \in [1..Len(log) -> Pair]
        BY <4>1 DEF Entries
      <4>3. Entries \in Seq(Pair)
        BY <3>3, <4>2, SeqDef, ZenonT(40)
      <4> QED
        BY <3>3, <4>2, <4>3, LenProperties
    <3>7. Entries' = Entries \o pairs
      <4>1. /\ Len(log') = Len(log) + m
            /\ \A i \in 1..Len(log') : log'[i] = IF i <= Len(log) THEN log[i]
                                                  ELSE changes[i - Len(log)]
        <5>1. /\ Len(log \o changes) = Len(log) + Len(changes)
              /\ \A i \in 1..(Len(log) + Len(changes)) :
                   (log \o changes)[i] = IF i <= Len(log) THEN log[i] ELSE changes[i - Len(log)]
          BY <3>3, ConcatProperties, ZenonT(40)
        <5> QED
          BY <3>4, <5>1, ZenonT(40)
      <4>2. PICK e \in Seq(Pair) : e = Entries /\ Len(e) = Len(log)
        BY <3>6
      <4>3. /\ e \o pairs \in Seq(Pair) /\ Len(e \o pairs) = Len(log) + m
            /\ \A i \in 1..(Len(log) + m) : (e \o pairs)[i] =
                 IF i <= Len(log) THEN e[i] ELSE pairs[i - Len(log)]
        <5>1. Len(pairs) = m
          BY <3>5
        <5> QED
          <6>1. /\ e \o pairs \in Seq(Pair) /\ Len(e \o pairs) = Len(e) + Len(pairs)
                /\ \A i \in 1..(Len(e) + Len(pairs)) : (e \o pairs)[i] =
                     IF i <= Len(e) THEN e[i] ELSE pairs[i - Len(e)]
            BY ConcatProperties, ZenonT(40)
          <6> QED
            BY <4>2, <5>1, <6>1, ZenonT(40)
      <4>4. e \o pairs \in [1..(Len(log) + m) -> Pair]
        <5>1. e \o pairs \in [1..Len(e \o pairs) -> Pair]
          BY <4>3, LenProperties, ZenonT(40)
        <5> QED
          BY <4>3, <5>1, ZenonT(40)
      <4>5. ASSUME NEW i \in 1..(Len(log) + m)
            PROVE  <<log'[i][1], log'[i][3]>> = (e \o pairs)[i]
        <5>1. CASE i <= Len(log)
          <6>1. i \in 1..Len(log)
            BY <3>3, <5>1
          <6>2. e[i] = <<log[i][1], log[i][3]>>
            BY <4>2, <6>1 DEF Entries
          <6> QED
            BY <4>1, <4>3, <5>1, <6>2, ZenonT(40)
        <5>2. CASE ~(i <= Len(log))
          <6>1. i - Len(log) \in 1..m
            BY <3>3, <5>2
          <6>2. log'[i] = <<c, 1, n + (i - Len(log))>>
            BY <3>4, <4>1, <5>2, <6>1
          <6>3. (e \o pairs)[i] = <<c, n + (i - Len(log))>>
            BY <3>5, <4>3, <5>2, <6>1, ZenonT(40)
          <6> QED
            BY <6>2, <6>3
        <5> QED
          BY <5>1, <5>2, ZenonT(40)
      <4>6. Entries' = [i \in 1..(Len(log) + m) |-> <<log'[i][1], log'[i][3]>>]
        BY <4>1 DEF Entries
      <4>7. e \o pairs = [i \in 1..(Len(log) + m) |-> (e \o pairs)[i]]
        BY <4>4, ZenonT(40)
      <4>8. [i \in 1..(Len(log) + m) |-> <<log'[i][1], log'[i][3]>>]
              = [i \in 1..(Len(log) + m) |-> (e \o pairs)[i]]
        BY <4>5, ZenonT(40)
      <4> QED
        BY <4>2, <4>6, <4>7, <4>8, ZenonT(40)
    <3>8. CL!Published(c, n)
      <4>1. ASSUME NEW i \in 1..n PROVE \E k \in 1..Len(Entries) : Entries[k] = <<c, i>>
        <5>1. <<c, 1, i>> \in Change /\ i <= n
          BY <2>2, BoundsNat DEF Change, OneLog
        <5>2. Stored(<<c, 1, i>>)
          BY <2>2, <5>1, ZenonT(40)
        <5>3. PICK k \in 1..Len(log) : log[k] = <<c, 1, i>>
          BY <5>2 DEF Stored
        <5>4. Entries[k] = <<c, i>>
          BY <5>3 DEF Entries
        <5> QED
          BY <3>6, <5>4
      <4>2. ASSUME NEW k \in 1..Len(Entries), Entries[k][1] = c PROVE Entries[k][2] <= n
        <5>1. k \in 1..Len(log) /\ log[k] \in Change
          BY <3>3, <3>6, LenProperties, ZenonT(40)
        <5>2. Entries[k] = <<log[k][1], log[k][3]>>
          BY <5>1 DEF Entries
        <5>3. Stored(log[k])
          BY <5>1 DEF Stored
        <5> QED
          BY <2>2, <4>2, <5>1, <5>2, <5>3
      <4> QED
        BY <4>1, <4>2, ZenonT(40) DEF CL!Published, Entries
    <3>9. \E a \in 0..seq[c] : \E b \in 1..(seq[c] - a) :
            CL!Published(c, a) /\ Entries' = Entries \o [i \in 1..b |-> <<c, a + i>>]
      BY <3>2, <3>5, <3>7, <3>8, ZenonT(40) DEF NextPairs
    <3> QED
      BY <2>4, <2>5, <3>9, ZenonT(40) DEF CL!Publish, Entries, Positions, Counts, Pair, CL!Change
  <2> QED
    BY <2>7, <2>8, ZenonT(40)
(* A reply takes the replica forward in the log; the invariant says what it  *)
(* has applied before and after.                                             *)
<1>DeliverImplements.
  ASSUME OneLog, RefInv, RefInv', NEW c \in Clients, Deliver(c)
  PROVE  CL!Receive(c)
  <2> USE <1>DeliverImplements
  <2>1. UNCHANGED <<log, seq>> /\ TypeOK /\ TypeOK' /\ StoredOnce /\ log \in Seq(Change)
    BY DEF Deliver, server, RefInv, IInv, SyncInv
  <2>2. PICK p \in Nat, n \in Nat : p = cp[c].serverSeq /\ n = cp'[c].serverSeq /\ p <= n
    <3>1. cp[c].serverSeq \in Nat /\ cp'[c].serverSeq \in Nat
      BY <2>1, ZenonT(40) DEF TypeOK
    <3>2. \E r \in Request : cp'[c].serverSeq = IF r.kind = "pushonly" THEN cp[c].serverSeq
                                                ELSE Max2(cp[c].serverSeq, r.seen)
      BY <2>1, DeliverEffect
    <3>3. \A r \in Request : r.seen \in Nat
      BY DEF Request
    <3> QED
      BY <3>1, <3>2, <3>3 DEF Max2
  <2>3. \A d \in Clients : d # c => cp'[d] = cp[d] /\ applied'[d] = applied[d]
    BY <2>1, DeliverEffect, ZenonT(40)
  <2>4. Replica(c, log, cp[c], seq[c], applied[c]) /\ Replica(c, log, cp'[c], seq[c], applied'[c])
    BY <2>1, ZenonT(40) DEF RefInv, SyncInv, Synchronised
  <2>5. Len(log) \in Nat /\ p <= Len(log) /\ n <= Len(log) /\ Len(Entries) = Len(log)
    <3>1. Len(log) \in Nat
      BY <2>1, LenProperties
    <3>2. Len(Entries) = Len(log)
      BY <3>1 DEF Entries
    <3> QED
      BY <2>2, <2>4, <3>1, <3>2, ZenonT(40) DEF Replica
  <2>6. Positions[c] = p /\ Positions' = [Positions EXCEPT ![c] = n]
    <3>1. Positions[c] = p /\ \A d \in Clients : Positions'[d] = IF d = c THEN n ELSE Positions[d]
      BY <2>2, <2>3 DEF Positions
    <3>2. Positions' = [d \in Clients |-> Positions'[d]] /\ Positions = [d \in Clients |-> Positions[d]]
      BY ZenonT(40) DEF Positions
    <3> QED
      BY <3>1, <3>2, ZenonT(40)
  <2> DEFINE new == {Entries[k] : k \in (p + 1)..n} \ ({c} \X (1..MaxSeq))
  <2>7. ASSUME NEW x \in Pair
        PROVE  applied'[c][<<x[1], 1, x[2]>>] = IF x \in new THEN applied[c][<<x[1], 1, x[2]>>] + 1
                                               ELSE applied[c][<<x[1], 1, x[2]>>]
    <3>1. PICK y \in Change : y = <<x[1], 1, x[2]>> /\ y[1] = x[1] /\ y[3] = x[2]
      <4>1. <<x[1], 1, x[2]>> \in Change
        BY DEF Pair, Change, OneLog
      <4>2. \A a, b : <<a, 1, b>>[1] = a /\ <<a, 1, b>>[3] = b
        OBVIOUS
      <4> QED
        BY <4>1, <4>2, ZenonT(40)
    <3>2. x \in new <=> x[1] # c /\ Among(log, y, p + 1, n)
      <4>1. x \in {c} \X (1..MaxSeq) <=> x[1] = c
        BY DEF Pair
      <4>2. \A k \in (p + 1)..n : Entries[k] = x <=> log[k] = y
        <5> SUFFICES ASSUME NEW k \in (p + 1)..n PROVE Entries[k] = x <=> log[k] = y
          OBVIOUS
        <5>1. k \in 1..Len(log)
          BY <2>5
        <5>2. log[k] \in Change /\ Entries[k] = <<log[k][1], log[k][3]>>
          BY <2>1, <5>1, LenProperties, ZenonT(40) DEF Entries
        <5>3. log[k] = <<log[k][1], 1, log[k][3]>> /\ x = <<x[1], x[2]>>
          BY <5>2, ChangeParts DEF Pair
        <5> QED
          BY <3>1, <5>2, <5>3
      <4>3. x \in {Entries[k] : k \in (p + 1)..n} <=> Among(log, y, p + 1, n)
        BY <4>2, ZenonT(40) DEF Among
      <4> QED
        BY <4>1, <4>3
    <3>3. /\ applied[c][y] = Count(IF y[1] = c THEN y[3] <= seq[c] ELSE Among(log, y, 1, p))
          /\ applied'[c][y] = Count(IF y[1] = c THEN y[3] <= seq[c] ELSE Among(log, y, 1, n))
      BY <2>2, <2>4 DEF Replica
    <3>4. /\ Among(log, y, 1, n) <=> Among(log, y, 1, p) \/ Among(log, y, p + 1, n)
          /\ ~(Among(log, y, 1, p) /\ Among(log, y, p + 1, n))
      BY <2>1, <2>2, <2>5, AmongSplit, ZenonT(40)
    <3> HIDE DEF new
    <3> QED
      BY <3>1, <3>2, <3>3, <3>4 DEF Count
  <2>8. Counts' = [Counts EXCEPT ![c] =
                     [x \in Pair |-> IF x \in new THEN @[x] + 1 ELSE @[x]]]
    <3> HIDE DEF new
    <3>1. PICK f : f = [x \in Pair |-> IF x \in new THEN Counts[c][x] + 1 ELSE Counts[c][x]]
      BY ZenonT(40)
    <3>2. Counts' = [Counts EXCEPT ![c] = f]
      <4>1. f = [x \in Pair |-> applied'[c][<<x[1], 1, x[2]>>]]
        BY <2>7, <3>1 DEF Counts
      <4> QED
        <5>1. \A d \in Clients : Counts'[d] = IF d = c THEN f ELSE Counts[d]
          <6>1. Counts'[c] = f
            BY <4>1 DEF Counts
          <6>2. \A d \in Clients : d # c => Counts'[d] = Counts[d]
            BY <2>3, ZenonT(40) DEF Counts
          <6> QED
            BY <6>1, <6>2
        <5>2. Counts' = [d \in Clients |-> Counts'[d]] /\ Counts = [d \in Clients |-> Counts[d]]
          BY ZenonT(40) DEF Counts
        <5> QED
          BY <5>1, <5>2, ZenonT(40)
    <3> QED
      BY <3>1, <3>2, ZenonT(40)
  <2>9. Entries' = Entries
    BY <2>1 DEF Entries
  <2>10. n \in p..Len(Entries)
    BY <2>2, <2>5
  <2>11. \E k \in Positions[c]..Len(Entries) :
            /\ Positions' = [Positions EXCEPT ![c] = k]
            /\ Counts' = [Counts EXCEPT ![c] =
                 [x \in Pair |-> IF x \in {Entries[i] : i \in (Positions[c] + 1)..k} \ ({c} \X (1..MaxSeq))
                                 THEN @[x] + 1 ELSE @[x]]]
    BY <2>6, <2>8, <2>10, ZenonT(40)
  <2> QED
    BY <2>1, <2>9, <2>11, ZenonT(40) DEF CL!Receive, CL!Change, Entries, Positions, Counts, Pair
(* All the other steps are invisible. *)
<1>StutterImplements.
  ASSUME UNCHANGED <<log, cp, seq, applied>>
  PROVE  UNCHANGED CL!vars
  BY <1>StutterImplements DEF CL!vars
<1>1. Init => RefInv /\ CL!Init
  BY InitRef, <1>InitImplements
<1>2. RefInv /\ SnapshotsFresh /\ [Next]_vars => RefInv'
  BY NextRef, ZenonT(40)
<1>3. RefInv /\ RefInv' /\ [Next]_vars => [CL!Next]_(CL!vars)
  <2> SUFFICES ASSUME RefInv, RefInv', [Next]_vars PROVE CL!Next \/ UNCHANGED CL!vars
    OBVIOUS
  <2>1. IInv /\ TypeOK
    BY DEF RefInv, IInv
  <2>2. CASE \E c \in Clients : Edit(c) \/ Deliver(c)
    BY <2>1, <2>2, <1>EditImplements, <1>DeliverImplements, ZenonT(40) DEF CL!Next
  <2>3. ASSUME NEW c \in Clients, NEW s \in Slots, Push(c, s)
        PROVE  CL!Next \/ UNCHANGED CL!vars
    <3>1. CASE UNCHANGED log
      BY <2>3, <3>1, <1>StutterImplements, ZenonT(40) DEF Push, replica
    <3>2. CASE /\ Admitted(c, req[c][s])
               /\ Store(c, s, Info(c, req[c][s]), Pushables(c, req[c][s], Info(c, req[c][s])))
      BY <2>3, <3>2, <1>StoreImplements DEF CL!Next
    <3> QED
      BY <2>1, <2>3, <3>1, <3>2, PushStores, ZenonT(40)
  <2>4. CASE UNCHANGED <<log, cp, seq, applied>>
    BY <2>4, <1>StutterImplements, ZenonT(40)
  <2>5. ASSUME NEW c \in Clients,
               \/ GiveUp(c) \/ \E k \in AllKinds : Send(c, k)
               \/ \E s \in Slots : Pull(c, s) \/ Lose(c, s) \/ Crash(c, s)
        PROVE  UNCHANGED <<log, cp, seq, applied>>
    <3>1. CASE GiveUp(c) \/ \E s \in Slots : Lose(c, s) \/ Crash(c, s)
      BY <3>1, ZenonT(40) DEF GiveUp, Lose, Crash, server, replica
    <3>2. CASE \E k \in AllKinds : Send(c, k)
      BY <2>1, <3>2, SendEffect, ZenonT(40)
    <3>3. CASE \E s \in Slots : Pull(c, s)
      BY <3>3 DEF Pull, replica
    <3> QED
      BY <2>5, <3>1, <3>2, <3>3, ZenonT(40)
  <2>6. CASE UNCHANGED vars
    BY <2>4, <2>6 DEF vars, server, replica
  <2>7. ~Compact /\ \A c \in Clients : ~NewDocument(c)
    BY <2>1 DEF NewDocument, Compact, OneLog, TypeOK
  <2> QED
    BY <2>2, <2>3, <2>4, <2>5, <2>6, <2>7, ZenonT(40) DEF Next
<1> QED
  BY <1>1, <1>2, <1>3, PTL DEF Spec, ImplementsChangeLog, CL!Spec

-----------------------------------------------------------------------------
(* Patient clients.  The row of an attached Document counts what its         *)
(* checkpoint confirms until a reply is on its way, so that a request starts *)
(* where the row ends and no snapshot meets changes of an earlier attempt.   *)

FreshClient(st, p, n, q) ==
    /\ st = "detached" => p.serverSeq = 0 /\ p.clientSeq = 0
    /\ st = "detached" \/ n = p.clientSeq \/ \E s \in Slots : q[s].pc = "replied"
    /\ \A s \in Slots :
         /\ q[s].pc = "pushed" => q[s].info.clientSeq = q[s].from /\ n <= q[s].from
         /\ q[s].pc = "replied" => n = q[s].acked /\ p.clientSeq <= n

FreshInv ==
    \A c \in Clients : FreshClient(status[c], cp[c], row[c].clientSeq, req[c])

LEMMA NextFresh ==
    ASSUME OneLog, Impatient = {}
    PROVE  RefInv /\ FreshInv /\ [Next]_vars => FreshInv'
<1>OneFresh.
  ASSUME FreshInv, NEW c \in Clients,
         \A d \in Clients : d # c => /\ req'[d] = req[d] /\ cp'[d] = cp[d]
                                     /\ row'[d] = row[d] /\ status'[d] = status[d],
         FreshClient(status'[c], cp'[c], row'[c].clientSeq, req'[c])
  PROVE  FreshInv'
  BY <1>OneFresh, ZenonT(40) DEF FreshInv
<1>FailFresh.
  ASSUME TypeOK, PatientInv, FreshInv, NEW c \in Clients, NEW s \in Slots, Fail(c, s),
         req[c][s].pc \in {"sent", "pushed"}, UNCHANGED <<status, cp>>,
         \A d \in Clients : d # c => row'[d] = row[d],
         row'[c] = row[c] \/ status[c] = "detached"
  PROVE  FreshInv'
  <2> USE <1>FailFresh
  <2>1. \A t \in Slots : t # s => req[c][t].pc = "free"
    BY DEF PatientInv, PatientClient
  <2>2. /\ \A d \in Clients : d # c => req'[d] = req[d]
        /\ \A t \in Slots : req'[c][t].pc = "free"
    BY <2>1, FailEffect, FreeFields DEF OnlyRequest
  <2>3. status[c] = "detached" \/ row[c].clientSeq = cp[c].clientSeq
    BY <2>1, ZenonT(40) DEF FreshInv, FreshClient
  <2>4. FreshClient(status'[c], cp'[c], row'[c].clientSeq, req'[c])
    BY <2>2, <2>3, ZenonT(40) DEF FreshInv, FreshClient
  <2> QED
    BY <2>2, <2>4, <1>OneFresh, ZenonT(40)
<1>ClientFresh.
  ASSUME IInv, PatientInv, FreshInv, NEW c \in Clients,
         Deliver(c) \/ \E k \in AllKinds : Send(c, k)
  PROVE  FreshInv'
  <2> USE <1>ClientFresh
  <2>0. TypeOK
    BY ZenonT(40) DEF IInv
  <2>1. CASE Deliver(c)
    <3>1. PICK s \in Slots, r \in Request :
                 /\ awaited[c] = s /\ r = req[c][s] /\ r.pc = "replied" /\ OnlyRequest(c, s, Free)
                 /\ cp'[c].clientSeq = Max2(cp[c].clientSeq, r.acked)
                 /\ status'[c] \in {"removed", CASE r.kind = "attach" -> "attached"
                                                 [] r.kind = "detach" -> "detached"
                                                 [] OTHER -> status[c]}
      BY <2>0, <2>1, DeliverEffect, ZenonT(40)
    <3>2. UNCHANGED row /\ \A d \in Clients : d # c => cp'[d] = cp[d] /\ status'[d] = status[d]
      BY <2>0, <2>1, DeliverEffect, ZenonT(40)
    <3>3. \A t \in Slots : req'[c][t].pc = "free"
      BY <3>1, FreeFields DEF PatientInv, PatientClient, OnlyRequest
    <3>4. status'[c] # "detached"
      <4>1. r.kind \in {"attach", "sync", "pushonly"} /\ (r.kind = "attach" <=> status[c] = "detached")
        BY <3>1 DEF IInv, KindsSent, PatientInv, PatientClient
      <4> QED
        BY <3>1, <4>1, ZenonT(40)
    <3>5. row[c].clientSeq = r.acked /\ cp[c].clientSeq <= r.acked
      BY <3>1, ZenonT(40) DEF FreshInv, FreshClient
    <3>6. cp'[c].clientSeq = row'[c].clientSeq
      <4>1. cp[c].clientSeq \in Nat /\ r.acked \in Nat
        BY <2>0, BoundsNat DEF TypeOK, Request
      <4> QED
        BY <3>1, <3>2, <3>5, <4>1 DEF Max2
    <3>7. FreshClient(status'[c], cp'[c], row'[c].clientSeq, req'[c])
      BY <3>3, <3>4, <3>6, ZenonT(40) DEF FreshClient
    <3> QED
      BY <3>1, <3>2, <3>7, <1>OneFresh, ZenonT(40) DEF OnlyRequest
  <2>2. ASSUME NEW k \in AllKinds, Send(c, k)
        PROVE  FreshInv'
    <3>1. PICK s \in Slots, r \in Request : OnlyRequest(c, s, r) /\ r.pc = "sent"
      BY <2>0, <2>2, SendEffect
    <3>2. UNCHANGED <<row, status, cp>> /\ awaited[c] = None
      BY <2>0, <2>2, SendEffect, ZenonT(40)
    <3>3. \A t \in Slots : req[c][t].pc = "free"
      BY <3>2, NoneIsNoSlot, ZenonT(40) DEF PatientInv, PatientClient
    <3>4. \A t \in Slots : req'[c][t].pc \in {"free", "sent"}
      BY <3>1, <3>3, ZenonT(40) DEF OnlyRequest
    <3>5. FreshClient(status'[c], cp'[c], row'[c].clientSeq, req'[c])
      BY <3>2, <3>3, <3>4, ZenonT(40) DEF FreshInv, FreshClient
    <3> QED
      BY <3>1, <3>2, <3>5, <1>OneFresh, ZenonT(40) DEF OnlyRequest
  <2> QED
    BY <2>1, <2>2
(* The handler works with a row that counts what the request starts from. *)
<1>PushFresh.
  ASSUME OneLog, IInv, SyncInv, PatientInv, FreshInv,
         NEW c \in Clients, NEW s \in Slots, Push(c, s)
  PROVE  FreshInv'
  <2> USE <1>PushFresh
  <2>1. /\ TypeOK /\ UNCHANGED <<status, cp>> /\ req[c][s].pc = "sent"
    BY ZenonT(40) DEF IInv, Push, replica
  <2>2. /\ awaited[c] = s /\ \A t \in Slots : t # s => req[c][t].pc = "free"
        /\ req[c][s].kind = "attach" <=> status[c] = "detached"
    BY <2>1 DEF PatientInv, PatientClient
  <2>3. /\ \A d \in Clients : d # c => row'[d] = row[d]
        /\ row'[c] = row[c] \/ (status[c] = "detached" /\ row'[c].clientSeq = 0)
    BY <2>1, <2>2, ZenonT(40) DEF Push, NoRow, TypeOK
  <2>4. CASE Fail(c, s)
    BY <2>1, <2>3, <2>4, <1>FailFresh, ZenonT(40)
  <2>5. CASE Store(c, s, Info(c, req[c][s]), Pushables(c, req[c][s], Info(c, req[c][s])))
    <3>1. Pushables(c, req[c][s], Info(c, req[c][s])) \in Seq(Change)
      BY <2>1, InfoType, PushablesType DEF TypeOK
    <3>2. PICK r \in Request, q \in Request :
            /\ r = req[c][s] /\ OnlyRequest(c, s, q)
            /\ q.pc = "pushed" /\ q.from = r.from /\ q.info = Info(c, r)
      BY <2>1, <2>5, <3>1, StoreEffect
    <3>3. r.serverSeq = cp[c].serverSeq /\ r.from = cp[c].clientSeq
      BY <2>1, <2>2, <3>2, NoneIsNoSlot, ZenonT(40) DEF SyncInv, Synchronised, Answered
    <3>4. q.info.clientSeq = r.from /\ row'[c].clientSeq <= r.from
      <4>1. CASE r.kind = "attach"
        <5>1. r.serverSeq = 0 /\ r.from = 0
          BY <2>2, <3>2, <3>3, <4>1, ZenonT(40) DEF FreshInv, FreshClient
        <5>2. Len(log) \in Nat
          BY <2>1, LenProperties, ZenonT(40) DEF TypeOK
        <5>3. q.info.clientSeq = 0
          BY <3>2, <4>1, <5>1, <5>2 DEF Info, Seeded
        <5>4. row[c].clientSeq = 0
          BY <2>1, <2>2, <3>2, <4>1, ZenonT(40) DEF PatientInv, PatientClient
        <5> QED
          BY <2>3, <5>1, <5>3, <5>4
      <4>2. CASE r.kind # "attach"
        <5>1. q.info = row[c] /\ status[c] # "detached"
          BY <2>2, <3>2, <4>2, ZenonT(40) DEF Info
        <5>2. row[c].clientSeq = cp[c].clientSeq
          BY <2>1, <2>2, <5>1, ZenonT(40) DEF FreshInv, FreshClient
        <5>3. row[c].clientSeq \in Nat
          BY <2>1, BoundsNat DEF TypeOK, Row
        <5> QED
          BY <2>3, <3>3, <5>1, <5>2, <5>3
      <4> QED
        BY <4>1, <4>2, ZenonT(40)
    <3>5. status[c] = "detached" \/ row[c].clientSeq = cp[c].clientSeq
      BY <2>1, <2>2, ZenonT(40) DEF FreshInv, FreshClient
    <3>6. FreshClient(status'[c], cp'[c], row'[c].clientSeq, req'[c])
      BY <2>1, <2>2, <2>3, <3>2, <3>4, <3>5, ZenonT(40) DEF FreshInv, FreshClient, OnlyRequest
    <3> QED
      BY <2>1, <2>3, <3>2, <3>6, <1>OneFresh, ZenonT(40) DEF OnlyRequest
  <2> QED
    BY <2>1, <2>4, <2>5, PushStores, ZenonT(40) DEF IInv
<1>PullFresh.
  ASSUME OneLog, IInv, SyncInv, PatientInv, FreshInv,
         NEW c \in Clients, NEW s \in Slots, Pull(c, s)
  PROVE  FreshInv'
  <2> USE <1>PullFresh
  <2>1. /\ TypeOK /\ UNCHANGED <<status, cp>> /\ req[c][s].pc = "pushed"
    BY DEF IInv, Pull, replica
  <2>2. /\ awaited[c] = s /\ \A t \in Slots : t # s => req[c][t].pc = "free"
    BY <2>1 DEF PatientInv, PatientClient
  <2>3. CASE Fail(c, s) /\ UNCHANGED row
    BY <2>1, <2>3, <1>FailFresh, ZenonT(40)
  <2>4. ASSUME NEW n \in Nat, NEW b \in BOOLEAN, NEW m \in [Change -> Nat], Finish(c, s, n, b, m)
        PROVE  FreshInv'
    <3>1. PICK r \in Request, q \in Request :
            /\ r = req[c][s] /\ OnlyRequest(c, s, q) /\ q.pc = "replied" /\ q.acked = r.acked
      BY <2>1, <2>2, <2>4, FinishEffect
    <3>2. row'[c] = RowAfter(c, r, n) /\ \A d \in Clients : d # c => row'[d] = row[d]
      BY <2>1, <2>4, <3>1, FinishEffect
    <3>3. /\ r.from \in Nat /\ r.to \in Nat /\ r.acked \in Nat /\ r.info.clientSeq \in Nat
          /\ row[c].clientSeq \in Nat
      <4>1. r.info \in Row /\ row[c] \in Row
        BY <2>1 DEF TypeOK, Request
      <4>2. \A w \in Row : w.clientSeq \in Nat
        BY BoundsNat DEF Row
      <4>3. r.from \in Nat /\ r.to \in Nat /\ r.acked \in Nat
        BY BoundsNat DEF Request
      <4> QED
        BY <4>1, <4>2, <4>3
    <3>4. /\ r.info.clientSeq = r.from /\ row[c].clientSeq <= r.from
          /\ r.from = cp[c].clientSeq
      <4>1. r.pc = "pushed" /\ awaited[c] # None
        BY <2>1, <2>2, <3>1, NoneIsNoSlot, ZenonT(40)
      <4>2. Answered(c, log, cp[c], seq[c], r)
        BY <2>2, <3>1, <4>1, ZenonT(40) DEF SyncInv, Synchronised
      <4>3. FreshClient(status[c], cp[c], row[c].clientSeq, req[c])
        BY ZenonT(40) DEF FreshInv
      <4> QED
        BY <3>1, <4>1, <4>2, <4>3, ZenonT(40) DEF FreshClient, Answered
    <3>5. r.from <= r.to /\ (r.acked = r.to \/ r.acked = r.info.clientSeq)
      BY <2>1, <3>1, ZenonT(40) DEF SyncInv, Synchronised, Serviced
    <3>6. row'[c].clientSeq = r.acked /\ cp[c].clientSeq <= r.acked
      <4>1. r.kind \in {"attach", "sync", "pushonly"}
        BY <3>1 DEF IInv, KindsSent
      <4>2. row'[c].clientSeq = Max2(r.acked, row[c].clientSeq)
        BY <3>2, <4>1 DEF RowAfter
      <4> QED
        BY <3>3, <3>4, <3>5, <4>2 DEF Max2
    <3>7. FreshClient(status'[c], cp'[c], row'[c].clientSeq, req'[c])
      BY <2>1, <2>2, <3>1, <3>6 DEF FreshInv, FreshClient, OnlyRequest
    <3> QED
      BY <2>1, <3>1, <3>2, <3>7, <1>OneFresh, ZenonT(40) DEF OnlyRequest
  <2> QED
    BY <2>1, <2>3, <2>4, PullCases, ZenonT(40)
<1> SUFFICES ASSUME RefInv, FreshInv, [Next]_vars PROVE FreshInv'
  OBVIOUS
<1>1. IInv /\ SyncInv /\ TypeOK /\ PatientInv
  BY ZenonT(40) DEF RefInv, IInv, KeptInv
<1>2. CASE \E c \in Clients : Edit(c)
  BY <1>2, ZenonT(40) DEF Edit, server, calls, FreshInv
<1>3. CASE \E c \in Clients : Deliver(c) \/ \E k \in AllKinds : Send(c, k)
  BY <1>1, <1>3, <1>ClientFresh, ZenonT(40)
<1>4. CASE \E c \in Clients, s \in Slots : Push(c, s) \/ Pull(c, s)
  BY <1>1, <1>4, <1>PushFresh, <1>PullFresh, ZenonT(40)
<1>5. CASE \E c \in Clients, s \in Slots : Lose(c, s)
  BY <1>1, <1>5 DEF Lose, PatientInv, PatientClient
<1>6. CASE UNCHANGED vars
  BY <1>6 DEF vars, server, replica, calls, FreshInv
<1>7. /\ \A c \in Clients : ~NewDocument(c) /\ ~GiveUp(c) /\ \A s \in Slots : ~Crash(c, s)
      /\ ~Compact
  BY <1>1 DEF NewDocument, GiveUp, Crash, Compact, OneLog, TypeOK
<1> QED
  BY <1>2, <1>3, <1>4, <1>5, <1>6, <1>7, ZenonT(40) DEF Next

(* When clients wait for their replies, pullPack builds a snapshot only for  *)
(* requests none of whose changes the row has counted.                       *)
THEOREM PatientSnapshots ==
    ASSUME OneLog, Impatient = {}
    PROVE  Spec => []SnapshotsFresh
<1>1. Init => RefInv /\ FreshInv
  <2>1. Init => FreshInv
    BY FreeFields DEF Init, FreshInv, FreshClient
  <2> QED
    BY <2>1, InitRef, ZenonT(40)
<1>2. FreshInv => SnapshotsFresh
  BY DEF FreshInv, FreshClient, SnapshotsFresh, InService
<1>3. RefInv /\ FreshInv /\ [Next]_vars => RefInv' /\ FreshInv'
  BY <1>2, NextRef, NextFresh
<1> QED
  BY <1>1, <1>2, <1>3, PTL DEF Spec

(* Clients that wait for their replies apply every change exactly once,      *)
(* snapshots or not.                                                         *)
THEOREM PatientAppliesOnce ==
    ASSUME OneLog, Impatient = {}
    PROVE  Spec => []AppliedExactlyOnce
BY AppliesOnce, PatientSnapshots, PTL

(* With clients that wait for their replies, synchronisation implements      *)
(* ChangeLog outright.                                                       *)
THEOREM PatientImplements ==
    ASSUME OneLog, Impatient = {}
    PROVE  Spec => ImplementsChangeLog
BY Implements, PatientSnapshots, PTL
=============================================================================

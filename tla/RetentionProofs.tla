-------------------------- MODULE RetentionProofs --------------------------
(***************************************************************************)
(* What the server keeps, proved of PushPull for every value of its        *)
(* constants: with handlers that crash between the push and the update of  *)
(* the row, forced compactions, detached, removed and reopened Documents   *)
(* and requests that overtake each other.                                  *)
(***************************************************************************)
EXTENDS HeldProofs

(* A leaf that names no prover is given to the SMT solver, for 30 s at most. *)
USE SMTT(30)

-----------------------------------------------------------------------------
(* Clients that wait for their replies have one request at a time, and a     *)
(* detached Document one that the server counts nothing of.                  *)

LEMMA NextPatient ==
    ASSUME Impatient = {}, TypeOK, PatientInv, [Next]_vars
    PROVE  PatientInv'
(* A handler that ends without a reply leaves its client with no request. *)
<1>FailPatient.
  ASSUME TypeOK, PatientInv, NEW c \in Clients, NEW s \in Slots, Fail(c, s),
         req[c][s].pc \in {"sent", "pushed"}, UNCHANGED status,
         \A d \in Clients : d # c => row'[d] = row[d],
         row'[c] = row[c] \/ row'[c].clientSeq = 0
  PROVE  PatientInv'
  <2> USE <1>FailPatient
  <2>1. awaited[c] = s /\ \A t \in Slots : t # s => req[c][t].pc = "free"
    BY DEF PatientInv, PatientClient
  <2>2. /\ \A d \in Clients : d # c => req'[d] = req[d] /\ awaited'[d] = awaited[d]
        /\ \A t \in Slots : req'[c][t].pc = "free"
    BY <2>1, FailEffect, FreeFields DEF OnlyRequest
  <2>3. status[c] # "detached" \/ row[c].clientSeq = 0
    BY <2>1 DEF PatientInv, PatientClient
  <2> QED
    BY <2>2, <2>3 DEF PatientInv, PatientClient
<1>ClientPatient.
  ASSUME TypeOK, PatientInv, NEW c \in Clients,
         Deliver(c) \/ \E k \in AllKinds : Send(c, k)
  PROVE  PatientInv'
  <2> USE <1>ClientPatient
  <2>1. CASE Deliver(c)
    <3>1. PICK s \in Slots, r \in Request :
                 /\ awaited[c] = s /\ r = req[c][s] /\ r.pc = "replied" /\ OnlyRequest(c, s, Free)
                 /\ status'[c] \in {"removed", CASE r.kind = "attach" -> "attached"
                                                 [] r.kind = "detach" -> "detached"
                                                 [] OTHER -> status[c]}
      BY <2>1, DeliverEffect
    <3>2. \A t \in Slots : req'[c][t].pc = "free"
      BY <3>1, FreeFields DEF PatientInv, PatientClient, OnlyRequest
    <3>3. \A d \in Clients : d # c => /\ req'[d] = req[d] /\ awaited'[d] = awaited[d]
                                      /\ status'[d] = status[d]
      BY <2>1, <3>1, DeliverEffect DEF OnlyRequest
    <3>4. UNCHANGED row
      BY <2>1, DeliverEffect
    <3>5. status'[c] = "detached" => row[c].clientSeq = 0
      <4>1. status'[c] = "detached" => r.kind = "detach" \/ (r.kind # "attach" /\ status[c] = "detached")
        BY <3>1
      <4> QED
        BY <3>1, <4>1 DEF PatientInv, PatientClient
    <3> QED
      BY <3>2, <3>3, <3>4, <3>5 DEF PatientInv, PatientClient
  <2>2. ASSUME NEW k \in AllKinds, Send(c, k)
        PROVE  PatientInv'
    <3>1. PICK s \in Slots, r \in Request :
                 /\ OnlyRequest(c, s, r) /\ r.pc = "sent" /\ r.kind = k
                 /\ awaited'[c] = s /\ \A d \in Clients : d # c => awaited'[d] = awaited[d]
      BY <2>2, SendEffect
    <3>2. /\ UNCHANGED <<row, status>> /\ awaited[c] = None
          /\ status[c] = IF k = "attach" THEN "detached" ELSE "attached"
      BY <2>2, SendEffect
    <3>3. \A t \in Slots : req[c][t].pc = "free"
      BY <3>2, NoneIsNoSlot DEF PatientInv, PatientClient
    <3>4. status[c] # "detached" \/ row[c].clientSeq = 0
      BY <3>3 DEF PatientInv, PatientClient
    <3> QED
      BY <3>1, <3>2, <3>3, <3>4 DEF PatientInv, PatientClient, OnlyRequest
  <2> QED
    BY <2>1, <2>2
<1>ServerPatient.
  ASSUME TypeOK, PatientInv, NEW c \in Clients, NEW s \in Slots,
         Push(c, s) \/ Pull(c, s) \/ Crash(c, s)
  PROVE  PatientInv'
  <2> USE <1>ServerPatient
  <2>1. UNCHANGED status /\ req[c][s].pc \in {"sent", "pushed"}
    <3>1. CASE Push(c, s)
      BY <3>1 DEF Push, replica
    <3>2. CASE Pull(c, s)
      BY <3>2 DEF Pull, replica
    <3>3. CASE Crash(c, s)
      BY <3>3 DEF Crash, replica, InService
    <3> QED
      BY <3>1, <3>2, <3>3
  <2>2. /\ awaited[c] = s /\ \A t \in Slots : t # s => req[c][t].pc = "free"
        /\ req[c][s].kind = "attach" <=> status[c] = "detached"
    BY <2>1 DEF PatientInv, PatientClient
  <2>3. status[c] # "detached" \/ row[c].clientSeq = 0
    BY <2>1, <2>2 DEF PatientInv, PatientClient
  <2>4. CASE Push(c, s)
    <3>1. /\ \A d \in Clients : d # c => row'[d] = row[d]
          /\ row'[c] = row[c] \/ row'[c].clientSeq = 0
      BY <2>4 DEF Push, NoRow, TypeOK
    <3>2. CASE Fail(c, s)
      BY <2>1, <3>1, <3>2, <1>FailPatient
    <3>3. ASSUME NEW changes \in Seq(Change), Store(c, s, Info(c, req[c][s]), changes)
          PROVE  PatientInv'
      <4>1. PICK q \in Request : OnlyRequest(c, s, q) /\ q.pc = "pushed" /\ q.kind = req[c][s].kind
        BY <3>3, StoreEffect
      <4>2. awaited' = awaited
        BY <3>3, StoreEffect
      <4> QED
        BY <2>1, <2>2, <2>3, <3>1, <4>1, <4>2 DEF PatientInv, PatientClient, OnlyRequest
    <3>4. Pushables(c, req[c][s], Info(c, req[c][s])) \in Seq(Change) /\ <<>> \in Seq(Change)
      BY InfoType, PushablesType, EmptySeq DEF TypeOK
    <3> QED
      <4>1. \/ Fail(c, s)
            \/ Store(c, s, Info(c, req[c][s]), <<>>)
            \/ Store(c, s, Info(c, req[c][s]), Pushables(c, req[c][s], Info(c, req[c][s])))
        BY <2>4, PushCases
      <4> QED
        BY <3>2, <3>3, <3>4, <4>1, ZenonT(40)
  <2>5. CASE Pull(c, s)
    <3>1. CASE Fail(c, s) /\ UNCHANGED row
      BY <2>1, <3>1, <1>FailPatient
    <3>2. ASSUME NEW n \in Nat, NEW b \in BOOLEAN, NEW m \in [Change -> Nat], Finish(c, s, n, b, m)
          PROVE  PatientInv'
      <4>1. PICK q \in Request : OnlyRequest(c, s, q) /\ q.pc = "replied" /\ q.kind = req[c][s].kind
        BY <2>2, <3>2, FinishEffect
      <4>2. awaited' = awaited /\ \A d \in Clients : d # c => row'[d] = row[d]
        BY <3>2, FinishEffect
      <4>3. req[c][s].kind = "detach" => row'[c].clientSeq = 0
        <5>1. row'[c] = RowAfter(c, req[c][s], n)
          BY <3>2, FinishEffect
        <5> QED
          BY <5>1 DEF RowAfter, NoRow
      <4> QED
        BY <2>1, <2>2, <4>1, <4>2, <4>3 DEF PatientInv, PatientClient, OnlyRequest
    <3> QED
      BY <2>5, <3>1, <3>2, PullCases
  <2>6. CASE Crash(c, s)
    <3>1. /\ \A d \in Clients : d # c => row'[d] = row[d]
          /\ row'[c] = row[c] \/ row'[c].clientSeq = 0
          /\ Fail(c, s)
      BY <2>6 DEF Crash, NoRow, TypeOK
    <3> QED
      BY <2>1, <3>1, <1>FailPatient
  <2> QED
    BY <2>4, <2>5, <2>6
<1>1. CASE \E c \in Clients : Edit(c) \/ NewDocument(c)
  BY <1>1 DEF Edit, NewDocument, server, calls, PatientInv
<1>2. CASE \E c \in Clients : GiveUp(c)
  BY <1>2 DEF GiveUp
<1>3. CASE \E c \in Clients : Deliver(c) \/ \E k \in AllKinds : Send(c, k)
  BY <1>3, <1>ClientPatient
<1>4. CASE \E c \in Clients, s \in Slots : Push(c, s) \/ Pull(c, s) \/ Crash(c, s)
  BY <1>4, <1>ServerPatient
<1>5. CASE \E c \in Clients, s \in Slots : Lose(c, s)
  BY <1>5 DEF Lose, PatientInv, PatientClient
<1>6. CASE UNCHANGED vars \/ Compact
  <2>1. UNCHANGED <<row, status, req, awaited>>
    BY <1>6 DEF vars, server, replica, calls, Compact
  <2> QED
    BY <2>1 DEF PatientInv
<1> QED
  BY <1>1, <1>2, <1>3, <1>4, <1>5, <1>6 DEF Next

LEMMA InitKept == Init => KeptInv
<1> SUFFICES ASSUME Init PROVE KeptInv
  OBVIOUS
<1>1. \A c \in Clients : 0 \in Held[c]
  BY NothingHeld DEF ZeroHeld
<1>2. \A c \in Clients : /\ cp[c].clientSeq = 0 /\ row[c].clientSeq = 0
                         /\ \A s \in Slots : req[c][s].pc = "free"
  BY FreeFields DEF Init, NoRow
<1>3. HeldInv
  BY <1>1, <1>2 DEF HeldInv, RequestHeld
<1>4. PatientInv
  BY <1>2 DEF PatientInv, PatientClient
<1> QED
  BY <1>3, <1>4, InitTypeOK DEF KeptInv

(* The row never counts a change that is neither in the log nor in the       *)
(* change it was compacted to: pushPack skips nothing that is lost, with     *)
(* crashes between the push and the row's update, forced compactions,        *)
(* detaches, reopened Documents and requests that overtake each other.       *)
THEOREM SkippedStored == Spec => []SkippedIsStored
<1>1. Init => KeptInv
  BY InitKept
<1>2. KeptInv /\ [Next]_vars => KeptInv'
  BY NextTypeOK, NextHeld, NextPatient DEF KeptInv
<1>3. KeptInv => SkippedIsStored
  <2> SUFFICES ASSUME KeptInv, NEW c \in Clients, NEW n \in 1..MaxSeq, n <= row[c].clientSeq
               PROVE  \E g \in 1..gen[c] : Present(<<c, g, n>>)
    BY DEF SkippedIsStored, Present
  <2>1. row[c].clientSeq \in Held[c] /\ row[c].clientSeq \in 0..MaxSeq /\ gen[c] \in Nat \ {0}
    BY BoundsNat DEF KeptInv, HeldInv, TypeOK, Row
  <2>2. n \in 1..row[c].clientSeq
    BY <2>1, BoundsNat
  <2>3. PICK g \in Gens[c] : Present(<<c, g, n>>)
    BY <2>1, <2>2 DEF Held
  <2>4. g \in 1..gen[c]
    BY <2>1 DEF Gens
  <2> QED
    BY <2>3, <2>4
<1> QED
  BY <1>1, <1>2, <1>3, PTL DEF Spec

(* What a client has dropped from its local changes is kept by the server,   *)
(* under the same faults, when clients wait for their replies or open the    *)
(* document once.                                                            *)
THEOREM AckedStored ==
    ASSUME Impatient = {} \/ MaxGens = 1
    PROVE  Spec => []AckedIsStored
<1>1. Init => KeptInv
  BY InitKept
<1>2. KeptInv /\ [Next]_vars => KeptInv'
  BY NextTypeOK, NextHeld, NextPatient DEF KeptInv
<1>3. KeptInv => AckedIsStored
  <2> SUFFICES ASSUME KeptInv, NEW c \in Clients, NEW n \in 1..cp[c].clientSeq
               PROVE  Present(<<c, gen[c], n>>)
    BY DEF AckedIsStored, Present
  <2>1. cp[c].clientSeq \in Held[c] /\ gen[c] \in 1..MaxGens
    BY DEF KeptInv, HeldInv, TypeOK
  <2>2. PICK g \in Gens[c] : Present(<<c, g, n>>)
    BY <2>1 DEF Held
  <2>3. g = gen[c]
    BY <2>1 DEF Gens
  <2> QED
    BY <2>2, <2>3
<1> QED
  BY <1>1, <1>2, <1>3, PTL DEF Spec

-----------------------------------------------------------------------------
(* EpochsDoNotMix.  What it rests on is that a client with a change in the   *)
(* log has a row of the log's epoch, also while a handler that will write    *)
(* the row is between its push and its pull.                                 *)

Logged(c) == \E i \in 1..Len(log) : log[i] \in Change /\ log[i][1] = c

EpochClient(epoch, info, q) ==
    /\ info.status = "attached" => info.epoch = epoch
    /\ \A s \in Slots : q[s].pc = "pushed" /\ q[s].kind \notin {"detach", "remove"}
                          => q[s].info.epoch = epoch

EpochInv == \A c \in Clients : Logged(c) => EpochClient(doc.epoch, row[c], req[c])

(* The changes in the log were made on replicas of the log's epoch: the      *)
(* epoch check of pushPack keeps apart what was made before a compaction and *)
(* what was made after it, forced compactions, crashes, detaches, reopened   *)
(* Documents and overtaking requests included.                               *)
THEOREM EpochsApart == Spec => []EpochsDoNotMix
(* Steps that write neither the log nor a row, and start no handler. *)
<1>QuietEpoch.
  ASSUME TypeOK, EpochInv, UNCHANGED <<log, doc>>,
         \A d \in Clients : row'[d] = row[d] \/ row'[d].status # "attached",
         \A d \in Clients, t \in Slots : req'[d][t].pc = "pushed" => req'[d][t] = req[d][t]
  PROVE  EpochInv'
  <2> USE <1>QuietEpoch
  <2>1. \A d \in Clients : Logged(d)' <=> Logged(d)
    BY DEF Logged
  <2> QED
    BY <2>1 DEF EpochInv, EpochClient
<1>ClientEpoch.
  ASSUME TypeOK, EpochInv, NEW c \in Clients,
         \/ Edit(c) \/ NewDocument(c) \/ GiveUp(c) \/ Deliver(c)
         \/ \E k \in AllKinds : Send(c, k)
         \/ \E s \in Slots : Lose(c, s)
  PROVE  EpochInv'
  <2> USE <1>ClientEpoch
  <2>1. UNCHANGED <<log, doc, row>>
    <3>1. CASE Edit(c) \/ NewDocument(c) \/ GiveUp(c) \/ \E s \in Slots : Lose(c, s)
      BY <3>1 DEF Edit, NewDocument, GiveUp, Lose, server
    <3>2. CASE Deliver(c) \/ \E k \in AllKinds : Send(c, k)
      BY <3>2, DeliverEffect, SendEffect
    <3> QED
      BY <3>1, <3>2
  <2>2. \A d \in Clients, t \in Slots : req'[d][t].pc = "pushed" => req'[d][t] = req[d][t]
    <3>1. CASE Edit(c) \/ NewDocument(c)
      BY <3>1 DEF Edit, NewDocument, calls
    <3>2. CASE GiveUp(c)
      <4>1. \A d \in Clients, t \in Slots : req'[d][t] = req[d][t] \/ req'[d][t] = Free
        BY <3>2 DEF GiveUp, TypeOK
      <4> QED
        BY <4>1, FreeFields
    <3>3. CASE Deliver(c)
      <4>1. \E s \in Slots : OnlyRequest(c, s, Free)
        BY <3>3, DeliverEffect
      <4> QED
        BY <4>1, FreeFields DEF OnlyRequest
    <3>4. CASE \E k \in AllKinds : Send(c, k)
      <4>1. \E s \in Slots, r \in Request : OnlyRequest(c, s, r) /\ r.pc = "sent"
        BY <3>4, SendEffect
      <4> QED
        BY <4>1 DEF OnlyRequest
    <3>5. CASE \E s \in Slots : Lose(c, s)
      <4>1. \A d \in Clients, t \in Slots : req'[d][t] = req[d][t] \/ req'[d][t] = Free
        BY <3>5 DEF Lose, TypeOK
      <4> QED
        BY <4>1, FreeFields
    <3> QED
      BY <3>1, <3>2, <3>3, <3>4, <3>5
  <2> QED
    BY <2>1, <2>2, <1>QuietEpoch
<1>FailEpoch.
  ASSUME TypeOK, EpochInv, NEW c \in Clients, NEW s \in Slots, Fail(c, s), UNCHANGED <<log, doc>>,
         \A d \in Clients : row'[d] = row[d] \/ row'[d].status # "attached"
  PROVE  EpochInv'
  <2> USE <1>FailEpoch
  <2>1. \A d \in Clients, t \in Slots : req'[d][t] = req[d][t] \/ req'[d][t] = Free
    BY FailEffect DEF OnlyRequest
  <2>2. \A d \in Clients, t \in Slots : req'[d][t].pc = "pushed" => req'[d][t] = req[d][t]
    BY <2>1, FreeFields
  <2> QED
    BY <2>2, <1>QuietEpoch
(* Changes are stored only if the row is of the document's epoch; a handler  *)
(* that was given the row of an older one belongs to a client that has no    *)
(* changes in the log.                                                       *)
<1>StoreEpoch.
  ASSUME TypeOK, EpochInv, NEW c \in Clients, NEW s \in Slots, Push(c, s),
         Admitted(c, req[c][s]), NEW changes \in Seq(Change),
         Store(c, s, Info(c, req[c][s]), changes),
         changes = <<>> \/ ~EpochMismatch(Info(c, req[c][s])),
         \A i \in 1..Len(changes) : changes[i][1] = c
  PROVE  EpochInv'
  <2> USE <1>StoreEpoch
  <2>1. PICK r \in Request, q \in Request :
               /\ r = req[c][s] /\ OnlyRequest(c, s, q)
               /\ q.pc = "pushed" /\ q.kind = r.kind /\ q.info = Info(c, r)
    BY StoreEffect
  <2>2. log' = log \o changes /\ doc'.epoch = doc.epoch
    BY StoreEffect
  <2>3. /\ \A d \in Clients : d # c => row'[d] = row[d]
        /\ row'[c] = row[c] \/ row'[c].status # "attached"
        /\ r.kind = "attach" => row'[c].status # "attached"
    BY <2>1 DEF Push, NoRow, TypeOK
  <2>4. \A d \in Clients : Logged(d)' => Logged(d) \/ (d = c /\ changes # <<>>)
    <3> SUFFICES ASSUME NEW d \in Clients, NEW i \in 1..Len(log'),
                        log'[i] \in Change, log'[i][1] = d
                 PROVE  Logged(d) \/ (d = c /\ changes # <<>>)
      BY DEF Logged
    <3>1. log \in Seq(Change \cup {Compacted}) /\ changes \in Seq(Change \cup {Compacted})
      BY SeqDef DEF TypeOK
    <3>2. /\ Len(log) \in Nat /\ Len(changes) \in Nat /\ Len(log') = Len(log) + Len(changes)
          /\ log'[i] = IF i <= Len(log) THEN log[i] ELSE changes[i - Len(log)]
      BY <2>2, <3>1, ConcatProperties
    <3>3. CASE i <= Len(log)
      BY <3>2, <3>3 DEF Logged
    <3>4. CASE ~(i <= Len(log))
      <4>1. i - Len(log) \in 1..Len(changes)
        BY <3>2, <3>4
      <4>2. changes # <<>>
        BY <4>1
      <4> QED
        BY <3>2, <3>4, <4>1, <4>2
    <3> QED
      BY <3>3, <3>4
  <2>5. \A d \in Clients : d # c /\ Logged(d)' => EpochClient(doc.epoch, row[d], req[d])'
    BY <2>1, <2>2, <2>3, <2>4 DEF EpochInv, EpochClient, OnlyRequest
  <2>6. ASSUME Logged(c) \/ changes # <<>>
        PROVE  EpochClient(doc.epoch, row[c], req[c])'
    <3>1. \A t \in Slots : t # s => req'[c][t].pc # "pushed"
      BY <2>1 DEF Push, DocPullKeyFree, InService, OnlyRequest
    <3>2. row[c].status = "attached" /\ r.kind # "attach" => row[c].epoch = doc.epoch
      <4>1. CASE Logged(c)
        BY <4>1 DEF EpochInv, EpochClient
      <4>2. CASE changes # <<>>
        BY <2>1, <4>2 DEF Info, EpochMismatch
      <4> QED
        BY <2>6, <4>1, <4>2
    <3>3. r.kind \notin {"detach", "remove"} => q.info.epoch = doc.epoch
      <4>1. CASE r.kind = "attach"
        BY <2>1, <4>1 DEF Info, Seeded
      <4>2. CASE r.kind \in {"sync", "pushonly"}
        BY <2>1, <3>2, <4>2 DEF Info, Admitted, SyncAdmits
      <4> QED
        BY <2>1, <4>1, <4>2 DEF Request, AllKinds
    <3>4. row'[c].status = "attached" => row'[c].epoch = doc.epoch
      BY <2>3, <3>2
    <3> QED
      BY <2>1, <2>2, <3>1, <3>3, <3>4 DEF EpochClient, OnlyRequest
  <2> QED
    BY <2>4, <2>5, <2>6 DEF EpochInv
<1>PushEpoch.
  ASSUME TypeOK, EpochInv, NEW c \in Clients, NEW s \in Slots, Push(c, s)
  PROVE  EpochInv'
  <2> USE <1>PushEpoch
  <2>1. \A d \in Clients : row'[d] = row[d] \/ row'[d].status # "attached"
    BY DEF Push, NoRow, TypeOK
  <2>2. CASE Fail(c, s) /\ UNCHANGED <<log, doc>>
    BY <2>1, <2>2, <1>FailEpoch
  <2>3. CASE Admitted(c, req[c][s]) /\ Store(c, s, Info(c, req[c][s]), <<>>)
    <3>1. PICK changes \in Seq(Change) : changes = <<>>
      BY EmptySeq, ZenonT(40)
    <3>2. \A i \in 1..Len(changes) : changes[i][1] = c
      BY <3>1
    <3>3. Store(c, s, Info(c, req[c][s]), changes)
      BY <2>3, <3>1
    <3> QED
      BY <2>3, <3>1, <3>2, <3>3, <1>StoreEpoch, ZenonT(40)
  <2>4. CASE /\ Admitted(c, req[c][s])
             /\ ~EpochMismatch(Info(c, req[c][s]))
             /\ Store(c, s, Info(c, req[c][s]), Pushables(c, req[c][s], Info(c, req[c][s])))
    <3>1. PICK r \in Request, info \in Row : r = req[c][s] /\ info = Info(c, r)
      BY InfoType DEF TypeOK
    <3>2. PICK changes \in Seq(Change) : /\ changes = Pushables(c, r, info)
                                         /\ \A i \in 1..Len(changes) : changes[i][1] = c
      BY PushablesType, ZenonT(40)
    <3> QED
      BY <2>4, <3>1, <3>2, <1>StoreEpoch
  <2> QED
    BY <2>2, <2>3, <2>4, PushCases
<1>PullEpoch.
  ASSUME TypeOK, EpochInv, NEW c \in Clients, NEW s \in Slots, Pull(c, s)
  PROVE  EpochInv'
  <2> USE <1>PullEpoch
  <2>1. UNCHANGED <<log, doc>> /\ req[c][s].pc = "pushed"
    BY DEF Pull
  <2>2. CASE Fail(c, s) /\ UNCHANGED row
    BY <2>1, <2>2, <1>FailEpoch
  <2>3. ASSUME NEW n \in Nat, NEW b \in BOOLEAN, NEW m \in [Change -> Nat], Finish(c, s, n, b, m)
        PROVE  EpochInv'
    <3>1. PICK q : OnlyRequest(c, s, q) /\ q.pc # "pushed"
      <4>1. CASE awaited[c] # s
        BY <2>3, <4>1, FinishEffect, FreeFields
      <4>2. CASE awaited[c] = s
        <5>1. \E q \in Request : OnlyRequest(c, s, q) /\ q.pc = "replied"
          BY <2>3, <4>2, FinishEffect
        <5> QED
          BY <5>1
      <4> QED
        BY <4>1, <4>2
    <3>2. row'[c] = RowAfter(c, req[c][s], n) /\ \A d \in Clients : d # c => row'[d] = row[d]
      BY <2>3, FinishEffect
    <3>3. row'[c].status = "attached" =>
            req[c][s].kind \notin {"detach", "remove"} /\ row'[c].epoch = req[c][s].info.epoch
      BY <3>2 DEF RowAfter, NoRow
    <3>4. \A d \in Clients : Logged(d)' <=> Logged(d)
      BY <2>1 DEF Logged
    <3> QED
      BY <2>1, <3>1, <3>2, <3>3, <3>4 DEF EpochInv, EpochClient, OnlyRequest
  <2> QED
    BY <2>2, <2>3, PullCases
<1>CompactEpoch.
  ASSUME Compact
  PROVE  EpochInv'
  <2> USE <1>CompactEpoch
  <2>1. log' = <<>> \/ log' = <<Compacted>>
    BY DEF Compact
  <2>2. \A i \in 1..Len(log') : log'[i] = Compacted
    <3>1. \A x : Len(<<x>>) = 1 /\ <<x>>[1] = x
      OBVIOUS
    <3>2. CASE log' = <<>>
      BY <3>2
    <3>3. CASE log' = <<Compacted>>
      BY <3>1, <3>3
    <3> QED
      BY <2>1, <3>2, <3>3
  <2>3. \A d \in Clients : ~Logged(d)'
    BY <2>2, CompactedIsNoChange DEF Logged
  <2> QED
    BY <2>3 DEF EpochInv
<1>1. Init => TypeOK /\ EpochInv
  <2>1. Init => EpochInv
    BY DEF Init, EpochInv, Logged
  <2> QED
    BY <2>1, InitTypeOK
<1>2. TypeOK /\ EpochInv /\ [Next]_vars => TypeOK' /\ EpochInv'
  <2> SUFFICES ASSUME TypeOK, EpochInv, [Next]_vars PROVE EpochInv'
    BY NextTypeOK
  <2>1. CASE \E c \in Clients : \/ Edit(c) \/ NewDocument(c) \/ GiveUp(c) \/ Deliver(c)
                                \/ \E k \in AllKinds : Send(c, k)
                                \/ \E s \in Slots : Lose(c, s)
    BY <2>1, <1>ClientEpoch
  <2>2. CASE \E c \in Clients, s \in Slots : Push(c, s) \/ Pull(c, s)
    BY <2>2, <1>PushEpoch, <1>PullEpoch
  <2>3. CASE \E c \in Clients, s \in Slots : Crash(c, s)
    <3>1. PICK c \in Clients, s \in Slots : Crash(c, s)
      BY <2>3
    <3>2. /\ UNCHANGED <<log, doc>> /\ Fail(c, s)
          /\ \A d \in Clients : row'[d] = row[d] \/ row'[d].status # "attached"
      BY <3>1 DEF Crash, NoRow, TypeOK
    <3> QED
      BY <3>2, <1>FailEpoch
  <2>4. CASE Compact
    BY <2>4, <1>CompactEpoch
  <2>5. CASE UNCHANGED vars
    BY <2>5, <1>QuietEpoch DEF vars, server, calls
  <2> QED
    BY <2>1, <2>2, <2>3, <2>4, <2>5 DEF Next
<1>3. TypeOK /\ EpochInv => EpochsDoNotMix
  <2> SUFFICES ASSUME TypeOK, EpochInv, NEW i \in 1..Len(log), NEW c \in Clients,
                      row[c].status = "attached",
                      NEW n \in 1..seq[c], log[i] = <<c, gen[c], n>>
               PROVE  row[c].epoch = doc.epoch
    BY DEF EpochsDoNotMix
  <2>1. log[i] \in Change /\ log[i][1] = c
    <3>1. gen[c] \in 1..MaxGens /\ seq[c] \in 0..MaxSeq
      BY DEF TypeOK
    <3> QED
      BY <3>1, BoundsNat DEF Change
  <2> QED
    BY <2>1 DEF EpochInv, EpochClient, Logged
<1> QED
  BY <1>1, <1>2, <1>3, PTL DEF Spec
=============================================================================

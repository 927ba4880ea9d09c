----------------------------- MODULE HeldProofs -----------------------------
(***************************************************************************)
(* What the steps of PushPull do to the requests, and what the document    *)
(* holds of a client: no step takes a change out of the log without        *)
(* keeping what the log is compacted to, and rows, requests, replies and   *)
(* checkpoints count no change that the document does not hold.            *)
(***************************************************************************)
EXTENDS PushPullProofs

(* A leaf that names no prover is given to the SMT solver, for 30 s at most. *)
USE SMTT(30)

-----------------------------------------------------------------------------
(* What the steps do to the requests.                                        *)

\* Of all requests, only slot s of c is written, with r.
OnlyRequest(c, s, r) ==
    /\ req'[c][s] = r
    /\ \A t \in Slots : t # s => req'[c][t] = req[c][t]
    /\ \A d \in Clients : d # c => req'[d] = req[d]

LEMMA FreeFields == Free.pc = "free" /\ Free.kind = "sync" /\ Free.info = NoRow
BY DEF Free

LEMMA SendEffect ==
    ASSUME TypeOK, NEW c \in Clients, NEW k \in AllKinds, Send(c, k)
    PROVE  /\ UNCHANGED <<log, base, doc, row, status, gen, cp, seq, applied>>
           /\ k \in Kinds /\ awaited[c] = None
           /\ status[c] = IF k = "attach" THEN "detached" ELSE "attached"
           /\ \E s \in Slots, r \in Request :
                /\ req[c][s].pc = "free" /\ OnlyRequest(c, s, r)
                /\ r.pc = "sent" /\ r.kind = k /\ r.gen = gen[c]
                /\ r.serverSeq = cp[c].serverSeq /\ r.from = cp[c].clientSeq /\ r.to = seq[c]
                /\ awaited'[c] = s /\ \A d \in Clients : d # c => awaited'[d] = awaited[d]
<1>1. /\ req \in [Clients -> [Slots -> Request]] /\ awaited \in [Clients -> Slots \cup {None}]
      /\ gen[c] \in 1..MaxGens /\ cp[c].serverSeq \in Nat
      /\ cp[c].clientSeq \in 0..MaxSeq /\ seq[c] \in 0..MaxSeq
  BY DEF TypeOK
<1> DEFINE r == [Free EXCEPT !.pc = "sent", !.kind = k, !.gen = gen[c],
                             !.serverSeq = cp[c].serverSeq,
                             !.from = cp[c].clientSeq, !.to = seq[c]]
<1>3. PICK s \in Slots : /\ req[c][s].pc = "free" /\ req' = [req EXCEPT ![c][s] = r]
                         /\ awaited' = [awaited EXCEPT ![c] = s]
  BY ZenonT(40) DEF Send
<1>4. /\ r.pc = "sent" /\ r.kind = k /\ r.gen = gen[c]
      /\ r.serverSeq = cp[c].serverSeq /\ r.from = cp[c].clientSeq /\ r.to = seq[c]
  BY DEF Free
<1> HIDE DEF r
<1>6. /\ UNCHANGED <<log, base, doc, row, status, gen, cp, seq, applied>>
      /\ k \in Kinds /\ awaited[c] = None
      /\ status[c] = IF k = "attach" THEN "detached" ELSE "attached"
  BY DEF Send, server, replica
<1>7. OnlyRequest(c, s, r)
  BY <1>1, <1>3 DEF OnlyRequest
<1>9. TypeOK'
  BY NextTypeOK DEF Next
<1>5. r \in Request
  BY <1>7, <1>9 DEF OnlyRequest, TypeOK
<1>8. awaited'[c] = s /\ \A d \in Clients : d # c => awaited'[d] = awaited[d]
  BY <1>1, <1>3
<1> QED
  BY <1>3, <1>4, <1>5, <1>6, <1>7, <1>8, ZenonT(40)

LEMMA FailEffect ==
    ASSUME TypeOK, NEW c \in Clients, NEW s \in Slots, Fail(c, s)
    PROVE  /\ OnlyRequest(c, s, Free)
           /\ awaited'[c] = IF awaited[c] = s THEN None ELSE awaited[c]
           /\ \A d \in Clients : d # c => awaited'[d] = awaited[d]
BY DEF OnlyRequest, Fail, TypeOK

LEMMA StoreEffect ==
    ASSUME TypeOK, NEW c \in Clients, NEW s \in Slots, NEW changes \in Seq(Change),
           Store(c, s, Info(c, req[c][s]), changes)
    PROVE  /\ log' = log \o changes /\ doc'.epoch = doc.epoch /\ awaited' = awaited
           /\ \E r, q \in Request :
                /\ r = req[c][s] /\ OnlyRequest(c, s, q)
                /\ q.pc = "pushed" /\ q.kind = r.kind /\ q.gen = r.gen
                /\ q.serverSeq = r.serverSeq /\ q.from = r.from /\ q.to = r.to
                /\ q.info = Info(c, r) /\ q.initial = Len(log)
                /\ q.seen = Len(log) + Len(changes)
                /\ q.acked = IF changes = <<>> THEN q.info.clientSeq ELSE r.to
<1>1. PICK r \in Request, info \in Row : r = req[c][s] /\ info = Info(c, r)
  BY InfoType DEF TypeOK
<1>2. PICK q : q = [r EXCEPT !.pc = "pushed", !.info = info, !.initial = Len(log),
                             !.seen = Len(log) + Len(changes),
                             !.acked = IF changes = <<>> THEN info.clientSeq ELSE r.to,
                             !.removed = doc.removed \/ r.kind = "remove"]
  OBVIOUS
<1>3. req' = [req EXCEPT ![c][s] = q] /\ log' = log \o changes /\ awaited' = awaited
  BY <1>1, <1>2 DEF Store
<1>4. doc'.epoch = doc.epoch
  BY DEF Store, TypeOK
<1>5. /\ q.pc = "pushed" /\ q.kind = r.kind /\ q.gen = r.gen
      /\ q.serverSeq = r.serverSeq /\ q.from = r.from /\ q.to = r.to
      /\ q.info = info /\ q.initial = Len(log)
      /\ q.seen = Len(log) + Len(changes)
      /\ q.acked = IF changes = <<>> THEN info.clientSeq ELSE r.to
  BY <1>1, <1>2 DEF Request
<1>6. OnlyRequest(c, s, q)
  BY <1>3 DEF OnlyRequest, TypeOK
<1>7. q \in Request
  <2>1. req' \in [Clients -> [Slots -> Request]]
    BY <1>1, StoreTypeOK, ZenonT(40)
  <2> QED
    BY <1>6, <2>1 DEF OnlyRequest
<1> QED
  <2>1. q.info.clientSeq = info.clientSeq
    BY <1>5
  <2> QED
    BY <1>1, <1>3, <1>4, <1>5, <1>6, <1>7, <2>1, ZenonT(40)

(* A reply that nobody waits for is dropped. *)
LEMMA FinishEffect ==
    ASSUME TypeOK, NEW c \in Clients, NEW s \in Slots, NEW n \in Nat,
           NEW b \in BOOLEAN, NEW m \in [Change -> Nat], Finish(c, s, n, b, m)
    PROVE  /\ row'[c] = RowAfter(c, req[c][s], n)
           /\ \A d \in Clients : d # c => row'[d] = row[d]
           /\ awaited' = awaited
           /\ awaited[c] # s => OnlyRequest(c, s, Free)
           /\ awaited[c] = s =>
                \E r, q \in Request :
                  /\ r = req[c][s] /\ OnlyRequest(c, s, q)
                  /\ q.pc = "replied" /\ q.kind = r.kind /\ q.acked = r.acked
                  /\ q.seen = n /\ q.snapshot = b /\ q.content = m
<1>1. /\ row \in [Clients -> Row] /\ req \in [Clients -> [Slots -> Request]]
      /\ \E r \in Request : r = req[c][s]
  BY DEF TypeOK
<1>2. PICK r \in Request : r = req[c][s]
  BY <1>1
<1> DEFINE q == [Free EXCEPT !.pc = "replied", !.kind = r.kind, !.acked = r.acked,
                             !.seen = n, !.snapshot = b, !.content = m,
                             !.removed = r.removed]
<1>5. /\ q.pc = "replied" /\ q.kind = r.kind /\ q.acked = r.acked
      /\ q.seen = n /\ q.snapshot = b /\ q.content = m
  BY DEF Free
<1>6. /\ row' = [row EXCEPT ![c] = RowAfter(c, req[c][s], n)] /\ awaited' = awaited
      /\ req' = [req EXCEPT ![c][s] = IF awaited[c] = s THEN q ELSE Free]
  BY <1>2 DEF Finish
<1> HIDE DEF q
<1>7. OnlyRequest(c, s, IF awaited[c] = s THEN q ELSE Free)
  BY <1>1, <1>6 DEF OnlyRequest
<1>4. awaited[c] = s => q \in Request
  BY <1>7, FinishTypeOK DEF OnlyRequest
<1> QED
  BY <1>1, <1>2, <1>4, <1>5, <1>6, <1>7, ZenonT(40)

(* The reply leaves its slot, and the client waits for nothing. *)
LEMMA DeliverEffect ==
    ASSUME TypeOK, NEW c \in Clients, Deliver(c)
    PROVE  /\ UNCHANGED <<log, base, doc, row, gen, seq>>
           /\ \E s \in Slots, r \in Request :
                /\ awaited[c] = s /\ r = req[c][s] /\ r.pc = "replied" /\ OnlyRequest(c, s, Free)
                /\ cp'[c].serverSeq = IF r.kind = "pushonly" THEN cp[c].serverSeq
                                      ELSE Max2(cp[c].serverSeq, r.seen)
                /\ cp'[c].clientSeq = Max2(cp[c].clientSeq, r.acked)
                /\ applied'[c] = IF r.kind = "pushonly" THEN applied[c] ELSE ApplyPack(c, r)
                /\ status'[c] \in {"removed",
                                   CASE r.kind = "attach" -> "attached"
                                     [] r.kind = "detach" -> "detached"
                                     [] OTHER -> status[c]}
           /\ awaited'[c] = None
           /\ \A d \in Clients : d # c => /\ awaited'[d] = awaited[d] /\ cp'[d] = cp[d]
                                          /\ applied'[d] = applied[d] /\ status'[d] = status[d]
<1>1. /\ req \in [Clients -> [Slots -> Request]] /\ awaited \in [Clients -> Slots \cup {None}]
      /\ cp \in [Clients -> [serverSeq : Nat, clientSeq : 0..MaxSeq]]
      /\ applied \in [Clients -> [Change -> Nat]]
      /\ status \in [Clients -> {"detached", "attached", "removed"}]
  BY ZenonT(40) DEF TypeOK
<1>2. PICK s \in Slots, r \in Request : awaited[c] = s /\ r = req[c][s] /\ r.pc = "replied"
  BY <1>1 DEF Deliver
<1>3. UNCHANGED <<log, base, doc, row, gen, seq>>
  BY ZenonT(40) DEF Deliver, server
<1>4. /\ req' = [req EXCEPT ![c][s] = Free]
      /\ awaited' = [awaited EXCEPT ![c] = None]
      /\ cp' = [cp EXCEPT ![c] = IF r.kind = "pushonly" THEN SyncClientSeq(cp[c], r.acked)
                ELSE Forward(cp[c], [serverSeq |-> r.seen, clientSeq |-> r.acked])]
      /\ applied' = [applied EXCEPT ![c] = IF r.kind = "pushonly" THEN @ ELSE ApplyPack(c, r)]
      /\ status' = [status EXCEPT ![c] =
                      CASE r.removed -> "removed"
                        [] ~r.removed /\ r.kind = "attach" -> "attached"
                        [] ~r.removed /\ r.kind = "detach" -> "detached"
                        [] OTHER -> @]
  BY <1>2 DEF Deliver
<1>5. OnlyRequest(c, s, Free)
  BY <1>1, <1>4 DEF OnlyRequest
<1>6. /\ awaited'[c] = None
      /\ applied'[c] = IF r.kind = "pushonly" THEN applied[c] ELSE ApplyPack(c, r)
      /\ \A d \in Clients : d # c => /\ awaited'[d] = awaited[d] /\ cp'[d] = cp[d]
                                     /\ applied'[d] = applied[d] /\ status'[d] = status[d]
  BY <1>1, <1>4
<1>7. /\ cp'[c].serverSeq = IF r.kind = "pushonly" THEN cp[c].serverSeq
                            ELSE Max2(cp[c].serverSeq, r.seen)
      /\ cp'[c].clientSeq = Max2(cp[c].clientSeq, r.acked)
  BY <1>1, <1>4 DEF SyncClientSeq, Forward
<1>8. status'[c] \in {"removed", CASE r.kind = "attach" -> "attached"
                                   [] r.kind = "detach" -> "detached"
                                   [] OTHER -> status[c]}
  <2>1. r.removed \in BOOLEAN
    BY DEF Request
  <2> QED
    BY <1>1, <1>4, <2>1
<1> QED
  BY <1>2, <1>3, <1>5, <1>6, <1>7, <1>8, ZenonT(40)

-----------------------------------------------------------------------------
(* What a document holds.  A change is in the log, or in the change the log  *)
(* was compacted to, and no step takes it out again.                         *)

Present(x) == Span(1, Len(log), {})[x] >= 1

PresentMeansStored ==
    \A x \in Change : Present(x) <=> Stored(x) \/ (Stored(Compacted) /\ base[x] >= 1)

LEMMA PresentIsStored == TypeOK => PresentMeansStored
<1> SUFFICES ASSUME TypeOK, NEW x \in Change
             PROVE  Present(x) <=> Stored(x) \/ (Stored(Compacted) /\ base[x] >= 1)
  BY DEF PresentMeansStored
<1> DEFINE at == {i \in 1..Len(log) : log[i] = x}
           own == [y \in Change |-> IF y \in {} THEN 0
                                    ELSE Cardinality({i \in 1..Len(log) : log[i] = y})]
<1>1. Len(log) \in Nat /\ base[x] \in Nat
  BY DEF TypeOK
<1>2. IsFiniteSet(at)
  <2>1. IsFiniteSet(1..Len(log)) /\ at \subseteq 1..Len(log)
    BY <1>1, FS_Interval
  <2> QED
    BY <2>1, FS_Subset
<1>3. Cardinality(at) \in Nat /\ (Cardinality(at) = 0 <=> at = {})
  BY <1>2, FS_CardinalityType, FS_EmptySet, ZenonT(40)
<1>4. Cardinality(at) >= 1 <=> Stored(x)
  <2>1. Stored(x) <=> at # {}
    BY DEF Stored
  <2> HIDE DEF at
  <2> QED
    BY <1>3, <2>1
<1>5. own[x] = Cardinality(at)
  OBVIOUS
<1>6. Plus(base, own)[x] = base[x] + own[x]
  BY DEF Plus
<1>7. Span(1, Len(log), {}) = IF Stored(Compacted) THEN Plus(base, own) ELSE own
  BY DEF Span, Stored
<1> HIDE DEF at, own
<1> QED
  BY <1>1, <1>3, <1>4, <1>5, <1>6, <1>7 DEF Present

-----------------------------------------------------------------------------
(* SkippedIsStored and AckedIsStored.  A client seq that is taken as pushed  *)
(* travels from the reply to the client's checkpoint, from there into the    *)
(* next requests, and into the row when an attach seeds it; each of these    *)
(* places is part of the invariant.  A client that may stop waiting can have *)
(* a request of an old Document in service while the next Document runs, so  *)
(* there the change may be one of any Document so far.                       *)

Gens == [c \in Clients |-> IF Impatient = {} THEN {gen[c]} ELSE 1..gen[c]]

Held == [c \in Clients |->
           {k \in 0..MaxSeq : \A n \in 1..k : \E g \in Gens[c] : Present(<<c, g, n>>)}]

RequestHeld(r, gens, held) ==
    /\ r.pc \in {"sent", "pushed"} => r.gen \in gens /\ r.from \in held
    /\ r.pc \in {"pushed", "replied"} => r.acked \in held

HeldInv ==
    \A c \in Clients : /\ cp[c].clientSeq \in Held[c]
                       /\ row[c].clientSeq \in Held[c]
                       /\ \A s \in Slots : RequestHeld(req[c][s], Gens[c], Held[c])

\* Of patient clients: one request at a time, and the row of a Document that
\* is not attached counts no changes.
PatientClient(aw, st, n, q) ==
    /\ \A s \in Slots :
         /\ q[s].pc # "free" => aw = s /\ (q[s].kind = "attach" <=> st = "detached")
         /\ q[s].pc = "replied" /\ q[s].kind = "detach" => n = 0
    /\ \/ st # "detached"
       \/ n = 0
       \/ \E s \in Slots : q[s].pc = "replied" /\ q[s].kind = "attach"

PatientInv ==
    \A c \in Clients : PatientClient(awaited[c], status[c], row[c].clientSeq, req[c])

KeptInv == TypeOK /\ HeldInv /\ (Impatient = {} => PatientInv)

ZeroHeld == \A c \in Clients : 0 \in Held[c]

LEMMA NothingHeld == ZeroHeld
<1>1. 1..0 = {} /\ 0 \in 0..MaxSeq
  BY BoundsNat
<1> QED
  BY <1>1 DEF ZeroHeld, Held

LEMMA NextHeld == KeptInv /\ [Next]_vars => HeldInv'
<1>PresentAppended.
  ASSUME TypeOK, TypeOK', base' = base, NEW changes \in Seq(Change), log' = log \o changes
  PROVE  /\ \A x \in Change : Present(x) => Present(x)'
         /\ \A i \in 1..Len(changes) : Present(changes[i])'
  <2> USE <1>PresentAppended
  <2>1. log \in Seq(Change \cup {Compacted}) /\ Len(log) \in Nat
    BY DEF TypeOK
  <2>2. changes \in Seq(Change \cup {Compacted}) /\ Len(changes) \in Nat
    BY SeqDef
  <2>3. /\ Len(log') = Len(log) + Len(changes)
        /\ \A i \in 1..Len(log') : log'[i] = IF i <= Len(log) THEN log[i]
                                              ELSE changes[i - Len(log)]
    BY <2>1, <2>2, ConcatProperties
  <2>4. \A x : Stored(x) => Stored(x)'
    <3> SUFFICES ASSUME NEW x, NEW i \in 1..Len(log), log[i] = x
                 PROVE  \E j \in 1..Len(log') : log'[j] = x
      BY DEF Stored
    <3>1. i \in 1..Len(log') /\ log'[i] = x
      BY <2>1, <2>2, <2>3
    <3> QED
      BY <3>1
  <2>5. \A i \in 1..Len(changes) : Stored(changes[i])'
    <3> SUFFICES ASSUME NEW i \in 1..Len(changes)
                 PROVE  \E j \in 1..Len(log') : log'[j] = changes[i]
      BY ZenonT(40) DEF Stored
    <3>1. /\ Len(log) + i \in 1..Len(log')
          /\ ~(Len(log) + i <= Len(log))
          /\ (Len(log) + i) - Len(log) = i
      BY <2>1, <2>2, <2>3
    <3> QED
      BY <2>3, <3>1
  <2>6. PresentMeansStored /\ PresentMeansStored'
    BY PresentIsStored, PTL
  <2>7. \A i \in 1..Len(changes) : changes[i] \in Change
    BY LenProperties
  <2> QED
    BY <2>4, <2>5, <2>6, <2>7, ZenonT(40) DEF PresentMeansStored
<1>PresentCompacted.
  ASSUME TypeOK, TypeOK', Compact
  PROVE  \A x \in Change : Present(x) => Present(x)'
  <2> USE <1>PresentCompacted
  <2> SUFFICES ASSUME NEW x \in Change, Present(x) PROVE Present(x)'
    OBVIOUS
  <2>1. base' = Span(1, Len(log), {}) /\ (base' # Empty => log' = <<Compacted>>)
    BY DEF Compact
  <2>2. base'[x] >= 1
    BY <2>1 DEF Present
  <2>3. base' # Empty
    <3>1. Empty[x] = 0
      BY DEF Empty
    <3> QED
      BY <2>2, <3>1
  <2>4. Len(<<Compacted>>) = 1 /\ <<Compacted>>[1] = Compacted
    OBVIOUS
  <2>5. Stored(Compacted)'
    BY <2>1, <2>3, <2>4 DEF Stored
  <2>6. PresentMeansStored'
    BY PresentIsStored, PTL
  <2> QED
    BY <2>2, <2>5, <2>6 DEF PresentMeansStored
(* The log and what it was compacted from change only in a push, which       *)
(* appends, and in a compaction.                                             *)
<1>PresentStays.
  ASSUME TypeOK, [Next]_vars
  PROVE  \A x \in Change : Present(x) => Present(x)'
  <2> USE <1>PresentStays
  <2>1. TypeOK'
    BY NextTypeOK
  <2>2. CASE UNCHANGED <<log, base>>
    BY <2>2 DEF Present, Span, Plus
  <2>3. ASSUME NEW c \in Clients, NEW s \in Slots, Push(c, s)
        PROVE  UNCHANGED <<log, base>> \/ (base' = base /\ \E x \in Seq(Change) : log' = log \o x)
    <3>1. req[c][s] \in Request /\ base' = base
      BY <2>3 DEF TypeOK, Push
    <3>2. Pushables(c, req[c][s], Info(c, req[c][s])) \in Seq(Change) /\ <<>> \in Seq(Change)
      BY <3>1, InfoType, PushablesType, EmptySeq
    <3> QED
      BY <2>3, <3>1, <3>2, PushCases, ZenonT(40) DEF Store
  <2>4. ASSUME NEW c \in Clients,
               \/ Edit(c) \/ NewDocument(c) \/ GiveUp(c) \/ Deliver(c)
               \/ \E k \in AllKinds : Send(c, k)
               \/ \E s \in Slots : Pull(c, s) \/ Lose(c, s) \/ Crash(c, s)
        PROVE  UNCHANGED <<log, base>>
    BY <2>4, ZenonT(40) DEF server, Edit, NewDocument, GiveUp, Deliver, Send, Pull, Lose, Crash
  <2>5. \/ UNCHANGED <<log, base>>
        \/ Compact
        \/ \E c \in Clients, s \in Slots : Push(c, s)
    <3>1. CASE UNCHANGED vars
      BY <3>1, ZenonT(40) DEF vars, server
    <3> QED
      BY <2>4, <3>1 DEF Next
  <2> QED
    BY <2>1, <2>2, <2>3, <2>5, <1>PresentAppended, <1>PresentCompacted, ZenonT(40)
<1>HeldStays.
  ASSUME TypeOK, [Next]_vars, NEW c \in Clients, gen'[c] = gen[c] \/ Impatient # {}
  PROVE  Gens[c] \subseteq Gens'[c] /\ Held[c] \subseteq Held'[c]
  <2> USE <1>HeldStays
  <2>1. gen[c] \in Nat /\ gen'[c] \in Nat /\ gen'[c] >= gen[c] /\ gen[c] \in 1..MaxGens
    <3>1. gen \in [Clients -> 1..MaxGens] /\ gen' \in [Clients -> 1..MaxGens]
      BY NextTypeOK DEF TypeOK
    <3>2. gen' = gen \/ \E d \in Clients : NewDocument(d)
      <4>1. ASSUME NEW d \in Clients,
                   \/ Edit(d) \/ GiveUp(d) \/ Deliver(d)
                   \/ \E k \in AllKinds : Send(d, k)
                   \/ \E s \in Slots : Push(d, s) \/ Pull(d, s) \/ Lose(d, s) \/ Crash(d, s)
            PROVE  gen' = gen
        BY <4>1, ZenonT(40) DEF replica, Edit, GiveUp, Deliver, Send, Push, Pull, Lose, Crash
      <4>2. CASE UNCHANGED vars \/ Compact
        BY <4>2 DEF vars, replica, Compact
      <4> QED
        BY <4>1, <4>2 DEF Next
    <3> QED
      BY <3>1, <3>2, BoundsNat DEF NewDocument
  <2>2. Gens[c] \subseteq Gens'[c]
    BY <2>1 DEF Gens
  <2>3. \A g \in Gens[c] : g \in 1..MaxGens
    BY <2>1, BoundsNat DEF Gens
  <2>4. ASSUME NEW k \in Held[c], NEW n \in 1..k
        PROVE  \E g \in Gens'[c] : Present(<<c, g, n>>)'
    <3>1. k \in 0..MaxSeq
      BY DEF Held
    <3>2. PICK g \in Gens[c] : Present(<<c, g, n>>)
      BY ZenonT(40) DEF Held
    <3>3. n \in 1..MaxSeq
      BY <3>1, BoundsNat
    <3>4. <<c, g, n>> \in Change
      BY <2>3, <3>3 DEF Change
    <3> QED
      BY <2>2, <3>2, <3>4, <1>PresentStays
  <2>5. \A k \in Held[c] : k \in 0..MaxSeq
    BY DEF Held
  <2> QED
    BY <2>2, <2>4, <2>5, ZenonT(40) DEF Held
(* What a step leaves alone stays held. *)
<1>HeldUnchanged.
  ASSUME TypeOK, HeldInv, [Next]_vars, NEW d \in Clients, gen'[d] = gen[d] \/ Impatient # {}
  PROVE  /\ cp'[d] = cp[d] => cp'[d].clientSeq \in Held'[d]
         /\ row'[d] = row[d] => row'[d].clientSeq \in Held'[d]
         /\ \A t \in Slots : req'[d][t] = req[d][t] \/ req'[d][t] = Free
                               => RequestHeld(req'[d][t], Gens'[d], Held'[d])
  <2> USE <1>HeldUnchanged
  <2>1. Gens[d] \subseteq Gens'[d] /\ Held[d] \subseteq Held'[d]
    BY <1>HeldStays
  <2>2. Free.pc = "free"
    BY DEF Free
  <2> QED
    BY <2>1, <2>2 DEF HeldInv, RequestHeld
(* Clients: a checkpoint counts what was acknowledged, a request what the    *)
(* checkpoint counts.                                                        *)
<1>ClientHeld.
  ASSUME TypeOK, HeldInv, [Next]_vars, NEW c \in Clients,
         \/ Edit(c) \/ GiveUp(c) \/ Deliver(c)
         \/ \E k \in AllKinds : Send(c, k)
         \/ \E s \in Slots : Lose(c, s)
  PROVE  HeldInv'
  <2> USE <1>ClientHeld
  <2>1. /\ req \in [Clients -> [Slots -> Request]] /\ cp \in [Clients -> [serverSeq : Nat, clientSeq : 0..MaxSeq]]
        /\ awaited \in [Clients -> Slots \cup {None}]
    BY ZenonT(40) DEF TypeOK
  <2>2. UNCHANGED <<row, gen>>
    BY ZenonT(40) DEF Edit, GiveUp, Deliver, Send, Lose, server, replica
  <2>3. \A d \in Clients : Gens[d] \subseteq Gens'[d] /\ Held[d] \subseteq Held'[d]
    BY <2>2, <1>HeldStays, ZenonT(40)
  <2>4. CASE Edit(c)
    <3>1. UNCHANGED <<cp, req>>
      BY <2>4, ZenonT(40) DEF Edit, calls
    <3> QED
      BY <2>2, <3>1, <1>HeldUnchanged, ZenonT(40) DEF HeldInv
  <2>5. CASE GiveUp(c)
    <3>1. UNCHANGED cp /\ \A d \in Clients, t \in Slots : req'[d][t] = req[d][t] \/ req'[d][t] = Free
      BY <2>1, <2>5, ZenonT(40) DEF GiveUp, replica
    <3> QED
      BY <2>2, <3>1, <1>HeldUnchanged, ZenonT(40) DEF HeldInv
  <2>6. CASE \E s \in Slots : Lose(c, s)
    <3>1. UNCHANGED cp /\ \A d \in Clients, t \in Slots : req'[d][t] = req[d][t] \/ req'[d][t] = Free
      BY <2>1, <2>6 DEF Lose, replica
    <3> QED
      BY <2>2, <3>1, <1>HeldUnchanged DEF HeldInv
  <2>7. CASE Deliver(c)
    <3> DEFINE s == awaited[c]
               r == req[c][s]
    <3>1. s \in Slots /\ r \in Request /\ r.pc = "replied"
      BY <2>1, <2>7, ZenonT(40) DEF Deliver
    <3>2. \A d \in Clients, t \in Slots : req'[d][t] = req[d][t] \/ req'[d][t] = Free
      BY <2>1, <2>7, ZenonT(40) DEF Deliver
    <3>3. \A d \in Clients : d # c => cp'[d] = cp[d]
      BY <2>1, <2>7, ZenonT(40) DEF Deliver
    <3>4. cp'[c].clientSeq = Max2(cp[c].clientSeq, r.acked)
      BY <2>1, <2>7, ZenonT(40) DEF Deliver, SyncClientSeq, Forward
    <3>5. r.acked \in Held[c] /\ cp[c].clientSeq \in Held[c]
      BY <3>1, ZenonT(40) DEF HeldInv, RequestHeld
    <3>6. cp'[c].clientSeq \in Held'[c]
      BY <2>3, <3>4, <3>5, ZenonT(40) DEF Max2
    <3> QED
      BY <2>2, <3>2, <3>3, <3>6, <1>HeldUnchanged, ZenonT(40) DEF HeldInv
  <2>8. CASE \E k \in AllKinds : Send(c, k)
    <3>1. PICK k \in AllKinds : Send(c, k)
      BY <2>8
    <3> DEFINE r == [Free EXCEPT !.pc = "sent", !.kind = k, !.gen = gen[c],
                                 !.serverSeq = cp[c].serverSeq,
                                 !.from = cp[c].clientSeq, !.to = seq[c]]
    <3>2. PICK s \in Slots : req' = [req EXCEPT ![c][s] = r]
      BY <3>1, ZenonT(40) DEF Send
    <3>3. r.pc = "sent" /\ r.gen = gen[c] /\ r.from = cp[c].clientSeq
      BY DEF Free
    <3>4. UNCHANGED cp
      BY <3>1, ZenonT(40) DEF Send, replica
    <3>5. gen'[c] \in Gens'[c]
      BY <2>2 DEF Gens, TypeOK
    <3>6. RequestHeld(r, Gens'[c], Held'[c])
      <4> HIDE DEF r
      <4> QED
        BY <2>2, <2>3, <3>3, <3>5, ZenonT(40) DEF HeldInv, RequestHeld
    <3>7. /\ req'[c][s] = r
          /\ \A d \in Clients, t \in Slots : d # c \/ t # s => req'[d][t] = req[d][t]
      <4> HIDE DEF r
      <4> QED
        BY <2>1, <3>2, ZenonT(40)
    <3> HIDE DEF r
    <3> QED
      BY <2>2, <3>4, <3>6, <3>7, <1>HeldUnchanged, ZenonT(40) DEF HeldInv
  <2> QED
    BY <2>4, <2>5, <2>6, <2>7, <2>8, ZenonT(40)
<1>NewDocumentHeld.
  ASSUME KeptInv, [Next]_vars, NEW c \in Clients, NewDocument(c)
  PROVE  HeldInv'
  <2> USE <1>NewDocumentHeld
  <2>1. /\ UNCHANGED <<row, req>> /\ status[c] = "detached" /\ awaited[c] = None
        /\ cp' = [cp EXCEPT ![c] = [serverSeq |-> 0, clientSeq |-> 0]]
    BY DEF NewDocument, server, calls
  <2>2. /\ cp'[c].clientSeq = 0
        /\ \A d \in Clients : d # c => cp'[d] = cp[d] /\ gen'[d] = gen[d]
    BY <2>1 DEF NewDocument, KeptInv, TypeOK
  <2>3. \A d \in Clients : 0 \in Held'[d]
    <3>1. ZeroHeld'
      BY NothingHeld, PTL
    <3> QED
      BY <3>1 DEF ZeroHeld
  <2>4. ASSUME NEW d \in Clients, d # c \/ Impatient # {}
        PROVE  /\ cp'[d].clientSeq \in Held'[d]
               /\ row'[d].clientSeq \in Held'[d]
               /\ \A s \in Slots : RequestHeld(req'[d][s], Gens'[d], Held'[d])
    BY <2>1, <2>2, <2>3, <2>4, <1>HeldUnchanged, ZenonT(40) DEF KeptInv
  <2>5. CASE Impatient = {}
    <3>1. \A s \in Slots : req[c][s].pc = "free"
      BY <2>1, <2>5, NoneIsNoSlot, ZenonT(40) DEF KeptInv, PatientInv, PatientClient
    <3>2. row[c].clientSeq = 0
      BY <2>1, <2>5, <3>1, ZenonT(40) DEF KeptInv, PatientInv, PatientClient
    <3>3. \A s \in Slots : RequestHeld(req'[c][s], Gens'[c], Held'[c])
      BY <2>1, <3>1 DEF RequestHeld
    <3> QED
      BY <2>1, <2>2, <2>3, <2>4, <3>2, <3>3, ZenonT(40) DEF HeldInv
  <2> QED
    BY <2>4, <2>5, ZenonT(40) DEF HeldInv
(* A push acknowledges what the row already counted, or all that it sends:   *)
(* the part that was filtered out is held because the request or the row     *)
(* counted it, the rest is now in the log.                                   *)
<1>StoreHeld.
  ASSUME TypeOK, HeldInv, [Next]_vars, NEW c \in Clients, NEW s \in Slots, Push(c, s),
         NEW changes, changes = Pushables(c, req[c][s], Info(c, req[c][s])),
         Store(c, s, Info(c, req[c][s]), changes)
  PROVE  req[c][s].to \in Held'[c]
  <2> USE <1>StoreHeld
  <2> DEFINE r == req[c][s]
             info == Info(c, r)
             pushed == Max2(r.from, info.clientSeq)
  <2>1. r \in Request /\ r.pc = "sent" /\ gen' = gen /\ base' = base
    BY DEF Push, TypeOK, replica
  <2>2. info \in Row
    BY <2>1, InfoType, ZenonT(40)
  <2>3. r.from \in Nat /\ r.to \in 0..MaxSeq /\ info.clientSeq \in Nat
    BY <2>1, <2>2, BoundsNat DEF Request, Row
  <2>4. /\ changes \in Seq(Change)
        /\ changes = [i \in 1..Max2(0, r.to - pushed) |-> <<c, r.gen, pushed + i>>]
    BY <2>1, <2>2, PushablesType, ZenonT(40) DEF Pushables
  <2>5. \A i \in 1..Len(changes) : Present(changes[i])'
    BY <2>1, <2>4, NextTypeOK, <1>PresentAppended, ZenonT(40) DEF Store
  <2>6. /\ Gens[c] \subseteq Gens'[c] /\ Held[c] \subseteq Held'[c]
        /\ r.gen \in Gens[c] /\ r.from \in Held[c]
    BY <2>1, <1>HeldStays, ZenonT(40) DEF HeldInv, RequestHeld
  <2>7. info.clientSeq \in Held[c]
    <3>1. info.clientSeq \in {r.from, 0, row[c].clientSeq}
      BY DEF Info, Seeded
    <3> QED
      BY <2>6, <3>1, NothingHeld, ZenonT(40) DEF HeldInv, ZeroHeld
  <2>8. pushed \in Held'[c] /\ pushed \in Nat
    BY <2>3, <2>6, <2>7, ZenonT(40) DEF Max2
  <2>9. ASSUME NEW n \in 1..r.to
        PROVE  \E g \in Gens'[c] : Present(<<c, g, n>>)'
    <3>1. CASE n <= pushed
      <4>1. n \in 1..pushed
        BY <2>3, <2>8, <3>1
      <4> HIDE DEF pushed
      <4> QED
        BY <2>8, <4>1 DEF Held
    <3>2. CASE ~(n <= pushed)
      <4>1. n - pushed \in 1..Max2(0, r.to - pushed) /\ pushed + (n - pushed) = n
        <5> HIDE DEF pushed
        <5> QED BY <2>3, <2>8, <3>2 DEF Max2
      <4>2. Len(changes) = Max2(0, r.to - pushed)
        <5>1. Max2(0, r.to - pushed) \in Nat
          BY <2>3, <2>8 DEF Max2
        <5>2. DOMAIN changes = 1..Len(changes) /\ DOMAIN changes = 1..Max2(0, r.to - pushed)
          BY <2>4, LenProperties, ZenonT(40)
        <5>3. Len(changes) \in Nat
          BY <2>4, LenProperties, ZenonT(40)
        <5> HIDE DEF pushed, r
        <5> QED
          BY <5>1, <5>2, <5>3
      <4>3. changes[n - pushed] = <<c, r.gen, n>>
        <5> HIDE DEF pushed
        <5> QED BY <2>4, <4>1, ZenonT(40)
      <4> HIDE DEF pushed
      <4> QED
        BY <2>5, <2>6, <4>1, <4>2, <4>3
    <3> QED
      BY <3>1, <3>2, ZenonT(40)
  <2> QED
    BY <2>3, <2>9, ZenonT(40) DEF Held
<1>PushHeld.
  ASSUME TypeOK, HeldInv, [Next]_vars, NEW c \in Clients, NEW s \in Slots, Push(c, s)
  PROVE  HeldInv'
  <2> USE <1>PushHeld
  <2> DEFINE r == req[c][s]
             info == Info(c, r)
  <2>1. /\ req \in [Clients -> [Slots -> Request]] /\ row \in [Clients -> Row]
        /\ r \in Request /\ r.pc = "sent" /\ UNCHANGED <<cp, gen>>
    BY DEF Push, TypeOK, replica
  <2>2. \A d \in Clients : /\ 0 \in Held[d]
                           /\ Gens[d] \subseteq Gens'[d] /\ Held[d] \subseteq Held'[d]
    BY <2>1, <1>HeldStays, NothingHeld, ZenonT(40) DEF ZeroHeld
  <2>3. /\ \A d \in Clients : d # c => row'[d] = row[d]
        /\ row'[c] = row[c] \/ row'[c].clientSeq = 0
    BY <2>1, ZenonT(40) DEF Push, NoRow
  <2>4. \A d \in Clients : row'[d].clientSeq \in Held'[d]
    BY <2>2, <2>3, ZenonT(40) DEF HeldInv
  <2>5. CASE Fail(c, s)
    <3>1. \A d \in Clients, t \in Slots : req'[d][t] = req[d][t] \/ req'[d][t] = Free
      BY <2>1, <2>5, ZenonT(40) DEF Fail
    <3> QED
      BY <2>1, <2>4, <3>1, <1>HeldUnchanged, ZenonT(40) DEF HeldInv
  <2>6. ASSUME NEW changes, Store(c, s, info, changes),
               changes = <<>> \/ r.to \in Held'[c]
        PROVE  HeldInv'
    <3> DEFINE acked == IF changes = <<>> THEN info.clientSeq ELSE r.to
               q == [r EXCEPT !.pc = "pushed", !.info = info, !.initial = Len(log),
                              !.seen = Len(log) + Len(changes), !.acked = acked,
                              !.removed = doc.removed \/ r.kind = "remove"]
    <3>1. req' = [req EXCEPT ![c][s] = q]
      BY <2>6 DEF Store
    <3>2. q.pc = "pushed" /\ q.gen = r.gen /\ q.from = r.from /\ q.acked = acked
      BY <2>1, ZenonT(40) DEF Request
    <3>3. r.gen \in Gens[c] /\ r.from \in Held[c]
      BY <2>1, ZenonT(40) DEF HeldInv, RequestHeld
    <3>4. info.clientSeq \in {r.from, 0, row[c].clientSeq}
      BY ZenonT(40) DEF Info, Seeded
    <3>5. acked \in Held'[c]
      BY <2>2, <2>6, <3>3, <3>4, ZenonT(40) DEF HeldInv
    <3>6. RequestHeld(q, Gens'[c], Held'[c])
      <4> HIDE DEF q, acked, r, info
      <4> QED BY <2>2, <3>2, <3>3, <3>5, ZenonT(40) DEF RequestHeld
    <3>7. /\ req'[c][s] = q
          /\ \A d \in Clients, t \in Slots : d # c \/ t # s => req'[d][t] = req[d][t]
      <4> HIDE DEF q
      <4> QED BY <2>1, <3>1, ZenonT(40)
    <3> HIDE DEF q
    <3> QED
      BY <2>1, <2>4, <3>6, <3>7, <1>HeldUnchanged, ZenonT(40) DEF HeldInv
  <2>7. Store(c, s, info, Pushables(c, r, info)) => r.to \in Held'[c]
    BY <1>StoreHeld
  <2> QED
    BY <2>5, <2>6, <2>7, PushCases, ZenonT(40)
<1>PullHeld.
  ASSUME TypeOK, HeldInv, [Next]_vars, NEW c \in Clients, NEW s \in Slots, Pull(c, s)
  PROVE  HeldInv'
  <2> USE <1>PullHeld
  <2> DEFINE r == req[c][s]
  <2>1. /\ req \in [Clients -> [Slots -> Request]] /\ row \in [Clients -> Row]
        /\ r \in Request /\ r.pc = "pushed" /\ UNCHANGED <<cp, gen>>
    BY DEF Pull, TypeOK, replica
  <2>2. \A d \in Clients : 0 \in Held[d] /\ Held[d] \subseteq Held'[d]
    BY <2>1, <1>HeldStays, NothingHeld, ZenonT(40) DEF ZeroHeld
  <2>3. CASE Fail(c, s) /\ UNCHANGED row
    <3>1. \A d \in Clients, t \in Slots : req'[d][t] = req[d][t] \/ req'[d][t] = Free
      BY <2>1, <2>3, ZenonT(40) DEF Fail
    <3> QED
      BY <2>1, <2>3, <3>1, <1>HeldUnchanged, ZenonT(40) DEF HeldInv
  <2>4. CASE \E n \in Nat, b \in BOOLEAN, m \in [Change -> Nat] : Finish(c, s, n, b, m)
    <3>1. PICK n \in Nat, b \in BOOLEAN, m \in [Change -> Nat] : Finish(c, s, n, b, m)
      BY <2>4, ZenonT(40)
    <3> DEFINE reply == [Free EXCEPT !.pc = "replied", !.kind = r.kind, !.acked = r.acked,
                                     !.seen = n, !.snapshot = b, !.content = m,
                                     !.removed = r.removed]
               q == IF awaited[c] = s THEN reply ELSE Free
    <3>2. r.acked \in Held[c] /\ row[c].clientSeq \in Held[c]
      BY <2>1 DEF HeldInv, RequestHeld
    <3>3. /\ \A d \in Clients : d # c => row'[d] = row[d]
          /\ row'[c].clientSeq \in {0, r.acked, row[c].clientSeq}
      BY <2>1, <3>1, ZenonT(40) DEF Finish, RowAfter, NoRow, Max2
    <3>4. \A d \in Clients : row'[d].clientSeq \in Held'[d]
      BY <2>2, <3>2, <3>3 DEF HeldInv
    <3>5. req' = [req EXCEPT ![c][s] = q]
      BY <3>1 DEF Finish
    <3>6. RequestHeld(q, Gens'[c], Held'[c])
      <4>1. Free.pc = "free" /\ reply.pc = "replied" /\ reply.acked = r.acked
        BY DEF Free
      <4> HIDE DEF reply, r
      <4> QED
        BY <2>2, <3>2, <4>1 DEF RequestHeld
    <3>7. /\ req'[c][s] = q
          /\ \A d \in Clients, t \in Slots : d # c \/ t # s => req'[d][t] = req[d][t]
      <4> HIDE DEF q
      <4> QED BY <2>1, <3>5, ZenonT(40)
    <3> HIDE DEF q
    <3> QED
      BY <2>1, <3>4, <3>6, <3>7, <1>HeldUnchanged, ZenonT(40) DEF HeldInv
  <2> QED
    BY <2>3, <2>4, PullCases, ZenonT(40)
<1>CrashHeld.
  ASSUME TypeOK, HeldInv, [Next]_vars, NEW c \in Clients, NEW s \in Slots, Crash(c, s)
  PROVE  HeldInv'
  <2> USE <1>CrashHeld
  <2>1. /\ req \in [Clients -> [Slots -> Request]] /\ row \in [Clients -> Row]
        /\ UNCHANGED <<cp, gen>> /\ Fail(c, s)
    BY DEF Crash, TypeOK, replica
  <2>2. \A d \in Clients : 0 \in Held'[d]
    <3>1. ZeroHeld'
      BY NothingHeld, PTL
    <3> QED
      BY <3>1 DEF ZeroHeld
  <2>3. \A d \in Clients : row'[d] = row[d] \/ row'[d].clientSeq = 0
    BY <2>1 DEF Crash, NoRow
  <2>4. \A d \in Clients, t \in Slots : req'[d][t] = req[d][t] \/ req'[d][t] = Free
    BY <2>1 DEF Fail
  <2> QED
    BY <2>1, <2>2, <2>3, <2>4, <1>HeldUnchanged, ZenonT(40) DEF HeldInv
<1> SUFFICES ASSUME KeptInv, [Next]_vars PROVE HeldInv'
  OBVIOUS
<1>1. TypeOK /\ HeldInv
  BY ZenonT(40) DEF KeptInv
<1>2. CASE UNCHANGED vars \/ Compact
  <2>1. UNCHANGED <<cp, row, req, gen>>
    BY <1>2 DEF vars, server, replica, calls, Compact
  <2> QED
    BY <1>1, <2>1, <1>HeldUnchanged DEF HeldInv
<1>3. CASE \E c \in Clients : \/ Edit(c) \/ GiveUp(c) \/ Deliver(c)
                              \/ \E k \in AllKinds : Send(c, k)
                              \/ \E s \in Slots : Lose(c, s)
  BY <1>1, <1>3, <1>ClientHeld
<1>4. CASE \E c \in Clients : NewDocument(c)
  BY <1>4, <1>NewDocumentHeld
<1>5. CASE \E c \in Clients, s \in Slots : Push(c, s) \/ Pull(c, s) \/ Crash(c, s)
  BY <1>1, <1>5, <1>PushHeld, <1>PullHeld, <1>CrashHeld
<1> QED
  BY <1>2, <1>3, <1>4, <1>5, ZenonT(40) DEF Next
=============================================================================

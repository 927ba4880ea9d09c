--------------------------- MODULE PushPullProofs ---------------------------
(***************************************************************************)
(* Proofs about PushPull for any clients, any number of outstanding        *)
(* requests and any bounds.                                                *)
(***************************************************************************)
EXTENDS PushPull, FiniteSetTheorems, TLAPS

(* A leaf that names no prover is given to the SMT solver, for 30 s at most. *)
USE SMTT(30)

-----------------------------------------------------------------------------
(* Sequences, as the provers know them. *)

LEMMA LenProperties ==
    ASSUME NEW S, NEW l \in Seq(S)
    PROVE  Len(l) \in Nat /\ DOMAIN l = 1..Len(l) /\ l \in [1..Len(l) -> S]
OBVIOUS

LEMMA SeqDef == \A S, l : l \in Seq(S) <=> \E n \in Nat : l \in [1..n -> S]
OBVIOUS

LEMMA EmptySeq ==
    ASSUME NEW S
    PROVE  <<>> \in Seq(S) /\ Len(<<>>) = 0 /\ \A l \in Seq(S) : l # <<>> => Len(l) \in Nat \ {0}
OBVIOUS

LEMMA ConcatProperties ==
    ASSUME NEW S, NEW l \in Seq(S), NEW m \in Seq(S)
    PROVE  /\ l \o m \in Seq(S) /\ Len(l \o m) = Len(l) + Len(m)
           /\ \A i \in 1..(Len(l) + Len(m)) :
                (l \o m)[i] = IF i <= Len(l) THEN l[i] ELSE m[i - Len(l)]
OBVIOUS

LEMMA ConcatEmptySeq ==
    ASSUME NEW S, NEW l \in Seq(S)
    PROVE  l \o <<>> = l
OBVIOUS

-----------------------------------------------------------------------------
(* Document contents are counts. *)

LEMMA EmptyType == Empty \in [Change -> Nat]
BY DEF Empty

LEMMA OnceType == \A X : Once(X) \in [Change -> Nat]
BY DEF Once

LEMMA PlusType ==
    ASSUME NEW m \in [Change -> Nat], NEW n \in [Change -> Nat]
    PROVE  Plus(m, n) \in [Change -> Nat]
BY DEF Plus

LEMMA SpanType ==
    ASSUME base \in [Change -> Nat], NEW lo \in Int, NEW hi \in Int, NEW X
    PROVE  Span(lo, hi, X) \in [Change -> Nat]
<1>1. \A x : Cardinality({i \in lo..hi : log[i] = x}) \in Nat
  <2> SUFFICES ASSUME NEW x
               PROVE  Cardinality({i \in lo..hi : log[i] = x}) \in Nat
    OBVIOUS
  <2>1. IsFiniteSet(lo..hi)
    BY FS_Interval
  <2>2. {i \in lo..hi : log[i] = x} \subseteq lo..hi
    OBVIOUS
  <2> QED
    BY <2>1, <2>2, FS_Subset, FS_CardinalityType
<1> DEFINE own == [x \in Change |-> IF x \in X THEN 0
                                    ELSE Cardinality({i \in lo..hi : log[i] = x})]
<1>2. own \in [Change -> Nat]
  BY <1>1, ZenonT(40)
<1>3. Plus(base, own) \in [Change -> Nat]
  BY <1>2, PlusType, ZenonT(40)
<1> QED
  BY <1>2, <1>3 DEF Span

-----------------------------------------------------------------------------
(* One request changes at a time. *)

LEMMA FreeType == Free \in Request /\ NoRow \in Row
BY EmptyType, BoundsNat DEF Free, Request, NoRow, Row, AllKinds

LEMMA UpdateRequest ==
    ASSUME req \in [Clients -> [Slots -> Request]],
           NEW c \in Clients, NEW s \in Slots, NEW r \in Request,
           req' = [req EXCEPT ![c][s] = r]
    PROVE  /\ req' \in [Clients -> [Slots -> Request]]
           /\ req'[c][s] = r
           /\ \A d \in Clients, t \in Slots :
                d # c \/ t # s => req'[d][t] = req[d][t]
OBVIOUS

-----------------------------------------------------------------------------
(* What the handlers compute has its type. *)

LEMMA PushablesType ==
    ASSUME NEW c \in Clients, NEW r \in Request, NEW info \in Row
    PROVE  /\ Pushables(c, r, info) \in Seq(Change)
           /\ \A i \in 1..Len(Pushables(c, r, info)) :
                /\ Pushables(c, r, info)[i][1] = c
                /\ Pushables(c, r, info)[i][2] = r.gen
                /\ Pushables(c, r, info)[i][3] = Max2(r.from, info.clientSeq) + i
                /\ Pushables(c, r, info)[i][3] <= r.to
<1> DEFINE pushed == Max2(r.from, info.clientSeq)
           n == Max2(0, r.to - pushed)
<1>1. r.from \in Nat /\ r.to \in 0..MaxSeq /\ r.gen \in 1..MaxGens /\ info.clientSeq \in Nat
  BY BoundsNat DEF Request, Row
<1>2. pushed \in Nat /\ n \in Nat
  BY <1>1, BoundsNat DEF Max2
<1>3. \A i \in 1..n : pushed + i \in 1..MaxSeq /\ pushed + i <= r.to
  BY <1>1, <1>2, BoundsNat DEF Max2
<1>4. Pushables(c, r, info) = [i \in 1..n |-> <<c, r.gen, pushed + i>>]
  BY DEF Pushables
<1>5. \A i \in 1..n : <<c, r.gen, pushed + i>> \in Change
  BY <1>1, <1>3 DEF Change
<1>6. Pushables(c, r, info) \in Seq(Change) /\ Len(Pushables(c, r, info)) = n
  <2> HIDE DEF pushed, n
  <2>1. Pushables(c, r, info) \in [1..n -> Change]
    BY <1>4, <1>5
  <2>2. Pushables(c, r, info) \in Seq(Change)
    BY <1>2, <2>1, SeqDef
  <2>3. 1..Len(Pushables(c, r, info)) = 1..n /\ Len(Pushables(c, r, info)) \in Nat
    BY <2>1, <2>2, LenProperties
  <2> QED
    BY <1>2, <2>2, <2>3
<1>7. \A i \in 1..n : /\ Pushables(c, r, info)[i][1] = c
                     /\ Pushables(c, r, info)[i][2] = r.gen
                     /\ Pushables(c, r, info)[i][3] = pushed + i
  <2> HIDE DEF pushed, n
  <2> QED BY <1>4
<1> QED
  BY <1>3, <1>6, <1>7

LEMMA InfoType ==
    ASSUME TypeOK, NEW c \in Clients, NEW r \in Request
    PROVE  Info(c, r) \in Row
<1>1. Len(log) \in Nat /\ doc.epoch \in 0..MaxEpoch /\ row[c] \in Row
  BY DEF TypeOK
<1>2. r.serverSeq \in Nat /\ r.from \in 0..MaxSeq
  BY DEF Request
<1>3. Seeded(r) \in Row
  BY <1>1, <1>2, BoundsNat DEF Seeded, Row
<1> QED
  BY <1>1, <1>3 DEF Info

LEMMA RowAfterType ==
    ASSUME TypeOK, NEW c \in Clients, NEW r \in Request, NEW n \in Nat
    PROVE  RowAfter(c, r, n) \in Row
<1>1. row[c] \in Row /\ r.info \in Row /\ r.acked \in 0..MaxSeq
  BY DEF TypeOK, Request
<1>2. /\ row[c].serverSeq \in Nat /\ row[c].clientSeq \in 0..MaxSeq
      /\ r.info.epoch \in 0..MaxEpoch
  BY <1>1 DEF Row
<1>3. Max2(n, row[c].serverSeq) \in Nat /\ Max2(r.acked, row[c].clientSeq) \in 0..MaxSeq
  BY <1>1, <1>2, BoundsNat DEF Max2
<1> QED
  BY <1>2, <1>3, BoundsNat DEF RowAfter, Row, NoRow

LEMMA ContentType ==
    ASSUME TypeOK, NEW c \in Clients, NEW r \in Request
    PROVE  /\ Snapshot(c, r) \in [Change -> Nat]
           /\ Span(r.serverSeq + 1, r.initial, OwnChanges(c, r)) \in [Change -> Nat]
<1>1. base \in [Change -> Nat] /\ r.serverSeq + 1 \in Int /\ r.initial \in Int
  BY DEF TypeOK, Request
<1>2. Span(1, r.initial, {}) \in [Change -> Nat]
  BY <1>1, SpanType
<1>3. Span(r.serverSeq + 1, r.initial, OwnChanges(c, r)) \in [Change -> Nat]
  BY <1>1, SpanType
<1>4. Snapshot(c, r) \in [Change -> Nat]
  BY <1>2, OnceType, PlusType DEF Snapshot
<1> QED
  BY <1>3, <1>4

-----------------------------------------------------------------------------
(* Type correctness, one lemma for each group of actions. *)

LEMMA InitTypeOK == Init => TypeOK
<1> SUFFICES ASSUME Init PROVE TypeOK
  OBVIOUS
<1>1. log \in Seq(Change \cup {Compacted})
  BY EmptySeq DEF Init
<1>2. base \in [Change -> Nat] /\ applied \in [Clients -> [Change -> Nat]]
  BY EmptyType DEF Init
<1>3. row \in [Clients -> Row] /\ req \in [Clients -> [Slots -> Request]]
  BY FreeType DEF Init
<1> QED
  BY <1>1, <1>2, <1>3, BoundsNat DEF Init, TypeOK

(* The two outcomes of Push: the handler fails, or it stores some of the     *)
(* pack's changes, in order, without a gap, after those already pushed.      *)
LEMMA PushCases ==
    ASSUME NEW c, NEW s, Push(c, s)
    PROVE  LET r == req[c][s]
               info == Info(c, r)
           IN  \/ Fail(c, s) /\ UNCHANGED <<log, doc>>
               \/ Admitted(c, r) /\ Store(c, s, info, <<>>)
               \/ /\ Admitted(c, r)
                  /\ ~EpochMismatch(info)
                  /\ Pushables(c, r, info) # <<>>
                  /\ ~(r.serverSeq > Len(log))
                  /\ Store(c, s, info, Pushables(c, r, info))
BY DEF Push, Refused

LEMMA StoreTypeOK ==
    ASSUME TypeOK, NEW c \in Clients, NEW s \in Slots,
           NEW changes \in Seq(Change), NEW info \in Row, Store(c, s, info, changes)
    PROVE  /\ log' \in Seq(Change \cup {Compacted})
           /\ doc' \in [epoch : 0..MaxEpoch, removed : BOOLEAN]
           /\ req' \in [Clients -> [Slots -> Request]]
           /\ awaited' \in [Clients -> Slots \cup {None}]
<1> DEFINE r == req[c][s]
           acked == IF changes = <<>> THEN info.clientSeq ELSE r.to
           removed == doc.removed \/ r.kind = "remove"
           q == [r EXCEPT !.pc = "pushed", !.info = info, !.initial = Len(log),
                          !.seen = Len(log) + Len(changes), !.acked = acked,
                          !.removed = removed]
<1>1. r \in Request /\ log \in Seq(Change \cup {Compacted}) /\ doc.removed \in BOOLEAN
  BY DEF TypeOK
<1>2. acked \in 0..MaxSeq
  BY <1>1, ZenonT(40) DEF Row, Request
<1>3. Len(log) \in Nat /\ Len(log) + Len(changes) \in Nat /\ removed \in BOOLEAN
  BY <1>1
<1>4. q \in Request
  <2> HIDE DEF r, acked, removed
  <2> QED BY <1>1, <1>2, <1>3, ZenonT(40) DEF Request
<1>5. req' = [req EXCEPT ![c][s] = q]
  BY DEF Store
<1>6. req' \in [Clients -> [Slots -> Request]]
  <2> HIDE DEF q
  <2> QED BY <1>4, <1>5, UpdateRequest DEF TypeOK
<1>7. changes \in Seq(Change \cup {Compacted})
  BY SeqDef
<1>8. log' \in Seq(Change \cup {Compacted})
  BY <1>1, <1>7, ConcatProperties DEF Store
<1>9. doc' \in [epoch : 0..MaxEpoch, removed : BOOLEAN]
  BY ZenonT(40) DEF Store, TypeOK
<1>10. awaited' \in [Clients -> Slots \cup {None}]
  BY DEF Store, TypeOK
<1> QED
  BY <1>6, <1>8, <1>9, <1>10

LEMMA FinishTypeOK ==
    ASSUME TypeOK, NEW c \in Clients, NEW s \in Slots, NEW n \in Nat,
           NEW b \in BOOLEAN, NEW m \in [Change -> Nat], Finish(c, s, n, b, m)
    PROVE  /\ row' \in [Clients -> Row]
           /\ req' \in [Clients -> [Slots -> Request]]
           /\ awaited' \in [Clients -> Slots \cup {None}]
<1> DEFINE r == req[c][s]
           reply == [Free EXCEPT !.pc = "replied", !.kind = r.kind, !.acked = r.acked,
                                 !.seen = n, !.snapshot = b, !.content = m,
                                 !.removed = r.removed]
           q == IF awaited[c] = s THEN reply ELSE Free
<1>1. r \in Request
  BY DEF TypeOK
<1>2. reply \in Request
  BY <1>1, FreeType, ZenonT(40) DEF Request
<1>3. q \in Request
  BY <1>2, FreeType
<1>4. req' = [req EXCEPT ![c][s] = q]
  BY DEF Finish
<1>5. req' \in [Clients -> [Slots -> Request]]
  <2> HIDE DEF q
  <2> QED BY <1>3, <1>4, UpdateRequest DEF TypeOK
<1>6. row' \in [Clients -> Row]
  BY <1>1, RowAfterType DEF Finish, TypeOK
<1>7. awaited' \in [Clients -> Slots \cup {None}]
  BY DEF Finish, TypeOK
<1> QED
  BY <1>5, <1>6, <1>7

(* The outcomes of Pull. *)
LEMMA PullCases ==
    ASSUME TypeOK, NEW c \in Clients, NEW s \in Slots, Pull(c, s)
    PROVE  \/ PullFails(req[c][s]) /\ Fail(c, s) /\ UNCHANGED row
           \/ /\ ~PullFails(req[c][s])
              /\ \E n \in Nat, b \in BOOLEAN, m \in [Change -> Nat] :
                   Finish(c, s, n, b, m)
<1> DEFINE r == req[c][s]
<1>1. r \in Request
  BY DEF TypeOK
<1>2. r.serverSeq \in Nat /\ r.seen \in Nat
  BY <1>1 DEF Request
<1>3. CASE PullFails(r)
  BY <1>3 DEF Pull
<1>4. CASE ~PullFails(r) /\ (r.kind = "pushonly" \/ EpochMismatch(r.info))
  <2>1. Finish(c, s, r.serverSeq, FALSE, Empty)
    BY <1>4, ZenonT(40) DEF Pull
  <2> QED
    BY <1>2, <1>4, <2>1, EmptyType, ZenonT(40)
<1>5. CASE ~PullFails(r) /\ ~(r.kind = "pushonly" \/ EpochMismatch(r.info))
  <2> DEFINE m == IF PullsSnapshot(r) THEN Snapshot(c, r)
                  ELSE Span(r.serverSeq + 1, r.initial, OwnChanges(c, r))
  <2>1. Finish(c, s, r.seen, PullsSnapshot(r), m)
    BY <1>5 DEF Pull
  <2>2. m \in [Change -> Nat]
    BY <1>1, ContentType
  <2>3. PullsSnapshot(r) \in BOOLEAN
    BY DEF PullsSnapshot
  <2> QED
    BY <1>2, <1>5, <2>1, <2>2, <2>3
<1> QED
  BY <1>3, <1>4, <1>5

LEMMA NextTypeOK == TypeOK /\ [Next]_vars => TypeOK'
<1>FailType.
  ASSUME TypeOK, NEW c \in Clients, NEW s \in Slots, Fail(c, s)
  PROVE  /\ req' \in [Clients -> [Slots -> Request]]
         /\ awaited' \in [Clients -> Slots \cup {None}]
  <2> USE <1>FailType
  <2>1. req \in [Clients -> [Slots -> Request]] /\ awaited \in [Clients -> Slots \cup {None}]
    BY DEF TypeOK
  <2>2. req' = [req EXCEPT ![c][s] = Free]
    BY DEF Fail
  <2>3. req' \in [Clients -> [Slots -> Request]]
    BY <2>1, <2>2, FreeType, UpdateRequest
  <2>4. awaited' \in [Clients -> Slots \cup {None}]
    BY <2>1 DEF Fail
  <2> QED
    BY <2>3, <2>4
<1>AttachingType. [NoRow EXCEPT !.status = "attaching"] \in Row
  BY BoundsNat DEF NoRow, Row
<1>EditTypeOK.
  ASSUME TypeOK, NEW c \in Clients, Edit(c) \/ NewDocument(c)
  PROVE  TypeOK'
  <2> USE <1>EditTypeOK
  <2>1. UNCHANGED <<log, base, doc, row, status, req, awaited>>
    BY DEF Edit, NewDocument, server, calls
  <2>2. /\ gen' \in [Clients -> 1..MaxGens]
        /\ seq' \in [Clients -> 0..MaxSeq]
        /\ cp' \in [Clients -> [serverSeq : Nat, clientSeq : 0..MaxSeq]]
    <3>1. CASE Edit(c)
      BY <3>1, BoundsNat DEF Edit, TypeOK
    <3>2. CASE NewDocument(c)
      <4>1. cp' \in [Clients -> [serverSeq : Nat, clientSeq : 0..MaxSeq]]
        BY <3>2, BoundsNat DEF NewDocument, TypeOK
      <4>2. gen' \in [Clients -> 1..MaxGens] /\ seq' \in [Clients -> 0..MaxSeq]
        BY <3>2, BoundsNat DEF NewDocument, TypeOK
      <4> QED
        BY <4>1, <4>2
    <3> QED
      BY <3>1, <3>2
  <2>3. applied' \in [Clients -> [Change -> Nat]]
    <3>1. Plus(applied[c], Once({<<c, gen[c], seq[c] + 1>>})) \in [Change -> Nat]
      BY OnceType, PlusType, ZenonT(40) DEF TypeOK
    <3>2. \/ applied' = [applied EXCEPT ![c] = Empty]
          \/ applied' = [applied EXCEPT ![c] = Plus(applied[c], Once({<<c, gen[c], seq[c] + 1>>}))]
      BY DEF Edit, NewDocument
    <3> QED
      BY <3>1, <3>2, EmptyType, ZenonT(40) DEF TypeOK
  <2> QED
    BY <2>1, <2>2, <2>3 DEF TypeOK
<1>SendTypeOK.
  ASSUME TypeOK, NEW c \in Clients, NEW k \in AllKinds, Send(c, k)
  PROVE  TypeOK'
  <2> USE <1>SendTypeOK
  <2>1. UNCHANGED <<log, base, doc, row, status, gen, cp, seq, applied>>
    BY DEF Send, server, replica
  <2> DEFINE r == [Free EXCEPT !.pc = "sent", !.kind = k, !.gen = gen[c],
                               !.serverSeq = cp[c].serverSeq,
                               !.from = cp[c].clientSeq, !.to = seq[c]]
  <2>2. PICK s \in Slots : /\ req' = [req EXCEPT ![c][s] = r]
                           /\ awaited' = [awaited EXCEPT ![c] = s]
    BY ZenonT(40) DEF Send
  <2>3. r \in Request
    <3>1. /\ gen[c] \in 1..MaxGens /\ cp[c].serverSeq \in Nat
          /\ cp[c].clientSeq \in 0..MaxSeq /\ seq[c] \in 0..MaxSeq
      BY DEF TypeOK
    <3> QED
      BY <3>1, FreeType, ZenonT(40) DEF Request
  <2>4. req' \in [Clients -> [Slots -> Request]]
    <3> HIDE DEF r
    <3> QED BY <2>2, <2>3, UpdateRequest DEF TypeOK
  <2>5. awaited' \in [Clients -> Slots \cup {None}]
    BY <2>2 DEF TypeOK
  <2> QED
    BY <2>1, <2>4, <2>5 DEF TypeOK
<1>DropTypeOK.
  ASSUME TypeOK, NEW c \in Clients, GiveUp(c) \/ \E s \in Slots : Lose(c, s)
  PROVE  TypeOK'
  <2> USE <1>DropTypeOK
  <2>1. UNCHANGED <<log, base, doc, row, status, gen, cp, seq, applied>>
    BY DEF GiveUp, Lose, server, replica
  <2>2. req' \in [Clients -> [Slots -> Request]]
    <3>1. CASE GiveUp(c)
      <4>1. awaited[c] \in Slots
        BY <3>1 DEF GiveUp, TypeOK
      <4> DEFINE r == IF req[c][awaited[c]].pc = "replied" THEN Free ELSE req[c][awaited[c]]
      <4>2. r \in Request
        BY <4>1, FreeType DEF TypeOK
      <4>3. req' = [req EXCEPT ![c][awaited[c]] = r]
        BY <3>1 DEF GiveUp
      <4> QED
        BY <4>1, <4>2, <4>3, UpdateRequest DEF TypeOK
    <3>2. CASE \E s \in Slots : Lose(c, s)
      BY <3>2, FreeType, UpdateRequest DEF Lose, TypeOK
    <3> QED
      BY <3>1, <3>2
  <2>3. awaited' \in [Clients -> Slots \cup {None}]
    BY ZenonT(40) DEF GiveUp, Lose, TypeOK
  <2> QED
    BY <2>1, <2>2, <2>3 DEF TypeOK
<1>DeliverTypeOK.
  ASSUME TypeOK, NEW c \in Clients, Deliver(c)
  PROVE  TypeOK'
  <2> USE <1>DeliverTypeOK
  <2> DEFINE s == awaited[c]
             r == req[c][s]
  <2>1. s \in Slots /\ r \in Request
    BY DEF Deliver, TypeOK
  <2>2. /\ r.seen \in Nat /\ r.acked \in 0..MaxSeq /\ r.content \in [Change -> Nat]
        /\ cp[c] \in [serverSeq : Nat, clientSeq : 0..MaxSeq]
    BY <2>1 DEF Request, TypeOK
  <2>3. UNCHANGED <<log, base, doc, row, gen, seq>>
    BY DEF Deliver, server
  <2>4. cp' \in [Clients -> [serverSeq : Nat, clientSeq : 0..MaxSeq]]
    <3> DEFINE p == IF r.kind = "pushonly"
                    THEN SyncClientSeq(cp[c], r.acked)
                    ELSE Forward(cp[c], [serverSeq |-> r.seen, clientSeq |-> r.acked])
    <3>1. p \in [serverSeq : Nat, clientSeq : 0..MaxSeq]
      BY <2>2, BoundsNat DEF Forward, SyncClientSeq, Max2
    <3>2. cp' = [cp EXCEPT ![c] = p]
      BY DEF Deliver
    <3> HIDE DEF p
    <3> QED
      BY <3>1, <3>2 DEF TypeOK
  <2>5. applied' \in [Clients -> [Change -> Nat]]
    <3>1. ApplyPack(c, r) \in [Change -> Nat]
      BY <2>2, OnceType, PlusType, ZenonT(40) DEF ApplyPack, TypeOK
    <3>2. applied' = [applied EXCEPT ![c] = IF r.kind = "pushonly" THEN applied[c]
                                            ELSE ApplyPack(c, r)]
      BY DEF Deliver
    <3> QED
      BY <3>1, <3>2 DEF TypeOK
  <2>6. status' \in [Clients -> {"detached", "attached", "removed"}]
    BY DEF Deliver, TypeOK
  <2>7. req' \in [Clients -> [Slots -> Request]]
    BY <2>1, FreeType, UpdateRequest DEF Deliver, TypeOK
  <2>8. awaited' \in [Clients -> Slots \cup {None}]
    BY DEF Deliver, TypeOK
  <2> QED
    BY <2>3, <2>4, <2>5, <2>6, <2>7, <2>8 DEF TypeOK
<1>PushTypeOK.
  ASSUME TypeOK, NEW c \in Clients, NEW s \in Slots, Push(c, s)
  PROVE  TypeOK'
  <2> USE <1>PushTypeOK
  <2> DEFINE r == req[c][s]
             info == Info(c, r)
  <2>1. r \in Request
    BY DEF TypeOK
  <2>2. info \in Row
    BY <2>1, InfoType
  <2>3. UNCHANGED <<base, status, gen, cp, seq, applied>>
    BY DEF Push, replica
  <2>4. row' \in [Clients -> Row]
    <3>1. \/ row' = row
          \/ row' = [row EXCEPT ![c] = [NoRow EXCEPT !.status = "attaching"]]
      BY ZenonT(40) DEF Push, TypeOK
    <3> QED
      BY <3>1, <1>AttachingType, ZenonT(40) DEF TypeOK
  <2>5. /\ log' \in Seq(Change \cup {Compacted})
        /\ doc' \in [epoch : 0..MaxEpoch, removed : BOOLEAN]
        /\ req' \in [Clients -> [Slots -> Request]]
        /\ awaited' \in [Clients -> Slots \cup {None}]
    <3>1. CASE Fail(c, s) /\ UNCHANGED <<log, doc>>
      BY <3>1, <1>FailType DEF TypeOK
    <3>2. CASE \E changes \in Seq(Change) : Store(c, s, info, changes)
      BY <3>2, <2>2, StoreTypeOK
    <3>3. Pushables(c, r, info) \in Seq(Change) /\ <<>> \in Seq(Change)
      BY <2>1, <2>2, PushablesType, EmptySeq
    <3> QED
      BY <3>1, <3>2, <3>3, PushCases, ZenonT(40)
  <2> QED
    BY <2>3, <2>4, <2>5 DEF TypeOK
<1>PullTypeOK.
  ASSUME TypeOK, NEW c \in Clients, NEW s \in Slots, Pull(c, s)
  PROVE  TypeOK'
  <2> USE <1>PullTypeOK
  <2>1. UNCHANGED <<log, base, doc, status, gen, cp, seq, applied>>
    BY DEF Pull, replica
  <2>2. /\ row' \in [Clients -> Row]
        /\ req' \in [Clients -> [Slots -> Request]]
        /\ awaited' \in [Clients -> Slots \cup {None}]
    <3>1. CASE Fail(c, s) /\ UNCHANGED row
      BY <3>1, <1>FailType DEF TypeOK
    <3>2. CASE \E n \in Nat, b \in BOOLEAN, m \in [Change -> Nat] : Finish(c, s, n, b, m)
      BY <3>2, FinishTypeOK
    <3> QED
      BY <3>1, <3>2, PullCases
  <2> QED
    BY <2>1, <2>2 DEF TypeOK
<1>CrashTypeOK.
  ASSUME TypeOK, NEW c \in Clients, NEW s \in Slots, Crash(c, s)
  PROVE  TypeOK'
  <2> USE <1>CrashTypeOK
  <2>1. UNCHANGED <<log, base, doc, status, gen, cp, seq, applied>> /\ Fail(c, s)
    BY DEF Crash, replica
  <2>2. row' \in [Clients -> Row]
    BY <1>AttachingType, ZenonT(40) DEF Crash, TypeOK
  <2> QED
    BY <2>1, <2>2, <1>FailType, ZenonT(40) DEF TypeOK
<1>CompactTypeOK.
  ASSUME TypeOK, Compact
  PROVE  TypeOK'
  <2> USE <1>CompactTypeOK
  <2>1. UNCHANGED <<row, status, gen, cp, seq, applied, req, awaited>>
    BY DEF Compact, replica, calls
  <2>2. /\ base' = Span(1, Len(log), {})
        /\ doc' = [doc EXCEPT !.epoch = doc.epoch + 1]
        /\ log' = <<>> \/ log' = <<Compacted>>
        /\ doc.epoch < MaxEpoch
    BY DEF Compact
  <2>3. base' \in [Change -> Nat]
    <3>1. base \in [Change -> Nat] /\ Len(log) \in Int
      BY DEF TypeOK
    <3>2. Span(1, Len(log), {}) \in [Change -> Nat]
      BY <3>1, SpanType
    <3> QED
      BY <2>2, <3>2
  <2>4. log' \in Seq(Change \cup {Compacted})
    <3>1. \A S, x : x \in S => <<x>> \in Seq(S)
      OBVIOUS
    <3>2. <<Compacted>> \in Seq(Change \cup {Compacted})
      BY <3>1
    <3> QED
      BY <2>2, <3>2, EmptySeq, ZenonT(40)
  <2>5. doc' \in [epoch : 0..MaxEpoch, removed : BOOLEAN]
    <3>1. doc \in [epoch : 0..MaxEpoch, removed : BOOLEAN]
      BY DEF TypeOK
    <3>2. doc.epoch + 1 \in 0..MaxEpoch
      BY <2>2, <3>1, BoundsNat
    <3> QED
      BY <2>2, <3>1, <3>2
  <2> QED
    BY <2>1, <2>3, <2>4, <2>5 DEF TypeOK
<1> SUFFICES ASSUME TypeOK, [Next]_vars PROVE TypeOK'
  OBVIOUS
<1>1. CASE \E c \in Clients : Edit(c) \/ NewDocument(c)
  BY <1>1, <1>EditTypeOK
<1>2. CASE \E c \in Clients, k \in AllKinds : Send(c, k)
  BY <1>2, <1>SendTypeOK
<1>3. CASE \E c \in Clients : GiveUp(c) \/ \E s \in Slots : Lose(c, s)
  BY <1>3, <1>DropTypeOK
<1>4. CASE \E c \in Clients : Deliver(c)
  BY <1>4, <1>DeliverTypeOK
<1>5. CASE \E c \in Clients, s \in Slots : Push(c, s)
  BY <1>5, <1>PushTypeOK
<1>6. CASE \E c \in Clients, s \in Slots : Pull(c, s)
  BY <1>6, <1>PullTypeOK
<1>7. CASE \E c \in Clients, s \in Slots : Crash(c, s)
  BY <1>7, <1>CrashTypeOK
<1>8. CASE Compact
  BY <1>8, <1>CompactTypeOK
<1>9. CASE UNCHANGED vars
  BY <1>9 DEF TypeOK, vars, server, replica, calls
<1> QED
  BY <1>1, <1>2, <1>3, <1>4, <1>5, <1>6, <1>7, <1>8, <1>9 DEF Next

(* Every reachable state of the synchronisation protocol is well typed: in   *)
(* particular no checkpoint or row ever counts more changes than a Document  *)
(* made, and no handler works on a row of an epoch that does not exist.      *)
THEOREM TypeCorrect == Spec => []TypeOK
<1>1. Init => TypeOK
  BY InitTypeOK
<1>2. TypeOK /\ [Next]_vars => TypeOK'
  BY NextTypeOK
<1> QED
  BY <1>1, <1>2, PTL DEF Spec

-----------------------------------------------------------------------------
(* StoredOnce.  It is not inductive: that a push stores only new changes     *)
(* depends on the row covering all that is stored, and between the push and  *)
(* the update of the row that is so only because the handler cannot fail any *)
(* more.  A detach or a remove resets the row, and a crash strikes between   *)
(* the two, so the theorem is about clients that do not detach and handlers  *)
(* that do not crash; PushPull's runs show what happens otherwise.           *)

KindsSent == \A c \in Clients, s \in Slots : req[c][s].kind \in {"attach", "sync", "pushonly"}

\* Change x is covered by its client's row, or will be.
Covered(x) ==
    \/ row[x[1]].status = "attached" /\ x[3] <= row[x[1]].clientSeq
    \/ \E s \in Slots : /\ InService(req[x[1]][s])
                        /\ ~PullFails(req[x[1]][s])
                        /\ x[3] <= req[x[1]][s].acked

Stored(x) == \E i \in 1..Len(log) : log[i] = x

LogCovered == \A x \in Change : Stored(x) => Covered(x)

IInv == TypeOK /\ KindsSent /\ LogCovered /\ StoredOnce

LEMMA CompactedIsNoChange == Compacted \notin Change
BY DEF Compacted, Change

(* A push changes one request and, of the document, at most its removal.     *)
LEMMA PushEffect ==
    ASSUME IInv, NEW c \in Clients, NEW s \in Slots, Push(c, s)
    PROVE  /\ doc'.epoch = doc.epoch
           /\ \A d \in Clients, t \in Slots : d # c \/ t # s => req'[d][t] = req[d][t]
           /\ req'[c][s].kind \in {"attach", "sync", "pushonly"}
           /\ \A d \in Clients : d # c => row'[d] = row[d]
           /\ ~(req[c][s].kind = "attach" /\ Admitted(c, req[c][s])) => row'[c] = row[c]
<1> DEFINE r == req[c][s]
           info == Info(c, r)
<1>1. req \in [Clients -> [Slots -> Request]] /\ row \in [Clients -> Row]
  BY DEF IInv, TypeOK
<1>2. r \in Request /\ r.kind \in {"attach", "sync", "pushonly"}
  BY <1>1 DEF IInv, KindsSent
<1>3. /\ \A d \in Clients : d # c => row'[d] = row[d]
      /\ ~(r.kind = "attach" /\ Admitted(c, r)) => row'[c] = row[c]
  BY <1>1 DEF Push
<1>4. CASE Fail(c, s) /\ UNCHANGED <<log, doc>>
  <2>1. req' = [req EXCEPT ![c][s] = Free] /\ Free.kind = "sync"
    BY <1>4 DEF Fail, Free
  <2> QED
    BY <1>1, <1>3, <1>4, <2>1, FreeType, UpdateRequest
<1>5. ASSUME NEW changes \in Seq(Change), Store(c, s, info, changes)
      PROVE  /\ doc'.epoch = doc.epoch
             /\ \A d \in Clients, t \in Slots : d # c \/ t # s => req'[d][t] = req[d][t]
             /\ req'[c][s].kind \in {"attach", "sync", "pushonly"}
  <2>1. doc'.epoch = doc.epoch
    BY <1>5 DEF Store, IInv, TypeOK
  <2> DEFINE q == [r EXCEPT !.pc = "pushed", !.info = info, !.initial = Len(log),
                            !.seen = Len(log) + Len(changes),
                            !.acked = IF changes = <<>> THEN info.clientSeq ELSE r.to,
                            !.removed = doc.removed \/ r.kind = "remove"]
  <2>2. req' = [req EXCEPT ![c][s] = q]
    BY <1>5 DEF Store
  <2>3. q.kind = r.kind
    BY <1>2 DEF Request
  <2> HIDE DEF q
  <2> QED
    BY <1>1, <1>2, <2>1, <2>2, <2>3
<1>6. info \in Row
  BY <1>2, InfoType DEF IInv
<1>7. Pushables(c, r, info) \in Seq(Change) /\ <<>> \in Seq(Change)
  BY <1>2, <1>6, PushablesType, EmptySeq
<1> QED
  BY <1>3, <1>4, <1>5, <1>7, PushCases, ZenonT(40)

(* What was stored before a push is covered after it.  When the document is  *)
(* being attached nothing of its client was stored.                          *)
LEMMA PushKeepsCovered ==
    ASSUME IInv, NEW c \in Clients, NEW s \in Slots, Push(c, s)
    PROVE  /\ \A x \in Change : Stored(x) => Covered(x)'
           /\ Admitted(c, req[c][s]) =>
                \A x \in Change : Stored(x) /\ x[1] = c
                                    => x[3] <= Info(c, req[c][s]).clientSeq
<1>1. \A x \in Change : Stored(x) /\ x[1] = c
                          => row[c].status = "attached" /\ x[3] <= row[c].clientSeq
  <2>1. \A t \in Slots : ~InService(req[c][t])
    BY DEF Push, DocPullKeyFree
  <2> QED
    BY <2>1 DEF IInv, LogCovered, Covered
<1>2. Admitted(c, req[c][s]) /\ req[c][s].kind = "attach" => row[c].status # "attached"
  BY DEF Admitted, AttachAdmits
<1>3. ASSUME NEW x \in Change, Stored(x) PROVE Covered(x)'
  <2>1. x[1] \in Clients
    BY DEF Change
  <2>2. CASE x[1] = c
    BY <1>1, <1>2, <1>3, <2>2, PushEffect DEF Covered
  <2>3. CASE x[1] # c
    <3>1. \A r : PullFails(r)' <=> PullFails(r)
      BY PushEffect DEF PullFails, EpochMismatch
    <3>2. \A t \in Slots : req'[x[1]][t] = req[x[1]][t]
      BY <2>1, <2>3, PushEffect
    <3>3. row'[x[1]] = row[x[1]]
      BY <2>1, <2>3, PushEffect
    <3>4. Covered(x)
      BY <1>3 DEF IInv, LogCovered
    <3> QED
      BY <3>1, <3>2, <3>3, <3>4 DEF Covered, InService
  <2> QED
    BY <2>2, <2>3
<1>4. ASSUME Admitted(c, req[c][s]), NEW x \in Change, Stored(x), x[1] = c
      PROVE  x[3] <= Info(c, req[c][s]).clientSeq
  BY <1>1, <1>2, <1>4 DEF Info
<1> QED
  BY <1>3, <1>4

LEMMA InitStored == Init => IInv
<1> SUFFICES ASSUME Init PROVE IInv
  OBVIOUS
<1>1. TypeOK
  BY InitTypeOK
<1>2. KindsSent
  BY DEF Init, KindsSent, Free
<1>3. Len(log) = 0
  BY DEF Init
<1> QED
  BY <1>1, <1>2, <1>3 DEF IInv, LogCovered, Stored, StoredOnce

LEMMA NextStored ==
    ASSUME Kinds \subseteq {"attach", "sync", "pushonly"}, "crash" \notin Faults
    PROVE  IInv /\ [Next]_vars => IInv'
\* What is covered stays covered when the row and the requests in service stay.
<1>CoveredKept.
  ASSUME TypeOK, NEW x \in Change, Covered(x), UNCHANGED <<row, doc>>,
         \A s \in Slots : InService(req[x[1]][s]) => req'[x[1]][s] = req[x[1]][s]
  PROVE  Covered(x)'
  <2> USE <1>CoveredKept
  <2>1. \A r : PullFails(r)' <=> PullFails(r)
    BY DEF PullFails, EpochMismatch
  <2> QED
    BY <2>1 DEF Covered, InService
<1>LogKept.
  ASSUME IInv, UNCHANGED <<log, row, doc>>,
         \A c \in Clients, s \in Slots :
           InService(req[c][s]) => req'[c][s] = req[c][s]
  PROVE  LogCovered' /\ StoredOnce'
  <2> USE <1>LogKept
  <2>1. StoredOnce'
    BY DEF IInv, StoredOnce
  <2>2. ASSUME NEW x \in Change, Stored(x)'
        PROVE  Covered(x)'
    <3>1. Stored(x)
      BY <2>2 DEF Stored
    <3>2. x[1] \in Clients
      BY DEF Change
    <3> QED
      BY <3>1, <3>2, <1>CoveredKept DEF IInv, LogCovered
  <2> QED
    BY <2>1, <2>2 DEF LogCovered
(* Requests outside the handlers come and go without effect. *)
<1>ClientStepKeeps.
  ASSUME IInv, NEW c \in Clients,
         \/ Edit(c) \/ NewDocument(c) \/ GiveUp(c) \/ Deliver(c)
         \/ \E k \in Kinds : Send(c, k)
         \/ \E s \in Slots : Lose(c, s),
         Kinds \subseteq {"attach", "sync", "pushonly"}
  PROVE  KindsSent' /\ LogCovered' /\ StoredOnce'
  <2> USE <1>ClientStepKeeps
  <2>1. UNCHANGED <<log, row, doc>>
    BY ZenonT(40) DEF Edit, NewDocument, GiveUp, Deliver, Send, Lose, server
  <2>2. req \in [Clients -> [Slots -> Request]] /\ awaited \in [Clients -> Slots \cup {None}]
    BY DEF IInv, TypeOK
  <2>3. \/ req' = req
        \/ \E s \in Slots, r \in Request :
             /\ req' = [req EXCEPT ![c][s] = r]
             /\ ~InService(req[c][s]) \/ r = req[c][s]
             /\ r = Free \/ r.kind \in Kinds \/ r = req[c][s]
    <3>1. CASE Edit(c) \/ NewDocument(c)
      BY <3>1 DEF Edit, NewDocument, calls
    <3>2. CASE GiveUp(c)
      <4>1. awaited[c] \in Slots
        BY <2>2, <3>2 DEF GiveUp
      <4> DEFINE r == IF req[c][awaited[c]].pc = "replied" THEN Free ELSE req[c][awaited[c]]
      <4>2. r \in Request
        BY <2>2, <4>1, FreeType
      <4>3. req' = [req EXCEPT ![c][awaited[c]] = r]
        BY <3>2 DEF GiveUp
      <4> QED
        BY <4>1, <4>2, <4>3, ZenonT(40) DEF InService
    <3>3. CASE Deliver(c)
      <4>1. awaited[c] \in Slots
        BY <2>2, <3>3 DEF Deliver
      <4>2. req[c][awaited[c]].pc = "replied" /\ req' = [req EXCEPT ![c][awaited[c]] = Free]
        BY <3>3 DEF Deliver
      <4> QED
        BY <4>1, <4>2, FreeType, ZenonT(40) DEF InService
    <3>4. CASE \E k \in Kinds : Send(c, k)
      <4>1. PICK k \in Kinds : Send(c, k)
        BY <3>4
      <4> DEFINE r == [Free EXCEPT !.pc = "sent", !.kind = k, !.gen = gen[c],
                                   !.serverSeq = cp[c].serverSeq,
                                   !.from = cp[c].clientSeq, !.to = seq[c]]
      <4>2. PICK s \in Slots : req[c][s].pc = "free" /\ req' = [req EXCEPT ![c][s] = r]
        BY <4>1, ZenonT(40) DEF Send
      <4>3. r.kind = k
        BY DEF Free
      <4>4. r \in Request
        <5>1. /\ gen[c] \in 1..MaxGens /\ cp[c].serverSeq \in Nat
              /\ cp[c].clientSeq \in 0..MaxSeq /\ seq[c] \in 0..MaxSeq /\ k \in AllKinds
          BY KindsKnown DEF IInv, TypeOK
        <5> QED
          BY <5>1, FreeType, ZenonT(40) DEF Request
      <4> HIDE DEF r
      <4> QED
        BY <4>2, <4>3, <4>4, ZenonT(40) DEF InService
    <3>5. CASE \E s \in Slots : Lose(c, s)
      BY <3>5, FreeType, ZenonT(40) DEF Lose, InService
    <3> QED
      BY <3>1, <3>2, <3>3, <3>4, <3>5
  <2>4. KindsSent'
    <3>1. Free.kind = "sync"
      BY DEF Free
    <3>2. CASE req' = req
      BY <3>2, ZenonT(40) DEF IInv, KindsSent
    <3>3. CASE req' # req
      <4>1. PICK s \in Slots, r \in Request : /\ req' = [req EXCEPT ![c][s] = r]
                                              /\ r = Free \/ r.kind \in Kinds \/ r = req[c][s]
        BY <2>3, <3>3
      <4>2. r.kind \in {"attach", "sync", "pushonly"}
        BY <3>1, <4>1 DEF IInv, KindsSent
      <4>3. /\ req'[c][s] = r
            /\ \A d \in Clients, u \in Slots : d # c \/ u # s => req'[d][u] = req[d][u]
        <5>1. req' = [req EXCEPT ![c][s] = r]
          BY <4>1
        <5> QED
          BY <2>2, <5>1, UpdateRequest
      <4> QED
        BY <4>2, <4>3, ZenonT(40) DEF IInv, KindsSent
    <3> QED
      BY <3>2, <3>3
  <2>5. \A d \in Clients, s \in Slots : InService(req[d][s]) => req'[d][s] = req[d][s]
    BY <2>2, <2>3, UpdateRequest
  <2> QED
    BY <2>1, <2>4, <2>5, <1>LogKept
(* The changes a push stores are new, and covered by the request.            *)
<1>PushKeeps.
  ASSUME IInv, NEW c \in Clients, NEW s \in Slots, Push(c, s)
  PROVE  KindsSent' /\ LogCovered' /\ StoredOnce'
  <2> USE <1>PushKeeps
  <2> DEFINE r == req[c][s]
             info == Info(c, r)
             changes == Pushables(c, r, info)
  <2>1. KindsSent'
    BY PushEffect DEF IInv, KindsSent
  <2>2. log \in Seq(Change \cup {Compacted}) /\ r \in Request
    BY DEF IInv, TypeOK
  <2>3. info \in Row
    BY <2>2, InfoType DEF IInv
  <2>4. CASE log' = log
    <3>1. StoredOnce'
      BY <2>4 DEF IInv, StoredOnce
    <3>2. \A x : Stored(x)' <=> Stored(x)
      BY <2>4 DEF Stored
    <3> QED
      BY <2>1, <3>1, <3>2, PushKeepsCovered DEF LogCovered
  <2>5. CASE /\ Admitted(c, r)
             /\ ~EpochMismatch(info)
             /\ changes # <<>>
             /\ ~(r.serverSeq > Len(log))
             /\ Store(c, s, info, changes)
    <3>1. /\ changes \in Seq(Change)
          /\ \A i \in 1..Len(changes) : /\ changes[i][1] = c
                                        /\ changes[i][3] = Max2(r.from, info.clientSeq) + i
                                        /\ changes[i][3] <= r.to
      BY <2>2, <2>3, PushablesType
    <3>2. log' = log \o changes
      BY <2>5 DEF Store
    <3>3. changes \in Seq(Change \cup {Compacted}) /\ Len(log) \in Nat /\ Len(changes) \in Nat
      BY <2>2, <3>1, SeqDef
    <3>4. /\ Len(log') = Len(log) + Len(changes)
          /\ \A i \in 1..Len(log') : log'[i] = IF i <= Len(log) THEN log[i]
                                                ELSE changes[i - Len(log)]
      BY <2>2, <3>2, <3>3, ConcatProperties
    <3>5. \A i \in 1..Len(changes) : /\ changes[i] \in Change
                                     /\ changes[i][3] > info.clientSeq
      <4>1. r.from \in Nat /\ info.clientSeq \in Nat
        <5> HIDE DEF r, info
        <5>1. r.from \in 0..MaxSeq
          BY <2>2 DEF Request
        <5>2. info.clientSeq \in 0..MaxSeq
          BY <2>3 DEF Row
        <5> QED
          BY <5>1, <5>2, BoundsNat
      <4>2. \A i \in 1..Len(changes) : changes[i] \in Change
        BY <3>1, LenProperties
      <4> HIDE DEF changes, info, r
      <4> QED
        BY <3>1, <4>1, <4>2 DEF Max2
    <3>6. \A i \in 1..Len(changes) : ~Stored(changes[i])
      <4>1. \A x \in Change : Stored(x) /\ x[1] = c => x[3] <= info.clientSeq
        BY <2>5, PushKeepsCovered
      <4>2. \A x \in Change : x[3] \in Nat /\ info.clientSeq \in Nat
        BY <2>3, BoundsNat DEF Row, Change
      <4> HIDE DEF changes, info, r
      <4> QED
        BY <3>1, <3>5, <4>1, <4>2
    <3>7. StoredOnce'
      <4> SUFFICES ASSUME NEW i \in 1..Len(log'), NEW j \in 1..Len(log'), log'[i] = log'[j]
                   PROVE  i = j
        BY DEF StoredOnce
      <4> HIDE DEF changes, info, r
      <4>1. CASE i <= Len(log) /\ j <= Len(log)
        BY <3>3, <3>4, <4>1 DEF IInv, StoredOnce
      <4>2. CASE i <= Len(log) /\ ~(j <= Len(log))
        <5>1. j - Len(log) \in 1..Len(changes) /\ i \in 1..Len(log)
          BY <3>3, <3>4, <4>2
        <5> QED
          BY <3>4, <3>6, <4>2, <5>1 DEF Stored
      <4>3. CASE ~(i <= Len(log)) /\ j <= Len(log)
        <5>1. i - Len(log) \in 1..Len(changes) /\ j \in 1..Len(log)
          BY <3>3, <3>4, <4>3
        <5> QED
          BY <3>4, <3>6, <4>3, <5>1 DEF Stored
      <4>4. CASE ~(i <= Len(log)) /\ ~(j <= Len(log))
        <5>1. i - Len(log) \in 1..Len(changes) /\ j - Len(log) \in 1..Len(changes)
          BY <3>3, <3>4, <4>4
        <5>2. changes[i - Len(log)] = changes[j - Len(log)]
          BY <3>4, <4>4
        <5>3. Max2(r.from, info.clientSeq) \in Nat
          BY <2>2, <2>3, BoundsNat DEF Request, Row, Max2
        <5>4. Max2(r.from, info.clientSeq) + (i - Len(log))
                = Max2(r.from, info.clientSeq) + (j - Len(log))
          BY <3>1, <5>1, <5>2
        <5> QED
          BY <3>3, <5>3, <5>4
      <4> QED
        BY <4>1, <4>2, <4>3, <4>4
    <3>8. \E q : /\ q = req'[c][s]
                 /\ q.pc = "pushed" /\ q.acked = r.to
                 /\ ~PullFails(q)'
      <4>1. PICK q : q = [r EXCEPT !.pc = "pushed", !.info = info, !.initial = Len(log),
                                   !.seen = Len(log) + Len(changes), !.acked = r.to,
                                   !.removed = doc.removed \/ r.kind = "remove"]
        OBVIOUS
      <4>2. req'[c][s] = q
        BY <2>5, <4>1, ZenonT(40) DEF Store, IInv, TypeOK
      <4>3. /\ q.pc = "pushed" /\ q.acked = r.to /\ q.info = info /\ q.initial = Len(log)
            /\ q.serverSeq = r.serverSeq /\ q.kind = r.kind
        BY <2>2, <4>1 DEF Request
      <4>4. r.kind \in {"attach", "sync", "pushonly"} /\ r.serverSeq \in Nat
        BY <2>2 DEF IInv, KindsSent, Request
      <4>5. \A n : EpochMismatch(n)' <=> EpochMismatch(n)
        BY PushEffect DEF EpochMismatch
      <4>6. ~EpochMismatch(q.info)' /\ ~(q.initial < q.serverSeq)
        BY <2>5, <3>3, <4>3, <4>4, <4>5
      <4>7. ~PullFails(q)'
        BY <4>3, <4>4, <4>6 DEF PullFails
      <4> QED
        BY <4>2, <4>3, <4>7
    <3>9. ASSUME NEW x \in Change, Stored(x)' PROVE Covered(x)'
      <4>1. CASE Stored(x)
        BY <4>1, PushKeepsCovered
      <4>2. CASE ~Stored(x)
        <5>1. PICK i \in 1..Len(log') : log'[i] = x
          BY <3>9 DEF Stored
        <5>2. ~(i <= Len(log))
          BY <3>3, <3>4, <4>2, <5>1 DEF Stored
        <5>3. i - Len(log) \in 1..Len(changes) /\ x = changes[i - Len(log)]
          <6> HIDE DEF changes
          <6> QED BY <3>3, <3>4, <5>1, <5>2
        <5>4. x[1] = c /\ x[3] <= r.to
          BY <3>1, <5>3
        <5>5. PICK q : q = req'[c][s] /\ q.pc = "pushed" /\ q.acked = r.to /\ ~PullFails(q)'
          BY <3>8
        <5> HIDE DEF r, info, changes
        <5>6. InService(req[c][s])' /\ x[3] <= req'[c][s].acked
          BY <5>4, <5>5 DEF InService
        <5>7. ~(PullFails(req[c][s])')
          BY <5>5 DEF PullFails, EpochMismatch
        <5> QED
          BY <5>4, <5>6, <5>7 DEF Covered
      <4> QED
        BY <4>1, <4>2
    <3> QED
      BY <2>1, <3>7, <3>9 DEF LogCovered
  <2>6. Store(c, s, info, <<>>) => log' = log
    BY <2>2, ConcatEmptySeq DEF Store
  <2> QED
    BY <2>4, <2>5, <2>6, PushCases
(* A pull that fails covered nothing; one that does not moves what its       *)
(* request covers into the row.                                              *)
<1>PullKeeps.
  ASSUME IInv, NEW c \in Clients, NEW s \in Slots, Pull(c, s)
  PROVE  KindsSent' /\ LogCovered' /\ StoredOnce'
  <2> USE <1>PullKeeps
  <2> DEFINE r == req[c][s]
  <2>1. /\ req \in [Clients -> [Slots -> Request]] /\ row \in [Clients -> Row]
        /\ r \in Request /\ r.kind \in {"attach", "sync", "pushonly"}
    BY DEF IInv, TypeOK, KindsSent
  <2>2. UNCHANGED <<log, doc>>
    BY DEF Pull
  <2>3. StoredOnce'
    BY <2>2 DEF IInv, StoredOnce
  <2>4. \A x : Stored(x)' <=> Stored(x)
    BY <2>2 DEF Stored
  <2>5. \A q : PullFails(q)' <=> PullFails(q)
    BY <2>2 DEF PullFails, EpochMismatch
  <2>6. CASE PullFails(r) /\ Fail(c, s) /\ UNCHANGED row
    <3>1. req' = [req EXCEPT ![c][s] = Free] /\ Free.kind = "sync"
      BY <2>6 DEF Fail, Free
    <3>2. /\ req'[c][s] = Free
          /\ \A d \in Clients, t \in Slots : d # c \/ t # s => req'[d][t] = req[d][t]
      BY <2>1, <3>1, FreeType, UpdateRequest
    <3>3. KindsSent'
      BY <3>1, <3>2 DEF IInv, KindsSent
    <3>4. ASSUME NEW x \in Change, Covered(x) PROVE Covered(x)'
      <4>1. x[1] \in Clients
        BY DEF Change
      <4> QED
        BY <2>5, <2>6, <3>2, <3>4, <4>1 DEF Covered, InService
    <3> QED
      BY <2>3, <2>4, <3>3, <3>4 DEF IInv, LogCovered
  <2>7. CASE \E n \in Nat, b \in BOOLEAN, m \in [Change -> Nat] : Finish(c, s, n, b, m)
    <3>1. PICK n \in Nat, b \in BOOLEAN, m \in [Change -> Nat] : Finish(c, s, n, b, m)
      BY <2>7
    <3>2. PICK q : q = IF awaited[c] = s
                       THEN [Free EXCEPT !.pc = "replied", !.kind = r.kind, !.acked = r.acked,
                                         !.seen = n, !.snapshot = b, !.content = m,
                                         !.removed = r.removed]
                       ELSE Free
      OBVIOUS
    <3>3. q.kind \in {"attach", "sync", "pushonly"}
      BY <2>1, <3>2 DEF Free
    <3>4. req' = [req EXCEPT ![c][s] = q]
      BY <3>1, <3>2 DEF Finish
    <3>5. /\ req'[c][s] = q
          /\ \A d \in Clients, t \in Slots : d # c \/ t # s => req'[d][t] = req[d][t]
      BY <2>1, <3>4
    <3>6. KindsSent'
      BY <3>3, <3>5 DEF IInv, KindsSent
    <3>7. /\ row'[c].status = "attached"
          /\ row'[c].clientSeq = Max2(r.acked, row[c].clientSeq)
          /\ \A d \in Clients : d # c => row'[d] = row[d]
      BY <2>1, <3>1 DEF Finish, RowAfter
    <3>8. r.acked \in Nat /\ row[c].clientSeq \in Nat
      BY <2>1, BoundsNat DEF Request, Row
    <3>9. row'[c].clientSeq \in Nat /\ r.acked <= row'[c].clientSeq
          /\ row[c].clientSeq <= row'[c].clientSeq
      BY <3>7, <3>8 DEF Max2
    <3>10. ASSUME NEW x \in Change, Covered(x) PROVE Covered(x)'
      <4>1. x[1] \in Clients /\ x[3] \in Nat
        BY BoundsNat DEF Change
      <4>2. CASE x[1] # c
        BY <2>5, <3>5, <3>7, <3>10, <4>1, <4>2, ZenonT(40) DEF Covered, InService
      <4>3. CASE x[1] = c /\ x[3] <= r.acked
        <5>1. x[3] <= row'[c].clientSeq
          BY <3>8, <3>9, <4>1, <4>3
        <5> QED
          BY <3>7, <4>3, <5>1 DEF Covered
      <4>4. CASE x[1] = c /\ x[3] <= row[c].clientSeq
        <5>1. x[3] <= row'[c].clientSeq
          BY <3>8, <3>9, <4>1, <4>4
        <5> QED
          BY <3>7, <4>4, <5>1 DEF Covered
      <4>5. CASE /\ x[1] = c
                 /\ \E t \in Slots : /\ t # s /\ InService(req[c][t])
                                     /\ ~PullFails(req[c][t]) /\ x[3] <= req[c][t].acked
        BY <2>5, <3>5, <4>5 DEF Covered, InService
      <4> QED
        BY <3>10, <4>2, <4>3, <4>4, <4>5, ZenonT(40) DEF Covered
    <3> QED
      BY <2>3, <2>4, <3>6, <3>10 DEF IInv, LogCovered
  <2> QED
    BY <2>6, <2>7, PullCases DEF IInv
<1>CompactKeeps.
  ASSUME IInv, Compact
  PROVE  KindsSent' /\ LogCovered' /\ StoredOnce'
  <2> USE <1>CompactKeeps
  <2>1. req' = req /\ (log' = <<>> \/ log' = <<Compacted>>)
    BY DEF Compact, calls
  <2>2. KindsSent'
    BY <2>1 DEF IInv, KindsSent
  <2>3. \A i \in 1..Len(log') : i = 1 /\ log'[i] = Compacted
    <3>1. CASE log' = <<>>
      BY <3>1
    <3>2. CASE log' = <<Compacted>>
      <4>1. \A x : Len(<<x>>) = 1 /\ <<x>>[1] = x
        OBVIOUS
      <4>2. Len(log') = 1 /\ log'[1] = Compacted
        BY <3>2, <4>1
      <4> QED
        BY <4>2
    <3> QED
      BY <2>1, <3>1, <3>2
  <2>4. StoredOnce'
    BY <2>3 DEF StoredOnce
  <2>5. \A x \in Change : ~Stored(x)'
    BY <2>3, CompactedIsNoChange DEF Stored
  <2> QED
    BY <2>2, <2>4, <2>5 DEF LogCovered
<1> SUFFICES ASSUME IInv, [Next]_vars PROVE IInv'
  OBVIOUS
<1>1. TypeOK'
  BY NextTypeOK DEF IInv
<1>2. CASE \E c \in Clients : Edit(c) \/ NewDocument(c) \/ GiveUp(c) \/ Deliver(c)
  BY <1>1, <1>2, <1>ClientStepKeeps DEF IInv
<1>3. CASE \E c \in Clients, k \in AllKinds : Send(c, k)
  <2>1. \E c \in Clients : \E k \in Kinds : Send(c, k)
    BY <1>3, ZenonT(40) DEF Send
  <2> QED
    BY <1>1, <2>1, <1>ClientStepKeeps DEF IInv
<1>4. CASE \E c \in Clients, s \in Slots : Lose(c, s)
  BY <1>1, <1>4, <1>ClientStepKeeps DEF IInv
<1>5. CASE \E c \in Clients, s \in Slots : Push(c, s)
  BY <1>1, <1>5, <1>PushKeeps DEF IInv
<1>6. CASE \E c \in Clients, s \in Slots : Pull(c, s)
  BY <1>1, <1>6, <1>PullKeeps DEF IInv
<1>7. CASE \E c \in Clients, s \in Slots : Crash(c, s)
  BY <1>7 DEF Crash
<1>8. CASE Compact
  BY <1>1, <1>8, <1>CompactKeeps DEF IInv
<1>9. CASE UNCHANGED vars
  <2>1. KindsSent'
    BY <1>9 DEF IInv, KindsSent, vars, calls
  <2>2. LogCovered' /\ StoredOnce'
    BY <1>9, <1>LogKept DEF vars, server, calls
  <2> QED
    BY <1>1, <2>1, <2>2 DEF IInv
<1> QED
  BY <1>2, <1>3, <1>4, <1>5, <1>6, <1>7, <1>8, <1>9 DEF Next

(* No change is ever stored under two server seqs, whatever clients give up  *)
(* on and send again, however their requests are delayed or overtaken, with  *)
(* snapshots, forced compactions, size limits and any number of clients, as  *)
(* long as no handler fails half way and no document is detached or removed: *)
(* pushPack's filter on the row's client seq is enough.                      *)
THEOREM StoresOnce ==
    ASSUME Kinds \subseteq {"attach", "sync", "pushonly"}, "crash" \notin Faults
    PROVE  Spec => []StoredOnce
<1>1. Init => IInv
  BY InitStored
<1>2. IInv /\ [Next]_vars => IInv'
  BY NextStored
<1>3. IInv => StoredOnce
  BY DEF IInv
<1> QED
  BY <1>1, <1>2, <1>3, PTL DEF Spec
=============================================================================

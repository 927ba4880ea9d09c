------------------------------ MODULE PushPull ------------------------------
(***************************************************************************)
(* Document synchronisation: clients that edit replicas of one document,   *)
(* and the server that numbers their changes and hands them out again      *)
(* (server/packs/pushpull.go, the document handlers of                     *)
(* server/rpc/yorkie_server.go, server/backend/database/client_info.go,    *)
(* pkg/document/document.go, client/client.go).                            *)
(*                                                                         *)
(* A change is <<client, generation, clientSeq>>.  The generation counts   *)
(* the Document objects a client has opened the document with, each of     *)
(* which numbers its changes from 1.  What a change does to the document   *)
(* is abstracted to a count of how often it was applied, which is what a   *)
(* Counter shows.  Presence changes occupy a clientSeq like edits do; the  *)
(* one an attach or a detach adds is an Edit before it.                    *)
(*                                                                         *)
(* A request stays with the server when its client stops waiting for the   *)
(* reply, and the client may send the next one meanwhile: DocPullKey makes *)
(* the handlers of one client take turns, not the requests.                *)
(***************************************************************************)
EXTENDS Integers, Sequences, FiniteSets

CONSTANTS
    Clients,            \* the sessions that attach the document
    Slots,              \* the requests one client may have outstanding
    None,               \* no request is awaited
    Kinds,              \* the requests clients send
    Impatient,          \* the clients that may stop waiting for a reply
    Faults,             \* what may go wrong in a handler: "crash", "quota"
    SnapshotThreshold,  \* project.SnapshotThreshold
    ForceCompaction,    \* compaction may skip the attachment check
    EditBeforeAttach,   \* applications edit a Document before attaching it
    MaxSeq,             \* bound: changes per Document object
    MaxGens,            \* bound: Document objects per client
    MaxEpoch,           \* bound: compactions
    MaxLog              \* bound: length of the log at which handlers stop crashing

AllKinds == {"attach", "sync", "pushonly", "detach", "remove"}
AllFaults == {"crash", "quota"}

ASSUME NoneIsNoSlot == None \notin Slots
ASSUME KindsKnown == Kinds \subseteq AllKinds
ASSUME ImpatientAreClients == Impatient \subseteq Clients
ASSUME FaultsKnown == Faults \subseteq AllFaults
ASSUME ThresholdPositive == SnapshotThreshold \in Nat \ {0}
ASSUME FlagsBoolean == ForceCompaction \in BOOLEAN /\ EditBeforeAttach \in BOOLEAN
ASSUME BoundsNat == MaxSeq \in Nat /\ MaxGens \in Nat \ {0} /\ MaxEpoch \in Nat /\ MaxLog \in Nat

VARIABLES
    \* the server
    log,       \* the changes collection: log[s] has server_seq s
    base,      \* content of the compacted change, if the log starts with it
    doc,       \* DocInfo: [epoch, removed]; its ServerSeq is Len(log)
    row,       \* ClientDocInfo of each client
    \* the replicas
    status,    \* status of the client's Document
    gen,       \* which Document object this is
    cp,        \* its checkpoint
    seq,       \* clientSeq of its last change; cp.clientSeq+1..seq are local
    applied,   \* how often each change was applied to its root
    \* the requests
    req,       \* req[c][s]: the request in slot s, up to its reply
    awaited    \* the slot whose reply the client waits for

server == <<log, base, doc, row>>
replica == <<status, gen, cp, seq, applied>>
calls == <<req, awaited>>
vars == <<server, replica, calls>>

-----------------------------------------------------------------------------
(* Changes and document contents. *)

Change == Clients \X (1..MaxGens) \X (1..MaxSeq)

\* The change a compaction leaves behind; it has no client's actor.
Compacted == <<"compacted">>

Empty == [x \in Change |-> 0]

Plus(m, n) == [x \in Change |-> m[x] + n[x]]

\* One application of each of a set of changes.
Once(X) == [x \in Change |-> IF x \in X THEN 1 ELSE 0]

\* What applying the entries lo..hi of the log, without the changes in X,
\* adds to a document.
Span(lo, hi, X) ==
    LET own == [x \in Change |-> IF x \in X THEN 0
                                 ELSE Cardinality({i \in lo..hi : log[i] = x})]
    IN  IF \E i \in lo..hi : log[i] = Compacted THEN Plus(base, own) ELSE own

\* The changes from+1..to of the Document a request was made from.
Batch(c, g, from, to) == {<<c, g, s>> : s \in (from + 1)..to}

Max2(a, b) == IF a >= b THEN a ELSE b

-----------------------------------------------------------------------------
NoRow == [status |-> "none", serverSeq |-> 0, clientSeq |-> 0, epoch |-> 0]

Row == [status : {"none", "attaching", "attached", "detached", "removed"},
        serverSeq : Nat, clientSeq : 0..MaxSeq, epoch : 0..MaxEpoch]

Free == [pc |-> "free", kind |-> "sync", gen |-> 1, serverSeq |-> 0,
         from |-> 0, to |-> 0, info |-> NoRow, seen |-> 0, initial |-> 0,
         acked |-> 0, snapshot |-> FALSE, content |-> Empty, removed |-> FALSE]

Request == [pc : {"free", "sent", "pushed", "replied"},
            kind : AllKinds, gen : 1..MaxGens, serverSeq : Nat,
            from : 0..MaxSeq, to : 0..MaxSeq, info : Row, seen : Nat,
            initial : Nat, acked : 0..MaxSeq, snapshot : BOOLEAN, content : [Change -> Nat],
            removed : BOOLEAN]

Init ==
    /\ log = <<>>
    /\ base = Empty
    /\ doc = [epoch |-> 0, removed |-> FALSE]
    /\ row = [c \in Clients |-> NoRow]
    /\ status = [c \in Clients |-> "detached"]
    /\ gen = [c \in Clients |-> 1]
    /\ cp = [c \in Clients |-> [serverSeq |-> 0, clientSeq |-> 0]]
    /\ seq = [c \in Clients |-> 0]
    /\ applied = [c \in Clients |-> Empty]
    /\ req = [c \in Clients |-> [s \in Slots |-> Free]]
    /\ awaited = [c \in Clients |-> None]

-----------------------------------------------------------------------------
(* The client. *)

\* Document.Update: a new local change.
Edit(c) ==
    /\ \/ status[c] = "attached"
       \/ status[c] = "detached" /\ EditBeforeAttach
    /\ seq[c] < MaxSeq
    /\ seq' = [seq EXCEPT ![c] = @ + 1]
    /\ applied' = [applied EXCEPT ![c] =
                     Plus(@, Once({<<c, gen[c], seq[c] + 1>>}))]
    /\ UNCHANGED <<server, status, gen, cp, calls>>

\* The application opens the document anew with another Document object.
NewDocument(c) ==
    /\ status[c] = "detached"
    /\ awaited[c] = None
    /\ gen[c] < MaxGens
    /\ gen' = [gen EXCEPT ![c] = @ + 1]
    /\ cp' = [cp EXCEPT ![c] = [serverSeq |-> 0, clientSeq |-> 0]]
    /\ seq' = [seq EXCEPT ![c] = 0]
    /\ applied' = [applied EXCEPT ![c] = Empty]
    /\ UNCHANGED <<server, status, calls>>

\* Attach, Sync, Detach and Remove send CreateChangePack: every local change
\* and the checkpoint.  syncMu lets one of them run at a time.
Send(c, k) ==
    /\ k \in Kinds
    /\ awaited[c] = None
    /\ status[c] = IF k = "attach" THEN "detached" ELSE "attached"
    /\ \E s \in Slots :
         /\ req[c][s].pc = "free"
         /\ req' = [req EXCEPT ![c][s] =
                      [Free EXCEPT !.pc = "sent", !.kind = k, !.gen = gen[c],
                                   !.serverSeq = cp[c].serverSeq,
                                   !.from = cp[c].clientSeq, !.to = seq[c]]]
         /\ awaited' = [awaited EXCEPT ![c] = s]
    /\ UNCHANGED <<server, replica>>

\* The call returns an error to the application, which may call again; the
\* server does not learn of it.  A reply on its way is lost.
GiveUp(c) ==
    /\ c \in Impatient
    /\ awaited[c] # None
    /\ awaited' = [awaited EXCEPT ![c] = None]
    /\ req' = [req EXCEPT ![c][awaited[c]] = IF @.pc = "replied" THEN Free ELSE @]
    /\ UNCHANGED <<server, replica>>

\* A request nobody waits for does not reach the server.
Lose(c, s) ==
    /\ req[c][s].pc = "sent"
    /\ awaited[c] # s
    /\ req' = [req EXCEPT ![c][s] = Free]
    /\ UNCHANGED <<server, replica, awaited>>

\* Checkpoint.Forward
Forward(p, q) == [serverSeq |-> Max2(p.serverSeq, q.serverSeq),
                  clientSeq |-> Max2(p.clientSeq, q.clientSeq)]

\* Checkpoint.SyncClientSeq
SyncClientSeq(p, n) == [serverSeq |-> p.serverSeq, clientSeq |-> Max2(p.clientSeq, n)]

\* applyChangePack: the root takes the pulled changes, or becomes the snapshot
\* with the local changes the server has not confirmed replayed on it.
ApplyPack(c, r) ==
    LET confirmed == Max2(cp[c].clientSeq, r.acked)
    IN  IF r.snapshot
        THEN Plus(r.content, Once(Batch(c, gen[c], confirmed, seq[c])))
        ELSE Plus(applied[c], r.content)

\* The reply arrives.  A push-only reply is an acknowledgement: it leaves the
\* server seq where it was.
Deliver(c) ==
    /\ awaited[c] # None
    /\ LET s == awaited[c]
           r == req[c][s]
       IN  /\ r.pc = "replied"
           /\ cp' = [cp EXCEPT ![c] =
                IF r.kind = "pushonly"
                THEN SyncClientSeq(cp[c], r.acked)
                ELSE Forward(cp[c], [serverSeq |-> r.seen, clientSeq |-> r.acked])]
           /\ applied' = [applied EXCEPT ![c] =
                IF r.kind = "pushonly" THEN @ ELSE ApplyPack(c, r)]
           /\ status' = [status EXCEPT ![c] =
                CASE r.removed -> "removed"
                  [] ~r.removed /\ r.kind = "attach" -> "attached"
                  [] ~r.removed /\ r.kind = "detach" -> "detached"
                  [] OTHER -> @]
           /\ req' = [req EXCEPT ![c][s] = Free]
           /\ awaited' = [awaited EXCEPT ![c] = None]
    /\ UNCHANGED <<server, gen, seq>>

-----------------------------------------------------------------------------
(* The server.  A handler holds DocKey for reading, which keeps compaction   *)
(* out, and DocPullKey of its client.  Reading the client's row and pushing  *)
(* are one step: nobody else writes the row, and pushPack reads the document *)
(* afresh under DocPushKey.                                                  *)

InService(r) == r.pc = "pushed"

DocPullKeyFree(c) == \A s \in Slots : ~InService(req[c][s])

\* The handler returns an error.
Fail(c, s) ==
    /\ req' = [req EXCEPT ![c][s] = Free]
    /\ awaited' = [awaited EXCEPT ![c] = IF @ = s THEN None ELSE @]

\* AttachDocument refuses a document that is attached, or that this Document
\* object has detached; a removed document is not attached to, its key then
\* names a new one.
AttachAdmits(c, r) ==
    /\ ~doc.removed
    /\ row[c].status # "attached"
    /\ ~(row[c].status = "detached" /\ r.serverSeq # 0)

\* PushPullChanges: EnsureDocumentAttached.
SyncAdmits(c) == row[c].status = "attached"

\* The handler goes on to PushPull.  DetachDocument and RemoveDocument do not
\* look at the row first.
Admitted(c, r) ==
    CASE r.kind = "attach" -> AttachAdmits(c, r)
      [] r.kind \in {"sync", "pushonly"} -> SyncAdmits(c)
      [] OTHER -> TRUE

\* ClientInfo.AttachDocument: seed the row from the presented checkpoint, its
\* server seq clamped to the document's, if the client has synced before.
Seeded(r) ==
    LET presented == IF r.serverSeq > Len(log) THEN Len(log) ELSE r.serverSeq
    IN  [status |-> "attached", epoch |-> doc.epoch, serverSeq |-> presented,
         clientSeq |-> IF presented # 0 THEN r.from ELSE 0]

\* The ClientDocInfo the handler works with.
Info(c, r) == IF r.kind = "attach" THEN Seeded(r) ELSE row[c]

(* Mutant: epochs are not compared. *)
EpochMismatchIgnored(info) == FALSE

\* The row's epoch is not the document's: it was compacted meanwhile.
EpochMismatch(info) == info.status # "none" /\ info.epoch # doc.epoch

(* Mutant: changes that are already pushed are refused, not skipped. *)
ContinuousStrict(r, info) == r.from = r.to \/ r.from = info.clientSeq

\* validateClientSeqContinuity, for a pack of the changes from+1..to.
Continuous(r, info) ==
    \/ r.from = r.to
    \/ r.to <= info.clientSeq
    \/ r.from <= info.clientSeq

(* Mutant: the changes that are already pushed are not filtered out. *)
PushablesUnfiltered(c, r, info) ==
    [i \in 1..(r.to - r.from) |-> <<c, r.gen, r.from + i>>]

\* The changes of the pack that are not already pushed.
Pushables(c, r, info) ==
    LET pushed == Max2(r.from, info.clientSeq)
    IN  [i \in 1..Max2(0, r.to - pushed) |-> <<c, r.gen, pushed + i>>]

\* CreateChangeInfos: append the changes, advance the checkpoint.
Store(c, s, info, changes) ==
    LET r == req[c][s]
    IN  /\ log' = log \o changes
        /\ doc' = [doc EXCEPT !.removed = @ \/ r.kind = "remove"]
        /\ req' = [req EXCEPT ![c][s] =
                     [@ EXCEPT !.pc = "pushed", !.info = info, !.initial = Len(log),
                               !.seen = Len(log) + Len(changes),
                               !.acked = IF changes = <<>> THEN info.clientSeq ELSE r.to,
                               !.removed = doc.removed \/ r.kind = "remove"]]
        /\ UNCHANGED awaited

\* pushPack refuses the request: its changes leave a gap, it claims a server
\* seq the document has not reached, or it would exceed the size limit.
Refused(r, info, changes, tooLarge) ==
    \/ ~Continuous(r, info)
    \/ /\ ~EpochMismatch(info)
       /\ changes # <<>> \/ r.kind = "remove"
       /\ \/ r.serverSeq > Len(log)
          \/ tooLarge /\ r.kind \notin {"detach", "remove"}

\* A handler up to the end of pushPack.  TryAttaching has written the row by
\* then.  Changes from before a compaction are dropped, and so are those of a
\* detach or a remove that would exceed the size limit.
Push(c, s) ==
    LET r == req[c][s]
        info == Info(c, r)
        changes == Pushables(c, r, info)
    IN  /\ r.pc = "sent"
        /\ DocPullKeyFree(c)
        /\ row' = [row EXCEPT ![c] = IF r.kind = "attach" /\ Admitted(c, r)
                                     THEN [NoRow EXCEPT !.status = "attaching"] ELSE @]
        /\ \E tooLarge \in {FALSE, "quota" \in Faults} :
             IF ~Admitted(c, r) \/ Refused(r, info, changes, tooLarge)
             THEN Fail(c, s) /\ UNCHANGED <<log, doc>>
             ELSE Store(c, s, info, IF EpochMismatch(info) \/ tooLarge THEN <<>> ELSE changes)
        /\ UNCHANGED <<base, replica>>

(* Mutant: a client's own changes are sent back to it. *)
OwnChangesEchoed(c, r) == {}

\* pullChangeInfos leaves out the client's own changes up to the one it has
\* acknowledged.
OwnChanges(c, r) == {x \in Change : x[1] = c /\ x[3] <= r.acked}

(* Mutant: the snapshot is built with the push included, which is then
   applied to it. *)
SnapshotAfterPush(c, r) ==
    Plus(Span(1, r.seen, {}), Once(Batch(c, r.gen, r.from, r.to)))

\* pullSnapshot: the document before this push, with the request's changes.
Snapshot(c, r) ==
    Plus(Span(1, r.initial, {}), Once(Batch(c, r.gen, r.from, r.to)))

PullsSnapshot(r) == r.initial - r.serverSeq >= SnapshotThreshold

(* Mutant: the row takes the client seq the request ends with. *)
RowAfterPresented(c, r, serverSeq) ==
    [status |-> "attached", epoch |-> r.info.epoch, serverSeq |-> serverSeq,
     clientSeq |-> Max2(r.to, row[c].clientSeq)]

\* UpdateDocStatus and UpdateClientInfoAfterPushPull
RowAfter(c, r, serverSeq) ==
    CASE r.kind = "detach" -> [NoRow EXCEPT !.status = "detached"]
      [] r.kind = "remove" -> [NoRow EXCEPT !.status = "removed"]
      [] OTHER -> [status |-> "attached", epoch |-> r.info.epoch,
                   serverSeq |-> Max2(serverSeq, row[c].serverSeq),
                   clientSeq |-> Max2(r.acked, row[c].clientSeq)]

(* Mutant: the reply confirms every change of the request, the dropped ones
   included. *)
FinishConfirmsAll(c, s, serverSeq, snapshot, content) ==
    LET r == req[c][s]
    IN  /\ row' = [row EXCEPT ![c] = RowAfter(c, r, serverSeq)]
        /\ req' = [req EXCEPT ![c][s] =
             IF awaited[c] = s
             THEN [Free EXCEPT !.pc = "replied", !.kind = r.kind, !.acked = Max2(r.acked, r.to),
                               !.seen = serverSeq, !.snapshot = snapshot,
                               !.content = content, !.removed = r.removed]
             ELSE Free]
        /\ UNCHANGED awaited

\* The tail of the handler: the row is saved and the reply sent.
Finish(c, s, serverSeq, snapshot, content) ==
    LET r == req[c][s]
    IN  /\ row' = [row EXCEPT ![c] = RowAfter(c, r, serverSeq)]
        /\ req' = [req EXCEPT ![c][s] =
             IF awaited[c] = s
             THEN [Free EXCEPT !.pc = "replied", !.kind = r.kind, !.acked = r.acked,
                               !.seen = serverSeq, !.snapshot = snapshot,
                               !.content = content, !.removed = r.removed]
             ELSE Free]
        /\ UNCHANGED awaited

\* pullPack fails: the document was compacted, the client claims more than the
\* server has, or a detach finds the document not attached.
PullFails(r) ==
    \/ r.kind \in {"attach", "sync"} /\ EpochMismatch(r.info)
    \/ r.kind # "pushonly" /\ ~EpochMismatch(r.info) /\ r.initial < r.serverSeq
    \/ r.kind \in {"detach", "remove"} /\ r.info.status \notin {"attached", "attaching"}

Pull(c, s) ==
    LET r == req[c][s]
    IN  /\ r.pc = "pushed"
        /\ CASE PullFails(r) -> Fail(c, s) /\ UNCHANGED row
             [] ~PullFails(r) /\ (r.kind = "pushonly" \/ EpochMismatch(r.info)) ->
                  Finish(c, s, r.serverSeq, FALSE, Empty)
             [] OTHER ->
                  Finish(c, s, r.seen, PullsSnapshot(r),
                         IF PullsSnapshot(r) THEN Snapshot(c, r)
                         ELSE Span(r.serverSeq + 1, r.initial, OwnChanges(c, r)))
        /\ UNCHANGED <<log, base, doc, replica>>

\* The handler's storage fails or its node stops after the push, or after
\* TryAttaching and before the push.
Crash(c, s) ==
    /\ "crash" \in Faults
    /\ Len(log) <= MaxLog
    /\ \/ InService(req[c][s]) /\ UNCHANGED row
       \/ /\ req[c][s].pc = "sent" /\ req[c][s].kind = "attach"
          /\ DocPullKeyFree(c) /\ Admitted(c, req[c][s])
          /\ row' = [row EXCEPT ![c] = [NoRow EXCEPT !.status = "attaching"]]
    /\ Fail(c, s)
    /\ UNCHANGED <<log, base, doc, replica>>

\* packs.Compact, holding DocKey for writing: the changes are replaced by one
\* that rebuilds the document, none if it is empty.
Compact ==
    /\ doc.epoch < MaxEpoch
    /\ \A c \in Clients : DocPullKeyFree(c)
    /\ ForceCompaction \/ \A c \in Clients : row[c].status \notin {"attaching", "attached"}
    /\ base' = Span(1, Len(log), {})
    /\ log' = IF base' = Empty THEN <<>> ELSE <<Compacted>>
    /\ doc' = [doc EXCEPT !.epoch = @ + 1]
    /\ UNCHANGED <<row, replica, calls>>

-----------------------------------------------------------------------------
Next ==
    \/ \E c \in Clients : Edit(c) \/ NewDocument(c) \/ GiveUp(c) \/ Deliver(c)
    \/ \E c \in Clients, k \in AllKinds : Send(c, k)
    \/ \E c \in Clients, s \in Slots : Push(c, s) \/ Pull(c, s) \/ Lose(c, s) \/ Crash(c, s)
    \/ Compact

Spec == Init /\ [][Next]_vars

\* Clients keep trying to attach and to sync; a handler that waits for
\* DocPullKey gets it (a Go mutex does not starve a waiter) and goes on; from
\* some point on the server answers before clients stop waiting.
Fairness ==
    /\ \A c \in Clients :
         /\ WF_vars(Send(c, "attach") \/ Send(c, "sync"))
         /\ WF_vars(Deliver(c))
         /\ \A s \in Slots : SF_vars(Push(c, s)) /\ WF_vars(Pull(c, s))
    /\ <>[][\A c \in Clients : ~GiveUp(c)]_vars

FairSpec == Spec /\ Fairness

-----------------------------------------------------------------------------
TypeOK ==
    /\ log \in Seq(Change \cup {Compacted})
    /\ base \in [Change -> Nat]
    /\ doc \in [epoch : 0..MaxEpoch, removed : BOOLEAN]
    /\ row \in [Clients -> Row]
    /\ status \in [Clients -> {"detached", "attached", "removed"}]
    /\ gen \in [Clients -> 1..MaxGens]
    /\ cp \in [Clients -> [serverSeq : Nat, clientSeq : 0..MaxSeq]]
    /\ seq \in [Clients -> 0..MaxSeq]
    /\ applied \in [Clients -> [Change -> Nat]]
    /\ req \in [Clients -> [Slots -> Request]]
    /\ awaited \in [Clients -> Slots \cup {None}]

\* No change is stored under two server seqs: pushPack's filter recognises
\* every change of a retried request.
StoredOnce ==
    \A i, j \in 1..Len(log) : log[i] = log[j] => i = j

Own(c) == {<<c, gen[c], s>> : s \in 1..seq[c]}

\* A replica of the current epoch has applied each change up to its server seq
\* and each of its own changes exactly once, and nothing else, whatever was
\* lost, retried or pushed meanwhile.  A change that is stored twice (its attach
\* was retried after a crash) is the exception.
AppliedExactlyOnce ==
    LET all == Span(1, Len(log), {})
    IN  \A c \in Clients :
          status[c] = "attached" /\ row[c].epoch = doc.epoch =>
            LET stored == Span(1, cp[c].serverSeq, {})
            IN  \A x \in Change :
                  all[x] <= 1 => applied[c][x] = IF x \in Own(c) THEN 1 ELSE stored[x]

\* While no Document is reopened and nothing compacted, this is an
\* implementation of ChangeLog: requests, retries and lost replies are
\* stuttering, a push publishes, a reply received is a prefix taken in.
CL == INSTANCE ChangeLog WITH
        entries <- [i \in 1..Len(log) |-> <<log[i][1], log[i][3]>>],
        made <- seq,
        position <- [c \in Clients |-> cp[c].serverSeq],
        counts <- [c \in Clients |-> [x \in Clients \X (1..MaxSeq) |->
                     applied[c][<<x[1], 1, x[2]>>]]]

ImplementsChangeLog == CL!Spec

\* A change the client has dropped from its local changes is in the log, or in
\* the change the log was compacted to.
AckedIsStored ==
    LET stored == Span(1, Len(log), {})
    IN  \A c \in Clients :
          status[c] = "attached" =>
            \A n \in 1..cp[c].clientSeq : stored[<<c, gen[c], n>>] >= 1

\* A change pushPack would skip as already pushed is in the log, or in the
\* change the log was compacted to, though handlers stop between storing
\* changes and updating the row that says so.
SkippedIsStored ==
    LET stored == Span(1, Len(log), {})
    IN  \A c \in Clients, n \in 1..MaxSeq :
          row[c].status = "attached" /\ n <= row[c].clientSeq =>
            \E g \in 1..gen[c] : stored[<<c, g, n>>] >= 1

\* A log of one epoch holds no change made on a replica of another: pushPack
\* drops what a client sends from before a compaction.
EpochsDoNotMix ==
    \A i \in 1..Len(log), c \in Clients :
      /\ status[c] = "attached" /\ row[c].status = "attached"
      /\ \E n \in 1..seq[c] : log[i] = <<c, gen[c], n>>
      => row[c].epoch = doc.epoch

Synced(c) == cp[c].clientSeq = seq[c] /\ cp[c].serverSeq = Len(log)

\* Once edits stop, every attached replica has pushed all of its changes and
\* pulled everyone's, however many replies were lost on the way.
Converges == <>[](\A c \in Clients : status[c] = "attached" => Synced(c))
=============================================================================

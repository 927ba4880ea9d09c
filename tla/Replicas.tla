------------------------------ MODULE Replicas ------------------------------
(***************************************************************************)
(* Replicas of one document: what clients do to their copies               *)
(* (pkg/document/document.go, internal_document.go), the changes they      *)
(* exchange through the server's log, and the version vectors that decide  *)
(* when a removed element may be collected (server/packs/pushpull.go and   *)
(* the version vector rows of the database).                               *)
(*                                                                         *)
(* PushPull models how a request survives retries, crashes and             *)
(* compaction; here every request is answered once, and what counts is     *)
(* what the changes do to the documents.                                   *)
(*                                                                         *)
(* Actor 0 wrote the document's first changes and left.  A change carries  *)
(* one operation.  A client whose pack fails to apply takes no further     *)
(* step: its next pull would receive the same changes and fail again.      *)
(***************************************************************************)
EXTENDS DocRoot

CONSTANTS
    Clients,            \* the clients, actors of the document
    Keys,               \* keys of the object
    Plans,              \* what the applications do: the kinds of calls each client makes, in
                        \* order, which clients attach only after the first edits, the modes
                        \* they sync in, and how far behind a pull answers with a snapshot
    BaseSize,           \* elements in the array at the start
    Interleaved         \* may other requests run between a request's push and its pull?

(* The editing calls of the json proxies. *)
Calls == {"push", "insert", "move", "movelast", "delete", "assign", "key"}

ASSUME ReplicasAssumption ==
    /\ Clients \subseteq Nat \ {0} /\ Actors = Clients \cup {0}
    /\ Plans \subseteq [calls : [Clients -> Seq(SUBSET Calls)], late : SUBSET Clients,
                        modes : SUBSET {"sync", "pushonly"}, threshold : Nat \ {0}]
    /\ BaseSize \in Nat
    /\ Interleaved \in BOOLEAN

VARIABLES
    plan,   \* one of Plans
    doc,    \* doc[c]: the Document of a client
    log,    \* the changes the server has stored
    rows,   \* rows[c]: the version vector the server recorded last for a client
    call    \* call[c]: the request of a client and how far it is

vars == <<plan, doc, log, rows, call>>

(* A clone that is not to be used any more, or was not made yet. *)
Stale == [stale |-> TRUE]

Idle == [pc |-> "idle"]

(***************************************************************************)
(* Applying changes.                                                       *)
(***************************************************************************)
EnsureClone(d) == IF d.clone = Stale THEN [d EXCEPT !.clone = DeepCopyRoot(d.root)] ELSE d

(* One remote change, on the clone and then on the root. *)
ApplyChange(d, c) ==
    IF d.failed \/ ~Applies(d.clone, c.op) \/ ~Applies(d.root, c.op)
    THEN [d EXCEPT !.failed = TRUE, !.clone = Stale]
    ELSE [d EXCEPT !.clone = Execute(d.clone, c.op),
                   !.root = Execute(d.root, c.op),
                   !.id = SyncClocks(d.id, c.id)]

ApplyChanges(d, changes) == FoldLeft(ApplyChange, EnsureClone(d), changes)

RemovePushedLocalChanges(d, ack) ==
    [d EXCEPT !.local = SelectSeq(d.local, LAMBDA c : c.seq > ack)]

CollectDocument(d, vv) ==
    [d EXCEPT !.root = GarbageCollect(d.root, vv),
              !.clone = IF d.clone = Stale THEN Stale ELSE GarbageCollect(d.clone, vv)]

(* A reply with changes: apply, acknowledge, forward the checkpoint, collect. *)
ApplyChangesPack(d, pack) ==
    LET applied == ApplyChanges(d, pack.changes)
        acked   == RemovePushedLocalChanges(applied, pack.ack)
    IN  IF applied.failed THEN applied
        ELSE CollectDocument([acked EXCEPT !.cp = Max({d.cp, pack.serverSeq})], pack.vv)

(* A reply with a snapshot: load it, then the local changes it lacks. *)
ApplySnapshotPack(d, pack) ==
    LET loaded == [d EXCEPT !.root = Restore(pack.snapshot), !.clone = Stale,
                            !.id = SetClocks(d.id, MaxLamport(pack.vv), pack.vv)]
        acked  == RemovePushedLocalChanges(loaded, pack.ack)
        again  == ApplyChanges(acked, acked.local)
    IN  IF again.failed THEN again ELSE [again EXCEPT !.cp = Max({d.cp, pack.serverSeq})]

(* The reply to a push-only request only acknowledges. *)
AcknowledgePushedChanges(d, pack) == RemovePushedLocalChanges(d, pack.ack)

(***************************************************************************)
(* The start: actor 0 has filled the array, and everyone but the late      *)
(* clients has pulled that and reported it.                                *)
(***************************************************************************)
Base ==
    [i \in 1 .. BaseSize |->
        [id  |-> [InitialID(0) EXCEPT !.lamport = i, !.vv = [InitialVersionVector EXCEPT ![0] = i]],
         seq |-> i,
         op  |-> [type |-> "add", prev |-> <<i - 1, 0>>, at |-> <<i, 0>>]]]

NewDocument(c) ==
    [root |-> EmptyRoot, clone |-> Stale, id |-> InitialID(c), local |-> <<>>,
     seq |-> 0, cp |-> 0, attached |-> FALSE, failed |-> FALSE]

BaseDocument(c) == [ApplyChanges(NewDocument(c), Base) EXCEPT !.cp = BaseSize, !.attached = TRUE]

Init ==
    /\ plan \in Plans
    /\ doc = [c \in Clients |-> IF c \in plan.late THEN NewDocument(c) ELSE BaseDocument(c)]
    /\ log = Base
    /\ rows = [c \in Clients |-> IF c \in plan.late THEN None ELSE BaseDocument(c).id.vv]
    /\ call = [c \in Clients |-> Idle]

(***************************************************************************)
(* Local edits, through the json proxies of the clone.                     *)
(***************************************************************************)
Push(r) == {[type |-> "add", prev |-> LastCreatedAt(r.list)]}

Insert(r) == {[type |-> "add", prev |-> PosCreatedAt(r.list, e)] : e \in LiveElements(r.list)}

MoveAfterByIndex(r) ==
    {[type |-> "move", prev |-> PosCreatedAt(r.list, p[1]), elem |-> p[2]] :
        p \in LiveElements(r.list) \X LiveElements(r.list)}

MoveBefore(r) ==
    {[type |-> "move", prev |-> FindPrevCreatedAt(r.list, p[1]), elem |-> p[2]] :
        p \in LiveElements(r.list) \X LiveElements(r.list)}

MoveLast(r) ==
    {[type |-> "move", prev |-> LastCreatedAt(r.list), elem |-> e] : e \in LiveElements(r.list)}

Delete(r) == {[type |-> "remove", elem |-> e] : e \in LiveElements(r.list)}

Assign(r) == {[type |-> "assign", elem |-> e] : e \in LiveElements(r.list)}

SetKey(r) == {[type |-> "set", key |-> k] : k \in Keys}

DeleteKey(r) == {[type |-> "remove", elem |-> Members(r)[k]] : k \in DOMAIN Members(r)}

LocalCalls(r, calls) ==
    UNION {IF "push" \in calls THEN Push(r) ELSE {},
           IF "insert" \in calls THEN Insert(r) ELSE {},
           IF "move" \in calls THEN MoveAfterByIndex(r) \cup MoveBefore(r) ELSE {},
           IF "movelast" \in calls THEN MoveLast(r) ELSE {},
           IF "delete" \in calls THEN Delete(r) ELSE {},
           IF "assign" \in calls THEN Assign(r) ELSE {},
           IF "key" \in calls THEN SetKey(r) \cup DeleteKey(r) ELSE {}}

(* The operation of a choice, executed at the given ticket. *)
At(choice, t) == [x \in DOMAIN choice \cup {"at"} |-> IF x = "at" THEN t ELSE choice[x]]

(***************************************************************************)
(* Unless Interleaved, a request's push and pull are one step.             *)
(***************************************************************************)
NoneBetween == Interleaved \/ \A c \in Clients : call[c].pc # "pushed"

MayEdit(c) ==
    /\ NoneBetween
    /\ doc[c].attached /\ ~doc[c].failed /\ doc[c].seq < Len(plan.calls[c])

(* Update: the clone is edited, then the root, and the change is kept for the next push. *)
Update(c) ==
    /\ MayEdit(c)
    /\ LET d  == EnsureClone(doc[c])
           id == NextID(d.id)
       IN  \E choice \in LocalCalls(d.clone, plan.calls[c][d.seq + 1]) :
             LET op == At(choice, TicketOf(id)) IN
               /\ Applies(d.root, op)
               /\ doc' = [doc EXCEPT ![c] =
                    [d EXCEPT !.clone = Execute(d.clone, op),
                              !.root = Execute(d.root, op),
                              !.id = id, !.seq = d.seq + 1,
                              !.local = Append(d.local, [id |-> id, seq |-> d.seq + 1, op |-> op])]]
    /\ UNCHANGED <<plan, log, rows, call>>

(* An updater that fails leaves a clone that is not to be used. *)
UpdateFails(c) ==
    /\ MayEdit(c)
    /\ doc[c].clone # Stale
    /\ doc' = [doc EXCEPT ![c].clone = Stale]
    /\ UNCHANGED <<plan, log, rows, call>>

(***************************************************************************)
(* A request: the pack is made, pushed, pulled and applied.                *)
(***************************************************************************)
CreateChangePack(c, mode) ==
    /\ NoneBetween
    /\ call[c] = Idle /\ ~doc[c].failed
    /\ mode = "pushonly" => doc[c].attached
    /\ call' = [call EXCEPT ![c] =
                  [pc |-> "sent", mode |-> mode, changes |-> doc[c].local,
                   cp |-> doc[c].cp, vv |-> doc[c].id.vv]]
    /\ UNCHANGED <<plan, doc, log, rows>>

(* The sequence number up to which the server has a client's changes. *)
StoredSeq(c) == Cardinality({i \in DOMAIN log : log[i].id.actor = c})

PushPack(c) ==
    /\ call[c].pc = "sent"
    /\ NoneBetween
    /\ LET pushables == SelectSeq(call[c].changes, LAMBDA x : x.seq > StoredSeq(c)) IN
         /\ log' = log \o pushables
         /\ call' = [call EXCEPT ![c] =
                       [pc |-> "pushed", mode |-> call[c].mode, cp |-> call[c].cp, vv |-> call[c].vv,
                        pushed |-> call[c].changes,
                        initialSeq |-> Len(log), serverSeq |-> Len(log) + Len(pushables)]]
    /\ UNCHANGED <<plan, doc, rows>>

(* The document as the server replays it up to a sequence number. *)
ServerDocument(seq) == ApplyChanges(NewDocument(0), SubSeq(log, 1, seq))

(* Mutant: only the requesting client's vector counts. *)
MinOfRequest(rs, vv) == vv

(* The minimum over the recorded vectors and the given one. *)
GetMinVersionVector(rs, vv) == MinVersionVector({vv} \cup ({rs[c] : c \in Clients} \ {None}))

(* pullChangeInfos: the changes since the client's checkpoint that are not its own. *)
PullChanges(c, req, rs) ==
    [pc |-> "replied", mode |-> "changes",
     changes |-> SelectSeq(SubSeq(log, req.cp + 1, req.initialSeq), LAMBDA x : x.id.actor # c),
     serverSeq |-> req.serverSeq, ack |-> StoredSeq(c),
     vv |-> GetMinVersionVector(rs, req.vv)]

(* pullSnapshot: the server's document, collected with the rows as they are. *)
PullSnapshot(c, req, rs) ==
    LET d  == ApplyChanges(ServerDocument(req.initialSeq), req.pushed)
        vv == [d.id.vv EXCEPT ![0] = BaseSize]   \* no ticket is the server's own
    IN  [pc |-> "replied", mode |-> "snapshot",
         snapshot |-> GarbageCollect(d.root, GetMinVersionVector(rs, vv)),
         serverSeq |-> req.serverSeq, ack |-> StoredSeq(c), vv |-> vv]

PullPack(c) ==
    /\ call[c].pc = "pushed"
    /\ LET req == call[c] IN
         /\ rows' = [rows EXCEPT ![c] = req.vv]
         /\ call' = [call EXCEPT ![c] =
              IF req.mode = "pushonly"
              THEN [pc |-> "replied", mode |-> "pushonly", ack |-> StoredSeq(c)]
              ELSE IF req.initialSeq - req.cp < plan.threshold THEN PullChanges(c, req, rows')
              ELSE PullSnapshot(c, req, rows)]
    /\ UNCHANGED <<plan, doc, log>>

ApplyChangePack(c) ==
    /\ NoneBetween
    /\ call[c].pc = "replied"
    /\ doc' = [doc EXCEPT ![c] =
         CASE call[c].mode = "changes"  -> [ApplyChangesPack(doc[c], call[c]) EXCEPT !.attached = TRUE]
           [] call[c].mode = "snapshot" -> [ApplySnapshotPack(doc[c], call[c]) EXCEPT !.attached = TRUE]
           [] call[c].mode = "pushonly" -> AcknowledgePushedChanges(doc[c], call[c])]
    /\ call' = [call EXCEPT ![c] = Idle]
    /\ UNCHANGED <<plan, log, rows>>

Next ==
    \E c \in Clients :
      \/ Update(c)
      \/ UpdateFails(c)
      \/ \E mode \in plan.modes : CreateChangePack(c, mode)
      \/ PushPack(c)
      \/ PullPack(c)
      \/ ApplyChangePack(c)

Spec == Init /\ [][Next]_vars

-----------------------------------------------------------------------------
(***************************************************************************)
(* Properties                                                              *)
(***************************************************************************)
TypeOK ==
    /\ DOMAIN doc = Clients
    /\ \A c \in Clients :
         /\ doc[c].seq \in 0 .. Len(plan.calls[c]) /\ doc[c].cp \in 0 .. Len(log)
         /\ doc[c].id.actor = c /\ doc[c].id.vv \in VersionVectors
         /\ doc[c].id.vv[c] = doc[c].id.lamport
         /\ Len(doc[c].local) <= doc[c].seq
         /\ rows[c] # None => rows[c] \in VersionVectors
         /\ call[c].pc \in {"idle", "sent", "pushed", "replied"}

(* The changes a client's document has taken in. *)
Seen(c) ==
    {log[i].id : i \in {j \in DOMAIN log : j <= doc[c].cp \/ log[j].id.actor = c}}
        \cup {doc[c].local[i].id : i \in DOMAIN doc[c].local}

(* Two documents that have taken in the same changes read the same,        *)
(* whatever the order they came in and whatever either has collected.      *)
Convergence ==
    \A c, d \in Clients :
      (c < d /\ ~doc[c].failed /\ ~doc[d].failed /\ Seen(c) = Seen(d))
        => Contents(doc[c].root) = Contents(doc[d].root)

(* The clone an updater edits is the root's equal unless it is marked      *)
(* stale, its garbage and its size included (Document.cloneStale).         *)
CloneIsRoot ==
    \A c \in Clients : doc[c].clone # Stale => doc[c].clone = doc[c].root

(* A copy of a document, with its worklists and its size computed anew, is *)
(* the document: no tombstone is unregistered, no position is lost and     *)
(* docSize has not drifted (Root.DeepCopy, NewRoot).                       *)
CopyIsExact == \A c \in Clients : DeepCopyRoot(doc[c].root) = doc[c].root

(* A document read from a snapshot of another reads the same and keeps     *)
(* every position an edit may refer to (converter.SnapshotToBytes).        *)
SnapshotIsFaithful ==
    \A c \in Clients :
      LET restored == Restore(doc[c].root) IN
        /\ Contents(restored) = Contents(doc[c].root)
        /\ restored.list = doc[c].root.list

(* The order of the worklist does not decide what a collection leaves      *)
(* (Root.GarbageCollect: "independent of Go's map iteration order").       *)
CollectOrderFree ==
    \A c, d \in Clients :
      rows[d] # None =>
        \A pair \in Worklist(doc[c].root) :
          Purgeable(doc[c].root, rows[d], pair)
            => GarbageCollect(Purge(doc[c].root, pair), rows[d]) = GarbageCollect(doc[c].root, rows[d])

(* No client that syncs meets a change that refers to a node it has        *)
(* already collected: the minimum version vector covers a removal only     *)
(* once nobody can still refer to what was removed.                        *)
EveryChangeApplies == \A c \in Clients : ~doc[c].failed

(* The minimum vector a reply carries covers every edit the server has. *)
CoversLog(vv) == \A i \in DOMAIN log : EqualToOrAfter(vv, TicketOf(log[i].id))

(* No tombstone outlives its use: a client without changes of its own that *)
(* applies a reply whose minimum vector covers every edit has no garbage   *)
(* left, whatever stood in its way before (Root.GarbageCollect).           *)
GarbageGoes ==
    [][\A c \in Clients :
         (/\ call[c].pc = "replied" /\ call'[c] = Idle
          /\ call[c].mode = "changes" /\ CoversLog(call[c].vv)
          /\ ~doc'[c].failed /\ doc'[c].local = <<>>)
           => Worklist(doc'[c].root) = {}]_vars
=============================================================================

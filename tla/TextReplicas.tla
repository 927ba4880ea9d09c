---------------------------- MODULE TextReplicas ----------------------------
(***************************************************************************)
(* Replicas of a document that holds one Text, with undo and redo          *)
(* (pkg/document/document.go, history.go) and the server that orders their *)
(* changes (server/packs).                                                 *)
(*                                                                         *)
(* Replicas models how requests interleave.  Here a request is one step,   *)
(* though its reply may be lost; what counts is what edits, styles, undos  *)
(* and redos do to a text that is cut, removed and collected differently   *)
(* on every replica.  A change carries one operation.  Actor 0 wrote the   *)
(* first text and left.                                                    *)
(***************************************************************************)
EXTENDS Text

CONSTANTS
    Clients,            \* the clients, actors of the document
    Plans,              \* plans: the kinds of calls each client makes, in order, and
                        \* whether documents are made WithDisableGC and the server
                        \* runs with SnapshotDisableGC; whose replies may be lost
    BaseText,           \* the text at the start
    Words,              \* what an insertion may insert
    SnapshotThreshold,  \* changes behind from which a pull answers with a snapshot
    Depth               \* MaxUndoRedoStackDepth

Calls == {"insert", "delete", "replace", "style", "undo", "redo"}

ASSUME TextReplicasAssumption ==
    /\ Clients \subseteq Nat \ {0} /\ Actors = Clients \cup {0}
    /\ \A p \in Plans : p.calls \in [Clients -> Seq(SUBSET Calls)] /\ p.disableGC \in BOOLEAN /\ p.lossy \subseteq Clients
    /\ SnapshotThreshold \in Nat \ {0} /\ Depth \in Nat \ {0}

VARIABLES
    plan,    \* one of Plans
    doc,     \* doc[c]: the Document of a client
    log,     \* the changes the server has stored
    server,  \* the document the server builds from them
    rows,    \* rows[c]: the version vector the server recorded last for a client
    app      \* app[c]: how many calls the application of a client has made, and
             \* the texts its stacks should give back, one per entry

vars == <<plan, doc, log, server, rows, app>>

(* A clone that is not to be used any more, or was not made yet. *)
Stale == [stale |-> TRUE]

EnsureClone(d) == IF d.clone = Stale THEN [d EXCEPT !.clone = DeepCopyRoot(d.root)] ELSE d

(***************************************************************************)
(* Applying remote changes: on the clone, on the root, then on the stacks. *)
(***************************************************************************)
Applied(d, c, onClone, onRoot) ==
    IF onClone.failed \/ onRoot.failed THEN [d EXCEPT !.failed = TRUE, !.clone = Stale]
    ELSE [d EXCEPT !.clone = onClone.r, !.root = onRoot.r, !.id = SyncClocks(d.id, c.id),
                   !.undo = ReconcileTextEdit(@, onRoot.r, c.op),
                   !.redo = ReconcileTextEdit(@, onRoot.r, c.op)]

ApplyChange(d, c) ==
    IF d.failed THEN d
    ELSE Applied(d, c, Execute(d.clone, c.op, "remote", c.id.vv), Execute(d.root, c.op, "remote", c.id.vv))

RECURSIVE ApplyAll(_, _)
ApplyAll(d, changes) ==
    IF changes = <<>> THEN d ELSE ApplyAll(ApplyChange(d, Head(changes)), Tail(changes))

ApplyChanges(d, changes) == ApplyAll(EnsureClone(d), changes)

RemovePushedLocalChanges(d, ack) ==
    [d EXCEPT !.local = SelectSeq(d.local, LAMBDA c : c.seq > ack)]

CollectDocument(d, vv, disableGC) ==
    IF disableGC THEN d
    ELSE [d EXCEPT !.root = GarbageCollect(d.root, vv),
                   !.clone = IF d.clone = Stale THEN Stale ELSE GarbageCollect(d.clone, vv)]

Acknowledged(applied, pack) ==
    IF applied.failed THEN applied
    ELSE CollectDocument([RemovePushedLocalChanges(applied, pack.ack) EXCEPT !.cp = Max({@, pack.serverSeq})],
                         pack.vv, pack.disableGC)

(* A snapshot empties the stacks once the local changes are applied again. *)
Reapplied(again, pack) ==
    IF again.failed THEN again
    ELSE [again EXCEPT !.cp = Max({@, pack.serverSeq}), !.undo = <<>>, !.redo = <<>>]

ApplySnapshot(d, pack) ==
    RemovePushedLocalChanges([d EXCEPT !.root = LoadSnapshot(pack.snapshot), !.clone = Stale,
                                       !.id = SetClocks(d.id, MaxLamport(pack.vv), pack.vv)],
                             pack.ack)

(***************************************************************************)
(* The start: everyone has pulled the first text and reported it.          *)
(***************************************************************************)
ServerApplied(d, c, result) ==
    [root |-> result.r, id |-> SyncClocks(d.id, c.id), failed |-> d.failed \/ result.failed]

RECURSIVE ServerApply(_, _)
(* The server's document has no clone and no stacks. *)
ServerApply(d, changes) ==
    IF changes = <<>> THEN d
    ELSE LET c == Head(changes) IN
           ServerApply(ServerApplied(d, c, Execute(d.root, c.op, "remote", c.id.vv)), Tail(changes))

ServerDocument == [root |-> EmptyRoot, id |-> InitialID(0), failed |-> FALSE]

Base ==
    <<[id |-> Advance(InitialID(0), 1, InitialVersionVector), seq |-> 1,
       op |-> [Edit(HeadPos, HeadPos, BaseText, <<>>) EXCEPT !.at = <<1, 0>>]]>>

NewDocument(c) ==
    [root |-> EmptyRoot, clone |-> Stale, id |-> InitialID(c), local |-> <<>>,
     seq |-> 0, cp |-> 0, undo |-> <<>>, redo |-> <<>>, failed |-> FALSE]

BaseDocument(c) == [ApplyChanges(NewDocument(c), Base) EXCEPT !.cp = 1]

Init ==
    /\ plan \in Plans
    /\ doc = [c \in Clients |-> BaseDocument(c)]
    /\ log = Base
    /\ server = ServerApply(ServerDocument, Base)
    /\ rows = [c \in Clients |-> doc[c].id.vv]
    /\ app = [c \in Clients |-> [made |-> 0, undo |-> <<>>, redo |-> <<>>]]

(***************************************************************************)
(* Local edits through the json proxy of the clone.                        *)
(***************************************************************************)
Indexes(r) == 0 .. LiveTotal(r.split)

Ranges(r) == {p \in Indexes(r) \X Indexes(r) : p[1] < p[2]}

(* A range of the visible text as positions. *)
CreateRange(r, p) == <<FindNodePos(r.split, p[1]), FindNodePos(r.split, p[2])>>

(* What a call of this kind may be, from what the clone holds. *)
EditsOf(r, kind) ==
    CASE kind = "insert" -> {Edit(FindNodePos(r.split, i), FindNodePos(r.split, i), w, <<>>) :
                               i \in Indexes(r), w \in Words}
      [] kind = "delete" -> {Edit(q[1], q[2], <<>>, <<>>) : q \in {CreateRange(r, p) : p \in Ranges(r)}}
      [] kind = "replace" -> {Edit(q[1], q[2], w, <<>>) :
                                q \in {CreateRange(r, p) : p \in Ranges(r)}, w \in Words}
      [] kind = "style" -> {Style(q[1], q[2], [k \in {"b"} |-> "1"], {}) :
                              q \in {CreateRange(r, p) : p \in Ranges(r)}}
      [] OTHER -> {}

(* The proxy edits the clone with no vector. *)
EditClone(r, op) ==
    IF op.type = "edit" THEN EditText(r, op.from, op.to, op.chars, op.attrs, op.at, Local).r
    ELSE StyleText(r, op.from, op.to, op.attrs, op.at, Local).r

(* A full stack forgets its oldest entry. *)
PushEntry(stack, entry) == Append(IF Len(stack) >= Depth THEN Tail(stack) ELSE stack, entry)

PushEntries(stack, entries) == IF entries = {} THEN stack ELSE PushEntry(stack, Only(entries))

MayCall(c, kinds) ==
    /\ ~doc[c].failed /\ app[c].made < Len(plan.calls[c])
    /\ kinds \cap plan.calls[c][app[c].made + 1] # {}

(* The document once its change has run on clone and root. *)
Committed(d, id, clone, result) ==
    [d EXCEPT !.clone = clone, !.root = result.r, !.id = id, !.seq = @ + 1,
              !.local = Append(@, [id |-> id, seq |-> d.seq + 1, op |-> result.op])]

Update(c) ==
    /\ MayCall(c, Calls \ {"undo", "redo"})
    /\ \E d \in {EnsureClone(doc[c])} : \E id \in {NextID(d.id)} :
         \E kind \in plan.calls[c][app[c].made + 1] \ {"undo", "redo"} :
           \E op \in {[choice EXCEPT !.at = TicketOf(id)] : choice \in EditsOf(d.clone, kind)} :
             \E result \in {Execute(d.root, op, "local", id.vv)} :
                /\ doc' = [doc EXCEPT ![c] =
                      [Committed(d, id, EditClone(d.clone, op), result) EXCEPT
                          !.undo = PushEntries(@, result.reverse),
                          !.redo = IF result.observable THEN <<>> ELSE @,
                          !.failed = result.failed]]
                /\ app' = [app EXCEPT ![c] =
                      [made |-> @.made + 1,
                       undo |-> PushEntries(@.undo, {Contents(d.root) : x \in result.reverse}),
                       redo |-> IF result.observable THEN <<>> ELSE @.redo]]
    /\ UNCHANGED <<plan, log, server, rows>>

Top(stack) == stack[Len(stack)]

Pop(stack) == SubSeq(stack, 1, Len(stack) - 1)

(***************************************************************************)
(* executeUndoRedo: the entry runs on the clone and on the root, its       *)
(* reverse goes on the other stack.  One that fails is gone all the same,  *)
(* and the clone with it.                                                  *)
(***************************************************************************)
ExecuteUndoRedo(c, from, to) ==
    /\ \E d \in {EnsureClone(doc[c])} : \E id \in {NextID(d.id)} :
         \E onClone \in {Execute(d.clone, [Top(d[from]) EXCEPT !.at = TicketOf(id)], "undoredo", id.vv)} :
           \E result \in {Execute(d.root, onClone.op, "undoredo", id.vv)} :
             LET reverse == IF onClone.failed THEN {} ELSE result.reverse IN
                /\ doc' = [doc EXCEPT ![c] =
                      [(IF onClone.failed THEN [d EXCEPT !.clone = Stale]
                        ELSE Committed(d, id, onClone.r, result)) EXCEPT
                          ![from] = Pop(@), ![to] = PushEntries(@, reverse)]]
                /\ app' = [app EXCEPT ![c] =
                      [@ EXCEPT !.made = @ + 1, ![from] = Pop(@),
                                ![to] = PushEntries(@, {Contents(d.root) : x \in reverse})]]
    /\ UNCHANGED <<plan, log, server, rows>>

Undo(c) == MayCall(c, {"undo"}) /\ doc[c].undo # <<>> /\ ExecuteUndoRedo(c, "undo", "redo")

Redo(c) == MayCall(c, {"redo"}) /\ doc[c].redo # <<>> /\ ExecuteUndoRedo(c, "redo", "undo")

(***************************************************************************)
(* A request.                                                              *)
(***************************************************************************)
(* The sequence number up to which the server has a client's changes. *)
StoredSeq(c) == Cardinality({i \in DOMAIN log : log[i].id.actor = c})

(* What the wire carries of a change: the flag of an undo stays behind. *)
ToOperation(op) == IF op.type = "edit" THEN [op EXCEPT !.undo = FALSE] ELSE op

Pushables(c) ==
    LET new == SelectSeq(doc[c].local, LAMBDA x : x.seq > StoredSeq(c)) IN
      [i \in DOMAIN new |-> [new[i] EXCEPT !.op = ToOperation(@)]]

GetMinVersionVector(rs, vv) == MinVersionVector({vv} \cup {rs[c] : c \in Clients})

(* The stacks' texts mean something only until somebody else's change arrives. *)
Forget(a) == [a EXCEPT !.undo = <<>>, !.redo = <<>>]

PullChanges(c) ==
    /\ Len(log) - doc[c].cp < SnapshotThreshold
    /\ \E pack \in {[changes |-> SelectSeq(SubSeq(log, doc[c].cp + 1, Len(log)), LAMBDA x : x.id.actor # c),
                      serverSeq |-> Len(log'), ack |-> doc[c].seq, disableGC |-> plan.disableGC,
                      vv |-> GetMinVersionVector(rows', doc[c].id.vv)]} :
         /\ \E applied \in {ApplyChanges(doc[c], pack.changes)} :
              doc' = [doc EXCEPT ![c] = Acknowledged(applied, pack)]
         /\ app' = [app EXCEPT ![c] = IF pack.changes = <<>> THEN @ ELSE Forget(@)]

(* The server collects with the rows as they were before this request. *)
PullSnapshot(c) ==
    LET vv   == [server'.id.vv EXCEPT ![0] = 1]   \* no ticket is the server's own
        root == IF plan.disableGC THEN server'.root
                ELSE GarbageCollect(server'.root, GetMinVersionVector(rows, vv))
    IN  /\ Len(log) - doc[c].cp >= SnapshotThreshold
        /\ \E pack \in {[snapshot |-> root, serverSeq |-> Len(log'), ack |-> doc[c].seq, vv |-> vv]} :
             \E acked \in {ApplySnapshot(doc[c], pack)} :
               \E again \in {ApplyChanges(acked, acked.local)} :
                  doc' = [doc EXCEPT ![c] = Reapplied(again, pack)]
        /\ app' = [app EXCEPT ![c] = Forget(@)]

Push(c) ==
    /\ ~doc[c].failed
    /\ log' = log \o Pushables(c)
    /\ server' = ServerApply(server, SubSeq(log', Len(log) + 1, Len(log')))
    /\ rows' = [rows EXCEPT ![c] = doc[c].id.vv]

PushPull(c) ==
    /\ Push(c)
    /\ PullChanges(c) \/ PullSnapshot(c)
    /\ UNCHANGED plan

(* The request is handled and its reply lost. *)
ReplyLost(c) == c \in plan.lossy /\ Push(c) /\ UNCHANGED <<plan, doc, app>>

Next == \E c \in Clients : Update(c) \/ Undo(c) \/ Redo(c) \/ PushPull(c) \/ ReplyLost(c)

Spec == Init /\ [][Next]_vars

-----------------------------------------------------------------------------
(***************************************************************************)
(* Properties                                                              *)
(***************************************************************************)
(* The changes a client's document has taken in. *)
Seen(c) ==
    {log[i].id : i \in {j \in DOMAIN log : j <= doc[c].cp \/ log[j].id.actor = c}}
        \cup {doc[c].local[i].id : i \in DOMAIN doc[c].local}

(* No undo meets a purged piece: nothing is collected, or no edit undone. *)
NothingRecreated ==
    plan.disableGC \/ \A c \in Clients :
      LET kinds == UNION {plan.calls[c][i] : i \in DOMAIN plan.calls[c]} IN
        "undo" \in kinds => kinds \subseteq {"style", "undo", "redo"}

(***************************************************************************)
(* Two texts that have taken in the same edits, styles, undos and redos    *)
(* hold the same characters, each once, whatever the order they came in,   *)
(* however each is cut and whatever each has collected                     *)
(* (RGATreeSplit.edit, restore, retombstone).  They hold them in the same  *)
(* order and with the same attributes unless an undo met a purged piece,   *)
(* whose place and style are only approximated.                            *)
(***************************************************************************)
Convergence ==
    \A c, d \in Clients :
      (c < d /\ ~doc[c].failed /\ ~doc[d].failed /\ Seen(c) = Seen(d)) =>
        LET cs == Contents(doc[c].root)
            ds == Contents(doc[d].root)
        IN  IF NothingRecreated THEN cs = ds
            ELSE Len(cs) = Len(ds) /\ Identities(cs) = Identities(ds)

(* The clone an updater edits without a vector is the root's equal, which  *)
(* executed the same change with one (json.Text.Edit, Edit.Execute).       *)
CloneIsRoot ==
    \A c \in Clients : doc[c].clone # Stale /\ ~doc[c].failed
      => Accounts(doc[c].clone) = Accounts(doc[c].root)

(* A text read back from a snapshot of it is the text: pieces, ledgers,    *)
(* insertion chains, worklist and docSize are what the edits left behind   *)
(* (converter.SnapshotToBytes, SetRemovalEvents, NewRoot).                 *)
SnapshotIsExact ==
    \A c \in Clients : ~doc[c].failed => Accounts(LoadSnapshot(doc[c].root)) = Accounts(doc[c].root)

(* A text that holds a cancel is registered for pruning, or its ledgers    *)
(* would grow for ever (Root.RegisterLedgerHolder).                        *)
LedgersPruned ==
    \A c \in Clients : doc[c].root.split.cancelled # {} => doc[c].root.holder

(* The pieces of an insertion follow each other in the chain in the order  *)
(* of their offsets, and insPrev of each is the nearest piece before it:   *)
(* what a purge or a restore must keep for positions to resolve            *)
(* (findFloorNodePreferToLeft).                                            *)
InsertionChain ==
    \A c \in Clients :
      LET s == doc[c].root.split IN
        \A i, j \in DOMAIN s.nodes :
          s.nodes[i].at = s.nodes[j].at =>
            /\ i < j => EndOf(s.nodes[i]) <= s.nodes[j].off /\ s.nodes[j].insPrev # NoPiece
            /\ s.nodes[j].insPrev # NoPiece => HasNode(s, <<s.nodes[j].at, s.nodes[j].insPrev>>)
            /\ s.nodes[j].insPrev = s.nodes[i].off
                 => i < j /\ \A k \in i + 1 .. j - 1 : s.nodes[k].at # s.nodes[i].at

(* Every change a replica pulls, and the server stores, applies: what it  *)
(* refers to is still there (Document.applyChanges).                       *)
EveryChangeApplies == ~server.failed /\ \A c \in Clients : ~doc[c].failed

(***************************************************************************)
(* An undo gives back the characters there were before the change it       *)
(* undoes, a redo those before the undo, if nobody else's change arrived   *)
(* in between - even when they were purged meanwhile (Document.Undo).      *)
(* Where nothing was purged they are in their places.  The attributes a   *)
(* style found are only those of its first character.                      *)
(***************************************************************************)
UndoInverts ==
    [][\A c \in Clients : \A stack \in {"undo", "redo"} :
         (/\ doc'[c].seq > doc[c].seq /\ plan.calls[c][app'[c].made] = {stack} /\ app[c][stack] # <<>>)
           => LET now == Contents(doc'[c].root)
                  was == Top(app[c][stack])
              IN  IF NothingRecreated THEN Chars(now) = Chars(was)
                  ELSE Len(now) = Len(was) /\ Identities(now) = Identities(was)]_vars
=============================================================================

-------------------------------- MODULE Text --------------------------------
(***************************************************************************)
(* A document that holds one Text (pkg/document/crdt/text.go), the         *)
(* worklist and the sizes its Root keeps (root.go), and the operations     *)
(* that edit and style it (pkg/document/operations/edit.go, style.go).     *)
(*                                                                         *)
(* A root is [split, gcPairs, live, gc, holder]: the split list; the GC    *)
(* pairs, from the node and the attribute or none to the pair's GCOnlySize *)
(* as a set of at most one; docSize; and whether the text is registered    *)
(* for the pruning of its ledgers.  A character and a ticket weigh one     *)
(* unit each.                                                              *)
(***************************************************************************)
EXTENDS RGATreeSplit

EmptyRoot == [split |-> EmptySplit, gcPairs |-> <<>>, live |-> NoSize, gc |-> NoSize, holder |-> FALSE]

-----------------------------------------------------------------------------
(***************************************************************************)
(* Root: the worklist and the sizes.                                       *)
(***************************************************************************)
KeyOf(pair) == <<pair.node, pair.attr>>

ChildSize(r, key) ==
    IF key[2] = None THEN NodeSize(r.split.nodes[PlaceOf(r.split, key[1])])
    ELSE RHTNodeSize(RHTNode(key[2][1], NoValue, key[2][2], TRUE))

Without(r, key) == [r EXCEPT !.gcPairs = [k \in DOMAIN @ \ {key} |-> @[k]]]

Only(set) == CHOOSE x \in set : TRUE

(***************************************************************************)
(* A pair that is known already is taken off the list: the attribute was   *)
(* written again.  A pair without a size of its own moves what it names    *)
(* from Live to GC; Live never held the ticket of the removal.             *)
(***************************************************************************)
RegisterGCPair(r, pair) ==
    LET key   == KeyOf(pair)
        size  == ChildSize(r, key)
        known == r.gcPairs[key]
    IN  IF key \in DOMAIN r.gcPairs
        THEN [Without(r, key) EXCEPT
                !.gc = SubSize(@, IF pair.attr # None \/ known = {} THEN size ELSE Only(known))]
        ELSE LET added == [r EXCEPT !.gcPairs = (key :> pair.own) @@ @] IN
             IF pair.own # {} THEN [added EXCEPT !.gc = AddSize(@, Only(pair.own))]
             ELSE [added EXCEPT !.gc = AddSize(@, size),
                                !.live = AddSize(SubSize(@, size), Meta(IF pair.attr = None THEN 1 ELSE 0))]

(* A node that came back to life leaves the list and GC. *)
UnregisterGCPair(r, id) ==
    LET key == <<id, None>> IN
      IF key \notin DOMAIN r.gcPairs THEN r
      ELSE [Without(r, key) EXCEPT !.gc = SubSize(@, AddSize(ChildSize(r, key), Meta(1)))]

RECURSIVE RegisterAll(_, _)
RegisterAll(r, pairs) ==
    IF pairs = <<>> THEN r ELSE RegisterAll(RegisterGCPair(r, Head(pairs)), Tail(pairs))

RECURSIVE RegisterSet(_, _)
RegisterSet(r, pairs) ==
    IF pairs = {} THEN r
    ELSE LET p == CHOOSE p \in pairs : TRUE IN RegisterSet(RegisterGCPair(r, p), pairs \ {p})

(* The list a call left behind, its GC pairs, then the ones its cuts made. *)
Settle(r, s, pairs) ==
    LET held == [r EXCEPT !.split = [s EXCEPT !.live = NoSize, !.pending = {}],
                          !.live = AddSize(@, s.live)]
    IN  RegisterSet(RegisterAll(held, pairs), s.pending)

(* May a collection with this vector purge what the pair names? *)
Purgeable(r, vv, key) ==
    IF key[2] # None THEN EqualToOrAfter(vv, key[2][2])
    ELSE LET i       == PlaceOf(r.split, key[1])
             barrier == PurgeBarrierAt(r.split, i)
             n       == r.split.nodes[i]
         IN  /\ n.removedAt # None
             /\ EqualToOrAfter(vv, n.removedAt)
             /\ ~HeldFromPurge(n, vv)
             /\ barrier # None => EqualToOrAfter(vv, barrier)

Purge(r, key) ==
    LET gone == [Without(r, key) EXCEPT !.gc = SubSize(@, ChildSize(r, key))] IN
      IF key[2] = None THEN [gone EXCEPT !.split = PurgeNode(@, PlaceOf(@, key[1]))]
      ELSE IF ~HasNode(r.split, key[1]) THEN gone
      ELSE [gone EXCEPT !.split.nodes[PlaceOf(r.split, key[1])].attrs = PurgeAttr(@, key[2][1], key[2][2])]

RECURSIVE Collect(_, _)
Collect(r, vv) ==
    LET ready == {k \in DOMAIN r.gcPairs : Purgeable(r, vv, k)} IN
      IF ready = {} THEN r ELSE Collect(Purge(r, CHOOSE k \in ready : TRUE), vv)

(* Ledgers are pruned first, which can release a tombstone. *)
GarbageCollect(r, vv) ==
    LET pruned == PruneLedgers(r.split, vv) IN
      Collect(IF r.holder THEN [r EXCEPT !.split = pruned, !.holder = pruned.cancelled # {}] ELSE r, vv)

RECURSIVE SizeOfNodes(_, _)
SizeOfNodes(nodes, removed) ==
    IF nodes = <<>> THEN NoSize
    ELSE AddSize(IF (Head(nodes).removedAt # None) = removed THEN NodeSize(Head(nodes)) ELSE NoSize,
                 SizeOfNodes(Tail(nodes), removed))

(* The worklist and the sizes computed from the nodes. *)
NewRoot(nodes) ==
    LET bare == [EmptyRoot EXCEPT !.split.nodes = nodes, !.live = SizeOfNodes(Tail(nodes), FALSE)]
        dead == {Pair(IDOf(nodes[i]), None, {NodeSize(nodes[i])}) :
                   i \in {j \in DOMAIN nodes : nodes[j].removedAt # None}}
        r    == [bare EXCEPT !.split.cancelled = ScanCancelled(bare.split)]
    IN  [RegisterSet(r, dead \cup UNION {AttrPairs(nodes[i]) : i \in DOMAIN nodes}) EXCEPT
            !.holder = r.split.cancelled # {}]

(* The piece insPrev names is looked up among the nodes already copied. *)
Relinked(nodes) ==
    [i \in DOMAIN nodes |->
        LET at == Floor([nodes |-> SubSeq(nodes, 1, i - 1)], nodes[i].at, nodes[i].insPrev) IN
          [nodes[i] EXCEPT !.attrs = DeepCopyRHT(@),
                           !.insPrev = IF @ = NoPiece \/ at = 0 THEN NoPiece ELSE nodes[at].off]]

DeepCopyRoot(r) == NewRoot(Relinked(r.split.nodes))

(* A node written to a snapshot and read back. *)
SnapshotNode(n) ==
    SetRemovalEvents([n EXCEPT !.ledgered = FALSE, !.dels = {}, !.cancels = {}], RemovalEvents(n))

LoadSnapshot(r) ==
    NewRoot(Relinked([i \in DOMAIN r.split.nodes |-> SnapshotNode(r.split.nodes[i])]))

-----------------------------------------------------------------------------
(***************************************************************************)
(* Text: what an edit, a style, an undo or a redo does to a root.          *)
(***************************************************************************)
Edited(r, e) ==
    IF e.s.failed THEN [r |-> [r EXCEPT !.split = e.s], removed |-> <<>>]
    ELSE [r |-> Settle(r, e.s, [k \in DOMAIN e.removed |-> Pair(IDOf(e.removed[k]), None, {})]),
          removed |-> [k \in DOMAIN e.removed |-> SpanOf(e.removed[k])]]

(* Edit, with the removed runs in document order. *)
EditText(r, from, to, chars, attrs, at, vv) == Edited(r, EditSplit(r.split, from, to, chars, attrs, at, vv))

(* The half of the sizes an attribute's tombstone moves through. *)
AttrGCPair(n, attr, attrWasLive) ==
    Pair(IDOf(n), <<attr.key, attr.updatedAt>>,
         IF ~attrWasLive THEN {RHTNodeSize(attr)}
         ELSE IF n.removedAt = None THEN {} ELSE {NoSize})

(* The styled nodes of a range: those the author of the style knew. *)
Styled(cut, vv) == Ascending(cut.range, LAMBDA i : TicketKnown(vv, cut.s.nodes[i].at))

(* Where the values to bring back are read: the first live node, else the first. *)
CaptureFrom(cut, styled) ==
    LET live == SelectSeq(styled, LAMBDA i : cut.s.nodes[i].removedAt = None) IN
      IF live # <<>> THEN <<cut.s.nodes[Head(live)]>>
      ELSE IF styled # <<>> THEN <<cut.s.nodes[Head(styled)]>> ELSE <<>>

(* A size charged to the side that holds the node. *)
Book(acc, n, size) ==
    IF n.removedAt = None THEN [acc EXCEPT !.r.live = AddSize(@, size)]
    ELSE [acc EXCEPT !.r.gc = AddSize(@, size)]

SizeOfAttrs(nodes) == IF nodes = {} THEN NoSize ELSE RHTNodeSize(Only(nodes))

(* The node n at i with what Set returned for it. *)
AttrSet(acc, n, i, w) ==
    [Book(acc, n, SubSize(SizeOfAttrs(w.installed), SizeOfAttrs(w.superseded))) EXCEPT
        !.s.nodes[i].attrs = w.rht,
        !.pairs = IF w.revived = {} THEN @ ELSE Append(@, AttrGCPair(n, Only(w.revived), FALSE))]

(* One attribute written on one node. *)
SetAttr(acc, i, k, v, at) ==
    LET n == acc.s.nodes[i] IN AttrSet(acc, n, i, Set(n.attrs, k, v, at))

(* The node n at i with what Remove returned for it; a tombstone it replaces leaves the list. *)
AttrRemoved(acc, n, i, k, w) ==
    [Book(acc, n, SubSize(NoSize, w.dropped)) EXCEPT
        !.s.nodes[i].attrs = w.rht,
        !.pairs = @ \o [x \in DOMAIN w.gcNodes |->
                          AttrGCPair(n, w.gcNodes[x], x = 1 /\ Has(n.attrs, k))]]

(* One attribute removed from one node. *)
RemoveAttr(acc, i, k, at) ==
    LET n == acc.s.nodes[i] IN AttrRemoved(acc, n, i, k, Remove(n.attrs, k, at))

RECURSIVE OnNodes(_, _, _, _)
(* A call for each of the places. *)
OnNodes(Do(_, _, _), acc, places, k) ==
    IF places = <<>> THEN acc ELSE OnNodes(Do, Do(acc, Head(places), k), Tail(places), k)

RECURSIVE OnKeys(_, _, _, _)
OnKeys(Do(_, _, _), acc, places, keys) ==
    IF keys = {} THEN acc
    ELSE LET k == CHOOSE k \in keys : TRUE IN
           OnKeys(Do, OnNodes(Do, acc, places, k), places, keys \ {k})

(* The root after a style that left "done", and what the first visible node held of the keys. *)
StyledRoot(done, capture, keys) ==
    [r |-> Settle(done.r, done.s, done.pairs),
     prev |-> IF capture = <<>> THEN <<>>
              ELSE [k \in keys \cap LiveKeys(Head(capture).attrs) |-> Elements(Head(capture).attrs)[k]],
     absent |-> IF capture = <<>> THEN {} ELSE keys \ LiveKeys(Head(capture).attrs)]

StyleNodes(r, cut, styled, attrs, at) ==
    StyledRoot(OnKeys(LAMBDA acc, i, k : SetAttr(acc, i, k, attrs[k], at),
                      [r |-> r, s |-> cut.s, pairs |-> <<>>], styled, DOMAIN attrs),
               CaptureFrom(cut, styled), DOMAIN attrs)

(* Nothing is styled when an end of the range is not found. *)
Unstyled(r, cut) == [r |-> [r EXCEPT !.split = cut.s], prev |-> <<>>, absent |-> {}]

StyleCut(r, cut, attrs, at, vv) ==
    IF cut.s.failed THEN Unstyled(r, cut) ELSE StyleNodes(r, cut, Styled(cut, vv), attrs, at)

StyleText(r, from, to, attrs, at, vv) == StyleCut(r, CutRange(r.split, from, to, at), attrs, at, vv)

RemoveStyleNodes(r, cut, styled, keys, at) ==
    StyledRoot(OnKeys(LAMBDA acc, i, k : RemoveAttr(acc, i, k, at),
                      [r |-> r, s |-> cut.s, pairs |-> <<>>], styled, keys),
               CaptureFrom(cut, styled), keys)

RemoveStyleCut(r, cut, keys, at, vv) ==
    IF cut.s.failed THEN Unstyled(r, cut) ELSE RemoveStyleNodes(r, cut, Styled(cut, vv), keys, at)

RemoveStyleText(r, from, to, keys, at, vv) == RemoveStyleCut(r, CutRange(r.split, from, to, at), keys, at, vv)

RECURSIVE Unregister(_, _)
(* Revived nodes go from GC to Live. *)
Unregister(r, ids) ==
    IF ids = <<>> THEN r
    ELSE LET size == NodeSize(r.split.nodes[PlaceOf(r.split, Head(ids))]) IN
           Unregister([UnregisterGCPair(r, Head(ids)) EXCEPT !.live = AddSize(@, size)], Tail(ids))

(* What a cut left removed is registered first, then the revived leave the list. *)
Restored(r, e) ==
    [r |-> IF e.s.failed THEN [r EXCEPT !.split = e.s]
           ELSE [Unregister(Settle(r, e.s, <<>>), e.untombstoned) EXCEPT
                   !.holder = r.holder \/ e.s.cancelled # {}],
     observable |-> e.untombstoned # <<>> \/ e.s.live # NoSize]

RestoreText(r, spans, from, at) == Restored(r, RestoreSplit(r.split, spans, from, at))

Retombstoned(r, e) ==
    [r |-> IF e.s.failed THEN [r EXCEPT !.split = e.s]
           ELSE Settle(r, e.s, [k \in DOMAIN e.removed |-> Pair(e.removed[k], None, {})]),
     observable |-> e.removed # <<>>, recorded |-> e.recorded]

RetombstoneText(r, spans, at, vv) == Retombstoned(r, RetombstoneSplit(r.split, spans, at, vv))

(***************************************************************************)
(* refreshSpanAttributes: the spans with the attributes their characters   *)
(* carry now, cut where these change.                                      *)
(***************************************************************************)
AttributesNow(s, span, off) ==
    LET i == FindPieceCovering(s, span.at, off) IN
      IF i = 0 THEN span.attrs ELSE Elements(s.nodes[i].attrs)

RECURSIVE RefreshSpan(_, _, _)
RefreshSpan(s, span, from) ==
    IF from = SpanEnd(span) THEN <<>>
    ELSE LET attrs == AttributesNow(s, span, from)
             ends  == {e \in from + 1 .. SpanEnd(span) :
                         e = SpanEnd(span) \/ AttributesNow(s, span, e) # attrs}
             chars == SubSeq(span.chars, from - span.start + 1, Min(ends) - span.start)
         IN  <<Span(span.at, from, chars, attrs)>> \o RefreshSpan(s, span, Min(ends))

RECURSIVE RefreshSpanAttributes(_, _)
RefreshSpanAttributes(s, spans) ==
    IF spans = <<>> THEN <<>>
    ELSE RefreshSpan(s, Head(spans), Head(spans).start) \o RefreshSpanAttributes(s, Tail(spans))

-----------------------------------------------------------------------------
(***************************************************************************)
(* The operations.  The result of an execution is the root, the reverse    *)
(* operation as a set of at most one, whether anything observable          *)
(* happened, the operation as it is afterwards, and whether it failed.     *)
(* Source is "local", "undoredo" or "remote".                              *)
(***************************************************************************)
Edit(from, to, chars, attrs) ==
    [type |-> "edit", from |-> from, to |-> to, chars |-> chars, attrs |-> attrs, mode |-> "none",
     restore |-> <<>>, retombstone |-> <<>>, undo |-> FALSE, at |-> None]

Style(from, to, attrs, keys) ==
    [type |-> "style", from |-> from, to |-> to, attrs |-> attrs, keys |-> keys, at |-> None]

(* The reverse of an edit that changed nothing. *)
EmptyReverse == [Edit(HeadPos, HeadPos, <<>>, <<>>) EXCEPT !.undo = TRUE]

Result(r, reverse, observable, op) ==
    [r |-> r, reverse |-> reverse, observable |-> observable, op |-> op, failed |-> r.split.failed]

Failure(r, op) == [Result(r, {}, FALSE, op) EXCEPT !.failed = TRUE]

(* A change acts only on what its vector covers. *)
ValidRestore(op, vv) ==
    vv # Local =>
      \A t \in {op.restore[i].at : i \in DOMAIN op.restore}
                 \cup {op.retombstone[i].at : i \in DOMAIN op.retombstone} \cup {op.at} :
        vv[t[2]] # 0 /\ t[1] <= vv[t[2]]

FlipRestoreMode(mode) == IF mode = "retombstone" THEN "restore" ELSE "retombstone"

(* The reverse by identity, from the pieces the removal was recorded on. *)
ReverseRestore(op, recorded) ==
    LET reverse == [op EXCEPT !.mode = FlipRestoreMode(op.mode), !.undo = TRUE, !.at = None,
                              !.restore = IF op.mode = "retombstone" THEN recorded ELSE @,
                              !.retombstone = IF op.mode = "retombstone" THEN @ ELSE recorded]
    IN  IF reverse.restore = <<>> /\ reverse.retombstone = <<>> THEN EmptyReverse ELSE reverse

RestoreResult(op, removed, revived) ==
    Result(revived.r, {ReverseRestore(op, removed.recorded)}, removed.observable \/ revived.observable, op)

ThenRestore(op, removed) ==
    IF removed.r.split.failed THEN Failure(removed.r, op)
    ELSE RestoreResult(op, removed,
                       RestoreText(removed.r, IF op.mode = "retombstone" THEN op.retombstone ELSE op.restore,
                                   op.from, op.at))

(* An undo or a redo by identity: remove again first, then revive. *)
ExecuteRestore(r, op, source, vv) ==
    LET toRemove == IF op.mode = "retombstone" THEN op.restore ELSE op.retombstone IN
      ThenRestore(op, RetombstoneText(r, IF source # "remote" THEN RefreshSpanAttributes(r.split, toRemove)
                                         ELSE toRemove, op.at, vv))

(* Mutant: the undo of a replacement keeps what it inserted. *)
ToReverseOperationKept(op, removed, from) ==
    [Edit(from, from, <<>>, <<>>) EXCEPT
       !.undo = TRUE, !.mode = IF removed = <<>> THEN "none" ELSE "restore", !.restore = removed]

(* The reverse of an ordinary edit brings back what it removed and removes what it inserted. *)
ToReverseOperation(op, removed, from) ==
    IF removed = <<>> /\ op.chars = <<>>
    THEN [Edit(from, from, <<>>, <<>>) EXCEPT !.undo = TRUE]
    ELSE [Edit(from, from, <<>>, <<>>) EXCEPT
            !.undo = TRUE, !.mode = "restore", !.restore = removed,
            !.retombstone = IF op.chars = <<>> THEN <<>> ELSE <<Span(op.at, 0, op.chars, op.attrs)>>]

EditResult(op, e, source) ==
    IF e.r.split.failed THEN Failure(e.r, op)
    ELSE Result(e.r, IF source = "remote" THEN {}
                     ELSE {ToReverseOperation(op, e.removed, NormalizePos(e.r.split, op.from))},
                op.chars # <<>> \/ e.removed # <<>>, op)

ExecuteEdit(r, op, source, vv) ==
    IF ~ValidRestore(op, vv) THEN Failure(r, op)
    ELSE IF op.mode # "none" THEN ExecuteRestore(r, op, source, vv)
    ELSE IF op.undo
    THEN Result(r, IF source = "remote" THEN {} ELSE {EmptyReverse}, FALSE,
                [op EXCEPT !.from = HeadPos, !.to = HeadPos])
    ELSE EditResult(op, EditText(r, op.from, op.to, op.chars, op.attrs, op.at, vv), source)

StyleResult(op, removed, set) ==
    LET values == set.prev @@ removed.prev IN
      IF set.r.split.failed THEN Failure(set.r, op)
      ELSE Result(set.r, IF DOMAIN values = {} /\ set.absent = {} THEN {}
                         ELSE {Style(op.from, op.to, values, set.absent)}, TRUE, op)

ThenStyle(op, removed, vv) ==
    StyleResult(op, removed, IF DOMAIN op.attrs = {} THEN [r |-> removed.r, prev |-> <<>>, absent |-> {}]
                             ELSE StyleText(removed.r, op.from, op.to, op.attrs, op.at, vv))

(* Attributes are removed first, then set; a key that was absent is removed by the undo. *)
ExecuteStyle(r, op, vv) ==
    ThenStyle(op, IF op.keys = {} THEN [r |-> r, prev |-> <<>>]
                  ELSE RemoveStyleText(r, op.from, op.to, op.keys, op.at, vv), vv)

Execute(r, op, source, vv) ==
    IF op.type = "edit" THEN ExecuteEdit(r, op, source, vv) ELSE ExecuteStyle(r, op, vv)

-----------------------------------------------------------------------------
(***************************************************************************)
(* Reconciling an entry of the undo or redo stack with a remote edit of    *)
(* [rfrom, rto) that inserted len characters.                              *)
(***************************************************************************)
ReconcileOperation(op, rfrom, rto, len) ==
    LET from     == op.from.rel
        to       == op.to.rel
        size     == rto - rfrom
        At(a, b) == [op EXCEPT !.from.rel = Max({0, a}), !.to.rel = Max({0, b})]
    IN  CASE ~op.undo \/ rfrom > rto -> op
          [] rto <= from -> At(from - size + len, to - size + len)
          [] to <= rfrom -> op
          [] rfrom <= from /\ to <= rto /\ rfrom # rto -> At(rfrom, rfrom)
          [] from <= rfrom /\ rto <= to /\ from # to -> At(from, to - size + len)
          [] rfrom < from /\ from < rto /\ rto < to -> At(rfrom, rfrom + (to - rto))
          [] from < rfrom /\ rfrom < to /\ to < rto -> At(from, rfrom)
          [] OTHER -> op

(* Every stacked edit, once the remote operation has run on the root. *)
ReconcileTextEdit(stack, r, op) ==
    LET resolvable == /\ Floor(r.split, op.from.at, op.from.off) # 0
                      /\ Floor(r.split, op.to.at, op.to.off) # 0
        from == NormalizePos(r.split, op.from).rel
        to   == NormalizePos(r.split, op.to).rel
    IN  IF op.type # "edit" \/ ~resolvable THEN stack
        ELSE [i \in DOMAIN stack |->
                IF stack[i].type = "edit" THEN ReconcileOperation(stack[i], from, to, Len(op.chars))
                ELSE stack[i]]

-----------------------------------------------------------------------------
(* What a reader sees: the characters and the attributes of each; with what tells them apart. *)
Contents(r) ==
    LET live   == SelectSeq(r.split.nodes, LAMBDA n : n.removedAt = None)
        At(k)  == CHOOSE i \in DOMAIN live :
                    /\ LiveBefore(live, i) < k /\ k <= LiveBefore(live, i) + Len(live[i].chars)
    IN  [k \in 1 .. LiveTotal(r.split) |->
           LET n == live[At(k)]
               o == k - LiveBefore(live, At(k))
           IN  [id |-> <<n.at, n.off + o>>, char |-> n.chars[o], attrs |-> Elements(n.attrs)]]

Chars(contents) == [k \in DOMAIN contents |-> <<contents[k].id, contents[k].char>>]

Identities(contents) == {Chars(contents)[k] : k \in DOMAIN contents}

(* The pairs of attributes whose node is gone. *)
Orphans(r) ==
    {key \in DOMAIN r.gcPairs :
       key[2] # None /\ ~\E i \in DOMAIN r.split.nodes :
         /\ IDOf(r.split.nodes[i]) = key[1]
         /\ \E a \in RemovedAttrs(r.split.nodes[i].attrs) : <<a.key, a.updatedAt>> = key[2]}

RECURSIVE OrphanSize(_)
OrphanSize(n) == IF n = 0 THEN NoSize ELSE AddSize(OrphanSize(n - 1), [data |-> 1, meta |-> 1])

(* A root without its orphans and without how the pairs were charged. *)
Accounts(r) ==
    [nodes |-> r.split.nodes, cancelled |-> r.split.cancelled, pending |-> r.split.pending,
     garbage |-> DOMAIN r.gcPairs \ Orphans(r), live |-> r.live,
     gc |-> SubSize(r.gc, OrphanSize(Cardinality(Orphans(r))))]
=============================================================================

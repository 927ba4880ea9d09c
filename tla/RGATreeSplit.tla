---------------------------- MODULE RGATreeSplit ----------------------------
(***************************************************************************)
(* The list of runs of characters behind a Text                            *)
(* (pkg/document/crdt/rga_tree_split.go) and the attributes of a run       *)
(* (pkg/document/crdt/rht.go).                                             *)
(*                                                                         *)
(* A split list is [nodes, cancelled, pending, live, failed]: the nodes in *)
(* the order of the next chain, the head first; the ids of the nodes whose *)
(* ledger holds a cancel; the GC pairs of what a split made already        *)
(* removed; the size charged to docSize.Live so far; and whether a         *)
(* position was out of range.  A node is the piece [off, off + Len(chars)) *)
(* of the insertion made at "at".  insPrev is the offset of the piece      *)
(* before it in the insertion chain, NoPiece if there is none; insNext is  *)
(* its inverse.  A position is [at, off, rel].                             *)
(***************************************************************************)
EXTENDS Tickets, Sequences, TLC

(***************************************************************************)
(* The attributes of a run of text or of a tree node: a replicated hash    *)
(* table whose last writer wins (pkg/document/crdt/rht.go).                *)
(*                                                                         *)
(* A table is [nodes, gone]: the node of every key and the count of the    *)
(* removed ones, from which Len is computed.  A node is never changed,     *)
(* only replaced.  A key and a value weigh one unit of data each, and a    *)
(* tombstone carries no value.                                             *)
(***************************************************************************)
NoSize == [data |-> 0, meta |-> 0]

AddSize(s, d) == [data |-> s.data + d.data, meta |-> s.meta + d.meta]

SubSize(s, d) == [data |-> s.data - d.data, meta |-> s.meta - d.meta]

Meta(n) == [data |-> 0, meta |-> n]

(* The value of a tombstone. *)
NoValue == ""

RHTNode(k, v, at, removed) ==
    [key |-> k, val |-> IF removed THEN NoValue ELSE v, updatedAt |-> at, isRemoved |-> removed]

RHTNodeSize(n) == [data |-> IF n.val = NoValue THEN 1 ELSE 2, meta |-> 1]

NewRHT == [nodes |-> <<>>, gone |-> 0]

Has(rht, k) == k \in DOMAIN rht.nodes /\ ~rht.nodes[k].isRemoved

LiveKeys(rht) == {k \in DOMAIN rht.nodes : ~rht.nodes[k].isRemoved}

(* The attributes as a reader sees them. *)
Elements(rht) == [k \in LiveKeys(rht) |-> rht.nodes[k].val]

RHTLen(rht) == Cardinality(DOMAIN rht.nodes) - rht.gone

(* May a write at this time replace what the key holds? *)
Wins(rht, k, at) == k \notin DOMAIN rht.nodes \/ After(at, rht.nodes[k].updatedAt)

Gone(n) == IF n.isRemoved THEN 1 ELSE 0

(* The tables after n has taken its key. *)
Install(rht, n) ==
    [nodes |-> (n.key :> n) @@ rht.nodes,
     gone  |-> rht.gone + Gone(n) - (IF n.key \in DOMAIN rht.nodes THEN Gone(rht.nodes[n.key]) ELSE 0)]

(***************************************************************************)
(* A write reports the node it installed and the tombstone it revived or   *)
(* the live node it superseded, each as a set of at most one.              *)
(***************************************************************************)
Set(rht, k, v, at) ==
    LET old == {rht.nodes[x] : x \in DOMAIN rht.nodes \cap {k}}
        new == RHTNode(k, v, at, FALSE)
    IN  IF ~Wins(rht, k, at)
        THEN [rht |-> rht, installed |-> {}, revived |-> {}, superseded |-> {}]
        ELSE [rht |-> Install(rht, new), installed |-> {new},
              revived |-> {n \in old : n.isRemoved}, superseded |-> {n \in old : ~n.isRemoved}]

(***************************************************************************)
(* A removal reports the tombstones to register, an older one it replaced  *)
(* before its own, and the size of the value it dropped.  A key that is    *)
(* not there gets a tombstone too.                                         *)
(***************************************************************************)
Remove(rht, k, at) ==
    LET new == RHTNode(k, NoValue, at, TRUE) IN
      IF ~Wins(rht, k, at) THEN [rht |-> rht, gcNodes |-> <<>>, dropped |-> NoSize]
      ELSE IF k \in DOMAIN rht.nodes /\ rht.nodes[k].isRemoved
      THEN [rht |-> Install(rht, new), gcNodes |-> <<rht.nodes[k], new>>, dropped |-> NoSize]
      ELSE [rht |-> Install(rht, new), gcNodes |-> <<new>>,
            dropped |-> [data |-> IF Has(rht, k) THEN 1 ELSE 0, meta |-> 0]]

(* A tombstone leaves the table unless its key has been written since. *)
PurgeAttr(rht, k, at) ==
    IF k \in DOMAIN rht.nodes /\ rht.nodes[k].updatedAt = at
    THEN [nodes |-> [x \in DOMAIN rht.nodes \ {k} |-> rht.nodes[x]], gone |-> rht.gone - 1]
    ELSE rht

(* The nodes are copied as they stand and the removed ones counted anew. *)
DeepCopyRHT(rht) ==
    [nodes |-> rht.nodes, gone |-> Cardinality({k \in DOMAIN rht.nodes : rht.nodes[k].isRemoved})]

(* The tombstones of a table. *)
RemovedAttrs(rht) == {rht.nodes[k] : k \in {x \in DOMAIN rht.nodes : rht.nodes[x].isRemoved}}

(* A table with the given attributes, all written at one time. *)
AttrsAt(attrs, at) ==
    [nodes |-> [k \in DOMAIN attrs |-> RHTNode(k, attrs[k], at, FALSE)], gone |-> 0]

(* Only live attributes count with their owner. *)
AttrsSize(rht) ==
    LET live == LiveKeys(rht) IN
      [data |-> Cardinality(live) + Cardinality({k \in live : rht.nodes[k].val # NoValue}),
       meta |-> Cardinality(live)]

-----------------------------------------------------------------------------
(* The split list.                                                         *)

NoPiece == -1

(* The version vector of an edit that runs where it is made. *)
Local == <<>>

(* Does a change with this vector know the ticket?  An absent actor is mapped to 0. *)
TicketKnown(vv, t) == vv = Local \/ (vv[t[2]] # 0 /\ vv[t[2]] >= t[1])

NewNode(at, off, chars, attrs) ==
    [at |-> at, off |-> off, chars |-> chars, attrs |-> attrs, removedAt |-> None,
     ledgered |-> FALSE, dels |-> {}, cancels |-> {}, insPrev |-> NoPiece]

InitialTextNode == NewNode(InitialTicket, 0, <<>>, NewRHT)

EmptySplit ==
    [nodes |-> <<InitialTextNode>>, cancelled |-> {}, pending |-> {}, live |-> NoSize, failed |-> FALSE]

IDOf(n) == <<n.at, n.off>>

PosOf(id, rel) == [at |-> id[1], off |-> id[2], rel |-> rel]

HeadPos == PosOf(IDOf(InitialTextNode), 0)

EndOf(n) == n.off + Len(n.chars)

(* What a reader sees of a node. *)
LiveLen(n) == IF n.removedAt = None THEN Len(n.chars) ELSE 0

NodeSize(n) ==
    AddSize(AttrsSize(n.attrs),
            [data |-> Len(n.chars), meta |-> IF n.removedAt = None THEN 1 ELSE 2])

(***************************************************************************)
(* The removal ledger of a node.                                           *)
(***************************************************************************)
Removals(n) == IF n.ledgered THEN n.dels ELSE {n.removedAt} \ {None}

Uncancelled(n) == {d \in Removals(n) : \A c \in n.cancels : c.deletion # d}

Latest(tickets) ==
    IF tickets = {} THEN None ELSE CHOOSE t \in tickets : \A u \in tickets \ {t} : After(t, u)

(* The ledger is spelt out and removedAt follows it. *)
Recompute(n, dels, cancels) ==
    [n EXCEPT !.ledgered = TRUE, !.dels = dels, !.cancels = cancels,
              !.removedAt = Latest({d \in dels : \A c \in cancels : c.deletion # d})]

(* A node's first removal is just removedAt; an actor holds at most one uncancelled removal. *)
RecordRemoval(n, at) ==
    IF ~n.ledgered /\ n.removedAt = None THEN [n EXCEPT !.removedAt = at]
    ELSE IF \E d \in Uncancelled(n) : d # at /\ d[2] = at[2]
    THEN [n EXCEPT !.ledgered = TRUE, !.dels = Removals(n)]
    ELSE Recompute(n, Removals(n) \cup {at}, n.cancels)

UncancelledRemovalBy(n, actor) == {d \in Uncancelled(n) : d[2] = actor}

CancelRemoval(n, deletion, at) ==
    Recompute(n, Removals(n), n.cancels \cup {[deletion |-> deletion, cancelledAt |-> at]})

(* Was the node removed in the view of the change with this vector? *)
IsRemovedInView(n, vv) ==
    \E d \in Removals(n) :
      /\ TicketKnown(vv, d)
      /\ \A c \in n.cancels : c.deletion = d => ~TicketKnown(vv, c.cancelledAt)

(* Mutant: a tombstone goes as soon as its removal is known. *)
HeldFromPurgeNever(n, vv) == FALSE

(* A tombstone stays while an undo could still need its ledger. *)
HeldFromPurge(n, vv) ==
    /\ n.ledgered
    /\ \/ \E c \in n.cancels : ~EqualToOrAfter(vv, c.cancelledAt)
       \/ Cardinality(Uncancelled(n)) >= 2

(* Removals whose cancels everyone knows are forgotten together with them. *)
PruneStable(n, vv) ==
    LET stable  == {c \in n.cancels : EqualToOrAfter(vv, c.cancelledAt)}
        cancels == n.cancels \ stable
        dels    == n.dels \ {c.deletion : c \in stable}
    IN  IF cancels = {} /\ (dels = {} \/ dels = {n.removedAt})
        THEN [n EXCEPT !.ledgered = FALSE, !.dels = {}, !.cancels = {}]
        ELSE [n EXCEPT !.dels = dels, !.cancels = cancels]

(***************************************************************************)
(* A ledger in a snapshot is one list of tickets, all but removedAt; an    *)
(* actor's tickets are read back as removals and cancels in turn.          *)
(***************************************************************************)
RemovalEvents(n) ==
    IF ~n.ledgered THEN {}
    ELSE (n.dels \ {n.removedAt}) \cup {c.cancelledAt : c \in n.cancels}

(* The place of a ticket among those of its actor, from 1. *)
Turn(all, t) == Cardinality({u \in all : u[2] = t[2] /\ ~After(u, t)})

SetRemovalEvents(n, events) ==
    LET all      == events \cup ({n.removedAt} \ {None})
        dels     == {t \in all : Turn(all, t) % 2 = 1}
        Before(t) == CHOOSE d \in dels : d[2] = t[2] /\ Turn(all, d) = Turn(all, t) - 1
        ledger   == Recompute(n, dels, {[deletion |-> Before(t), cancelledAt |-> t] : t \in all \ dels})
    IN  IF events = {} THEN n
        ELSE IF n.removedAt \in events \/ ledger.removedAt # n.removedAt
        THEN [n EXCEPT !.ledgered = FALSE, !.dels = {}, !.cancels = {}]   \* an error of the code
        ELSE ledger

(***************************************************************************)
(* Lookup.  treeByID answers Floor and Ceiling, here as places in the      *)
(* chain, 0 if there is no piece of that insertion.                        *)
(***************************************************************************)
Pieces(s, at) == {i \in DOMAIN s.nodes : s.nodes[i].at = at}

Floor(s, at, off) ==
    LET below == {i \in Pieces(s, at) : s.nodes[i].off <= off} IN
      IF below = {} THEN 0 ELSE CHOOSE i \in below : \A j \in below : s.nodes[j].off <= s.nodes[i].off

Ceiling(s, at, off) ==
    LET above == {i \in Pieces(s, at) : s.nodes[i].off >= off} IN
      IF above = {} THEN 0 ELSE CHOOSE i \in above : \A j \in above : s.nodes[j].off >= s.nodes[i].off

PlaceOf(s, id) == CHOOSE i \in DOMAIN s.nodes : IDOf(s.nodes[i]) = id

HasNode(s, id) == \E i \in DOMAIN s.nodes : IDOf(s.nodes[i]) = id

(* The piece covering an offset of an insertion. *)
FindPieceCovering(s, at, off) ==
    LET i == Floor(s, at, off) IN IF i # 0 /\ off < EndOf(s.nodes[i]) THEN i ELSE 0

RECURSIVE LiveBefore(_, _)
(* treeByIndex.IndexOf: the live characters before the i-th node. *)
LiveBefore(nodes, i) == IF i = 1 THEN 0 ELSE LiveBefore(nodes, i - 1) + LiveLen(nodes[i - 1])

LiveTotal(s) == LiveBefore(s.nodes, Len(s.nodes)) + LiveLen(s.nodes[Len(s.nodes)])

(* The first node that reaches the index, and the offset in it. *)
FindNodePos(s, index) ==
    LET i == CHOOSE i \in DOMAIN s.nodes :
               /\ LiveBefore(s.nodes, i) + LiveLen(s.nodes[i]) >= index
               /\ \A j \in 1 .. i - 1 : LiveBefore(s.nodes, j) + LiveLen(s.nodes[j]) < index
    IN  PosOf(IDOf(s.nodes[i]), index - LiveBefore(s.nodes, i))

(* A position as the count of live characters from the head. *)
NormalizePos(s, pos) ==
    PosOf(IDOf(InitialTextNode), LiveBefore(s.nodes, Floor(s, pos.at, pos.off)) + pos.rel)

RECURSIVE RefineFrom(_, _, _, _)
RefineFrom(s, i, part, rel) ==
    IF rel <= part THEN PosOf(IDOf(s.nodes[i]), rel)
    ELSE IF i = Len(s.nodes) THEN PosOf(IDOf(s.nodes[i]), part)
    ELSE RefineFrom(s, i + 1, LiveLen(s.nodes[i + 1]), rel - part)

(* The place a recorded count of characters has in the chain now. *)
RefinePos(s, pos) ==
    LET i == Floor(s, pos.at, pos.off) IN RefineFrom(s, i, Len(s.nodes[i].chars), pos.rel)

-----------------------------------------------------------------------------
(***************************************************************************)
(* Splitting and inserting.                                                *)
(***************************************************************************)
InsertAfter(s, i, n) ==
    [s EXCEPT !.nodes = SubSeq(s.nodes, 1, i) \o <<n>> \o SubSeq(s.nodes, i + 1, Len(s.nodes))]

SetInsPrev(s, at, off, prev) ==
    [s EXCEPT !.nodes = [i \in DOMAIN s.nodes |->
        IF s.nodes[i].at = at /\ s.nodes[i].off = off THEN [s.nodes[i] EXCEPT !.insPrev = prev]
        ELSE s.nodes[i]]]

(* The pieces whose insPrev is the given one, the pointer insNext of it. *)
InsNext(s, n) == {i \in Pieces(s, n.at) : s.nodes[i].insPrev = n.off}

(* A GC pair: the node, the attribute of it or none, and the set of its size if it never was in Live. *)
Pair(id, attr, own) == [node |-> id, attr |-> attr, own |-> own]

AttrPairs(n) ==
    {Pair(IDOf(n), <<a.key, a.updatedAt>>, {RHTNodeSize(a)}) : a \in RemovedAttrs(n.attrs)}

(* The two halves in the chain, and the piece that followed the node linked to the right one. *)
Halved(s, i, left, right) ==
    InsertAfter([s EXCEPT !.nodes = [j \in DOMAIN s.nodes |->
                   IF j = i THEN left
                   ELSE IF j \in InsNext(s, left) THEN [s.nodes[j] EXCEPT !.insPrev = right.off]
                   ELSE s.nodes[j]]], i, right)

(***************************************************************************)
(* The bookkeeping of a cut.  What it makes already removed is collected   *)
(* through a pair of its own: the copies of removed attributes, and the    *)
(* right piece of a tombstone.                                             *)
(***************************************************************************)
Accounted(s, right, diff) ==
    [s EXCEPT
       !.cancelled = @ \cup (IF right.cancels = {} THEN {} ELSE {IDOf(right)}),
       !.pending = @ \cup AttrPairs(right)
                     \cup (IF right.removedAt = None THEN {} ELSE {Pair(IDOf(right), None, {diff})}),
       !.live = IF right.removedAt = None THEN AddSize(@, diff) ELSE @]

Halve(s, i, left, right) ==
    Accounted(Halved(s, i, left, right), right,
              SubSize(AddSize(NodeSize(left), NodeSize(right)), NodeSize(s.nodes[i])))

(* The node at i is cut k characters in. *)
SplitNode(s, i, k) ==
    LET n == s.nodes[i] IN
      IF k < 0 \/ k > Len(n.chars) THEN [s EXCEPT !.failed = TRUE]
      ELSE IF k = 0 \/ k = Len(n.chars) THEN s
      ELSE Halve(s, i, [n EXCEPT !.chars = SubSeq(n.chars, 1, k)],
                 [n EXCEPT !.chars = SubSeq(n.chars, k + 1, Len(n.chars)), !.off = n.off + k, !.insPrev = n.off])

(* The node left of a position: at a border, the piece that ends there. *)
FindFloorNodePreferToLeft(s, at, off) ==
    LET i == Floor(s, at, off) IN
      IF i # 0 /\ off > 0 /\ s.nodes[i].off = off /\ s.nodes[i].insPrev # NoPiece
      THEN PlaceOf(s, <<at, s.nodes[i].insPrev>>) ELSE i

RECURSIVE SkipNewer(_, _, _)
(* Nodes inserted later at the same place stay in front. *)
SkipNewer(s, i, at) ==
    IF i < Len(s.nodes) /\ After(s.nodes[i + 1].at, at) THEN SkipNewer(s, i + 1, at) ELSE i

CutAt(cut, i, at) == [s |-> cut, left |-> IDOf(cut.nodes[SkipNewer(cut, i, at)])]

SplitAt(s, i, off, at) ==
    IF i = 0 THEN [s |-> [s EXCEPT !.failed = TRUE], left |-> IDOf(InitialTextNode)]
    ELSE CutAt(SplitNode(s, i, off - s.nodes[i].off), i, at)

(* The list cut at the position, and the id of the node to the left of it. *)
FindNodeWithSplit(s, pos, at) ==
    SplitAt(s, FindFloorNodePreferToLeft(s, pos.at, pos.off + pos.rel), pos.off + pos.rel, at)

(* The places from behind "from" up to the node "to" exclusive, or to the end. *)
FindBetween(s, from, to) ==
    LET first == PlaceOf(s, from) + 1
        last  == IF to = None THEN Len(s.nodes) ELSE PlaceOf(s, to) - 1
    IN  IF last >= first - 1 THEN first .. last ELSE first .. Len(s.nodes)

RightOf(s, id) ==
    LET i == PlaceOf(s, id) IN IF i = Len(s.nodes) THEN None ELSE IDOf(s.nodes[i + 1])

RangeFrom(cut, toRight) ==
    [s |-> cut.s, left |-> cut.left, range |-> FindBetween(cut.s, cut.left, toRight)]

RangeTo(cut, from, at) ==
    RangeFrom(FindNodeWithSplit(cut.s, from, at), RightOf(cut.s, cut.left))

(* The list cut at both ends of a range, the right one first, and the places between. *)
CutRange(s, from, to, at) == RangeTo(FindNodeWithSplit(s, to, at), from, at)

-----------------------------------------------------------------------------
(***************************************************************************)
(* Deleting.                                                               *)
(***************************************************************************)
CanRemove(n, at, creationKnown, tombstoneKnown) ==
    creationKnown /\ (n.removedAt = None \/ (~tombstoneKnown /\ After(at, n.removedAt)))

(***************************************************************************)
(* A deletion removes the nodes that were live in its author's view; one   *)
(* that somebody else removed meanwhile records it all the same.           *)
(***************************************************************************)
Deleted(n, at, vv) ==
    LET creationKnown  == TicketKnown(vv, n.at)
        tombstoneKnown == n.removedAt # None /\ TicketKnown(vv, n.removedAt)
        liveInView     == IF vv = Local THEN n.removedAt = None
                          ELSE creationKnown /\ ~IsRemovedInView(n, vv)
    IN  IF \/ liveInView /\ CanRemove(n, at, creationKnown, tombstoneKnown)
           \/ vv # Local /\ liveInView /\ n.removedAt # None
        THEN RecordRemoval(n, at) ELSE n

(* A span: characters of one insertion with what they and their attributes were. *)
Span(at, start, chars, attrs) == [at |-> at, start |-> start, chars |-> chars, attrs |-> attrs]

SpanEnd(span) == span.start + Len(span.chars)

SpanOf(n) == Span(n.at, n.off, n.chars, Elements(n.attrs))

(* The elements of a set of places, in order, that satisfy a test. *)
Ascending(places, Test(_)) == SelectSeq([i \in 1 .. Max(places \cup {0}) |-> i],
                                        LAMBDA i : i \in places /\ Test(i))

DeleteNodes(cut, at, vv) ==
    [i \in DOMAIN cut.s.nodes |->
       IF i \in cut.range THEN Deleted(cut.s.nodes[i], at, vv) ELSE cut.s.nodes[i]]

(* The nodes a deletion removed that were live before. *)
JustRemoved(cut, deleted) ==
    LET gone == Ascending(cut.range, LAMBDA i : cut.s.nodes[i].removedAt = None /\ deleted[i].removedAt # None)
    IN  [k \in DOMAIN gone |-> deleted[gone[k]]]

InsertNode(s, left, node) ==
    [InsertAfter(s, PlaceOf(s, left), node) EXCEPT !.live = AddSize(@, NodeSize(node))]

EditCut(cut, deleted, node) ==
    LET s == [cut.s EXCEPT !.nodes = deleted] IN
      [s |-> IF node.chars = <<>> THEN s ELSE InsertNode(s, cut.left, node),
       removed |-> JustRemoved(cut, deleted)]

EditRange(cut, chars, attrs, at, vv) ==
    IF cut.s.failed THEN [s |-> cut.s, removed |-> <<>>]
    ELSE EditCut(cut, DeleteNodes(cut, at, vv), NewNode(at, 0, chars, AttrsAt(attrs, at)))

(* edit: cut, delete, insert; "removed" are the nodes that were live before. *)
EditSplit(s, from, to, chars, attrs, at, vv) ==
    EditRange(CutRange(s, from, to, at), chars, attrs, at, vv)

-----------------------------------------------------------------------------
(***************************************************************************)
(* Undo and redo by identity.                                              *)
(***************************************************************************)
IsolateEnd(s, i, to) ==
    IF to < EndOf(s.nodes[i]) THEN SplitNode(s, i, to - s.nodes[i].off) ELSE s

(* The piece at i is cut so that one node is exactly [from, to). *)
IsolateRange(s, i, from, to) ==
    IsolateEnd(SplitNode(s, i, from - s.nodes[i].off), IF from > s.nodes[i].off THEN i + 1 ELSE i, to)

(* The pieces that overlap [start, end) of an insertion, by offset. *)
FindPiecesOverlapping(s, at, start, end) ==
    LET ids == {IDOf(s.nodes[i]) : i \in {j \in Pieces(s, at) : s.nodes[j].off < end /\ EndOf(s.nodes[j]) > start}}
    IN  [k \in 1 .. Cardinality(ids) |->
            CHOOSE id \in ids : Cardinality({x \in ids : x[2] < id[2]}) = k - 1]

(***************************************************************************)
(* Where a purged piece [start, end) goes back: before the piece that      *)
(* followed it, after the nearest before it, before the nearest after it,  *)
(* after what this undo placed last, at the position the undo names, at    *)
(* the head.  The size of a cut at that position is charged to nothing.    *)
(***************************************************************************)
AnchorAt(s, found) ==
    IF found.s.failed THEN [s |-> s, left |-> IDOf(InitialTextNode)] ELSE [found EXCEPT !.s.live = s.live]

FindRestoreAnchor(s, at, start, end, chain, from, executedAt) ==
    LET covering == FindPieceCovering(s, at, end)
        below    == IF start > 0 THEN Floor(s, at, start - 1) ELSE 0
        above    == Ceiling(s, at, end)
    IN  IF covering # 0 THEN [s |-> s, left |-> IDOf(s.nodes[covering - 1])]
        ELSE IF below # 0 THEN [s |-> s, left |-> IDOf(s.nodes[below])]
        ELSE IF above # 0 THEN [s |-> s, left |-> IDOf(s.nodes[above - 1])]
        ELSE IF chain # None THEN [s |-> s, left |-> chain]
        ELSE AnchorAt(s, FindNodeWithSplit(s, RefinePos(s, from), executedAt))

(* A purged piece under its old identity, its removal cancelled from the start. *)
Recreated(span, start, end, executedAt) ==
    LET stable == <<0, executedAt[2]>>
        chars  == SubSeq(span.chars, start - span.start + 1, end - span.start)
        fresh  == NewNode(span.at, start, chars, AttrsAt(span.attrs, executedAt))
    IN  CancelRemoval(RecordRemoval(fresh, stable), stable, executedAt)

(* The nearest pieces of the insertion on both sides, 0 for none, are linked to the piece. *)
Linked(anchor, node, below, above) ==
    LET prev == IF below = 0 THEN NoPiece ELSE anchor.s.nodes[below].off
        s    == IF above = 0 THEN anchor.s
                ELSE SetInsPrev(anchor.s, node.at, anchor.s.nodes[above].off, node.off)
    IN  InsertNode([s EXCEPT !.cancelled = @ \cup {IDOf(node)}], anchor.left, [node EXCEPT !.insPrev = prev])

PlaceBack(anchor, node) ==
    Linked(anchor, node, IF node.off > 0 THEN Floor(anchor.s, node.at, node.off - 1) ELSE 0,
           Ceiling(anchor.s, node.at, EndOf(node)))

(* The piece takes its place in the chain and in the insertion chain. *)
Recreate(s, span, start, end, chain, from, executedAt) ==
    PlaceBack(FindRestoreAnchor(s, span.at, start, end, chain, from, executedAt),
              Recreated(span, start, end, executedAt))

(* An undo cancels its own actor's removal of a tombstone, if there is one. *)
Revived(n, executedAt) ==
    LET own == UncancelledRemovalBy(n, executedAt[2]) IN
      IF own = {} THEN n ELSE CancelRemoval(n, CHOOSE d \in own : TRUE, executedAt)

(* A tombstone is cut to [cursor, end) and revived; j is its place. *)
RevivePiece(acc, cut, j, target, end) ==
    [acc EXCEPT !.s = [cut EXCEPT !.nodes[j] = target,
                                  !.cancelled = IF target.cancels = {} THEN @ ELSE @ \cup {IDOf(target)}],
                !.cursor = end, !.chain = IDOf(target),
                !.untombstoned = IF target.removedAt = None THEN Append(@, IDOf(target)) ELSE @]

ReviveAt(acc, cut, j, end, executedAt) == RevivePiece(acc, cut, j, Revived(cut.nodes[j], executedAt), end)

ReviveIn(acc, cut, at, end, executedAt) ==
    ReviveAt(acc, cut, PlaceOf(cut, <<at, acc.cursor>>), end, executedAt)

RecreateGap(acc, span, end, from, executedAt) ==
    [acc EXCEPT !.s = Recreate(acc.s, span, acc.cursor, end, acc.chain, from, executedAt),
                !.cursor = end, !.chain = <<span.at, acc.cursor>>]

(* Where a gap ends: at the next piece of the insertion, or with the span. *)
GapEnd(s, span, above) ==
    IF above = 0 THEN SpanEnd(span) ELSE Min({s.nodes[above].off, SpanEnd(span)})

(* Live pieces are left alone, tombstones revived, gaps recreated; i is the piece at the cursor. *)
RestoreStep(acc, span, i, from, executedAt) ==
    LET end == Min({EndOf(acc.s.nodes[i]), SpanEnd(span)}) IN
      IF i = 0
      THEN RecreateGap(acc, span, GapEnd(acc.s, span, Ceiling(acc.s, span.at, acc.cursor)), from, executedAt)
      ELSE IF acc.s.nodes[i].removedAt = None
      THEN [acc EXCEPT !.cursor = end, !.chain = IDOf(acc.s.nodes[i])]
      ELSE ReviveIn(acc, IsolateRange(acc.s, i, acc.cursor, end), span.at, end, executedAt)

(***************************************************************************)
(* A span from the cursor on.  "chain" is the node placed last and         *)
(* "untombstoned" are the pieces that came to life.                        *)
(***************************************************************************)
RECURSIVE RestoreSpan(_, _, _, _)
RestoreSpan(acc, span, from, executedAt) ==
    IF acc.cursor >= SpanEnd(span) THEN acc
    ELSE RestoreSpan(RestoreStep(acc, span, FindPieceCovering(acc.s, span.at, acc.cursor), from, executedAt),
                     span, from, executedAt)

RECURSIVE RestoreSpans(_, _, _, _)
RestoreSpans(acc, spans, from, executedAt) ==
    IF spans = <<>> THEN acc
    ELSE RestoreSpans(RestoreSpan([acc EXCEPT !.cursor = Head(spans).start], Head(spans), from, executedAt),
                      Tail(spans), from, executedAt)

(* restore: the characters of the spans under their original identities. *)
RestoreSplit(s, spans, from, executedAt) ==
    RestoreSpans([s |-> s, cursor |-> 0, chain |-> None, untombstoned |-> <<>>], spans, from, executedAt)

(***************************************************************************)
(* A piece that a redo removes again: one that was live in its view,       *)
(* whether it is live here or somebody else removed it meanwhile.          *)
(***************************************************************************)
RemovedAgain(n, vv) == IF vv = Local THEN n.removedAt = None ELSE ~IsRemovedInView(n, vv)

(* The piece, now exactly what the span covers of it, takes the removal; wasLive tells whether it shows. *)
RetombstoneTarget(acc, cut, j, span, at, wasLive) ==
    LET n == cut.nodes[j] IN
      [s |-> [cut EXCEPT !.nodes[j] = RecordRemoval(n, at)],
       removed |-> IF wasLive THEN Append(acc.removed, IDOf(n)) ELSE acc.removed,
       recorded |-> Append(acc.recorded,
                           Span(n.at, n.off, SubSeq(span.chars, n.off - span.start + 1, EndOf(n) - span.start),
                                span.attrs))]

RetombstoneIn(acc, cut, span, start, at, wasLive) ==
    RetombstoneTarget(acc, cut, PlaceOf(cut, <<span.at, start>>), span, at, wasLive)

RetombstonePiece(acc, span, i, at, vv) ==
    LET n     == acc.s.nodes[i]
        start == Max({n.off, span.start})
    IN  IF ~RemovedAgain(n, vv) THEN acc
        ELSE RetombstoneIn(acc, IsolateRange(acc.s, i, start, Min({EndOf(n), SpanEnd(span)})), span, start, at,
                           n.removedAt = None)

RECURSIVE RetombstonePieces(_, _, _, _, _)
RetombstonePieces(acc, span, ids, at, vv) ==
    IF ids = <<>> THEN acc
    ELSE RetombstonePieces(RetombstonePiece(acc, span, PlaceOf(acc.s, Head(ids)), at, vv),
                           span, Tail(ids), at, vv)

RECURSIVE RetombstoneSpans(_, _, _, _)
RetombstoneSpans(acc, spans, at, vv) ==
    IF spans = <<>> THEN acc
    ELSE LET span == Head(spans) IN
           RetombstoneSpans(
             RetombstonePieces(acc, span, FindPiecesOverlapping(acc.s, span.at, span.start, SpanEnd(span)), at, vv),
             Tail(spans), at, vv)

(* retombstone: "recorded" names the pieces the removal was recorded on. *)
RetombstoneSplit(s, spans, at, vv) ==
    RetombstoneSpans([s |-> s, removed |-> <<>>, recorded |-> <<>>], spans, at, vv)

-----------------------------------------------------------------------------
(* The ticket that has to be covered before the i-th node may be unlinked. *)
PurgeBarrierAt(s, i) == IF i = Len(s.nodes) THEN None ELSE s.nodes[i + 1].at

(* Mutant: the insertion chain keeps pointing at what was purged. *)
PurgeNodeUnlinked(s, i) ==
    [s EXCEPT !.nodes = SubSeq(s.nodes, 1, i - 1) \o SubSeq(s.nodes, i + 1, Len(s.nodes)),
              !.cancelled = @ \ {IDOf(s.nodes[i])}]

(* The node leaves the chain and the insertion chain. *)
PurgeNode(s, i) ==
    LET n      == s.nodes[i]
        linked == [j \in DOMAIN s.nodes |->
                     IF j \in InsNext(s, n) THEN [s.nodes[j] EXCEPT !.insPrev = n.insPrev] ELSE s.nodes[j]]
    IN  [s EXCEPT !.nodes = SubSeq(linked, 1, i - 1) \o SubSeq(linked, i + 1, Len(linked)),
                  !.cancelled = @ \ {IDOf(n)}]

(* The ids of the nodes whose ledger holds a cancel. *)
ScanCancelled(s) == {IDOf(s.nodes[i]) : i \in {j \in DOMAIN s.nodes : s.nodes[j].cancels # {}}}

PruneLedgers(s, vv) ==
    LET pruned == [i \in DOMAIN s.nodes |->
                     IF IDOf(s.nodes[i]) \in s.cancelled THEN PruneStable(s.nodes[i], vv) ELSE s.nodes[i]]
    IN  [s EXCEPT !.nodes = pruned,
                  !.cancelled = {id \in s.cancelled :
                      \E i \in DOMAIN pruned : IDOf(pruned[i]) = id /\ pruned[i].cancels # {}}]
=============================================================================

------------------------------ MODULE DocRoot ------------------------------
(***************************************************************************)
(* A document's content and its bookkeeping (pkg/document/crdt/root.go,    *)
(* object.go, element_rht.go) with the operations that edit it             *)
(* (pkg/document/operations): one array and one object of primitives.      *)
(*                                                                         *)
(* A root is a record: "list" is the array (RGATreeList); "members" maps   *)
(* the creation ticket of every value the object was ever set to, until it *)
(* is collected, to its key and tickets, and "byKey" maps a key to the     *)
(* value that occupies it; "gcElems" and "gcNodes" are the worklists of    *)
(* removed elements and of dead positions; "live" and "gc" are docSize     *)
(* and "sizeInGC" the charge of each element counted in gc.                *)
(*                                                                         *)
(* A size is [data, meta]: a value weighs one unit of data and every       *)
(* ticket it carries one of meta.  The array and the object themselves     *)
(* never change size and are left out.                                     *)
(***************************************************************************)
EXTENDS Tickets, Sequences, SequencesExt

(***************************************************************************)
(* The replicated list behind an array (pkg/document/crdt/rga_tree_list.go *)
(* and array.go), as operators on a list value.                            *)
(*                                                                         *)
(* A list is a record: "nodes" is the linked list of positions behind the  *)
(* dummy head, each with the ticket that created it, the element it holds  *)
(* (None for a position a move left behind) and, for such a dead position, *)
(* the ticket of that move; "entries" maps the creation ticket of every    *)
(* element to the move that placed it and to its own movedAt/removedAt.    *)
(* The maps of the code from tickets to nodes are look-ups in the two.     *)
(***************************************************************************)
EmptyList == [nodes |-> <<>>, entries |-> <<>>]

(* A function without one of its arguments. *)
Without(f, x) == [y \in DOMAIN f \ {x} |-> f[y]]

(* A function with v at x. *)
With(f, x, v) == (x :> v) @@ f

(* nodeMapByCreatedAt: index 0 is the dummy head. *)
HasPosition(l, at) == at = InitialTicket \/ \E i \in DOMAIN l.nodes : l.nodes[i].at = at

PositionIndex(l, at) ==
    IF at = InitialTicket THEN 0 ELSE CHOOSE i \in DOMAIN l.nodes : l.nodes[i].at = at

(* elementMapByCreatedAt, and the position an entry points at. *)
HasElement(l, e) == e \in DOMAIN l.entries

ElementIndex(l, e) == CHOOSE i \in DOMAIN l.nodes : l.nodes[i].elem = e

(* The ticket a position competes with when an insertion looks for its place. *)
PositionedAt(l, i) ==
    LET n == l.nodes[i] IN
      IF n.elem = None THEN n.at
      ELSE IF l.entries[n.elem].posMovedAt # None THEN l.entries[n.elem].posMovedAt
      ELSE n.elem

(* A live position holds an element that is not removed. *)
IsRemoved(l, i) ==
    l.nodes[i].elem = None \/ l.entries[l.nodes[i].elem].removedAt # None

LiveElements(l) == {e \in DOMAIN l.entries : l.entries[e].removedAt = None}

(* What the array reads as: its live elements in order. *)
Marshal(l) ==
    LET live == SelectSeq(l.nodes, LAMBDA n : n.elem # None /\ l.entries[n.elem].removedAt = None)
    IN  [i \in DOMAIN live |-> live[i].elem]

LastCreatedAt(l) == IF l.nodes = <<>> THEN InitialTicket ELSE Last(l.nodes).at

(* The position that holds the element now. *)
PosCreatedAt(l, e) == l.nodes[ElementIndex(l, e)].at

(* The closest position before the element's that holds a live element, or the head. *)
FindPrevCreatedAt(l, e) ==
    LET before == {i \in 1 .. ElementIndex(l, e) - 1 : ~IsRemoved(l, i)} IN
      IF before = {} THEN InitialTicket ELSE l.nodes[Max(before)].at

(* Mutant: an insertion skips the positions that are newer or removed. *)
FindNextBeforeRemoved(l, i, t) ==
    Max({j \in i .. Len(l.nodes) : \A k \in i + 1 .. j : After(PositionedAt(l, k), t) \/ IsRemoved(l, k)})

(***************************************************************************)
(* From the anchor, an insertion skips the positions that are newer.       *)
(***************************************************************************)
FindNextBeforeExecutedAt(l, i, t) ==
    Max({j \in i .. Len(l.nodes) : \A k \in i + 1 .. j : After(PositionedAt(l, k), t)})

(* insertAfter: the anchor is a position, or else an element's position. *)
CanInsertAfter(l, prev) == HasPosition(l, prev) \/ HasElement(l, prev)

InsertAfter(l, prev, e, t) ==
    LET start == IF HasPosition(l, prev) THEN PositionIndex(l, prev) ELSE ElementIndex(l, prev)
        node  == [at |-> e, elem |-> e, removedAt |-> None]
    IN  [nodes   |-> InsertAt(l.nodes, FindNextBeforeExecutedAt(l, start, t) + 1, node),
         entries |-> With(l.entries, e, [posMovedAt |-> None, movedAt |-> None, removedAt |-> None])]

InsertPositionAfter(l, prev, node) ==
    LET i == FindNextBeforeExecutedAt(l, PositionIndex(l, prev), node.at) IN
      InsertAt(l.nodes, i + 1, node)

CanMoveAfter(l, prev, e) == HasPosition(l, prev) /\ HasElement(l, e)

(* A newer move has already placed the element. *)
MoveLost(l, e, t) == l.entries[e].posMovedAt # None /\ ~After(t, l.entries[e].posMovedAt)

(* The position a move leaves dead: its own when it lost, the old one when it won. *)
DeadPosition(l, e, t) ==
    IF ~MoveLost(l, e, t) THEN PosCreatedAt(l, e) ELSE IF HasPosition(l, t) THEN None ELSE t

MoveAfter(l, prev, e, t) ==
    IF DeadPosition(l, e, t) = None THEN l
    ELSE IF MoveLost(l, e, t)
    THEN [l EXCEPT !.nodes = InsertPositionAfter(l, prev, [at |-> t, elem |-> None, removedAt |-> t])]
    ELSE LET placed == InsertPositionAfter(l, prev, [at |-> t, elem |-> None, removedAt |-> None])
             old    == PosCreatedAt(l, e)
         IN  [nodes |-> [i \in DOMAIN placed |->
                            IF placed[i].at = old THEN [placed[i] EXCEPT !.elem = None, !.removedAt = t]
                            ELSE IF placed[i].at = t THEN [placed[i] EXCEPT !.elem = e]
                            ELSE placed[i]],
              entries |-> [l.entries EXCEPT ![e].posMovedAt = t, ![e].movedAt = t]]

(* A removal takes effect unless a later one is already recorded. *)
Removes(e, entry, t) == After(t, e) /\ (entry.removedAt = None \/ After(t, entry.removedAt))

DeleteByCreatedAt(l, e, t) ==
    IF Removes(e, l.entries[e], t) THEN [l EXCEPT !.entries[e].removedAt = t] ELSE l

(* The new value takes the place the old one was created at, and replaces it. *)
CanSet(l, e) == HasElement(l, e)

Set(l, e, t) == DeleteByCreatedAt(InsertAfter(l, e, t, t), e, t)

(* The node behind, which an insertion would meet if this one were unlinked. *)
PurgeBarrierAt(l, i) == IF i = Len(l.nodes) THEN None ELSE PositionedAt(l, i + 1)

Release(l, i) ==
    [nodes   |-> RemoveAt(l.nodes, i),
     entries |-> IF l.nodes[i].elem = None THEN l.entries ELSE Without(l.entries, l.nodes[i].elem)]

(***************************************************************************)
(* One step of a copy, for DeepCopy and for a snapshot: the positions are  *)
(* re-created in order, an element that never moved through the ordinary   *)
(* insertion behind the last position.                                     *)
(***************************************************************************)
AddNode(entries, copy, n) ==
    IF n.elem = None
    THEN [copy EXCEPT !.nodes = Append(copy.nodes, n)]
    ELSE IF entries[n.elem].posMovedAt # None
         THEN [nodes   |-> Append(copy.nodes, [at |-> n.at, elem |-> n.elem, removedAt |-> None]),
               entries |-> With(copy.entries, n.elem, entries[n.elem])]
         ELSE LET added == InsertAfter(copy, LastCreatedAt(copy), n.elem, n.elem) IN
                [added EXCEPT !.entries[n.elem] = entries[n.elem]]

DeepCopy(l) ==
    FoldLeft(LAMBDA copy, n : AddNode(l.entries, copy, n), EmptyList, l.nodes)

-----------------------------------------------------------------------------
(* The root.                                                               *)

NoSize == [data |-> 0, meta |-> 0]

AddSize(s, d) == [data |-> s.data + d.data, meta |-> s.meta + d.meta]

SubSize(s, d) == [data |-> s.data - d.data, meta |-> s.meta - d.meta]

Meta(n) == [data |-> 0, meta |-> n]

EmptyRoot ==
    [list |-> EmptyList, byKey |-> <<>>, members |-> <<>>, gcElems |-> {}, gcNodes |-> {},
     sizeInGC |-> <<>>, live |-> NoSize, gc |-> NoSize]

(* The tickets of an element, wherever it lives. *)
Tickets(r, e) == IF HasElement(r.list, e) THEN r.list.entries[e] ELSE r.members[e]

Elements(r) == DOMAIN r.list.entries \cup DOMAIN r.members

Stamp(t) == IF t = None THEN 0 ELSE 1

DataSize(r, e) ==
    [data |-> 1, meta |-> 1 + Stamp(Tickets(r, e).movedAt) + Stamp(Tickets(r, e).removedAt)]

(* A dead position weighs the ticket that made it and the one that left it. *)
DeadPositionSize == Meta(2)

(***************************************************************************)
(* Root: registration of elements and of garbage.                          *)
(***************************************************************************)
(* A size already in gc is only topped up with the tickets it has gained. *)
MoveSizeToGC(r, e) ==
    LET size == DataSize(r, e) IN
      IF e \in DOMAIN r.sizeInGC
      THEN [r EXCEPT !.gc = AddSize(r.gc, SubSize(size, r.sizeInGC[e])),
                     !.sizeInGC[e] = size]
      ELSE [r EXCEPT !.gc = AddSize(r.gc, size),
                     !.live = SubSize(r.live, size),
                     !.sizeInGC = With(r.sizeInGC, e, size)]

(* Live never held the ticket of the removal, so it gets that much back. *)
RegisterRemovedElementPair(r, e) ==
    LET moved == MoveSizeToGC(r, e) IN
      [moved EXCEPT !.live = IF e \in DOMAIN r.sizeInGC THEN moved.live
                             ELSE AddSize(moved.live, Meta(1)),
                    !.gcElems = r.gcElems \cup {e}]

(* An element that is removed already when it is registered goes to gc at once. *)
RegisterElement(r, e) ==
    LET live == [r EXCEPT !.live = AddSize(r.live, DataSize(r, e))]
        gone == MoveSizeToGC(live, e)
    IN  IF Tickets(r, e).removedAt = None THEN live
        ELSE [gone EXCEPT !.gcElems = r.gcElems \cup {e}]

(* The charge of a dead position; registering a known one cancels it. *)
RegisterGCPair(r, at) ==
    IF at \in r.gcNodes
    THEN [r EXCEPT !.gcNodes = @ \ {at}, !.gc = SubSize(r.gc, DeadPositionSize)]
    ELSE [r EXCEPT !.gcNodes = @ \cup {at}, !.gc = AddSize(r.gc, DeadPositionSize)]

(* Mutant: the ticket a move stamps is always charged to live. *)
AccMovedElementLive(r, e, d) == [r EXCEPT !.live = AddSize(r.live, d)]

(* The ticket of a first move is charged where the element is charged. *)
AccMovedElement(r, e, d) ==
    IF Tickets(r, e).removedAt # None /\ e \in DOMAIN r.sizeInGC
    THEN [r EXCEPT !.gc = AddSize(r.gc, d), !.sizeInGC[e] = AddSize(r.sizeInGC[e], d)]
    ELSE [r EXCEPT !.live = AddSize(r.live, d)]

DeregisterElement(r, e) ==
    LET r1 == [r EXCEPT !.gcElems = @ \ {e}] IN
      IF e \in DOMAIN r.sizeInGC
      THEN [r1 EXCEPT !.gc = SubSize(r.gc, r.sizeInGC[e]), !.sizeInGC = Without(r.sizeInGC, e)]
      ELSE [r1 EXCEPT !.live = SubSize(r.live, DataSize(r, e))]

(***************************************************************************)
(* Object: the last writer of a key wins.                                  *)
(***************************************************************************)
MemberAt(r, e) == IF r.members[e].movedAt # None THEN r.members[e].movedAt ELSE e

(* Does the value set at t take the key? *)
WinsKey(r, k, t) == k \notin DOMAIN r.byKey \/ After(t, MemberAt(r, r.byKey[k]))

(* The occupant this value removes from the key, if any. *)
Evicted(r, k, t) ==
    {e \in DOMAIN r.members : /\ k \in DOMAIN r.byKey
                              /\ e = r.byKey[k]
                              /\ r.members[e].removedAt = None
                              /\ Removes(e, r.members[e], t)}

SetWithExecutedAt(r, k, v, member, t) ==
    IF WinsKey(r, k, t)
    THEN [r EXCEPT !.byKey = With(r.byKey, k, v),
                   !.members =
                       With([e \in DOMAIN r.members |->
                               IF e \in Evicted(r, k, t) THEN [r.members[e] EXCEPT !.removedAt = t]
                               ELSE r.members[e]],
                            v, [member EXCEPT !.movedAt = t])]
    ELSE LET at == MemberAt(r, r.byKey[k]) IN
           [r EXCEPT !.members =
               With(r.members, v, [member EXCEPT !.removedAt =
                                      IF member.removedAt = None /\ Removes(v, member, at) THEN at ELSE @])]

(* The object's live members. *)
Members(r) == [k \in {k \in DOMAIN r.byKey : r.members[r.byKey[k]].removedAt = None} |-> r.byKey[k]]

(* What the document reads as. *)
Contents(r) == <<Marshal(r.list), Members(r)>>

(***************************************************************************)
(* The operations.  Each is a record with its type and the ticket it       *)
(* executes at; Applies is false where Execute returns ErrChildNotFound.   *)
(***************************************************************************)
Applies(r, op) ==
    CASE op.type = "add"    -> CanInsertAfter(r.list, op.prev)
      [] op.type = "move"   -> CanMoveAfter(r.list, op.prev, op.elem)
      [] op.type = "assign" -> CanSet(r.list, op.elem)
      [] op.type = "remove" -> op.elem \in Elements(r)
      [] op.type = "set"    -> TRUE

ExecuteAdd(r, op) ==
    RegisterElement([r EXCEPT !.list = InsertAfter(r.list, op.prev, op.at, op.at)], op.at)

ExecuteMove(r, op) ==
    LET moved == [r EXCEPT !.list = MoveAfter(r.list, op.prev, op.elem, op.at)]
        first == Stamp(moved.list.entries[op.elem].movedAt) - Stamp(r.list.entries[op.elem].movedAt)
        dead  == DeadPosition(r.list, op.elem, op.at)
        acc   == AccMovedElement(moved, op.elem, Meta(first))
    IN  IF dead = None THEN acc ELSE RegisterGCPair(acc, dead)

ExecuteRemove(r, op) ==
    IF ~Removes(op.elem, Tickets(r, op.elem), op.at) THEN r
    ELSE RegisterRemovedElementPair(
             IF HasElement(r.list, op.elem)
             THEN [r EXCEPT !.list = DeleteByCreatedAt(r.list, op.elem, op.at)]
             ELSE [r EXCEPT !.members[op.elem].removedAt = op.at],
             op.elem)

ExecuteAssign(r, op) ==
    LET set == RegisterElement([r EXCEPT !.list = Set(r.list, op.elem, op.at)], op.at) IN
      IF Removes(op.elem, r.list.entries[op.elem], op.at)
      THEN RegisterRemovedElementPair(set, op.elem) ELSE set

ExecuteSet(r, op) ==
    LET fresh   == [key |-> op.key, movedAt |-> None, removedAt |-> None]
        evicted == IF WinsKey(r, op.key, op.at) THEN Evicted(r, op.key, op.at) ELSE {}
        set     == RegisterElement(SetWithExecutedAt(r, op.key, op.at, fresh, op.at), op.at)
    IN  IF evicted = {} THEN set
        ELSE RegisterRemovedElementPair(set, CHOOSE e \in evicted : TRUE)

Execute(r, op) ==
    CASE op.type = "add"    -> ExecuteAdd(r, op)
      [] op.type = "move"   -> ExecuteMove(r, op)
      [] op.type = "assign" -> ExecuteAssign(r, op)
      [] op.type = "remove" -> ExecuteRemove(r, op)
      [] op.type = "set"    -> ExecuteSet(r, op)

(***************************************************************************)
(* Garbage collection.                                                     *)
(***************************************************************************)
(* The worklists: removed elements, and dead positions of the array. *)
Worklist(r) == {<<"elem", e>> : e \in r.gcElems} \cup {<<"node", at>> : at \in r.gcNodes}

(* Where in the array a pair of the worklist is, 0 for a member of the object. *)
PlaceOf(r, pair) ==
    IF pair[1] = "node" THEN PositionIndex(r.list, pair[2])
    ELSE IF HasElement(r.list, pair[2]) THEN ElementIndex(r.list, pair[2])
    ELSE 0

RemovedAt(r, pair) ==
    IF pair[1] = "node" THEN r.list.nodes[PlaceOf(r, pair)].removedAt ELSE Tickets(r, pair[2]).removedAt

(* Mutant: a tombstone with nothing behind it is never purged. *)
PurgeableInside(r, vv, pair) ==
    LET barrier == IF PlaceOf(r, pair) = 0 THEN None ELSE PurgeBarrierAt(r.list, PlaceOf(r, pair)) IN
      /\ RemovedAt(r, pair) # None
      /\ EqualToOrAfter(vv, RemovedAt(r, pair))
      /\ PlaceOf(r, pair) # 0 => barrier # None /\ EqualToOrAfter(vv, barrier)

(***************************************************************************)
(* A pair may be purged once everyone has seen its removal and, in the     *)
(* array, the position behind it.                                          *)
(***************************************************************************)
Purgeable(r, vv, pair) ==
    LET barrier == IF PlaceOf(r, pair) = 0 THEN None ELSE PurgeBarrierAt(r.list, PlaceOf(r, pair)) IN
      /\ RemovedAt(r, pair) # None
      /\ EqualToOrAfter(vv, RemovedAt(r, pair))
      /\ barrier # None => EqualToOrAfter(vv, barrier)

(* The member leaves the object, and the key too if it still occupies it. *)
PurgeMember(r, e) ==
    LET k == r.members[e].key IN
      [r EXCEPT !.members = Without(r.members, e),
                !.byKey = IF k \in DOMAIN r.byKey /\ r.byKey[k] = e THEN Without(r.byKey, k) ELSE @]

Purge(r, pair) ==
    IF pair[1] = "node"
    THEN [r EXCEPT !.list = Release(r.list, PlaceOf(r, pair)),
                   !.gcNodes = @ \ {pair[2]},
                   !.gc = SubSize(r.gc, DeadPositionSize)]
    ELSE LET r1 == DeregisterElement(r, pair[2]) IN
           IF PlaceOf(r, pair) # 0 THEN [r1 EXCEPT !.list = Release(r.list, PlaceOf(r, pair))]
           ELSE PurgeMember(r1, pair[2])

(* Passes over the worklists until one purges nothing more. *)
GarbageCollect(r, vv) ==
    LET PurgeOne(r1, i) ==
            LET ready == {pair \in Worklist(r1) : Purgeable(r1, vv, pair)} IN
              IF ready = {} THEN r1 ELSE Purge(r1, CHOOSE pair \in ready : TRUE)
    IN  FoldLeft(PurgeOne, r, [i \in 1 .. Cardinality(Worklist(r)) |-> i])

(***************************************************************************)
(* NewRoot: all bookkeeping recomputed from the content alone.             *)
(***************************************************************************)
SumSize(r, es) ==
    FoldSet(LAMBDA e, s : AddSize(s, DataSize(r, e)), NoSize, es)

Removed(r) == {e \in Elements(r) : Tickets(r, e).removedAt # None}

DeadPositions(r) ==
    {r.list.nodes[i].at : i \in {j \in DOMAIN r.list.nodes : r.list.nodes[j].elem = None}}

NewRoot(list, byKey, members) ==
    LET r == [EmptyRoot EXCEPT !.list = list, !.byKey = byKey, !.members = members]
        dead == Cardinality(DeadPositions(r))
    IN  [r EXCEPT !.gcElems = Removed(r),
                  !.gcNodes = DeadPositions(r),
                  !.sizeInGC = [e \in Removed(r) |-> DataSize(r, e)],
                  !.live = SumSize(r, Elements(r) \ Removed(r)),
                  !.gc = AddSize(SumSize(r, Removed(r)), Meta(2 * dead))]

DeepCopyRoot(r) == NewRoot(DeepCopy(r.list), r.byKey, r.members)

(* The members in the order a snapshot lists them. *)
RHTNodes(r) == SetToSortSeq(DOMAIN r.members, LAMBDA e, f :
                   \/ After(MemberAt(r, f), MemberAt(r, e))
                   \/ MemberAt(r, f) = MemberAt(r, e) /\ After(f, e))

(* A snapshot written and read again: the object's members are set anew. *)
Restore(r) ==
    LET set == FoldLeft(LAMBDA o, e : SetWithExecutedAt(o, r.members[e].key, e, r.members[e], MemberAt(r, e)),
                        EmptyRoot, RHTNodes(r))
    IN  NewRoot(DeepCopy(r.list), set.byKey, set.members)
=============================================================================

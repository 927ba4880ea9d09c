------------------------------ MODULE TreeList ------------------------------
(***************************************************************************)
(* The order-statistic tree that finds an element of an array by its index *)
(* (pkg/treelist/treelist.go): a left-leaning red-black tree over the      *)
(* nodes of RGATreeList, with two cached sums, weight over the live nodes  *)
(* and count over all of them, and with parent links.                      *)
(*                                                                         *)
(* Nodes are numbers, 0 is the null pointer; a heap h maps a node to its   *)
(* fields.  A call that may change the root of a subtree returns the heap  *)
(* and that root, [h, at].  Reading a field of the null pointer, a panic   *)
(* in the code, is reading outside the domain of h.                        *)
(***************************************************************************)
EXTENDS Integers, Sequences, FiniteSets

CONSTANTS
    ListNodes   \* 1..k; node 1 is the dummy head, which is removed from the start

VARIABLES
    tlist,      \* the tree: [h, at]
    elements    \* the nodes in the order of the linked list of RGATreeList

listVars == <<tlist, elements>>

Nil == 0

Size(h, x) == IF h[x].removed THEN 0 ELSE 1

Sum(h, x, field) == IF x = Nil THEN 0 ELSE h[x][field]

LeftCount(h, x) == Sum(h, h[x].left, "count")

IsRed(h, x) == x # Nil /\ h[x].red

UpdateNode(h, x) ==
    [h EXCEPT ![x].weight = Sum(h, h[x].left, "weight") + Size(h, x) + Sum(h, h[x].right, "weight"),
              ![x].count = LeftCount(h, x) + 1 + Sum(h, h[x].right, "count")]

(***************************************************************************)
(* rotateLeft brings the right child up and the node down on its left,     *)
(* rotateRight is its mirror.  The link from above is the caller's.        *)
(***************************************************************************)
RotateTo(h, x, side) ==
    LET other == IF side = "left" THEN "right" ELSE "left"
        y     == h[x][other]
        inner == h[y][side]
        moved == [h EXCEPT ![x][other] = inner, ![y][side] = x, ![y].parent = h[x].parent, ![x].parent = y,
                           ![y].red = h[x].red, ![x].red = TRUE]
        held  == IF inner = Nil THEN moved ELSE [moved EXCEPT ![inner].parent = x]
    IN  [h |-> UpdateNode(UpdateNode(held, x), y), at |-> y]

FlipColors(h, x) ==
    [h EXCEPT ![x].red = ~@, ![h[x].left].red = ~@, ![h[x].right].red = ~@]

(* A subtree hung under x, and x. *)
Hang(r, x, side) ==
    LET h == [r.h EXCEPT ![x][side] = r.at] IN
      [h |-> IF r.at = Nil THEN h ELSE [h EXCEPT ![r.at].parent = x], at |-> x]

Lean(r) ==
    IF IsRed(r.h, r.h[r.at].right) /\ ~IsRed(r.h, r.h[r.at].left) THEN RotateTo(r.h, r.at, "left") ELSE r

Straighten(r) ==
    IF IsRed(r.h, r.h[r.at].left) /\ IsRed(r.h, r.h[r.h[r.at].left].left)
    THEN RotateTo(r.h, r.at, "right") ELSE r

Divide(r) ==
    IF IsRed(r.h, r.h[r.at].left) /\ IsRed(r.h, r.h[r.at].right)
    THEN [r EXCEPT !.h = FlipColors(@, r.at)] ELSE r

Refresh(r) == [r EXCEPT !.h = UpdateNode(@, r.at)]

FixUp(r) == Refresh(Divide(Straighten(Lean(r))))

-----------------------------------------------------------------------------
RECURSIVE InsertByCount(_, _, _, _)
InsertByCount(h, x, index, new) ==
    IF x = Nil THEN [h |-> h, at |-> new]
    ELSE IF index <= LeftCount(h, x)
    THEN FixUp(Hang(InsertByCount(h, h[x].left, index, new), x, "left"))
    ELSE FixUp(Hang(InsertByCount(h, h[x].right, index - LeftCount(h, x) - 1, new), x, "right"))

(* The position of x among all nodes, found by climbing to the root. *)
RECURSIVE Climb(_, _, _)
Climb(h, x, index) ==
    LET p == h[x].parent IN
      IF p = Nil THEN index
      ELSE Climb(h, p, IF x = h[p].right THEN index + LeftCount(h, p) + 1 ELSE index)

StructuralIndexOf(h, x) == Climb(h, x, LeftCount(h, x))

(* The root is black and has no parent. *)
Rooted(r) == IF r.at = Nil THEN r ELSE [r EXCEPT !.h[r.at].red = FALSE, !.h[r.at].parent = Nil]

NewListNode(removed) ==
    [left |-> Nil, right |-> Nil, parent |-> Nil, weight |-> IF removed THEN 0 ELSE 1, count |-> 1,
     red |-> TRUE, removed |-> removed]

ListInsertAfter(t, prev, x, removed) ==
    Rooted(InsertByCount([t.h EXCEPT ![x] = NewListNode(removed)], t.at, StructuralIndexOf(t.h, prev) + 1, x))

RECURSIVE Propagate(_, _)
Propagate(h, x) ==
    IF x = Nil THEN h
    ELSE Propagate([h EXCEPT ![x].weight = Sum(h, h[x].left, "weight") + Size(h, x) + Sum(h, h[x].right, "weight")],
                   h[x].parent)

RECURSIVE FindLive(_, _, _)
FindLive(h, x, index) ==
    LET before == Sum(h, h[x].left, "weight") IN
      IF index < before THEN FindLive(h, h[x].left, index)
      ELSE IF index < before + Size(h, x) THEN x
      ELSE FindLive(h, h[x].right, index - before - Size(h, x))

(* Null stands for ErrOutOfIndex. *)
Find(t, index) == IF t.at = Nil \/ index >= Sum(t.h, t.at, "weight") THEN Nil ELSE FindLive(t.h, t.at, index)

-----------------------------------------------------------------------------
(***************************************************************************)
(* Deletion takes a red link down with it.                                 *)
(***************************************************************************)
Flipped(r) == [r EXCEPT !.h = FlipColors(@, r.at)]

MoveRedLeft(h, x) ==
    LET f == FlipColors(h, x) IN
      IF ~IsRed(f, f[f[x].right].left) THEN [h |-> f, at |-> x]
      ELSE LET r == Hang(RotateTo(f, f[x].right, "right"), x, "right") IN Flipped(RotateTo(r.h, x, "left"))

MoveRedRight(h, x) ==
    LET f == FlipColors(h, x) IN
      IF IsRed(f, f[f[x].left].left) THEN Flipped(RotateTo(f, x, "right")) ELSE [h |-> f, at |-> x]

(* Neither child of x nor its left grandchild on that side is red. *)
BlackBelow(h, y) == ~IsRed(h, y) /\ ~IsRed(h, h[y].left)

RECURSIVE MinOf(_, _)
MinOf(h, x) == IF h[x].left = Nil THEN x ELSE MinOf(h, h[x].left)

RECURSIVE RemoveMin(_, _)
RemoveMinFrom(r) == FixUp(Hang(RemoveMin(r.h, r.h[r.at].left), r.at, "left"))
RemoveMin(h, x) ==
    IF h[x].left = Nil THEN [h |-> h, at |-> Nil]
    ELSE RemoveMinFrom(IF BlackBelow(h, h[x].left) THEN MoveRedLeft(h, x) ELSE [h |-> h, at |-> x])

(* The successor takes the place of x, with its colour and its children. *)
SwapIn(h, x, successor, right) ==
    LET placed == [h EXCEPT ![successor].left = h[x].left, ![successor].right = right,
                            ![successor].red = h[x].red]
        held   == [y \in DOMAIN h |-> IF y \in {h[x].left, right} THEN [placed[y] EXCEPT !.parent = successor]
                                      ELSE placed[y]]
    IN  [h |-> [held EXCEPT ![x].left = Nil, ![x].right = Nil, ![x].parent = Nil], at |-> successor]

SwapSuccessor(x, successor, without) == SwapIn(without.h, x, successor, without.at)

RECURSIVE DeleteByCount(_, _, _)
DeleteLeft(r, index) == FixUp(Hang(DeleteByCount(r.h, r.h[r.at].left, index), r.at, "left"))

(* The node to delete is r's root or lies to its right. *)
DeleteHere(r, index) ==
    IF index = LeftCount(r.h, r.at)
    THEN FixUp(SwapSuccessor(r.at, MinOf(r.h, r.h[r.at].right), RemoveMin(r.h, r.h[r.at].right)))
    ELSE FixUp(Hang(DeleteByCount(r.h, r.h[r.at].right, index - LeftCount(r.h, r.at) - 1), r.at, "right"))

DeleteRight(r, index) ==
    IF index = LeftCount(r.h, r.at) /\ r.h[r.at].right = Nil THEN [r EXCEPT !.at = Nil]
    ELSE DeleteHere(IF BlackBelow(r.h, r.h[r.at].right) THEN MoveRedRight(r.h, r.at) ELSE r, index)

DeleteByCount(h, x, index) ==
    IF index < LeftCount(h, x)
    THEN DeleteLeft(IF BlackBelow(h, h[x].left) THEN MoveRedLeft(h, x) ELSE [h |-> h, at |-> x], index)
    ELSE DeleteRight(IF IsRed(h, h[x].left) THEN RotateTo(h, x, "right") ELSE [h |-> h, at |-> x], index)

ListDelete(t, x) ==
    LET h == IF ~IsRed(t.h, t.h[t.at].left) /\ ~IsRed(t.h, t.h[t.at].right)
             THEN [t.h EXCEPT ![t.at].red = TRUE] ELSE t.h
    IN  Rooted(DeleteByCount(h, t.at, StructuralIndexOf(h, x)))

-----------------------------------------------------------------------------
(***************************************************************************)
(* The calls of RGATreeList.                                               *)
(***************************************************************************)
ListInit ==
    /\ tlist = [h |-> [x \in ListNodes |-> [NewListNode(TRUE) EXCEPT !.red = (x # 1)]], at |-> 1]
    /\ elements = <<1>>

Members(seq) == {seq[i] : i \in DOMAIN seq}

At(x) == CHOOSE i \in DOMAIN elements : elements[i] = x

Unused == {x \in ListNodes \ Members(elements) : \A y \in ListNodes \ Members(elements) : x <= y}

(* A position may be inserted dead: the target of a move that lost. *)
ListInsert ==
    \E x \in Unused, prev \in Members(elements), removed \in BOOLEAN :
      /\ tlist' = ListInsertAfter(tlist, prev, x, removed)
      /\ elements' = SubSeq(elements, 1, At(prev)) \o <<x>> \o SubSeq(elements, At(prev) + 1, Len(elements))

ListRemove ==
    \E x \in Members(elements) \ {1} :
      /\ tlist' = LET h == [tlist.h EXCEPT ![x].removed = ~@] IN [tlist EXCEPT !.h = Propagate(h, x)]
      /\ UNCHANGED elements

ListPurge ==
    \E x \in Members(elements) \ {1} :
      /\ tlist' = LET t == ListDelete(tlist, x) IN [t EXCEPT !.h[x] = NewListNode(TRUE)]
      /\ elements' = SelectSeq(elements, LAMBDA y : y # x)

ListNext == ListInsert \/ ListRemove \/ ListPurge

-----------------------------------------------------------------------------
RECURSIVE NodesInOrder(_, _)
NodesInOrder(h, x) ==
    IF x = Nil THEN <<>> ELSE NodesInOrder(h, h[x].left) \o <<x>> \o NodesInOrder(h, h[x].right)

(* The black links from x down; -1 where two paths differ. *)
RECURSIVE BlackHeight(_, _)
BlackHeight(h, x) ==
    IF x = Nil THEN 0
    ELSE LET l == BlackHeight(h, h[x].left)
             r == BlackHeight(h, h[x].right)
         IN  IF l # r \/ l = -1 THEN -1 ELSE IF h[x].red THEN l ELSE l + 1

(***************************************************************************)
(* Through any insertions, removals and purges the tree is the list: its   *)
(* order, both cached sums, every parent link, the answers of Find and of  *)
(* structuralIndexOf; and it stays balanced, the red links leaning left    *)
(* and never two in a row (treelist.Tree).                                 *)
(***************************************************************************)
TreeIsList ==
    LET h    == tlist.h
        live == SelectSeq(elements, LAMBDA x : ~h[x].removed)
    IN  /\ NodesInOrder(h, tlist.at) = elements
        /\ BlackHeight(h, tlist.at) # -1
        /\ \A x \in Members(elements) :
             /\ UpdateNode(h, x) = h
             /\ h[x].parent = Nil <=> x = tlist.at
             /\ \A y \in {h[x].left, h[x].right} \ {Nil} : h[y].parent = x
             /\ ~IsRed(h, h[x].right) /\ (h[x].red => ~IsRed(h, h[x].left))
             /\ StructuralIndexOf(h, x) = At(x) - 1
        /\ \A i \in 0 .. Len(live) :
             Find(tlist, i) = IF i = Len(live) THEN Nil ELSE live[i + 1]
=============================================================================

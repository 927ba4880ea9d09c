----------------------------- MODULE SplayTree -----------------------------
(***************************************************************************)
(* The weighted splay tree that finds a character of a text by its index   *)
(* (pkg/splay/splay.go), driven by the calls RGATreeSplit makes on it.     *)
(*                                                                         *)
(* A tree is [root, n]: nodes are the numbers Nodes, 0 is the null pointer *)
(* and n maps each node to its links, its weight and the length of its     *)
(* value.  Weights are cached and, as in the code, wrong between the       *)
(* change of a value and the call that repairs them.                       *)
(***************************************************************************)
EXTENDS Integers, Sequences, FiniteSets

CONSTANTS
    Nodes,    \* 1..k; node 1 is the initial head, of length 0
    Run       \* characters in an insertion

VARIABLES
    splay,    \* the tree
    chain,    \* the nodes in the order of the linked list of RGATreeSplit
    content,  \* content[x]: characters the value of x holds
    removed   \* the removed nodes, whose length is 0

splayVars == <<splay, chain, content, removed>>

Null == 0

Other(side) == IF side = "left" THEN "right" ELSE "left"

Weight(t, x) == IF x = Null THEN 0 ELSE t.n[x].weight

LeftWeight(t, x) == Weight(t, t.n[x].left)

(* The new weight is the value's own length and the children's weights. *)
UpdateWeight(t, x) ==
    [t EXCEPT !.n[x].weight = t.n[x].len + LeftWeight(t, x) + Weight(t, t.n[x].right)]

RECURSIVE UpdateTreeWeight(_, _)
UpdateTreeWeight(t, x) == IF x = Null THEN t ELSE UpdateTreeWeight(UpdateWeight(t, x), t.n[x].parent)

SetParent(t, x, p) == IF x = Null THEN t ELSE [t EXCEPT !.n[x].parent = p]

(* The place of x under its parent, or at the root, taken by y. *)
Replace(t, x, y) ==
    LET up == t.n[x].parent IN
      IF up = Null THEN [t EXCEPT !.root = y]
      ELSE IF x = t.n[up].left THEN [t EXCEPT !.n[up].left = y] ELSE [t EXCEPT !.n[up].right = y]

(* Mutant: the weight of the node that went down is left as it was. *)
RotateStale(t, pivot, side) ==
    LET top   == t.n[pivot].parent
        inner == t.n[pivot][Other(side)]
        moved == [Replace(t, top, pivot) EXCEPT
                    !.n[pivot].parent = t.n[top].parent, !.n[top][side] = inner,
                    !.n[pivot][Other(side)] = top, !.n[top].parent = pivot]
    IN  UpdateWeight(SetParent(moved, inner, top), pivot)

(* rotateLeft takes a right child up, rotateRight a left child. *)
Rotate(t, pivot, side) ==
    LET top   == t.n[pivot].parent
        inner == t.n[pivot][Other(side)]
        moved == [Replace(t, top, pivot) EXCEPT
                    !.n[pivot].parent = t.n[top].parent, !.n[top][side] = inner,
                    !.n[pivot][Other(side)] = top, !.n[top].parent = pivot]
    IN  UpdateWeight(UpdateWeight(SetParent(moved, inner, top), top), pivot)

(* The sides on which x hangs: a set of at most one. *)
Sides(t, x) ==
    IF x = Null \/ t.n[x].parent = Null THEN {}
    ELSE {s \in {"left", "right"} : t.n[t.n[x].parent][s] = x}

Up(t, x) == IF Sides(t, x) = {} THEN t ELSE Rotate(t, x, CHOOSE s \in Sides(t, x) : TRUE)

(* zig-zag takes the node up twice, zig-zig its parent first. *)
RECURSIVE Splay(_, _)
Splay(t, x) ==
    LET p == t.n[x].parent IN
      IF Sides(t, x) = {} \/ Sides(t, p) = {} THEN UpdateTreeWeight(Up(t, x), x)
      ELSE IF Sides(t, p) # Sides(t, x) THEN Splay(Up(Up(t, x), x), x)
      ELSE Splay(Up(Up(t, p), x), x)

(* The node goes above prev, which is the root by then. *)
InsertAtRoot(t, prev, x) ==
    UpdateWeight(UpdateWeight(
      SetParent([t EXCEPT !.root = x, !.n[x].right = t.n[prev].right, !.n[x].left = prev,
                          !.n[prev].parent = x, !.n[prev].right = Null],
                t.n[prev].right, x), prev), x)

InsertAfter(t, prev, x) == InsertAtRoot(Splay(t, prev), prev, x)

RECURSIVE Rightmost(_, _)
Rightmost(t, x) == IF t.n[x].right = Null THEN x ELSE Rightmost(t, t.n[x].right)

(* What is left of x once its left tree has its last node as root. *)
Join(t, right) ==
    UpdateWeight(SetParent([t EXCEPT !.n[t.root].right = right], right, t.root), t.root)

Unlinked(t, x) == [t EXCEPT !.n[x].parent = Null, !.n[x].left = Null, !.n[x].right = Null]

DeleteRoot(t, x) ==
    LET left  == t.n[x].left
        right == t.n[x].right
        apart == SetParent(SetParent(t, left, Null), right, Null)
    IN  IF left = Null THEN UpdateWeight([Unlinked(apart, x) EXCEPT !.root = right], right)
        ELSE Join(Splay([Unlinked(apart, x) EXCEPT !.root = left], Rightmost(t, left)), right)

Delete(t, x) == DeleteRoot(Splay(t, x), x)

RECURSIVE InOrderFrom(_, _)
InOrderFrom(t, x) ==
    IF x = Null THEN <<>> ELSE InOrderFrom(t, t.n[x].left) \o <<x>> \o InOrderFrom(t, t.n[x].right)

Elems(seq) == {seq[i] : i \in DOMAIN seq}

(* The subtree weighs what its values weigh, which is nothing. *)
CutOffRight(t, x) ==
    LET cut == Elems(InOrderFrom(t, t.n[x].right)) IN
      UpdateTreeWeight([t EXCEPT !.n = [y \in DOMAIN @ |->
                          IF y \in cut THEN [@[y] EXCEPT !.weight = t.n[y].len] ELSE @[y]]], x)

Bounded(t, left, right) == IF t.n[right].left # left THEN Rotate(t, left, "left") ELSE t

(* What lies between the boundaries, or after the left one, is below left's right child. *)
DeleteRange(t, left, right) ==
    CutOffRight(IF right = Null THEN Splay(t, left) ELSE Bounded(Splay(Splay(t, left), right), left, right),
                left)

(***************************************************************************)
(* The node that holds the index-th character, or the first node for 0,    *)
(* and the offset in it; Null for an index past the end.                   *)
(***************************************************************************)
RECURSIVE FindFrom(_, _, _)
FindFrom(t, x, offset) ==
    LET before == LeftWeight(t, x) IN
      IF t.n[x].left # Null /\ offset <= before THEN FindFrom(t, t.n[x].left, offset)
      ELSE IF t.n[x].right # Null /\ before + t.n[x].len < offset
      THEN FindFrom(t, t.n[x].right, offset - before - t.n[x].len)
      ELSE IF offset - before > t.n[x].len THEN [node |-> Null, offset |-> 0]
      ELSE [node |-> x, offset |-> offset - before]

FindForText(t, index) == FindFrom(t, t.root, index)

-----------------------------------------------------------------------------
(***************************************************************************)
(* The calls of RGATreeSplit.                                              *)
(***************************************************************************)
NewNode == [left |-> Null, right |-> Null, parent |-> Null, weight |-> 0, len |-> 0]

SplayInit ==
    /\ splay = [root |-> 1, n |-> [x \in Nodes |-> NewNode]]
    /\ chain = <<1>>
    /\ content = [x \in Nodes |-> 0]
    /\ removed = {}

PlaceIn(x) == CHOOSE i \in DOMAIN chain : chain[i] = x

Inserted(x, prev) == SubSeq(chain, 1, PlaceIn(prev)) \o <<x>> \o SubSeq(chain, PlaceIn(prev) + 1, Len(chain))

(* A node that is not in the list; which one does not matter. *)
Fresh == {x \in Nodes \ Elems(chain) : \A y \in Nodes \ Elems(chain) : x <= y}

(* The tree with the length of a value changed behind its back. *)
WithLen(t, x, len) == [t EXCEPT !.n[x].len = len]

SplayInsert ==
    \E x \in Fresh, prev \in Elems(chain) :
      /\ splay' = InsertAfter([WithLen(splay, x, Run) EXCEPT !.n[x].weight = Run], prev, x)
      /\ chain' = Inserted(x, prev)
      /\ content' = [content EXCEPT ![x] = Run]
      /\ UNCHANGED removed

(* splitNode: only the weight of the node itself is repaired before its tail is inserted. *)
SplaySplit ==
    \E x \in Fresh, prev \in Elems(chain) : \E k \in 1 .. content[prev] - 1 :
      /\ LET Length(chars) == IF prev \in removed THEN 0 ELSE chars
             head == UpdateWeight(WithLen(splay, prev, Length(k)), prev)
             len  == Length(content[prev] - k)
         IN  splay' = InsertAfter([WithLen(head, x, len) EXCEPT !.n[x].weight = len], prev, x)
      /\ chain' = Inserted(x, prev)
      /\ content' = [content EXCEPT ![prev] = k, ![x] = content[prev] - k]
      /\ removed' = IF prev \in removed THEN removed \cup {x} ELSE removed

RECURSIVE DeleteBetween(_, _)
(* deleteIndexNodes: a DeleteRange for every two boundaries that are not neighbours. *)
DeleteBetween(t, boundaries) ==
    IF Len(boundaries) = 1 THEN t
    ELSE LET left  == boundaries[1]
             right == boundaries[2]
         IN  DeleteBetween(IF (right = Null /\ PlaceIn(left) = Len(chain))
                              \/ (right # Null /\ PlaceIn(left) + 1 = PlaceIn(right)) THEN t
                           ELSE DeleteRange(t, left, right), Tail(boundaries))

(* deleteNodes: all lengths become 0 first, then the runs between kept nodes are cut off. *)
SplayDeleteNodes ==
    \E i, j \in 2 .. Len(chain) : \E spared \in SUBSET (Nodes \ removed) :
      LET range == SubSeq(chain, i, j)
          gone  == Elems(range) \ (removed \cup spared)
      IN  /\ i <= j /\ spared \subseteq Elems(range) /\ gone # {}
          /\ splay' = DeleteBetween([splay EXCEPT !.n = [x \in Nodes |->
                                       IF x \in gone THEN [@[x] EXCEPT !.len = 0] ELSE @[x]]],
                        <<chain[i - 1]>> \o SelectSeq(range, LAMBDA x : x \notin gone)
                          \o <<IF j = Len(chain) THEN Null ELSE chain[j + 1]>>)
          /\ removed' = removed \cup gone
          /\ UNCHANGED <<chain, content>>

(* restore and retombstone splay the node whose length changed. *)
SplayRevive ==
    \E x \in removed :
      /\ splay' = Splay(WithLen(splay, x, content[x]), x)
      /\ removed' = removed \ {x}
      /\ UNCHANGED <<chain, content>>

SplayRetombstone ==
    \E x \in Elems(chain) \ (removed \cup {1}) :
      /\ splay' = Splay(WithLen(splay, x, 0), x)
      /\ removed' = removed \cup {x}
      /\ UNCHANGED <<chain, content>>

SplayPurge ==
    \E x \in removed :
      /\ splay' = LET t == Delete(splay, x) IN [t EXCEPT !.n[x] = NewNode]
      /\ chain' = SelectSeq(chain, LAMBDA y : y # x)
      /\ content' = [content EXCEPT ![x] = 0]
      /\ removed' = removed \ {x}

(* findNodePos and normalizePos look up, and splay what they find. *)
SplayFind ==
    \E index \in 0 .. Weight(splay, splay.root) :
      /\ splay' = Splay(splay, FindForText(splay, index).node)
      /\ UNCHANGED <<chain, content, removed>>

SplayIndexOf ==
    \E x \in Elems(chain) : splay' = Splay(splay, x) /\ UNCHANGED <<chain, content, removed>>

SplayNext ==
    \/ SplayInsert \/ SplaySplit \/ SplayDeleteNodes \/ SplayRevive
    \/ SplayRetombstone \/ SplayPurge \/ SplayFind \/ SplayIndexOf

-----------------------------------------------------------------------------
(* The characters that show before place i of the list. *)
RECURSIVE ShownBefore(_)
ShownBefore(i) ==
    IF i = 1 THEN 0
    ELSE ShownBefore(i - 1) + (IF chain[i - 1] \in removed THEN 0 ELSE content[chain[i - 1]])

(***************************************************************************)
(* Whatever was inserted, cut, removed in runs, revived, purged and looked *)
(* up before, the tree is the list: its order, every cached weight, every  *)
(* parent link, and the answers of FindForText and of IndexOf              *)
(* (splay.Tree; CheckWeight states the second for tests).                  *)
(***************************************************************************)
SplayIsList ==
    /\ InOrderFrom(splay, splay.root) = chain
    /\ \A x \in Elems(chain) :
         /\ splay.n[x].weight = splay.n[x].len + LeftWeight(splay, x) + Weight(splay, splay.n[x].right)
         /\ \A y \in {splay.n[x].left, splay.n[x].right} \ {Null} : splay.n[y].parent = x
         /\ LeftWeight(Splay(splay, x), x) = ShownBefore(PlaceIn(x))
    /\ \A index \in 0 .. ShownBefore(Len(chain) + 1) + 1 :
         LET holders == {i \in DOMAIN chain : ShownBefore(i) < index /\ index <= ShownBefore(i + 1)}
             found   == FindForText(splay, index)
         IN  IF index = 0 THEN found = [node |-> chain[1], offset |-> 0]
             ELSE IF holders = {} THEN found.node = Null
             ELSE \E i \in holders : found = [node |-> chain[i], offset |-> index - ShownBefore(i)]
=============================================================================

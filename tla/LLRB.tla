-------------------------------- MODULE LLRB --------------------------------
(***************************************************************************)
(* The left-leaning red-black tree that finds a run of text by its         *)
(* identity (pkg/llrb/llrb.go, treeByID of RGATreeSplit).                  *)
(*                                                                         *)
(* The tree has no parent links and no node is shared, so a subtree is a   *)
(* value: the empty tree, or [key, val, left, right, red].  Reading a      *)
(* field of the empty tree is the code's nil dereference.                  *)
(***************************************************************************)
EXTENDS Integers, FiniteSets

CONSTANTS
    Keys,      \* 1..k
    Values

VARIABLES
    llrb,      \* the tree
    size,      \* Tree.size
    stored     \* what was put and not removed: from keys to values

llrbVars == <<llrb, size, stored>>

Empty == [nil |-> TRUE]

Red(x) == x # Empty /\ x.red

Leaf(k, v) == [key |-> k, val |-> v, left |-> Empty, right |-> Empty, red |-> TRUE]

(* y takes the place and the colour of x, which becomes its red child. *)
RotateLeft(x) ==
    [x.right EXCEPT !.left = [x EXCEPT !.right = x.right.left, !.red = TRUE], !.red = x.red]

RotateRight(x) ==
    [x.left EXCEPT !.right = [x EXCEPT !.left = x.left.right, !.red = TRUE], !.red = x.red]

FlipColors(x) == [x EXCEPT !.red = ~@, !.left.red = ~@, !.right.red = ~@]

Straighten(x) == IF Red(x.left) /\ Red(x.left.left) THEN RotateRight(x) ELSE x

Divide(x) == IF Red(x.left) /\ Red(x.right) THEN FlipColors(x) ELSE x

(* The end of put, where a right red link leans left only without a left one. *)
Balance(x) == Divide(Straighten(IF Red(x.right) /\ ~Red(x.left) THEN RotateLeft(x) ELSE x))

(* The end of remove, where it always leans left. *)
FixUp(x) == Divide(Straighten(IF Red(x.right) THEN RotateLeft(x) ELSE x))

RECURSIVE Put(_, _, _)
Put(x, k, v) ==
    IF x = Empty THEN Leaf(k, v)
    ELSE IF k < x.key THEN Balance([x EXCEPT !.left = Put(@, k, v)])
    ELSE IF k > x.key THEN Balance([x EXCEPT !.right = Put(@, k, v)])
    ELSE Balance([x EXCEPT !.val = v])

Black(x) == IF x = Empty THEN x ELSE [x EXCEPT !.red = FALSE]

MovedLeft(f) ==
    IF Red(f.right.left) THEN FlipColors(RotateLeft([f EXCEPT !.right = RotateRight(@)])) ELSE f

MoveRedLeft(x) == MovedLeft(FlipColors(x))

MovedRight(f) == IF Red(f.left.left) THEN FlipColors(RotateRight(f)) ELSE f

MoveRedRight(x) == MovedRight(FlipColors(x))

RECURSIVE MinNode(_)
MinNode(x) == IF x.left = Empty THEN x ELSE MinNode(x.left)

RECURSIVE RemoveMin(_)
RemoveMinLeft(x) == FixUp([x EXCEPT !.left = RemoveMin(@)])
RemoveMin(x) ==
    IF x.left = Empty THEN Empty
    ELSE RemoveMinLeft(IF ~Red(x.left) /\ ~Red(x.left.left) THEN MoveRedLeft(x) ELSE x)

(* The smallest node on the right gives its key and value to x. *)
TakeOver(x, smallest) ==
    [x EXCEPT !.key = smallest.key, !.val = smallest.val, !.right = RemoveMin(@)]

RECURSIVE RemoveKey(_, _)
RemoveLeft(x, k) == FixUp([x EXCEPT !.left = RemoveKey(@, k)])

RemoveHere(x, k) ==
    FixUp(IF k = x.key THEN TakeOver(x, MinNode(x.right)) ELSE [x EXCEPT !.right = RemoveKey(@, k)])

RemoveRight(x, k) ==
    IF k = x.key /\ x.right = Empty THEN Empty
    ELSE RemoveHere(IF ~Red(x.right) /\ ~Red(x.right.left) THEN MoveRedRight(x) ELSE x, k)

RemoveKey(x, k) ==
    IF k < x.key THEN RemoveLeft(IF ~Red(x.left) /\ ~Red(x.left.left) THEN MoveRedLeft(x) ELSE x, k)
    ELSE RemoveRight(IF Red(x.left) THEN RotateRight(x) ELSE x, k)

Remove(x, k) ==
    Black(RemoveKey(IF ~Red(x.left) /\ ~Red(x.right) THEN [x EXCEPT !.red = TRUE] ELSE x, k))

(* The nearest node at or below, at or above a key, or what was nearest on the way. *)
RECURSIVE Floor(_, _, _)
Floor(x, k, best) ==
    IF x = Empty THEN best
    ELSE IF k = x.key THEN {<<x.key, x.val>>}
    ELSE IF k < x.key THEN Floor(x.left, k, best) ELSE Floor(x.right, k, {<<x.key, x.val>>})

RECURSIVE Ceiling(_, _, _)
Ceiling(x, k, best) ==
    IF x = Empty THEN best
    ELSE IF k = x.key THEN {<<x.key, x.val>>}
    ELSE IF k < x.key THEN Ceiling(x.left, k, {<<x.key, x.val>>}) ELSE Ceiling(x.right, k, best)

-----------------------------------------------------------------------------
LLRBInit == llrb = Empty /\ size = 0 /\ stored = <<>>

RECURSIVE KeysOf(_)
KeysOf(x) == IF x = Empty THEN {} ELSE KeysOf(x.left) \cup {x.key} \cup KeysOf(x.right)

LLRBPut ==
    \E k \in Keys, v \in Values :
      /\ llrb' = Black(Put(llrb, k, v))
      /\ size' = IF k \in KeysOf(llrb) THEN size ELSE size + 1
      /\ stored' = [x \in DOMAIN stored \cup {k} |-> IF x = k THEN v ELSE stored[x]]

(* RGATreeSplit removes only what it has put. *)
LLRBRemove ==
    \E k \in DOMAIN stored :
      /\ llrb' = Remove(llrb, k)
      /\ size' = size - 1
      /\ stored' = [x \in DOMAIN stored \ {k} |-> stored[x]]

LLRBNext == LLRBPut \/ LLRBRemove

-----------------------------------------------------------------------------
RECURSIVE Blacks(_)
Blacks(x) ==
    IF x = Empty THEN 0
    ELSE LET l == Blacks(x.left)
             r == Blacks(x.right)
         IN  IF l # r \/ l = -1 THEN -1 ELSE IF x.red THEN l ELSE l + 1

RECURSIVE Leaning(_)
Leaning(x) ==
    x = Empty \/ (/\ ~Red(x.right) /\ (x.red => ~Red(x.left)) /\ Leaning(x.left) /\ Leaning(x.right))

Pairs(ks) == {<<k, stored[k]>> : k \in ks}

(***************************************************************************)
(* The tree holds what was put and not removed, Floor and Ceiling answer   *)
(* as a search of all keys would, Len counts them, and the three           *)
(* invariants that the comment of llrb.Tree lists hold after every call.   *)
(***************************************************************************)
TreeIsMap ==
    /\ KeysOf(llrb) = DOMAIN stored /\ size = Cardinality(DOMAIN stored)
    /\ Blacks(llrb) # -1 /\ Leaning(llrb) /\ ~Red(llrb)
    /\ \A k \in Keys :
         /\ Floor(llrb, k, {}) = Pairs({x \in DOMAIN stored : x <= k /\ \A y \in DOMAIN stored : y <= k => y <= x})
         /\ Ceiling(llrb, k, {}) = Pairs({x \in DOMAIN stored : x >= k /\ \A y \in DOMAIN stored : y >= k => y >= x})
=============================================================================

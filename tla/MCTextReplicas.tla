--------------------------- MODULE MCTextReplicas ---------------------------
(* Instances of TextReplicas for TLC.                                      *)
EXTENDS TextReplicas

(* The first text, and what an insertion inserts. *)
ThreeChars == <<"a", "b", "c">>

TwoChars == <<"a", "b">>

OneWord == {<<"x">>}

Plan(first, second) ==
    [calls |-> [c \in Clients |-> IF c = 1 THEN first ELSE second], disableGC |-> FALSE, lossy |-> {}]

(* The same with replies of the first client lost. *)
Lossy(p) == [p EXCEPT !.lossy = {1}]

(* The same with nothing collected. *)
Kept(p) == [p EXCEPT !.disableGC = TRUE]

(***************************************************************************)
(* What the applications of two clients do.  An undo of a style never      *)
(* meets a collected removal here, and no insertion is removed and         *)
(* collected as a whole: see StylePlans and AnchorPlans.                   *)
(***************************************************************************)
EditPlans ==
    {Plan(<<{"delete"}, {"undo"}>>, <<{"delete"}, {"undo"}>>),
     Plan(<<{"delete"}, {"undo"}, {"redo"}>>, <<{"insert"}>>),
     Lossy(Plan(<<{"replace"}, {"undo"}, {"redo"}>>, <<{"delete"}>>)),
     Plan(<<{"style"}, {"undo"}>>, <<{"style"}>>),
     Plan(<<{"insert"}, {"style"}>>, <<{"delete"}>>),
     Kept(Plan(<<{"style"}, {"undo"}, {"redo"}>>, <<{"delete"}, {"undo"}>>))}

(* A style undone and done again while its text is removed and collected. *)
StylePlans == {Plan(<<{"style"}, {"undo"}, {"redo"}>>, <<{"delete"}>>)}

(* An insertion removed and collected before the removal is undone. *)
AnchorPlans == {Plan(<<{"insert"}, {"delete"}, {"undo"}, {"undo"}>>, <<{"insert"}>>)}

(* A document a snapshot restores and the clone an updater edits are the   *)
(* document: its garbage, its ledgers, the order its blocks were inserted. *)
CopiesExact == InsertionChain /\ CloneIsRoot /\ SnapshotIsExact /\ LedgersPruned

(* Every change applies wherever it arrives, and two texts with the same   *)
(* changes read the same.                                                  *)
TextsConverge == EveryChangeApplies /\ Convergence
=============================================================================

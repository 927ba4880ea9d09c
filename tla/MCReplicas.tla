----------------------------- MODULE MCReplicas -----------------------------
(* Instances of Replicas for TLC.                                          *)
EXTENDS Replicas

(* What the applications of two clients do. *)
Plan(first, second) ==
    [calls |-> [c \in Clients |-> IF c = 1 THEN first ELSE second],
     late |-> {}, modes |-> {"sync"}, threshold |-> 100]

(* The same when the second client attaches while the first edits, clients *)
(* also push without pulling, and snapshots are sent.                      *)
Late(p) == [p EXCEPT !.late = {2}, !.modes = {"sync", "pushonly"}, !.threshold = 2]

(* Insertions around a removal; a move against a removal; moves; values of *)
(* the object; a client that attaches while the other edits, and edits.    *)
EditPlans ==
    {Plan(<<{"insert"}>>, <<{"push"}, {"delete"}>>),
     Plan(<<{"delete"}, {"key"}>>, <<{"move"}>>),
     Plan(<<{"move"}>>, <<{"move"}>>),
     Plan(<<{"key"}, {"key"}>>, <<{"key"}>>),
     Late(Plan(<<{"delete"}>>, <<{"insert"}>>)),
     Late(Plan(<<{"key"}>>, <<{"push"}>>)),
     [Late(Plan(<<{"move"}>>, <<{"delete"}>>)) EXCEPT !.modes = {"sync"}]}

(* A copy of a document, the clone an updater edits and the document a     *)
(* snapshot restores are the document, with its garbage and its sizes.     *)
CopiesExact == CopyIsExact /\ CloneIsRoot /\ SnapshotIsFaithful

(* Every change applies wherever it arrives, and the order in which        *)
(* garbage is collected does not matter.                                   *)
CollectionSafe == EveryChangeApplies /\ CollectOrderFree

(* A removal of the last element against an addition or a move to the end. *)
AnchorPlans == {Plan(<<{"delete"}>>, <<{"push", "movelast"}>>)}

(* A move and an assignment of the same element. *)
AssignPlans == {Plan(<<{"move"}>>, <<{"assign"}>>)}
=============================================================================

------------------------------ MODULE Tickets ------------------------------
(***************************************************************************)
(* The logical clocks of pkg/document/time and pkg/document/change: time   *)
(* tickets and their total order, version vectors, and the change ID that  *)
(* carries a replica's lamport clock and its vector.                       *)
(*                                                                         *)
(* An actor is a natural number, so that actor IDs are ordered as their    *)
(* bytes are.  A ticket is <<lamport, actor>>: the delimiter that tells    *)
(* apart the tickets of one change is left out, as every modelled change   *)
(* issues one ticket.  A version vector maps every actor to a lamport; an  *)
(* actor that a vector does not hold is mapped to 0, which no ticket of an *)
(* edit carries.                                                           *)
(***************************************************************************)
EXTENDS Integers, FiniteSetsExt

CONSTANT Actors

ASSUME ActorsAssumption == Actors \subseteq Nat

VersionVectors == [Actors -> Nat]

(* "No ticket", the nil pointer of the code. *)
None == <<>>

(* The ticket of the head of every list. *)
InitialTicket == <<0, 0>>

(* t was created later than u: lamport first, then the actor. *)
After(t, u) == t[1] > u[1] \/ (t[1] = u[1] /\ t[2] > u[2])

(* The vector covers the ticket: whoever holds the vector has seen it. *)
EqualToOrAfter(vv, t) == vv[t[2]] >= t[1]

(* What all the holders of the given vectors have seen. *)
MinVersionVector(vectors) == [a \in Actors |-> Min({vv[a] : vv \in vectors})]

MaxVersionVector(vv, ww) == [a \in Actors |-> Max({vv[a], ww[a]})]

MaxLamport(vv) == Max({vv[a] : a \in Actors})

InitialVersionVector == [a \in Actors |-> 0]

(* The change ID of a document before its first change. *)
InitialID(actor) == [actor |-> actor, lamport |-> 0, vv |-> InitialVersionVector]

(* The ID that moves to the given lamport and records it as its own version. *)
Advance(id, lamport, vv) ==
    [id EXCEPT !.lamport = lamport, !.vv = [vv EXCEPT ![id.actor] = lamport]]

(* The ID of the next local change. *)
NextID(id) == Advance(id, id.lamport + 1, id.vv)

(* The clocks after a remote change is applied. *)
SyncClocks(id, other) ==
    Advance(id, Max({id.lamport, other.lamport}) + 1, MaxVersionVector(id.vv, other.vv))

(* The clocks after a snapshot is loaded. *)
SetClocks(id, lamport, vv) ==
    Advance(id, Max({id.lamport, lamport}) + 1, MaxVersionVector(id.vv, vv))

(* The ticket an operation of the change with this ID executes at. *)
TicketOf(id) == <<id.lamport, id.actor>>
=============================================================================

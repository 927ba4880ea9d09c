------------------------------- MODULE Tables -------------------------------
(***************************************************************************)
(* What the two storage backends (server/backend/database/memory and       *)
(* .../mongo) have in common: the rows they keep, the answers their calls  *)
(* give, and the queries over a table.                                     *)
(*                                                                         *)
(* A table is a sequence of rows in the order of their ids: ids are        *)
(* ObjectIDs, which grow with the time of creation, so a new row is        *)
(* appended.  A call answers [err, val]: an error name ("" when there is   *)
(* none) and the rows found, always as a sequence.                         *)
(***************************************************************************)
EXTENDS Naturals, Sequences, TLC

(* The id of the default project; every other id is larger. *)
ZeroID == 0

(* The role ranks: the smaller, the more privileged. *)
Rank == [owner |-> 1, admin |-> 2, member |-> 3]

(* A role at least as privileged as the one required; a role outside the   *)
(* hierarchy grants nothing and satisfies nothing.                         *)
IsAtLeast(r, required) ==
  r \in DOMAIN Rank /\ required \in DOMAIN Rank /\ Rank[r] <= Rank[required]

NewProjectInfo(id, name, owner, keys) ==
  [id |-> id, name |-> name, owner |-> owner, pub |-> keys, sec |-> keys,
   settings |-> 0, clients |-> 0, docs |-> 0]

(* Only the fields the caller sets are replaced. *)
UpdateFields(info, fields) ==
  [info EXCEPT !.name = IF "name" \in DOMAIN fields THEN fields.name ELSE @,
               !.settings = IF "settings" \in DOMAIN fields THEN fields.settings ELSE @]

NewUserInfo(id, username, password) ==
  [id |-> id, username |-> username, password |-> password, provider |-> ""]

NewMemberInfo(id, project, user, by, role) ==
  [id |-> id, project |-> project, user |-> user, by |-> by, role |-> role]

NewInviteInfo(id, project, token, role, by, expires) ==
  [id |-> id, project |-> project, token |-> token, role |-> role, by |-> by,
   expires |-> expires]

NewClientInfo(id, project, key) ==
  [id |-> id, project |-> project, key |-> key, status |-> "activated",
   documents |-> <<>>]

NewDocInfo(id, project, key, owner, noPresence) ==
  [id |-> id, project |-> project, key |-> key, owner |-> owner, serverSeq |-> 0,
   epoch |-> 0, removed |-> FALSE, schema |-> "", noPresence |-> noPresence]

NewClientDocInfo(status, serverSeq, clientSeq, epoch) ==
  [status |-> status, serverSeq |-> serverSeq, clientSeq |-> clientSeq, epoch |-> epoch]

(* The status of a document in a client row; "" when it was never attached. *)
DocStatus(info, doc) ==
  IF doc \in DOMAIN info.documents THEN info.documents[doc].status ELSE ""

(* A change with no operation and a presence. *)
PresenceOnly(c) == ~c.ops /\ c.presence # "none"

HasOperations(c) == c.ops

(***************************************************************************)
(* Answers and queries.                                                    *)
(***************************************************************************)
Answer(val) == [err |-> "", val |-> val]

Failure(err) == [err |-> err, val |-> <<>>]

(* The first of the rows found, or the error of an empty result. *)
FirstOf(rows, err) == IF rows = <<>> THEN Failure(err) ELSE Answer(<<Head(rows)>>)

(* A call that changes nothing, and one that leaves the store as s. *)
Done(s, r) == [s |-> s, r |-> r]

Exists(t, P(_)) == \E i \in DOMAIN t : P(t[i])

(* The table with every row that satisfies P replaced by F(row). *)
Updated(t, P(_), F(_)) == [i \in DOMAIN t |-> IF P(t[i]) THEN F(t[i]) ELSE t[i]]

Without(t, P(_)) == SelectSeq(t, LAMBDA row : ~P(row))

Limit(rows, n) == IF n = 0 \/ Len(rows) <= n THEN rows ELSE SubSeq(rows, 1, n)

Skip(rows, n) == IF n >= Len(rows) THEN <<>> ELSE SubSeq(rows, n + 1, Len(rows))

Backwards(rows) == [i \in 1 .. Len(rows) |-> rows[Len(rows) + 1 - i]]

(* The minimum of version vectors over the actors any of them knows: an    *)
(* actor absent from one of them counts as 0 there.                        *)
MinVersionVector(vvs) ==
  LET At(v, a) == IF a \in DOMAIN v THEN v[a] ELSE 0
  IN  [a \in UNION {DOMAIN v : v \in vvs} |->
         CHOOSE n \in {At(v, a) : v \in vvs} : \A v \in vvs : n <= At(v, a)]
=============================================================================

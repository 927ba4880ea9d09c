----------------------------- MODULE Databases -----------------------------
(***************************************************************************)
(* The two storage backends side by side: every call of database.Database  *)
(* is made on both, and what they answer and hold is compared.  The        *)
(* in-memory backend has no cache and one transaction per call: it says    *)
(* what a call means, and the MongoDB backend, whose answers come from     *)
(* caches where it can, has to mean the same.                              *)
(*                                                                         *)
(* area picks the tables a behaviour works on, so that each gets enough    *)
(* calls; the other tables of database.Database are not touched by it.     *)
(***************************************************************************)
EXTENDS Tables, FiniteSetsExt

CONSTANTS
  Areas,                \* the groups of tables explored
  MaxCalls,             \* how many calls a behaviour makes in each of them
  SameVectorOnDetach    \* whether a client may detach with the vector it sent before

ASSUME CallsAssumption == MaxCalls \in [Areas -> Nat] /\ SameVectorOnDetach \in BOOLEAN

M == INSTANCE DatabaseMemory
G == INSTANCE DatabaseMongo

VARIABLES
  area,     \* the tables of this behaviour
  mem,      \* the in-memory store
  mongo,    \* the MongoDB collections and the caches of one server
  agree,    \* whether the last call was answered alike
  calls     \* how many calls were made

vars == <<area, mem, mongo, agree, calls>>

(***************************************************************************)
(* How rows and answers are compared.  The epoch of an entry counts while  *)
(* the document is attached; the statistics of a project are read past the *)
(* cache (GetProjectStatsCounts); the schema of a document is read by key. *)
(***************************************************************************)
EntryView(e) == IF e.status = "attached" THEN e ELSE [e EXCEPT !.epoch = 0]

ClientView(c) == [id |-> c.id, project |-> c.project, key |-> c.key, status |-> c.status,
                  documents |-> [d \in DOMAIN c.documents |-> EntryView(c.documents[d])]]

ProjectView(p) == [p EXCEPT !.clients = 0, !.docs = 0]

DocView(d) == [d EXCEPT !.schema = ""]

View(row) ==
  IF "documents" \in DOMAIN row THEN ClientView(row)
  ELSE IF "sec" \in DOMAIN row THEN ProjectView(row)
  ELSE IF "serverSeq" \in DOMAIN row /\ "schema" \in DOMAIN row THEN DocView(row) ELSE row

Views(rows) == [i \in DOMAIN rows |-> View(rows[i])]

SameAnswer(m, g) == m.err = g.err /\ Views(m.val) = Views(g.val)

Both(m, g, ok) ==
  /\ calls < MaxCalls[area]
  /\ mem' = m.s /\ mongo' = g.s
  /\ agree' = ok
  /\ calls' = calls + 1
  /\ UNCHANGED area

(* A call that writes, and one that only reads the rows but fills a cache. *)
Call(m, g) == Both(m, g, SameAnswer(m.r, g.r))
Read(m, g) == Both(Done(mem, m), g, SameAnswer(m, g.r))

(* A cache drops an entry: the LRU is full or its time to live is over. *)
Evict(g) == /\ g # mongo
            /\ calls < MaxCalls[area]
            /\ mongo' = g
            /\ calls' = calls + 1
            /\ UNCHANGED <<area, mem, agree>>

(***************************************************************************)
(* Accounts: users, projects, members and invites.                         *)
(***************************************************************************)
Users == {"a", "b"}
Ids == {0, 1, 2, 3}
Roles == {"admin", "member"}

FreshKey == 100 + calls

Keys == {mongo.projects[i].pub : i \in DOMAIN mongo.projects} \cup DOMAIN mongo.apiKeyToID

Projects ==
  \/ \E name \in {"p", "q"} : Call(M!CreateProjectInfo(mem, name, 1), G!CreateProjectInfo(mongo, name, 1))
  \/ \E id \in Ids, name \in {"p", "q"} :
       Call(M!UpdateProjectInfo(mem, id, [name |-> name]), G!UpdateProjectInfo(mongo, id, [name |-> name]))
  \/ \E id \in Ids :
       \/ Call(M!UpdateProjectInfo(mem, id, [settings |-> calls]),
               G!UpdateProjectInfo(mongo, id, [settings |-> calls]))
       \/ Call(M!RotateProjectKeys(mem, id, FreshKey, FreshKey),
               G!RotateProjectKeys(mongo, id, FreshKey, FreshKey))
       \/ Call(M!UpdateProjectStats(mem, id, calls, calls), G!UpdateProjectStats(mongo, id, calls, calls))
       \/ Read(M!FindProjectInfoByID(mem, id), G!FindProjectInfoByID(mongo, id))
       \/ Evict(G!InvalidateCache(mongo, "project", id))
  \/ \E key \in Keys :
       \/ Read(M!FindProjectInfoByPublicKey(mem, key), G!FindProjectInfoByPublicKey(mongo, key))
       \/ Read(M!FindProjectInfoBySecretKey(mem, key), G!FindProjectInfoBySecretKey(mongo, key))
  \/ Call(M!EnsureDefaultUserAndProject(mem, "a", 0), G!EnsureDefaultUserAndProject(mongo, "a", 0))

(* A stored password is a salted hash: a new one is never the old one. *)
Accounts ==
  \/ \E u \in Users :
       \/ Call(M!CreateUserInfo(mem, u, 1), G!CreateUserInfo(mongo, u, 1))
       \/ Call(M!GetOrCreateUserInfoByGitHubID(mem, u), G!GetOrCreateUserInfoByGitHubID(mongo, u))
       \/ Call(M!DeleteUserInfoByName(mem, u), G!DeleteUserInfoByName(mongo, u))
       \/ Call(M!ChangeUserPassword(mem, u, FreshKey), G!ChangeUserPassword(mongo, u, FreshKey))
  \/ \E user \in {1, 2} :
       \/ \E role \in Roles :
            \/ Call(M!UpsertMemberInfo(mem, 0, user, 1, role), G!UpsertMemberInfo(mongo, 0, user, 1, role))
            \/ Call(M!UpdateMemberRole(mem, 0, user, role), G!UpdateMemberRole(mongo, 0, user, role))
       \/ Call(M!DeleteMemberInfo(mem, 0, user), G!DeleteMemberInfo(mongo, 0, user))
  \/ \E expires \in {0, 1} :
       Call(M!CreateInviteInfo(mem, 0, "t", "member", 1, expires),
            G!CreateInviteInfo(mongo, 0, "t", "member", 1, expires))
  \/ \E m \in {M!DeleteExpiredInviteInfos(mem, 1)}, g \in {G!DeleteExpiredInviteInfos(mongo, 1)} :
       Both(m, g, m.r = g.r)

(***************************************************************************)
(* Clients and the documents attached to them.  A push-pull works on a     *)
(* copy of the client row: the one each backend hands out.                 *)
(***************************************************************************)
ClientIds == {mem.clients[i].id : i \in DOMAIN mem.clients}
DocIds == {mem.docs[i].id : i \in DOMAIN mem.docs}

MemClient(c) == M!FindClientInfoByRefKey(mem, 0, c).val[1]
MongoClient(c) == G!FindClientInfoByRefKey(mongo, 0, c, FALSE)

WithEntry(info, doc, entry) == [info EXCEPT !.documents = (doc :> entry) @@ @]

(* The entry after an attach, a push-pull, a detach or a removal. *)
Entries(info, doc) ==
  LET old == info.documents[doc]
      epoch == IF old.status = "attached" THEN old.epoch ELSE 1
  IN  IF DocStatus(info, doc) \in {"attaching", "attached"}
      THEN {NewClientDocInfo("attached", seq, cseq, epoch) : seq \in {0, 1}, cseq \in {0, 1}}
           \cup {NewClientDocInfo("detached", 0, 0, old.epoch), NewClientDocInfo("removed", 0, 0, old.epoch)}
      ELSE {}

AfterPushPull(c, d) ==
  \E e \in Entries(MemClient(c), d) :
    Call(M!UpdateClientInfoAfterPushPull(mem, WithEntry(MemClient(c), d, e), d),
         G!UpdateClientInfoAfterPushPull(MongoClient(c).s, WithEntry(MongoClient(c).r.val[1], d, e), d))

Clients ==
  \/ \E key \in {"k"} : Call(M!ActivateClient(mem, 0, key), G!ActivateClient(mongo, 0, key))
  \/ \E c \in ClientIds :
       \/ \E d \in DocIds : Call(M!TryAttaching(mem, 0, c, d), G!TryAttaching(mongo, 0, c, d))
       \/ \E d \in DocIds \cap DOMAIN MemClient(c).documents : AfterPushPull(c, d)
       \/ Call(M!DeactivateClient(mem, 0, c), G!DeactivateClient(mongo, 0, c))
       \/ Read(M!FindClientInfoByRefKey(mem, 0, c), G!FindClientInfoByRefKey(mongo, 0, c, FALSE))
       \/ Evict(G!InvalidateCache(mongo, "client", <<0, c>>))

(***************************************************************************)
(* Documents, their schemas and revisions.  A document is purged after it  *)
(* was removed, and no call names it afterwards.                           *)
(***************************************************************************)
Documents ==
  \/ \E key \in {1, 2}, noPresence \in BOOLEAN :
       Call(M!FindOrCreateDocInfo(mem, 0, 1, key, noPresence),
            G!FindOrCreateDocInfo(mongo, 0, 1, key, noPresence))
  \/ \E d \in DocIds :
       \/ Call(M!UpdateDocInfoStatusToRemoved(mem, 0, d), G!UpdateDocInfoStatusToRemoved(mongo, 0, d))
       \/ Call(M!UpdateDocInfoSchema(mem, 0, d, "s@1"), G!UpdateDocInfoSchema(mongo, 0, d, "s@1"))
       \/ Read(M!FindDocInfoByRefKey(mem, 0, d), G!FindDocInfoByRefKey(mongo, 0, d))
       \/ Evict(G!Remove(mongo, "docCache", <<0, d>>))
       \/ /\ M!FindDocInfoByRefKey(mem, 0, d).val[1].removed
          /\ Call(M!PurgeDocument(mem, 0, d), G!PurgeDocument(mongo, 0, d))
       \/ Call(M!CreateRevisionInfo(mem, 0, d, "v", 1), G!CreateRevisionInfo(mongo, 0, d, "v", 1))
  \/ \E version \in {1, 2} :
       \/ Call(M!CreateSchemaInfo(mem, 0, "s", version), G!CreateSchemaInfo(mongo, 0, "s", version))
       \/ Call(M!RemoveSchemaInfo(mem, 0, "s", version), G!RemoveSchemaInfo(mongo, 0, "s", version))
  \/ \E id \in 1 .. mem.next - 1 : Call(M!DeleteRevisionInfo(mem, id), G!DeleteRevisionInfo(mongo, id))

(***************************************************************************)
(* The history of one document: changes, compaction, snapshots and the     *)
(* version vectors of its clients.                                         *)
(***************************************************************************)
Doc == 1
Actors == {1, 2}

Change(actor, ops, presence) ==
  [clientSeq |-> calls + 1, actor |-> actor, ops |-> ops, presence |-> presence]

(* What a client pushes: an operation, a presence, or one after the other. *)
Pushes == {<<Change(1, TRUE, "none")>>, <<Change(2, FALSE, "put")>>,
           <<Change(1, FALSE, "put"), Change(1, TRUE, "put")>>, <<>>}

LastSeq == M!FindDocInfoByRefKey(mem, 0, Doc).val[1].serverSeq

Snapshot == [seq |-> LastSeq, content |-> calls + 1, large |-> calls % 2 = 0, vv |-> (1 :> calls)]

Attached(client, status) ==
  [id |-> client, project |-> 0, documents |-> (Doc :> NewClientDocInfo(status, 0, 0, 0))]

VectorOf(client) ==
  LET rows == SelectSeq(mem.vectors, LAMBDA r : r.client = client)
  IN  IF rows = <<>> THEN <<>> ELSE Head(rows).vv

(* Presence-only changes are kept in the cache alone: once it drops them   *)
(* the in-memory store has to forget them too.                             *)
ForgetPresence ==
  /\ calls < MaxCalls[area]
  /\ G!Cached(mongo, "presenceCache", Doc)
  /\ mongo' = G!Remove(mongo, "presenceCache", Doc)
  /\ mem' = [mem EXCEPT !.changes = Without(@, PresenceOnly)]
  /\ calls' = calls + 1
  /\ UNCHANGED <<area, agree>>

History ==
  \/ \E changes \in Pushes, isRemoved \in BOOLEAN :
       LET cp == [serverSeq |-> 0, clientSeq |-> 0]
       IN  Call(M!CreateChangeInfos(mem, 0, Doc, cp, changes, isRemoved),
                G!CreateChangeInfos(mongo, 0, Doc, cp, changes, isRemoved))
  \/ \E changes \in {<<>>, <<Change(0, TRUE, "none")>>}, last \in {LastSeq, LastSeq + 1} :
       Call(M!CompactChangeInfos(mem, 0, Doc, last, changes),
            G!CompactChangeInfos(mongo, 0, Doc, last, changes))
  \/ \E from \in 1 .. LastSeq, to \in 1 .. LastSeq :
       Read(M!FindChangeInfosBetweenServerSeqs(mem, Doc, from, to),
            G!FindChangeInfosBetweenServerSeqs(mongo, Doc, from, to))
  \/ /\ M!FindSnapshotInfo(mem, Doc, LastSeq).err # ""
     /\ Call(M!CreateSnapshotInfo(mem, Doc, Snapshot), G!CreateSnapshotInfo(mongo, Doc, Snapshot))
  \/ \E c \in Actors, status \in {"attached", "detached"}, n \in {1, 2} :
       LET vv == (c :> n)
           m == M!UpdateMinVersionVector(mem, Attached(c, status), Doc, vv)
           g == G!UpdateMinVersionVector(mongo, Attached(c, status), Doc, vv)
       IN  /\ SameVectorOnDetach \/ status = "attached" \/ VectorOf(c) # vv
           /\ Both(m, g, m.r = g.r)
  \/ Evict(G!Remove(mongo, "changeCache", Doc))
  \/ Evict(G!Remove(mongo, "vectorCache", Doc))
  \/ Evict(G!Remove(mongo, "docCache", <<0, Doc>>))
  \/ ForgetPresence

(***************************************************************************)
(* The state machine.  Each area starts with the rows its calls work on.   *)
(***************************************************************************)
StartOf(a, s, user, client, doc) ==
  CASE a \in {"projects", "accounts"} -> user
    [] a = "clients" -> doc
    [] a = "documents" -> s
    [] a = "history" -> doc

Init ==
  /\ area \in Areas
  /\ mem = LET doc == M!FindOrCreateDocInfo(M!EmptyStore, 0, 1, 1, FALSE).s
           IN  StartOf(area, M!EmptyStore, M!EnsureDefaultUserAndProject(M!EmptyStore, "a", 0).s,
                       M!EmptyStore, doc)
  /\ mongo = LET doc == G!FindOrCreateDocInfo(G!EmptyStore, 0, 1, 1, FALSE).s
             IN  StartOf(area, G!EmptyStore, G!EnsureDefaultUserAndProject(G!EmptyStore, "a", 0).s,
                         G!EmptyStore, doc)
  /\ agree = TRUE
  /\ calls = 0

Next ==
  \/ area = "projects" /\ Projects
  \/ area = "accounts" /\ Accounts
  \/ area = "clients" /\ Clients
  \/ area = "documents" /\ Documents
  \/ area = "history" /\ History

Spec == Init /\ [][Next]_vars

(***************************************************************************)
(* Properties.                                                             *)
(***************************************************************************)
(* Every call, the reads served from a cache included, is answered by the  *)
(* MongoDB backend as by the in-memory one, error or rows                  *)
(* (testcases.go runs both backends through the same cases).               *)
CallsAgree == agree

Rows(t) == {View(t[i]) : i \in DOMAIN t}

(* The collections hold the rows of the tables: whatever a cache let a     *)
(* call skip, nothing of what the in-memory backend stores is missing.     *)
SameRows ==
  /\ \A t \in {"projects", "users", "members", "invites", "clients", "docs", "schemas",
               "revisions", "snapshots", "bodies", "vectors"} : Rows(mem[t]) = Rows(mongo[t])
  /\ {r \in Rows(mem.changes) : ~PresenceOnly(r)} = Rows(mongo.changes)

(* What is cached is what is stored: a client, a project and a document    *)
(* row, the vectors of a document, the keys that lead to a project.        *)
CachesCurrent ==
  /\ \A k \in DOMAIN mongo.clientCache : mongo.clientCache[k] \in {mongo.clients[i] : i \in DOMAIN mongo.clients}
  /\ \A id \in DOMAIN mongo.projectCache : View(mongo.projectCache[id]) \in Rows(mongo.projects)
  /\ \A k \in DOMAIN mongo.apiKeyToID :
       /\ mongo.apiKeyToID[k] \in DOMAIN mongo.projectCache
       /\ mongo.projectCache[mongo.apiKeyToID[k]].pub = k
  /\ \A k \in DOMAIN mongo.docCache :
       k[2] \in DocIds => View(mongo.docCache[k]) \in Rows(mongo.docs)
  /\ \A d \in DOMAIN mongo.vectorCache :
       {[doc |-> d, client |-> c, vv |-> mongo.vectorCache[d][c]] : c \in DOMAIN mongo.vectorCache[d]}
         = Rows(mongo.vectors)

(* The lists the queries use name exactly the documents whose status says  *)
(* so (FindAttachedClientInfosByRefKey, IsDocumentAttachedOrAttaching).    *)
AttachedDocsMatch ==
  \A i \in DOMAIN mongo.clients :
    LET c == mongo.clients[i]
        With(status) == {d \in DOMAIN c.documents : DocStatus(c, d) = status}
    IN  c.attached = With("attached") /\ c.attaching = With("attaching")

Found(rows) == Rows(rows.val)

(* A document no client holds, and a store without its presences. *)
Free(d) == ~M!IsDocumentAttachedOrAttaching(mem, d.project, d.id, 0)
Operations(s) == [s EXCEPT !.changes = SelectSeq(@, HasOperations)]

(* The calls that read the collections give what the in-memory backend     *)
(* gives, pages, cursors and counts included.  Where the two differ the    *)
(* common part is compared: documents by id and compaction candidates take *)
(* removed or held documents in, a page of active clients ends at another  *)
(* cursor, and a presence is no row of the changes collection.             *)
ReadsAgree ==
  /\ area \in {"projects", "accounts"} =>
       /\ \A n \in {"p", "q", "default"} :
            SameAnswer(M!FindProjectInfoByName(mem, n), G!FindProjectInfoByName(mongo, n))
       /\ SameAnswer(M!ListUserInfos(mem), G!ListUserInfos(mongo))
       /\ \A id \in Ids :
            /\ SameAnswer(M!ListProjectInfos(mem, id), G!ListProjectInfos(mongo, id))
            /\ M!GetProjectStatsCounts(mem, id) = G!GetProjectStatsCounts(mongo, id)
            /\ \A n \in {1, 2} : M!FindProjectInfosForRefresh(mem, n, id)
                                   = G!FindProjectInfosForRefresh(mongo, n, id)
            /\ SameAnswer(M!ListMemberInfos(mem, id), G!ListMemberInfos(mongo, id))
            /\ SameAnswer(M!FindUserInfoByID(mem, id), G!FindUserInfoByID(mongo, id))
            /\ Found(M!ListProjectInfosByMember(mem, id)) = Found(G!ListProjectInfosByMember(mongo, id))
  /\ area = "clients" =>
       /\ M!CountActivatedClients(mem, 0) = G!CountActivatedClients(mongo, 0)
       /\ \A n \in {1, 2}, last \in 0 .. 3 : Views(M!FindActiveClients(mem, n, last).val[1])
                                               = Views(G!FindActiveClients(mongo, n, last).val[1])
       /\ SelectSeq(G!FindCompactionCandidates(mongo, 2, 0, 0, 0).val[1], Free)
            = M!FindCompactionCandidates(mem, 2, 0, 0, 0).val[1]
       /\ \A d \in {1, 2} :
            /\ SameAnswer(M!FindAttachedClientInfosByRefKey(mem, 0, d),
                          G!FindAttachedClientInfosByRefKey(mongo, 0, d))
            /\ M!FindAttachedClientCountsByDocIDs(mem, 0, {d}) = G!FindAttachedClientCountsByDocIDs(mongo, 0, {d})
            /\ \A c \in {0, 1, 2, 3} : M!IsDocumentAttachedOrAttaching(mem, 0, d, c)
                                         = G!IsDocumentAttachedOrAttaching(mongo, 0, d, c)
  /\ area = "documents" =>
       /\ M!CountAliveDocuments(mem, 0) = G!CountAliveDocuments(mongo, 0)
       /\ M!ListSchemaInfos(mem, 0) = G!ListSchemaInfos(mongo, 0)
       /\ SameAnswer(M!GetSchemaInfos(mem, 0, "s"), G!GetSchemaInfos(mongo, 0, "s"))
       /\ M!IsSchemaAttached(mem, 0, "s@1") = G!IsSchemaAttached(mongo, 0, "s@1")
       /\ SameAnswer(M!FindDocInfosByKeys(mem, 0, {1, 2}), G!FindDocInfosByKeys(mongo, 0, {1, 2}))
       /\ Views(M!FindDocInfosByIDs(mem, 0, {1, 2}).val)
            = Views(SelectSeq(G!FindDocInfosByIDs(mongo, 0, {1, 2}).val, LAMBDA d : ~d.removed))
       /\ \A n \in {1, 2} :
            /\ SameAnswer(M!FindDocInfoByKey(mem, 0, n), G!FindDocInfoByKey(mongo, 0, n))
            /\ Views(M!FindDocInfosByQuery(mem, 0, {1, 2}, n).docs)
                 = Views(G!FindDocInfosByQuery(mongo, 0, {1, 2}, n).docs)
            /\ \A offset \in 0 .. 2, forward \in BOOLEAN :
                 /\ SameAnswer(M!FindDocInfosByPaging(mem, 0, offset, n, forward),
                               G!FindDocInfosByPaging(mongo, 0, offset, n, forward))
                 /\ SameAnswer(M!FindRevisionInfosByPaging(mem, 0, 1, offset, n, forward, TRUE),
                               G!FindRevisionInfosByPaging(mongo, 0, 1, offset, n, forward, TRUE))
  /\ area = "history" =>
       /\ M!HasVersionVectorRow(mem, Doc) = G!HasVersionVectorRow(mongo, Doc)
       /\ \A seq \in 0 .. LastSeq, actor \in Actors :
            LET row == M!FindLatestChangeInfoByActor(Operations(mem), Doc, actor, seq)
            IN  row.err = "" => row = G!FindLatestChangeInfoByActor(mongo, Doc, actor, seq)
       /\ \A seq \in 0 .. LastSeq, full \in BOOLEAN :
            M!FindClosestSnapshotInfo(mem, Doc, seq, full) = G!FindClosestSnapshotInfo(mongo, Doc, seq, full)

(* The version vectors stored are the ones of attached clients: "the row   *)
(* was deleted, so min-VV does not hold un-synced tombstones alive and GC  *)
(* can advance" (database/testcases/testcases.go).                         *)
DetachedVectorsGone == Rows(mongo.vectors) = Rows(mem.vectors)
=============================================================================

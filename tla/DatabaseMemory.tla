--------------------------- MODULE DatabaseMemory ---------------------------
(***************************************************************************)
(* The in-memory backend (server/backend/database/memory/database.go): one *)
(* operator per call of database.Database.  Every call is one transaction, *)
(* so it is a function of the store s: a read gives its answer, a write    *)
(* gives the store it leaves and its answer.                               *)
(***************************************************************************)
EXTENDS Tables, FiniteSetsExt

(* The empty store; next is the id the next row gets (newID). *)
EmptyStore ==
  [projects |-> <<>>, users |-> <<>>, members |-> <<>>, invites |-> <<>>,
   clients |-> <<>>, docs |-> <<>>, schemas |-> <<>>, revisions |-> <<>>,
   changes |-> <<>>, snapshots |-> <<>>, bodies |-> <<>>, vectors |-> <<>>,
   next |-> 1]

(* A new row, at the id the store hands out. *)
Insert(s, table, row) == [s EXCEPT ![table] = Append(@, row), !.next = @ + 1]

ByID(t, id) == SelectSeq(t, LAMBDA row : row.id = id)

(***************************************************************************)
(* Projects.                                                               *)
(***************************************************************************)
FindProjectInfoByPublicKey(s, key) ==
  FirstOf(SelectSeq(s.projects, LAMBDA p : p.pub = key), "ErrProjectNotFound")

FindProjectInfoBySecretKey(s, key) ==
  FirstOf(SelectSeq(s.projects, LAMBDA p : p.sec = key), "ErrProjectNotFound")

FindProjectInfoByName(s, name) ==
  FirstOf(SelectSeq(s.projects, LAMBDA p : p.name = name), "ErrProjectNotFound")

FindProjectInfoByID(s, id) == FirstOf(ByID(s.projects, id), "ErrProjectNotFound")

(* Creates the user unless the name is taken. *)
EnsureDefaultUserInfo(s, username, password) ==
  LET found == SelectSeq(s.users, LAMBDA u : u.username = username)
      info == NewUserInfo(s.next, username, password)
  IN  IF found # <<>> THEN Done(s, Answer(<<Head(found)>>))
                      ELSE Done(Insert(s, "users", info), Answer(<<info>>))

(* Creates the project of id ZeroID unless it exists: its row sorts first. *)
EnsureDefaultProjectInfo(s, owner) ==
  LET found == ByID(s.projects, ZeroID)
      info == NewProjectInfo(ZeroID, "default", owner, s.next)
  IN  IF found # <<>> THEN Done(s, Answer(<<Head(found)>>))
      ELSE Done([s EXCEPT !.projects = <<info>> \o @, !.next = @ + 1], Answer(<<info>>))

EnsureDefaultUserAndProject(s, username, password) ==
  LET user == EnsureDefaultUserInfo(s, username, password)
  IN  EnsureDefaultProjectInfo(user.s, user.r.val[1].id)

CreateProjectInfo(s, name, owner) ==
  LET info == NewProjectInfo(s.next, name, owner, s.next)
  IN  IF Exists(s.projects, LAMBDA p : p.name = name)
      THEN Done(s, Failure("ErrProjectAlreadyExists"))
      ELSE Done(Insert(s, "projects", info), Answer(<<info>>))

ListProjectInfos(s, owner) == Answer(SelectSeq(s.projects, LAMBDA p : p.owner = owner))

(* A new name must be free, unless it is the project's own. *)
UpdateProjectInfo(s, id, fields) ==
  LET found == ByID(s.projects, id)
      info == UpdateFields(Head(found), fields)
      taken == /\ "name" \in DOMAIN fields
               /\ Exists(s.projects, LAMBDA p : p.name = fields.name)
               /\ Head(found).name # fields.name
  IN  IF found = <<>> THEN Done(s, Failure("ErrProjectNotFound"))
      ELSE IF taken THEN Done(s, Failure("ErrProjectAlreadyExists"))
      ELSE Done([s EXCEPT !.projects = Updated(@, LAMBDA p : p.id = id, LAMBDA p : info)],
                Answer(<<info>>))

(* Answers the row with the new keys and the row before. *)
RotateProjectKeys(s, id, pub, sec) ==
  LET found == ByID(s.projects, id)
      info == [Head(found) EXCEPT !.pub = pub, !.sec = sec]
  IN  IF found = <<>> THEN Done(s, Failure("ErrProjectNotFound"))
      ELSE Done([s EXCEPT !.projects = Updated(@, LAMBDA p : p.id = id, LAMBDA p : info)],
                Answer(<<info, Head(found)>>))

(* The counts cached on the project row; zeros when there is no row. *)
GetProjectStatsCounts(s, project) ==
  LET found == ByID(s.projects, project)
  IN  IF found = <<>> THEN Answer(<<0, 0>>)
                      ELSE Answer(<<Head(found).clients, Head(found).docs>>)

UpdateProjectStats(s, project, clients, docs) ==
  IF ByID(s.projects, project) = <<>> THEN Done(s, Failure("ErrProjectNotFound"))
  ELSE Done([s EXCEPT !.projects = Updated(@, LAMBDA p : p.id = project,
                LAMBDA p : [p EXCEPT !.clients = clients, !.docs = docs])], Answer(<<>>))

(* A page of projects after the cursor.  The first page starts at ZeroID   *)
(* and includes it; the cursor of an empty page is ZeroID again.           *)
FindProjectInfosForRefresh(s, limit, lastID) ==
  LET rows == Limit(SelectSeq(s.projects, LAMBDA p :
                 p.id >= lastID /\ ~(lastID # ZeroID /\ p.id = lastID)), limit)
  IN  Answer(<<rows, IF rows = <<>> THEN ZeroID ELSE rows[Len(rows)].id>>)

(***************************************************************************)
(* Users, members and invites.                                             *)
(***************************************************************************)
CreateUserInfo(s, username, password) ==
  LET info == NewUserInfo(s.next, username, password)
  IN  IF Exists(s.users, LAMBDA u : u.username = username)
      THEN Done(s, Failure("ErrUserAlreadyExists"))
      ELSE Done(Insert(s, "users", info), Answer(<<info>>))

(* A user signing in through GitHub is created at the first sign-in. *)
GetOrCreateUserInfoByGitHubID(s, githubID) ==
  LET found == SelectSeq(s.users, LAMBDA u : u.username = githubID)
      info == [NewUserInfo(s.next, githubID, 0) EXCEPT !.provider = "github"]
  IN  IF found # <<>> THEN Done(s, Answer(<<Head(found)>>))
                      ELSE Done(Insert(s, "users", info), Answer(<<info>>))

(* Only the user's row goes: projects and memberships keep the id. *)
DeleteUserInfoByName(s, username) ==
  IF ~Exists(s.users, LAMBDA u : u.username = username)
  THEN Done(s, Failure("ErrUserNotFound"))
  ELSE Done([s EXCEPT !.users = Without(@, LAMBDA u : u.username = username)], Answer(<<>>))

ChangeUserPassword(s, username, password) ==
  IF ~Exists(s.users, LAMBDA u : u.username = username)
  THEN Done(s, Failure("ErrUserNotFound"))
  ELSE Done([s EXCEPT !.users = Updated(@, LAMBDA u : u.username = username,
                LAMBDA u : [u EXCEPT !.password = password])], Answer(<<>>))

FindUserInfoByID(s, id) == FirstOf(ByID(s.users, id), "ErrUserNotFound")

FindUserInfoByName(s, username) ==
  FirstOf(SelectSeq(s.users, LAMBDA u : u.username = username), "ErrUserNotFound")

ListUserInfos(s) == Answer(s.users)

IsMember(m, project, user) == m.project = project /\ m.user = user

(* An existing member is returned as it is: its role does not change. *)
UpsertMemberInfo(s, project, user, by, role) ==
  LET found == SelectSeq(s.members, LAMBDA m : IsMember(m, project, user))
      info == NewMemberInfo(s.next, project, user, by, role)
  IN  IF found # <<>> THEN Done(s, Answer(<<Head(found)>>))
                      ELSE Done(Insert(s, "members", info), Answer(<<info>>))

ListMemberInfos(s, project) == Answer(SelectSeq(s.members, LAMBDA m : m.project = project))

FindMemberInfo(s, project, user) ==
  FirstOf(SelectSeq(s.members, LAMBDA m : IsMember(m, project, user)), "ErrMemberNotFound")

UpdateMemberRole(s, project, user, role) ==
  LET t == Updated(s.members, LAMBDA m : IsMember(m, project, user),
                   LAMBDA m : [m EXCEPT !.role = role])
  IN  IF FindMemberInfo(s, project, user).err # ""
      THEN Done(s, Failure("ErrMemberNotFound"))
      ELSE Done([s EXCEPT !.members = t],
                FindMemberInfo([s EXCEPT !.members = t], project, user))

DeleteMemberInfo(s, project, user) ==
  IF FindMemberInfo(s, project, user).err # "" THEN Done(s, Failure("ErrMemberNotFound"))
  ELSE Done([s EXCEPT !.members = Without(@, LAMBDA m : IsMember(m, project, user))],
            Answer(<<>>))

(* The projects of a user's memberships, skipping those without a row. *)
ListProjectInfosByMember(s, user) ==
  LET ms == SelectSeq(s.members, LAMBDA m : m.user = user /\ ByID(s.projects, m.project) # <<>>)
  IN  Answer([i \in DOMAIN ms |-> Head(ByID(s.projects, ms[i].project))])

(* expires = 0 stands for an invite that never expires. *)
CreateInviteInfo(s, project, token, role, by, expires) ==
  LET info == NewInviteInfo(s.next, project, token, role, by, expires)
  IN  IF Exists(s.invites, LAMBDA i : i.token = token)
      THEN Done(s, Failure("ErrInviteAlreadyExists"))
      ELSE Done(Insert(s, "invites", info), Answer(<<info>>))

FindInviteInfoByToken(s, token) ==
  FirstOf(SelectSeq(s.invites, LAMBDA i : i.token = token), "ErrInviteNotFound")

DeleteExpiredInviteInfos(s, now) ==
  LET Expired(i) == i.expires # 0 /\ i.expires <= now
  IN  Done([s EXCEPT !.invites = Without(@, Expired)],
           Answer(<<Len(SelectSeq(s.invites, Expired))>>))

(***************************************************************************)
(* Clients.  A client row holds, per document, the status of the document  *)
(* in the client and the checkpoint the server knows.                      *)
(***************************************************************************)
ActivateClient(s, project, key) ==
  LET info == NewClientInfo(s.next, project, key)
  IN  Done(Insert(s, "clients", info), Answer(<<info>>))

InProject(t, project, id) == SelectSeq(t, LAMBDA row : row.id = id /\ row.project = project)

ReplaceClient(s, info) ==
  [s EXCEPT !.clients = Updated(@, LAMBDA c : c.id = info.id, LAMBDA c : info)]

(* Marks the document attaching, with its checkpoint reset, so that the    *)
(* client cannot be deactivated while the attach runs.                     *)
TryAttaching(s, project, client, doc) ==
  LET found == InProject(s.clients, project, client)
      old == Head(found)
      epoch == IF doc \in DOMAIN old.documents THEN old.documents[doc].epoch ELSE 0
      info == [old EXCEPT !.documents =
                 (doc :> NewClientDocInfo("attaching", 0, 0, epoch)) @@ @]
  IN  IF found = <<>> \/ old.status # "activated" THEN Done(s, Failure("ErrClientNotFound"))
      ELSE IF DocStatus(old, doc) = "attached"
           THEN Done(s, Failure("ErrDocumentAlreadyAttached"))
      ELSE Done(ReplaceClient(s, info), Answer(<<info>>))

(* Refused while a document is attaching or attached. *)
DeactivateClient(s, project, client) ==
  LET found == InProject(s.clients, project, client)
      info == [Head(found) EXCEPT !.status = "deactivated"]
  IN  IF \/ found = <<>>
         \/ Head(found).status = "deactivated"
         \/ \E d \in DOMAIN Head(found).documents :
              DocStatus(Head(found), d) \in {"attaching", "attached"}
      THEN Done(s, Failure("ErrClientNotFound"))
      ELSE Done(ReplaceClient(s, info), Answer(<<info>>))

FindClientInfoByRefKey(s, project, client) ==
  FirstOf(InProject(s.clients, project, client), "ErrClientNotFound")

(* Stores what a push-pull did to info's entry for doc.  The checkpoint of *)
(* an attached document only grows; an entry that is no longer attached    *)
(* keeps its status alone.                                                 *)
UpdateClientInfoAfterPushPull(s, info, doc) ==
  LET found == ByID(s.clients, info.id)
      new == info.documents[doc]
      old == IF doc \in DOMAIN Head(found).documents
             THEN Head(found).documents[doc] ELSE NewClientDocInfo("", 0, 0, 0)
      Larger(a, b) == IF a < b THEN b ELSE a
      entry == IF new.status = "attached"
               THEN NewClientDocInfo(new.status, Larger(new.serverSeq, old.serverSeq),
                                     Larger(new.clientSeq, old.clientSeq), new.epoch)
               ELSE NewClientDocInfo(new.status, 0, 0, 0)
  IN  IF doc \notin DOMAIN info.documents THEN Done(s, Failure("ErrDocumentNeverAttached"))
      ELSE IF found = <<>> THEN Done(s, Failure("ErrClientNotFound"))
      ELSE Done(ReplaceClient(s, [Head(found) EXCEPT !.documents = (doc :> entry) @@ @]),
                Answer(<<>>))

(* The cursor moves over deactivated clients too, and stays where it is    *)
(* when no client follows it.                                              *)
FindActiveClients(s, limit, lastID) ==
  LET after == SelectSeq(s.clients, LAMBDA c : c.id > lastID)
      rows == Limit(SelectSeq(after, LAMBDA c : c.status = "activated"), limit)
      seen == IF Len(rows) = limit THEN rows[limit].id
              ELSE IF after = <<>> THEN lastID ELSE after[Len(after)].id
  IN  Answer(<<rows, seen>>)

FindAttachedClientInfosByRefKey(s, project, doc) ==
  Answer(SelectSeq(s.clients, LAMBDA c : c.project = project /\ DocStatus(c, doc) = "attached"))

FindAttachedClientCountsByDocIDs(s, project, docs) ==
  [d \in docs |-> Len(SelectSeq(s.clients, LAMBDA c :
                          c.project = project /\ DocStatus(c, d) = "attached"))]

(* Whether a client other than the excluded one holds the document. *)
IsDocumentAttachedOrAttaching(s, project, doc, excluded) ==
  Exists(s.clients, LAMBDA c : /\ c.project = project
                               /\ c.id # excluded
                               /\ DocStatus(c, doc) \in {"attached", "attaching"})

CountActivatedClients(s, project) ==
  Len(SelectSeq(s.clients, LAMBDA c : c.project = project /\ c.status = "activated"))

(***************************************************************************)
(* Documents.                                                              *)
(***************************************************************************)
(* The live document of a key: a removed one does not hold its key. *)
FindDocInfosOfKey(s, project, key) ==
  SelectSeq(s.docs, LAMBDA d : d.project = project /\ d.key = key /\ ~d.removed)

(* noPresence counts only for the call that creates the row. *)
FindOrCreateDocInfo(s, project, client, key, noPresence) ==
  LET found == FindDocInfosOfKey(s, project, key)
      info == NewDocInfo(s.next, project, key, client, noPresence)
  IN  IF found # <<>> THEN Done(s, Answer(<<found[Len(found)]>>))
                      ELSE Done(Insert(s, "docs", info), Answer(<<info>>))

FindDocInfoByKey(s, project, key) ==
  FirstOf(Backwards(FindDocInfosOfKey(s, project, key)), "ErrDocumentNotFound")

FindDocInfosByKeys(s, project, keys) ==
  Answer(SelectSeq(s.docs, LAMBDA d : d.project = project /\ d.key \in keys /\ ~d.removed))

(* Removed documents are left out. *)
FindDocInfosByIDs(s, project, ids) ==
  Answer(SelectSeq(s.docs, LAMBDA d : d.project = project /\ d.id \in ids /\ ~d.removed))

FindDocInfoByRefKey(s, project, doc) ==
  FirstOf(InProject(s.docs, project, doc), "ErrDocumentNotFound")

ReplaceDoc(s, info) ==
  [s EXCEPT !.docs = Updated(@, LAMBDA d : d.id = info.id, LAMBDA d : info)]

UpdateDocInfoStatusToRemoved(s, project, doc) ==
  LET found == InProject(s.docs, project, doc)
  IN  IF found = <<>> THEN Done(s, Failure("ErrDocumentNotFound"))
      ELSE Done(ReplaceDoc(s, [Head(found) EXCEPT !.removed = TRUE]), Answer(<<>>))

UpdateDocInfoSchema(s, project, doc, schema) ==
  LET found == InProject(s.docs, project, doc)
  IN  IF found = <<>> THEN Done(s, Failure("ErrDocumentNotFound"))
      ELSE Done(ReplaceDoc(s, [Head(found) EXCEPT !.schema = schema]), Answer(<<>>))

CountAliveDocuments(s, project) ==
  Len(SelectSeq(s.docs, LAMBDA d : d.project = project /\ ~d.removed))

(* A page of live documents next to the offset, which is left out; an      *)
(* offset of 0 starts at the first or the last document.                   *)
FindDocInfosByPaging(s, project, offset, size, forward) ==
  LET beyond == SelectSeq(s.docs, LAMBDA d :
                   /\ d.project = project /\ ~d.removed /\ d.id # offset
                   /\ IF forward THEN d.id >= offset ELSE offset = 0 \/ d.id <= offset)
  IN  Answer(Limit(IF forward THEN beyond ELSE Backwards(beyond), size))

(* The documents whose key starts with the query, by key: matches holds    *)
(* the keys that do.  A removed document is skipped while the page fills   *)
(* and counted once it is full.                                            *)
FindDocInfosByQuery(s, project, matches, size) ==
  LET rows == SortSeq(SelectSeq(s.docs, LAMBDA d : d.project = project /\ d.key \in matches),
                      LAMBDA a, b : a.key < b.key \/ (a.key = b.key /\ a.id < b.id))
      Alive(t) == SelectSeq(t, LAMBDA d : ~d.removed)
      Counted == {i \in DOMAIN rows :
                    ~rows[i].removed \/ Len(Alive(SubSeq(rows, 1, i - 1))) >= size}
  IN  [total |-> Cardinality(Counted),
       docs |-> IF Len(Alive(rows)) <= size THEN Alive(rows) ELSE SubSeq(Alive(rows), 1, size)]

(* A page of documents with enough changes, ordered by (serverSeq, id),    *)
(* that no client holds.                                                   *)
FindCompactionCandidates(s, limit, minChanges, lastSeq, lastDoc) ==
  LET sorted == SortSeq(s.docs, LAMBDA a, b :
                   a.serverSeq < b.serverSeq \/ (a.serverSeq = b.serverSeq /\ a.id < b.id))
      rows == Limit(SelectSeq(sorted, LAMBDA d :
                 /\ d.serverSeq >= minChanges
                 /\ d.serverSeq > lastSeq \/ (d.serverSeq = lastSeq /\ d.id > lastDoc)
                 /\ ~IsDocumentAttachedOrAttaching(s, d.project, d.id, 0)), limit)
      last == rows[Len(rows)]
  IN  Answer(IF rows = <<>> THEN <<rows, 0, ZeroID>> ELSE <<rows, last.serverSeq, last.id>>)

(***************************************************************************)
(* Changes, snapshots and version vectors of a document.                   *)
(***************************************************************************)
OfDoc(t, doc) == SelectSeq(t, LAMBDA row : row.doc = doc)

(* Numbers the changes from the document's server sequence on and stores   *)
(* them with it; cp is the client's checkpoint.                            *)
CreateChangeInfos(s, project, doc, cp, changes, isRemoved) ==
  LET found == InProject(s.docs, project, doc)
      old == Head(found)
      n == Len(changes)
      rows == [i \in 1 .. n |-> [doc |-> doc, seq |-> old.serverSeq + i] @@ changes[i]]
      info == [old EXCEPT !.serverSeq = @ + n, !.removed = @ \/ isRemoved]
      clientSeqs == {cp.clientSeq} \cup {changes[i].clientSeq : i \in 1 .. n}
  IN  IF found = <<>> THEN Done(s, Failure("ErrDocumentNotFound"))
      ELSE Done([ReplaceDoc(s, info) EXCEPT !.changes = @ \o rows],
                Answer(<<info, [serverSeq |-> IF n = 0 THEN cp.serverSeq ELSE info.serverSeq,
                                clientSeq |-> Max(clientSeqs)]>>))

(* Everything kept for a document but its row. *)
PurgeDocumentInternals(s, doc) ==
  LET Other(row) == row.doc # doc
  IN  [s EXCEPT !.changes = SelectSeq(@, Other), !.snapshots = SelectSeq(@, Other),
                !.bodies = SelectSeq(@, Other), !.vectors = SelectSeq(@, Other)]

(* Replaces the history of a document, if it still ends at lastSeq, by at  *)
(* most one change, and starts a new epoch.                                *)
CompactChangeInfos(s, project, doc, lastSeq, changes) ==
  LET found == InProject(s.docs, project, doc)
      n == Len(changes)
      info == [Head(found) EXCEPT !.serverSeq = n, !.epoch = @ + 1]
      rows == [i \in 1 .. n |-> [doc |-> doc, seq |-> n] @@ changes[i]]
  IN  IF found = <<>> THEN Done(s, Failure("ErrDocumentNotFound"))
      ELSE IF Head(found).serverSeq # lastSeq THEN Done(s, Failure("ErrConflictOnUpdate"))
      ELSE IF n > 1 THEN Done(s, Failure("invalid changes size"))
      ELSE Done([ReplaceDoc(PurgeDocumentInternals(s, doc), info) EXCEPT !.changes = @ \o rows],
                Answer(<<>>))

(* The iterator walks back from (doc, actor, seq) and compares the actor   *)
(* alone: with none in the document it goes on to the documents before it. *)
FindLatestChangeInfoByActor(s, doc, actor, seq) ==
  FirstOf(SortSeq(SelectSeq(s.changes, LAMBDA c : /\ c.actor = actor
                                                  /\ c.doc < doc \/ (c.doc = doc /\ c.seq <= seq)),
                  LAMBDA a, b : a.doc > b.doc \/ (a.doc = b.doc /\ a.seq > b.seq)),
          "ErrChangeNotFound")

FindChangeInfosBetweenServerSeqs(s, doc, from, to) ==
  Answer(SelectSeq(OfDoc(s.changes, doc), LAMBDA c : from <= c.seq /\ c.seq <= to))

HasVersionVectorRow(s, doc) == OfDoc(s.vectors, doc) # <<>>

(* Stores a snapshot taken at seq.  A large one goes to a table of its     *)
(* own; the version vector is kept only when a client tracks the document. *)
CreateSnapshotInfo(s, doc, snap) ==
  LET body == [doc |-> doc, seq |-> snap.seq, content |-> snap.content]
      row == [doc |-> doc, seq |-> snap.seq, external |-> snap.large,
              vv |-> IF HasVersionVectorRow(s, doc) THEN snap.vv ELSE <<>>,
              content |-> IF snap.large THEN 0 ELSE snap.content]
  IN  Done([s EXCEPT !.snapshots = Append(@, row),
                     !.bodies = IF snap.large THEN Append(@, body) ELSE @], Answer(<<>>))

(* The body of a snapshot kept outside its row. *)
FindSnapshotBodyInfo(s, doc, seq) ==
  SelectSeq(OfDoc(s.bodies, doc), LAMBDA b : b.seq = seq)[1].content

(* The row with its content filled in from the body table. *)
WithBody(s, row) ==
  IF row.external THEN [row EXCEPT !.content = FindSnapshotBodyInfo(s, row.doc, row.seq)] ELSE row

FindSnapshotInfo(s, doc, seq) ==
  LET rows == SelectSeq(OfDoc(s.snapshots, doc), LAMBDA r : r.seq = seq)
  IN  IF rows = <<>> THEN Failure("ErrSnapshotNotFound") ELSE Answer(<<WithBody(s, Head(rows))>>)

(* The newest snapshot at or before seq; an empty one when there is none.  *)
FindClosestSnapshotInfo(s, doc, seq, includeSnapshot) ==
  LET rows == SortSeq(SelectSeq(OfDoc(s.snapshots, doc), LAMBDA r : r.seq <= seq),
                      LAMBDA a, b : a.seq > b.seq)
      none == [doc |-> 0, seq |-> 0, external |-> FALSE, vv |-> <<>>, content |-> 0]
  IN  IF rows = <<>> THEN Answer(<<none>>)
      ELSE IF includeSnapshot THEN Answer(<<WithBody(s, Head(rows))>>)
      ELSE Answer(<<[Head(rows) EXCEPT !.content = 0]>>)

IsRowOf(row, doc, client) == row.doc = doc /\ row.client = client

(* The client's vector, dropped when it is no longer attached. *)
UpdateVersionVector(s, info, doc, vv) ==
  LET others == Without(s.vectors, LAMBDA r : IsRowOf(r, doc, info.id))
      row == [doc |-> doc, client |-> info.id, vv |-> vv]
      known == others # s.vectors
  IN  IF DocStatus(info, doc) # "attached" THEN [s EXCEPT !.vectors = others]
      ELSE IF known THEN [s EXCEPT !.vectors = Updated(@, LAMBDA r : IsRowOf(r, doc, info.id),
                                                       LAMBDA r : row)]
      ELSE [s EXCEPT !.vectors = Append(@, row)]

GetMinVersionVector(s, doc, vv) ==
  LET rows == OfDoc(s.vectors, doc)
  IN  Answer(<<MinVersionVector({vv} \cup {rows[i].vv : i \in DOMAIN rows})>>)

UpdateMinVersionVector(s, info, doc, vv) ==
  LET t == UpdateVersionVector(s, info, doc, vv)
  IN  IF doc \notin DOMAIN info.documents THEN Done(s, Failure("ErrDocumentNeverAttached"))
      ELSE Done(t, GetMinVersionVector(t, doc, vv))

(* The document with everything kept for it; the document exists. *)
PurgeDocument(s, project, doc) ==
  LET t == PurgeDocumentInternals(s, doc)
  IN  IF InProject(s.docs, project, doc) = <<>> THEN Done(s, Failure("ErrDocumentNotFound"))
      ELSE Done([t EXCEPT !.docs = Without(@, LAMBDA d : d.id = doc)], Answer(<<>>))

(***************************************************************************)
(* Schemas and revisions.                                                  *)
(***************************************************************************)
IsSchema(row, project, name, version) ==
  row.project = project /\ row.name = name /\ row.version = version

CreateSchemaInfo(s, project, name, version) ==
  LET info == [id |-> s.next, project |-> project, name |-> name, version |-> version]
  IN  IF Exists(s.schemas, LAMBDA r : IsSchema(r, project, name, version))
      THEN Done(s, Failure("ErrSchemaAlreadyExists"))
      ELSE Done(Insert(s, "schemas", info), Answer(<<info>>))

GetSchemaInfo(s, project, name, version) ==
  FirstOf(SelectSeq(s.schemas, LAMBDA r : IsSchema(r, project, name, version)),
          "ErrSchemaNotFound")

(* The versions of a schema, newest first. *)
GetSchemaInfos(s, project, name) ==
  LET rows == SortSeq(SelectSeq(s.schemas, LAMBDA r : r.project = project /\ r.name = name),
                      LAMBDA a, b : a.version > b.version)
  IN  IF rows = <<>> THEN Failure("ErrSchemaNotFound") ELSE Answer(rows)

(* The newest version of every schema of the project, in no fixed order. *)
ListSchemaInfos(s, project) ==
  LET rows == {s.schemas[i] : i \in DOMAIN s.schemas}
  IN  {r \in rows : /\ r.project = project
                    /\ ~\E q \in rows : /\ q.project = project /\ q.name = r.name
                                          /\ q.version > r.version}

RemoveSchemaInfo(s, project, name, version) ==
  LET t == Without(s.schemas, LAMBDA r : IsSchema(r, project, name, version))
  IN  IF t = s.schemas THEN Done(s, Failure("ErrSchemaNotFound"))
                       ELSE Done([s EXCEPT !.schemas = t], Answer(<<>>))

(* A removed document still counts as using its schema. *)
IsSchemaAttached(s, project, schema) ==
  schema # "" /\ Exists(s.docs, LAMBDA d : d.project = project /\ d.schema = schema)

CreateRevisionInfo(s, project, doc, label, content) ==
  LET info == [id |-> s.next, project |-> project, doc |-> doc, label |-> label,
               content |-> content]
  IN  Done(Insert(s, "revisions", info), Answer(<<info>>))

FindRevisionInfosByPaging(s, project, doc, offset, size, forward, includeSnapshot) ==
  LET rows == SelectSeq(s.revisions, LAMBDA r : r.project = project /\ r.doc = doc)
      page == Limit(Skip(IF forward THEN rows ELSE Backwards(rows), offset), size)
  IN  Answer([i \in DOMAIN page |->
        IF includeSnapshot THEN page[i] ELSE [page[i] EXCEPT !.content = 0]])

FindRevisionInfoByLabel(s, project, doc, label) ==
  LET rows == SelectSeq(s.revisions, LAMBDA r : r.doc = doc /\ r.label = label)
  IN  IF rows = <<>> \/ Head(rows).project # project
      THEN Failure("ErrRevisionNotFound") ELSE Answer(<<Head(rows)>>)

FindRevisionInfoByID(s, id) == FirstOf(ByID(s.revisions, id), "ErrRevisionNotFound")

DeleteRevisionInfo(s, id) ==
  IF ByID(s.revisions, id) = <<>> THEN Done(s, Failure("ErrRevisionNotFound"))
  ELSE Done([s EXCEPT !.revisions = Without(@, LAMBDA r : r.id = id)], Answer(<<>>))
=============================================================================

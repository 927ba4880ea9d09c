---------------------------- MODULE DatabaseMongo ----------------------------
(***************************************************************************)
(* The MongoDB backend (server/backend/database/mongo/client.go): one      *)
(* operator per call of database.Database, on a store g that holds the     *)
(* collections and the caches of one server.  As in DatabaseMemory a read  *)
(* gives its answer and a write gives [s, r]; a read that fills a cache is *)
(* a write here.  A call is one step: what happens between two of its      *)
(* round trips is the subject of Compaction and Administration.            *)
(*                                                                         *)
(* A cache is a function from the keys it holds to copies of rows.         *)
(***************************************************************************)
EXTENDS Tables, FiniteSetsExt

Collections ==
  [projects |-> <<>>, users |-> <<>>, members |-> <<>>, invites |-> <<>>,
   clients |-> <<>>, docs |-> <<>>, schemas |-> <<>>, revisions |-> <<>>,
   changes |-> <<>>, snapshots |-> <<>>, bodies |-> <<>>, vectors |-> <<>>, next |-> 1]

Caches ==
  [projectCache |-> <<>>, apiKeyToID |-> <<>>, secretKeyToID |-> <<>>,
   clientCache |-> <<>>, docCache |-> <<>>, changeCache |-> <<>>,
   presenceCache |-> <<>>, vectorCache |-> <<>>]

EmptyStore == Collections @@ Caches

(* Cache operations. *)
Add(g, cache, key, val) == [g EXCEPT ![cache] = (key :> val) @@ @]
Remove(g, cache, key) ==
  [g EXCEPT ![cache] = [k \in DOMAIN @ \ {key} |-> @[k]]]
Cached(g, cache, key) == key \in DOMAIN g[cache]

(* What the driver does with a collection. *)
Find(g, col, P(_)) == SelectSeq(g[col], P)
FindOne(g, col, P(_), err) == FirstOf(Find(g, col, P), err)
UpdateOne(g, col, P(_), F(_)) == [g EXCEPT ![col] = Updated(@, P, F)]
DeleteMany(g, col, P(_)) == [g EXCEPT ![col] = Without(@, P)]

(* An insert is refused when a row Clashes with it on a unique index. *)
InsertOne(g, col, row, Clashes(_), err) ==
  IF Exists(g[col], Clashes) THEN Done(g, Failure(err))
  ELSE Done([g EXCEPT ![col] = Append(@, row), !.next = @ + 1], Answer(<<row>>))

(* An update of one row whose answer is the row after it. *)
FindOneAndUpdate(g, col, P(_), F(_), err) ==
  LET h == UpdateOne(g, col, P, F)
  IN  IF Find(g, col, P) = <<>> THEN Done(g, Failure(err))
      ELSE Done(h, Answer(<<F(Head(Find(g, col, P)))>>))

(* The same, inserting row when there is none. *)
Upsert(g, col, P(_), F(_), row) ==
  IF Find(g, col, P) = <<>> THEN InsertOne(g, col, row, LAMBDA r : FALSE, "")
  ELSE FindOneAndUpdate(g, col, P, F, "")

Same(row) == row
Never(row) == FALSE

(***************************************************************************)
(* The project cache: an LRU by id with two indexes by key.                *)
(***************************************************************************)
CacheProject(g, info) ==
  Add(Add(Add(g, "projectCache", info.id, info), "apiKeyToID", info.pub, info.id),
      "secretKeyToID", info.sec, info.id)

(* The keys dropped are those of the cached copy. *)
UncacheProject(g, id) ==
  IF ~Cached(g, "projectCache", id) THEN g
  ELSE LET info == g.projectCache[id]
       IN  Remove(Remove(Remove(g, "apiKeyToID", info.pub), "secretKeyToID", info.sec),
                  "projectCache", id)

(* A lookup by an index; an index entry whose project is no longer cached  *)
(* is dropped.                                                             *)
GetByIndex(g, index, key) ==
  IF ~Cached(g, index, key) THEN Done(g, Failure(""))
  ELSE IF Cached(g, "projectCache", g[index][key])
       THEN Done(g, Answer(<<g.projectCache[g[index][key]]>>))
       ELSE Done(Remove(g, index, key), Failure(""))

(* Answers the row found and caches it. *)
LoadProject(g, P(_)) ==
  LET found == FindOne(g, "projects", P, "ErrProjectNotFound")
  IN  IF found.err # "" THEN Done(g, found) ELSE Done(CacheProject(g, found.val[1]), found)

FindProjectInfoByPublicKey(g, key) ==
  LET hit == GetByIndex(g, "apiKeyToID", key)
  IN  IF hit.r.val # <<>> THEN hit ELSE LoadProject(hit.s, LAMBDA p : p.pub = key)

FindProjectInfoBySecretKey(g, key) ==
  LET hit == GetByIndex(g, "secretKeyToID", key)
  IN  IF hit.r.val # <<>> THEN hit ELSE LoadProject(hit.s, LAMBDA p : p.sec = key)

FindProjectInfoByID(g, id) ==
  IF Cached(g, "projectCache", id) THEN Done(g, Answer(<<g.projectCache[id]>>))
  ELSE LoadProject(g, LAMBDA p : p.id = id)

FindProjectInfoByName(g, name) ==
  FindOne(g, "projects", LAMBDA p : p.name = name, "ErrProjectNotFound")

(***************************************************************************)
(* Projects, users, members and invites.                                   *)
(***************************************************************************)
EnsureDefaultUserInfo(g, username, password) ==
  Upsert(g, "users", LAMBDA u : u.username = username, Same,
         NewUserInfo(g.next, username, password))

(* The default project sorts before every other. *)
EnsureDefaultProjectInfo(g, owner) ==
  LET info == NewProjectInfo(ZeroID, "default", owner, g.next)
      found == Find(g, "projects", LAMBDA p : p.id = ZeroID)
  IN  IF found # <<>> THEN Done(g, Answer(found))
      ELSE Done([g EXCEPT !.projects = <<info>> \o @, !.next = @ + 1], Answer(<<info>>))

EnsureDefaultUserAndProject(g, username, password) ==
  LET user == EnsureDefaultUserInfo(g, username, password)
  IN  EnsureDefaultProjectInfo(user.s, user.r.val[1].id)

(* The name and both keys have a unique index. *)
CreateProjectInfo(g, name, owner) ==
  LET info == NewProjectInfo(g.next, name, owner, g.next)
  IN  InsertOne(g, "projects", info,
                LAMBDA p : p.name = name \/ p.pub = info.pub \/ p.sec = info.sec,
                "ErrProjectAlreadyExists")

ListProjectInfos(g, owner) == Answer(Find(g, "projects", LAMBDA p : p.owner = owner))

UpdateProjectInfo(g, id, fields) ==
  LET clash == /\ "name" \in DOMAIN fields
               /\ Exists(g.projects, LAMBDA p : p.name = fields.name /\ p.id # id)
      done == FindOneAndUpdate(g, "projects", LAMBDA p : p.id = id,
                               LAMBDA p : UpdateFields(p, fields), "ErrProjectNotFound")
  IN  IF done.r.err # "" THEN done
      ELSE IF clash THEN Done(g, Failure("ErrProjectAlreadyExists"))
      ELSE Done(UncacheProject(done.s, id), done.r)

(* The cached copy goes before the row changes. *)
RotateProjectKeys(g, id, pub, sec) ==
  LET prev == Find(g, "projects", LAMBDA p : p.id = id)
      h == IF prev = <<>> THEN g ELSE UncacheProject(g, id)
      done == FindOneAndUpdate(h, "projects", LAMBDA p : p.id = id,
                LAMBDA p : [p EXCEPT !.pub = pub, !.sec = sec], "ErrProjectNotFound")
  IN  IF done.r.err # "" THEN done ELSE Done(done.s, Answer(done.r.val \o prev))

(* Read past the cache. *)
GetProjectStatsCounts(g, project) ==
  LET found == Find(g, "projects", LAMBDA p : p.id = project)
  IN  IF found = <<>> THEN Answer(<<0, 0>>)
                      ELSE Answer(<<Head(found).clients, Head(found).docs>>)

(* The cached copy keeps the old counts. *)
UpdateProjectStats(g, project, clients, docs) ==
  LET done == FindOneAndUpdate(g, "projects", LAMBDA p : p.id = project,
                LAMBDA p : [p EXCEPT !.clients = clients, !.docs = docs], "ErrProjectNotFound")
  IN  IF done.r.err # "" THEN done ELSE Done(done.s, Answer(<<>>))

FindProjectInfosForRefresh(g, limit, lastID) ==
  LET rows == Limit(Find(g, "projects", LAMBDA p : lastID = ZeroID \/ p.id > lastID), limit)
  IN  Answer(<<rows, IF rows = <<>> THEN ZeroID ELSE rows[Len(rows)].id>>)

CreateUserInfo(g, username, password) ==
  InsertOne(g, "users", NewUserInfo(g.next, username, password),
            LAMBDA u : u.username = username, "ErrUserAlreadyExists")

GetOrCreateUserInfoByGitHubID(g, githubID) ==
  Upsert(g, "users", LAMBDA u : u.username = githubID, Same,
         [NewUserInfo(g.next, githubID, 0) EXCEPT !.provider = "github"])

(* A delete of one row, refused when there is none. *)
DeleteOne(g, col, P(_), err) ==
  IF Find(g, col, P) = <<>> THEN Done(g, Failure(err))
                            ELSE Done(DeleteMany(g, col, P), Answer(<<>>))

DeleteUserInfoByName(g, username) ==
  DeleteOne(g, "users", LAMBDA u : u.username = username, "ErrUserNotFound")

(* ErrUserNotFound when nothing was modified. *)
ChangeUserPassword(g, username, password) ==
  LET h == UpdateOne(g, "users", LAMBDA u : u.username = username,
                     LAMBDA u : [u EXCEPT !.password = password])
  IN  IF h = g THEN Done(g, Failure("ErrUserNotFound")) ELSE Done(h, Answer(<<>>))

FindUserInfoByID(g, id) == FindOne(g, "users", LAMBDA u : u.id = id, "ErrUserNotFound")

FindUserInfoByName(g, username) ==
  FindOne(g, "users", LAMBDA u : u.username = username, "ErrUserNotFound")

ListUserInfos(g) == Answer(g.users)

IsMember(m, project, user) == m.project = project /\ m.user = user

UpsertMemberInfo(g, project, user, by, role) ==
  Upsert(g, "members", LAMBDA m : IsMember(m, project, user), Same,
         NewMemberInfo(g.next, project, user, by, role))

ListMemberInfos(g, project) == Answer(Find(g, "members", LAMBDA m : m.project = project))

FindMemberInfo(g, project, user) ==
  FindOne(g, "members", LAMBDA m : IsMember(m, project, user), "ErrMemberNotFound")

UpdateMemberRole(g, project, user, role) ==
  FindOneAndUpdate(g, "members", LAMBDA m : IsMember(m, project, user),
                   LAMBDA m : [m EXCEPT !.role = role], "ErrMemberNotFound")

DeleteMemberInfo(g, project, user) ==
  DeleteOne(g, "members", LAMBDA m : IsMember(m, project, user), "ErrMemberNotFound")

(* Two queries: the memberships, then the projects, by id. *)
ListProjectInfosByMember(g, user) ==
  LET ms == Find(g, "members", LAMBDA m : m.user = user)
  IN  Answer(Find(g, "projects", LAMBDA p : Exists(ms, LAMBDA m : m.project = p.id)))

CreateInviteInfo(g, project, token, role, by, expires) ==
  InsertOne(g, "invites", NewInviteInfo(g.next, project, token, role, by, expires),
            LAMBDA i : i.token = token, "ErrInviteAlreadyExists")

FindInviteInfoByToken(g, token) ==
  FindOne(g, "invites", LAMBDA i : i.token = token, "ErrInviteNotFound")

(* An invite without expires_at matches no bound. *)
DeleteExpiredInviteInfos(g, now) ==
  LET Expired(i) == i.expires # 0 /\ i.expires <= now
  IN  Done(DeleteMany(g, "invites", Expired), Answer(<<Len(Find(g, "invites", Expired))>>))

(***************************************************************************)
(* Clients.  A row also lists the documents attached and attaching, which  *)
(* the queries use; clientCache holds whole rows.                          *)
(***************************************************************************)
ActivateClient(g, project, key) ==
  LET row == [attached |-> {}, attaching |-> {}] @@ NewClientInfo(g.next, project, key)
      done == InsertOne(g, "clients", row, Never, "")
  IN  Done(Add(done.s, "clientCache", <<project, row.id>>, row), done.r)

InProject(row, project, id) == row.id = id /\ row.project = project

(* An update of a client row, whose result replaces the cached copy. *)
UpdateClient(g, project, client, P(_), F(_)) ==
  LET done == FindOneAndUpdate(g, "clients", LAMBDA c : InProject(c, project, client) /\ P(c),
                               F, "ErrClientNotFound")
  IN  IF done.r.err # "" THEN done
      ELSE Done(Add(done.s, "clientCache", <<project, client>>, done.r.val[1]), done.r)

SetEntry(info, doc, entry) == [info EXCEPT !.documents = (doc :> entry) @@ @]

(* Why no row matched: read after the update. *)
TryAttachingMissError(g, project, client, doc) ==
  IF Exists(g.clients, LAMBDA c : /\ InProject(c, project, client)
                                  /\ c.status = "activated"
                                  /\ DocStatus(c, doc) = "attached")
  THEN "ErrDocumentAlreadyAttached" ELSE "ErrClientNotFound"

TryAttaching(g, project, client, doc) ==
  LET Attaching(c) ==
        LET epoch == IF doc \in DOMAIN c.documents THEN c.documents[doc].epoch ELSE 0
        IN  [SetEntry(c, doc, NewClientDocInfo("attaching", 0, 0, epoch))
               EXCEPT !.attaching = @ \cup {doc}]
      done == UpdateClient(g, project, client,
                LAMBDA c : c.status = "activated" /\ DocStatus(c, doc) # "attached", Attaching)
  IN  IF done.r.err = "" THEN done
      ELSE Done(g, Failure(TryAttachingMissError(g, project, client, doc)))

DeactivateClient(g, project, client) ==
  UpdateClient(g, project, client,
               LAMBDA c : /\ c.status = "activated"
                          /\ ~\E d \in DOMAIN c.documents :
                                DocStatus(c, d) \in {"attaching", "attached"},
               LAMBDA c : [c EXCEPT !.status = "deactivated"])

FindClientInfoByRefKey(g, project, client, skipCache) ==
  LET found == FindOne(g, "clients", LAMBDA c : InProject(c, project, client),
                       "ErrClientNotFound")
      key == <<project, client>>
  IN  IF ~skipCache /\ Cached(g, "clientCache", key) THEN Done(g, Answer(<<g.clientCache[key]>>))
      ELSE IF skipCache \/ found.err # "" THEN Done(g, found)
      ELSE Done(Add(g, "clientCache", key, found.val[1]), found)

(* The presence changes a departed session left in the cache, but for the  *)
(* one that clears its presence.                                           *)
RemoveChangesByActor(g, doc, actor) ==
  IF ~Cached(g, "presenceCache", doc) THEN g
  ELSE LET tree == g.presenceCache[doc]
           gone == {n \in DOMAIN tree : tree[n].actor = actor /\ tree[n].presence # "clear"}
       IN  Add(g, "presenceCache", doc, [n \in DOMAIN tree \ gone |-> tree[n]])

EntryOf(c, doc) ==
  IF doc \in DOMAIN c.documents THEN c.documents[doc] ELSE NewClientDocInfo("", 0, 0, 0)

Advanced(old, new) ==
  NewClientDocInfo(new.status, Max({old.serverSeq, new.serverSeq}),
                   Max({old.clientSeq, new.clientSeq}), new.epoch)

(* The update of an attached document: its sequences only grow. *)
Push(c, doc, new) ==
  [SetEntry(c, doc, Advanced(EntryOf(c, doc), new))
     EXCEPT !.attached = @ \cup {doc}, !.attaching = @ \ {doc}]

(* The update of a detached or removed one. *)
Leave(c, doc, new) ==
  [SetEntry(c, doc, NewClientDocInfo(new.status, 0, 0, EntryOf(c, doc).epoch))
     EXCEPT !.attached = @ \ {doc}, !.attaching = @ \ {doc}]

(* Skipped when the cached copy shows it would change nothing. *)
UpdateClientInfoAfterPushPull(g, info, doc) ==
  LET key == <<info.project, info.id>>
      new == info.documents[doc]
      attached == new.status = "attached"
      upToDate == /\ Cached(g, "clientCache", key)
                  /\ doc \in DOMAIN g.clientCache[key].documents
                  /\ LET old == g.clientCache[key].documents[doc]
                     IN  /\ old.serverSeq >= new.serverSeq /\ old.clientSeq >= new.clientSeq
                         /\ old.status = new.status /\ old.epoch = new.epoch
      h == Remove(g, "clientCache", key)
      done == UpdateClient(IF attached THEN h ELSE RemoveChangesByActor(h, doc, info.id),
                           info.project, info.id, LAMBDA c : TRUE,
                           LAMBDA c : IF attached THEN Push(c, doc, new) ELSE Leave(c, doc, new))
  IN  IF doc \notin DOMAIN info.documents THEN Done(g, Failure("ErrDocumentNeverAttached"))
      ELSE IF upToDate THEN Done(g, Answer(<<>>))
      ELSE IF done.r.err # "" THEN done ELSE Done(done.s, Answer(<<>>))

(* Drops what another node's write made stale. *)
InvalidateCache(g, type, key) ==
  IF type = "project" THEN UncacheProject(g, key) ELSE Remove(g, "clientCache", key)

FindActiveClients(g, limit, lastID) ==
  LET rows == Limit(Find(g, "clients", LAMBDA c : c.id > lastID /\ c.status = "activated"), limit)
  IN  Answer(<<rows, IF rows = <<>> THEN ZeroID ELSE rows[Len(rows)].id>>)

HasAttached(c, project, doc) ==
  c.project = project /\ c.status = "activated" /\ doc \in c.attached

FindAttachedClientInfosByRefKey(g, project, doc) ==
  Answer(Find(g, "clients", LAMBDA c : HasAttached(c, project, doc)))

FindAttachedClientCountsByDocIDs(g, project, docs) ==
  [d \in docs |-> Len(Find(g, "clients", LAMBDA c : HasAttached(c, project, d)))]

IsDocumentAttachedOrAttaching(g, project, doc, excluded) ==
  Exists(g.clients, LAMBDA c : /\ c.project = project
                               /\ doc \in c.attached \cup c.attaching
                               /\ c.id # excluded)

CountActivatedClients(g, project) ==
  Len(Find(g, "clients", LAMBDA c : c.project = project /\ c.status = "activated"))

(***************************************************************************)
(* Documents.                                                              *)
(***************************************************************************)
Alive(d, project) == d.project = project /\ ~d.removed

FindOrCreateDocInfo(g, project, client, key, noPresence) ==
  Upsert(g, "docs", LAMBDA d : Alive(d, project) /\ d.key = key, Same,
         NewDocInfo(g.next, project, key, client, noPresence))

FindDocInfoByKey(g, project, key) ==
  FindOne(g, "docs", LAMBDA d : Alive(d, project) /\ d.key = key, "ErrDocumentNotFound")

FindDocInfosByKeys(g, project, keys) ==
  Answer(Find(g, "docs", LAMBDA d : Alive(d, project) /\ d.key \in keys))

(* Removed documents are found too. *)
FindDocInfosByIDs(g, project, ids) ==
  Answer(Find(g, "docs", LAMBDA d : d.project = project /\ d.id \in ids))

FindDocInfoByRefKey(g, project, doc) ==
  LET key == <<project, doc>>
      found == FindOne(g, "docs", LAMBDA d : InProject(d, project, doc), "ErrDocumentNotFound")
  IN  IF Cached(g, "docCache", key) THEN Done(g, Answer(<<g.docCache[key]>>))
      ELSE IF found.err # "" THEN Done(g, found)
      ELSE Done(Add(g, "docCache", key, found.val[1]), found)

UpdateDocInfoStatusToRemoved(g, project, doc) ==
  LET done == FindOneAndUpdate(Remove(g, "docCache", <<project, doc>>), "docs",
                LAMBDA d : InProject(d, project, doc), LAMBDA d : [d EXCEPT !.removed = TRUE],
                "ErrDocumentNotFound")
  IN  IF done.r.err # "" THEN done ELSE Done(done.s, Answer(<<>>))

(* The cached copy keeps the schema it had. *)
UpdateDocInfoSchema(g, project, doc, schema) ==
  LET done == FindOneAndUpdate(g, "docs", LAMBDA d : InProject(d, project, doc),
                LAMBDA d : [d EXCEPT !.schema = schema], "ErrDocumentNotFound")
  IN  IF done.r.err # "" THEN done ELSE Done(done.s, Answer(<<>>))

CountAliveDocuments(g, project) == Len(Find(g, "docs", LAMBDA d : Alive(d, project)))

FindDocInfosByPaging(g, project, offset, size, forward) ==
  LET beyond == Find(g, "docs", LAMBDA d :
                  /\ Alive(d, project)
                  /\ \/ offset = 0
                     \/ IF forward THEN d.id > offset ELSE d.id < offset)
  IN  Answer(Limit(IF forward THEN beyond ELSE Backwards(beyond), size))

FindDocInfosByQuery(g, project, matches, size) ==
  LET rows == SortSeq(Find(g, "docs", LAMBDA d : Alive(d, project) /\ d.key \in matches),
                      LAMBDA a, b : a.key < b.key)
  IN  [total |-> Len(rows), docs |-> SubSeq(rows, 1, IF size < Len(rows) THEN size ELSE Len(rows))]

FindCompactionCandidates(g, limit, minChanges, lastSeq, lastDoc) ==
  LET rows == Limit(SortSeq(Find(g, "docs", LAMBDA d :
                 /\ d.serverSeq >= minChanges
                 /\ d.serverSeq > lastSeq \/ (d.serverSeq = lastSeq /\ d.id > lastDoc)),
                 LAMBDA a, b : a.serverSeq < b.serverSeq
                               \/ (a.serverSeq = b.serverSeq /\ a.id < b.id)), limit)
      last == rows[Len(rows)]
  IN  Answer(IF rows = <<>> THEN <<rows, 0, ZeroID>> ELSE <<rows, last.serverSeq, last.id>>)

(***************************************************************************)
(* Changes.  A change with operations is a row of changes, at its server   *)
(* sequence; one with a presence alone lives in presenceCache only.        *)
(* changeCache holds, per document, the changes read so far by server      *)
(* sequence (tree) and the sequences known to have been read (ranges).     *)
(***************************************************************************)
NewChangeStore == [tree |-> <<>>, ranges |-> {}]

(* The store of a document; a new one is added to the cache. *)
ChangeStoreOf(g, doc) ==
  IF Cached(g, "changeCache", doc) THEN g.changeCache[doc] ELSE NewChangeStore

BySeq(rows) == [n \in {rows[i].seq : i \in DOMAIN rows} |->
                 Head(SelectSeq(rows, LAMBDA r : r.seq = n))]

ReplaceOrInsert(tree, rows) == BySeq(rows) @@ tree

ExpandRange(store, from, to) == [store EXCEPT !.ranges = @ \cup from .. to]

(* The changes of a tree in a range, by server sequence. *)
ChangesInRange(tree, from, to) ==
  LET held == SelectSeq([i \in 1 .. (to + 1 - from) |-> from + i - 1], LAMBDA n : n \in DOMAIN tree)
  IN  [i \in DOMAIN held |-> tree[held[i]]]

(* The sequences of a range neither held nor read before. *)
CalcMissingRanges(store, from, to) == (from .. to) \ (store.ranges \cup DOMAIN store.tree)

(* Mutant: the range asked for is remembered from its end on, one beyond it. *)
EnsureChangesPastEnd(store, from, to, rows) ==
  LET missing == CalcMissingRanges(store, from, to)
  IN  [tree |-> ReplaceOrInsert(store.tree, SelectSeq(rows, LAMBDA r : r.seq \in missing)),
       ranges |-> store.ranges \cup missing \cup {to + 1}]

(* Reads what is missing, and remembers the range as read, holes included. *)
EnsureChanges(store, from, to, rows) ==
  LET missing == CalcMissingRanges(store, from, to)
  IN  [tree |-> ReplaceOrInsert(store.tree, SelectSeq(rows, LAMBDA r : r.seq \in missing)),
       ranges |-> store.ranges \cup missing]

(* An upsert per change, by server sequence. *)
BulkWrite(g, doc, rows) ==
  LET Written(r) == r.doc = doc /\ \E i \in DOMAIN rows : rows[i].seq = r.seq
  IN  [g EXCEPT !.changes = Without(@, Written) \o rows]

CreateChangeInfos(g, project, doc, cp, changes, isRemoved) ==
  LET got == FindDocInfoByRefKey(g, project, doc)
      old == got.r.val[1]
      key == <<project, doc>>
      n == Len(changes)
      rows == [i \in 1 .. n |-> [doc |-> doc, seq |-> old.serverSeq + i] @@ changes[i]]
      info == [old EXCEPT !.serverSeq = @ + n, !.removed = @ \/ isRemoved]
      newCp == [serverSeq |-> IF n = 0 THEN cp.serverSeq ELSE info.serverSeq,
                clientSeq |-> Max({cp.clientSeq} \cup {changes[i].clientSeq : i \in 1 .. n})]
      prChanges == SelectSeq(rows, PresenceOnly)
      opChanges == SelectSeq(rows, HasOperations)
      prStore == IF Cached(got.s, "presenceCache", doc) THEN got.s.presenceCache[doc] ELSE <<>>
      h1 == IF prChanges = <<>> THEN got.s
            ELSE Add(got.s, "presenceCache", doc, ReplaceOrInsert(prStore, prChanges))
      opStore == ChangeStoreOf(got.s, doc)
      h2 == Add(BulkWrite(h1, doc, opChanges), "changeCache", doc,
                ExpandRange([opStore EXCEPT !.tree = ReplaceOrInsert(@, opChanges)],
                            old.serverSeq + 1, info.serverSeq))
      Claimed(d) == InProject(d, project, doc) /\ d.serverSeq = old.serverSeq
      Advance(d) == [d EXCEPT !.serverSeq = info.serverSeq, !.removed = @ \/ isRemoved]
  IN  IF got.r.err # "" THEN got
      ELSE IF n = 0 /\ ~isRemoved THEN Done(got.s, Answer(<<old, cp>>))
      ELSE IF Find(h2, "docs", Claimed) = <<>>
           THEN Done(Remove(h2, "docCache", key), Failure("ErrConflictOnUpdate"))
      ELSE Done(Add(UpdateOne(h2, "docs", Claimed, Advance), "docCache", key, info),
                Answer(<<info, newCp>>))

(* Everything kept for a document but its row and the changes up to keep. *)
PurgeDocumentInternals(g, doc, keep) ==
  LET Of(row) == row.doc = doc
      h == Remove(Remove(Remove(g, "changeCache", doc), "presenceCache", doc), "vectorCache", doc)
  IN  DeleteMany(DeleteMany(DeleteMany(
        DeleteMany(h, "changes", LAMBDA r : Of(r) /\ r.seq > keep),
        "snapshots", Of), "bodies", Of), "vectors", Of)

(* The document is gone, or has moved past the sequence compaction read. *)
CompactionClaimError(g, project, doc) ==
  Failure(IF Exists(g.docs, LAMBDA d : InProject(d, project, doc))
          THEN "ErrConflictOnUpdate" ELSE "ErrDocumentNotFound")

CompactChangeInfos(g, project, doc, lastSeq, changes) ==
  LET n == Len(changes)
      rows == [i \in 1 .. n |-> [doc |-> doc, seq |-> n] @@ changes[i]]
      h == Remove(g, "docCache", <<project, doc>>)
      Claimed(d) == InProject(d, project, doc) /\ d.serverSeq = lastSeq
      claim == UpdateOne(h, "docs", Claimed, LAMBDA d : [d EXCEPT !.serverSeq = n, !.epoch = @ + 1])
  IN  IF n > 1 THEN Done(g, Failure("invalid changes size"))
      ELSE IF Find(g, "docs", Claimed) = <<>> THEN Done(h, CompactionClaimError(h, project, doc))
      ELSE Done(PurgeDocumentInternals(BulkWrite(Remove(claim, "changeCache", doc), doc, rows),
                                       doc, n), Answer(<<>>))

(* An empty change when there is none. *)
FindLatestChangeInfoByActor(g, doc, actor, seq) ==
  LET rows == SortSeq(Find(g, "changes", LAMBDA c : /\ c.doc = doc /\ c.actor = actor
                                                    /\ c.seq <= seq),
                      LAMBDA a, b : a.seq > b.seq)
  IN  Answer(IF rows = <<>> THEN <<>> ELSE <<Head(rows)>>)

(* The changes of a range: the presences cached and the operations, read   *)
(* through changeCache; an operation replaces a presence of its sequence.  *)
FindChangeInfosBetweenServerSeqs(g, doc, from, to) ==
  LET pr == IF Cached(g, "presenceCache", doc)
            THEN ChangesInRange(g.presenceCache[doc], from, to) ELSE <<>>
      store == EnsureChanges(ChangeStoreOf(g, doc), from, to,
                             Find(g, "changes", LAMBDA c : c.doc = doc))
      merged == ReplaceOrInsert(BySeq(pr), ChangesInRange(store.tree, from, to))
  IN  IF from > to THEN Done(g, Answer(<<>>))
      ELSE Done(Add(g, "changeCache", doc, store), Answer(ChangesInRange(merged, from, to)))

(***************************************************************************)
(* Snapshots and version vectors.                                          *)
(***************************************************************************)
HasVersionVectorRow(g, doc) == Exists(g.vectors, LAMBDA r : r.doc = doc)

AtSeq(row, doc, seq) == row.doc = doc /\ row.seq = seq

CreateSnapshotBodyInfo(g, doc, seq, content) ==
  [g EXCEPT !.bodies = Append(@, [doc |-> doc, seq |-> seq, content |-> content])]

(* A large body is stored first; it is dropped again when the row that     *)
(* names it cannot be inserted.                                            *)
CreateSnapshotInfo(g, doc, snap) ==
  LET row == [doc |-> doc, seq |-> snap.seq, external |-> snap.large,
              vv |-> IF HasVersionVectorRow(g, doc) THEN snap.vv ELSE <<>>,
              content |-> IF snap.large THEN 0 ELSE snap.content]
      h == IF snap.large THEN CreateSnapshotBodyInfo(g, doc, snap.seq, snap.content) ELSE g
  IN  IF Exists(g.snapshots, LAMBDA r : AtSeq(r, doc, snap.seq))
      THEN Done(IF snap.large THEN DeleteMany(g, "bodies", LAMBDA b : AtSeq(b, doc, snap.seq))
                              ELSE g, Failure("create snapshot"))
      ELSE Done([h EXCEPT !.snapshots = Append(@, row)], Answer(<<>>))

FindSnapshotBodyInfo(g, doc, seq) ==
  Find(g, "bodies", LAMBDA b : AtSeq(b, doc, seq))[1].content

WithBody(g, row) ==
  IF row.external THEN [row EXCEPT !.content = FindSnapshotBodyInfo(g, row.doc, row.seq)] ELSE row

NoSnapshot == [doc |-> 0, seq |-> 0, external |-> FALSE, vv |-> <<>>, content |-> 0]

(* An empty snapshot when there is none. *)
FindSnapshotInfo(g, doc, seq) ==
  LET rows == Find(g, "snapshots", LAMBDA r : AtSeq(r, doc, seq))
  IN  Answer(<<IF rows = <<>> THEN NoSnapshot ELSE WithBody(g, Head(rows))>>)

FindClosestSnapshotInfo(g, doc, seq, includeSnapshot) ==
  LET rows == SortSeq(Find(g, "snapshots", LAMBDA r : r.doc = doc /\ r.seq <= seq),
                      LAMBDA a, b : a.seq > b.seq)
  IN  Answer(<<IF rows = <<>> THEN NoSnapshot
               ELSE IF includeSnapshot THEN WithBody(g, Head(rows))
               ELSE [Head(rows) EXCEPT !.content = 0]>>)

(* The client's row: deleted when it is no longer attached, else upserted. *)
UpdateVersionVector(g, info, doc, vv) ==
  LET Row(r) == r.doc = doc /\ r.client = info.id
      row == [doc |-> doc, client |-> info.id, vv |-> vv]
  IN  IF DocStatus(info, doc) # "attached" THEN DeleteMany(g, "vectors", Row)
      ELSE IF Exists(g.vectors, Row) THEN UpdateOne(g, "vectors", Row, LAMBDA r : row)
      ELSE [g EXCEPT !.vectors = Append(@, row)]

(* The minimum over the cached map of the document, loaded when missing. *)
GetMinVersionVector(g, doc, vv) ==
  LET rows == Find(g, "vectors", LAMBDA r : r.doc = doc)
      loaded == [c \in {rows[i].client : i \in DOMAIN rows} |->
                   Head(SelectSeq(rows, LAMBDA r : r.client = c)).vv]
      vvMap == IF Cached(g, "vectorCache", doc) THEN g.vectorCache[doc] ELSE loaded
  IN  Done(Add(g, "vectorCache", doc, vvMap),
           Answer(<<MinVersionVector({vv} \cup {vvMap[c] : c \in DOMAIN vvMap})>>))

(* The row is written unless the cached vector equals the new one; then    *)
(* the cached map follows the client's status.                             *)
UpdateMinVersionVector(g, info, doc, vv) ==
  LET held == Cached(g, "vectorCache", doc)
      equal == held /\ info.id \in DOMAIN g.vectorCache[doc] /\ g.vectorCache[doc][info.id] = vv
      h == IF equal THEN g ELSE UpdateVersionVector(g, info, doc, vv)
      vvMap == h.vectorCache[doc]
      updated == IF DocStatus(info, doc) = "attached" THEN (info.id :> vv) @@ vvMap
                 ELSE [c \in DOMAIN vvMap \ {info.id} |-> vvMap[c]]
  IN  IF doc \notin DOMAIN info.documents THEN Done(g, Failure("ErrDocumentNeverAttached"))
      ELSE GetMinVersionVector(IF held THEN Add(h, "vectorCache", doc, updated) ELSE h, doc, vv)

(* The cached row of the document stays. *)
PurgeDocument(g, project, doc) ==
  Done(DeleteMany(PurgeDocumentInternals(g, doc, 0), "docs",
                  LAMBDA d : InProject(d, project, doc)), Answer(<<>>))

(***************************************************************************)
(* Schemas and revisions.                                                  *)
(***************************************************************************)
IsSchema(row, project, name, version) ==
  row.project = project /\ row.name = name /\ row.version = version

CreateSchemaInfo(g, project, name, version) ==
  InsertOne(g, "schemas", [id |-> g.next, project |-> project, name |-> name, version |-> version],
            LAMBDA r : IsSchema(r, project, name, version), "ErrSchemaAlreadyExists")

GetSchemaInfo(g, project, name, version) ==
  FindOne(g, "schemas", LAMBDA r : IsSchema(r, project, name, version), "ErrSchemaNotFound")

GetSchemaInfos(g, project, name) ==
  LET rows == SortSeq(Find(g, "schemas", LAMBDA r : r.project = project /\ r.name = name),
                      LAMBDA a, b : a.version > b.version)
  IN  IF rows = <<>> THEN Failure("ErrSchemaNotFound") ELSE Answer(rows)

(* Grouped by name, the first of each group by descending version. *)
ListSchemaInfos(g, project) ==
  LET rows == Find(g, "schemas", LAMBDA r : r.project = project)
      Versions(name) == {rows[i].version : i \in {j \in DOMAIN rows : rows[j].name = name}}
  IN  {Head(SelectSeq(rows, LAMBDA r : r.name = n /\ r.version = Max(Versions(n)))) :
         n \in {rows[i].name : i \in DOMAIN rows}}

RemoveSchemaInfo(g, project, name, version) ==
  DeleteOne(g, "schemas", LAMBDA r : IsSchema(r, project, name, version), "ErrSchemaNotFound")

IsSchemaAttached(g, project, schema) ==
  Exists(g.docs, LAMBDA d : d.project = project /\ d.schema = schema)

CreateRevisionInfo(g, project, doc, label, content) ==
  InsertOne(g, "revisions", [id |-> g.next, project |-> project, doc |-> doc, label |-> label,
                             content |-> content], Never, "")

FindRevisionInfosByPaging(g, project, doc, offset, size, forward, includeSnapshot) ==
  LET rows == Find(g, "revisions", LAMBDA r : r.project = project /\ r.doc = doc)
      page == Limit(Skip(IF forward THEN rows ELSE Backwards(rows), offset), size)
  IN  Answer([i \in DOMAIN page |->
        IF includeSnapshot THEN page[i] ELSE [page[i] EXCEPT !.content = 0]])

FindRevisionInfoByID(g, id) == FindOne(g, "revisions", LAMBDA r : r.id = id, "ErrRevisionNotFound")

DeleteRevisionInfo(g, id) ==
  DeleteOne(g, "revisions", LAMBDA r : r.id = id, "ErrRevisionNotFound")
=============================================================================

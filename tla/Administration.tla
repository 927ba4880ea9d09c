--------------------------- MODULE Administration ---------------------------
(***************************************************************************)
(* The AdminService: who may ask for what (server/rpc/interceptors,        *)
(* server/authz, server/rpc/auth), what the handlers of                    *)
(* server/rpc/admin_server.go do through server/users, projects, members,  *)
(* invites, schemas and documents, and how a change of a project reaches   *)
(* the project caches of the other servers (backend.go, cluster_server.go, *)
(* mongo/project_cache.go).                                                *)
(*                                                                         *)
(* A handler is a program: the sequence of the reads and writes it makes,  *)
(* each of which is atomic in the database, while other requests run       *)
(* between any two of them.  A step either goes on to the rest of the      *)
(* program, or ends the request with an error.  What a step learns is kept *)
(* in the request.                                                         *)
(***************************************************************************)
EXTENDS Integers, Sequences, FiniteSets, TLC
LOCAL INSTANCE Functions

CONSTANTS
  Nodes,           \* servers
  Slots,           \* what runs requests, one at a time
  Arrangements,    \* the starting states and the requests of each slot
  Limit,           \* the limit of a channel listing
  MaxSeq,          \* bounds the changes pushed to a document
  ProjectIDs       \* the projects whose cache entries expire

VARIABLES
  todo,            \* slot -> the requests still to be made
  users,           \* username -> [id, pw]
  projects,        \* id -> [id, name, owner, pub, sec, rev]
  members,         \* <<project, user>> -> role
  invites,         \* token -> [project, role, by, expired]
  schemas,         \* the schemas of the project
  docs,            \* key -> [owner, seq, schema, made]
  tokens,          \* the usernames a session token was made for
  projectCache,    \* node -> [byID, apiKeyToID, secretKeyToID]
  fetched,         \* node -> the row an SDK request read and has not cached yet
  channels,        \* node -> channel key -> sessions
  sessionCounts,   \* node -> the cached session counts
  reqs,            \* slot -> the request it runs
  fresh,           \* the next id, key or token
  issued,          \* secret key -> the project it was made for
  held             \* slot -> the roles its user held while the request ran

adminVars == <<todo, users, projects, members, invites, schemas, docs, tokens,
               projectCache, fetched, channels, sessionCounts, reqs, fresh, issued, held>>

(***************************************************************************)
(* Roles and methods.                                                      *)
(***************************************************************************)
memberRoleRanks == [owner |-> 1, admin |-> 2, member |-> 3]

(* A role outside the hierarchy answers false on both sides. *)
IsAtLeast(role, required) ==
  /\ role \in DOMAIN memberRoleRanks
  /\ required \in DOMAIN memberRoleRanks
  /\ memberRoleRanks[role] <= memberRoleRanks[required]

ValidRole(role) == role \in {"owner", "admin", "member"}

(* The least role a session token needs for each method about the project  *)
(* of the context.                                                         *)
projectScopedMethods ==
  [m \in {"GetProjectStats", "ListDocuments", "GetDocument", "GetDocuments",
          "SearchDocuments", "GetSnapshotMeta", "ListChanges", "ListSchemas",
          "GetSchema", "GetSchemas", "ListChannels", "GetChannels"} |-> "member"] @@
  [m \in {"CreateDocument", "UpdateDocument", "RemoveDocumentByAdmin",
          "CompactDocumentByAdmin", "CreateSchema", "RemoveSchema",
          "BroadcastByAdmin", "RevalidateAccess"} |-> "admin"]

isProjectScoped(method) == method \in DOMAIN projectScopedMethods

secretKeyRole == "admin"

isSecretKeyAllowed(method) ==
  isProjectScoped(method) => IsAtLeast(secretKeyRole, projectScopedMethods[method])

isSchemeAgnostic(method) == method \in {"GetServerVersion"}

isRequiredAuth(method) ==
  method \notin {"LogIn", "SignUp", "ChangePassword", "DeleteAccount"}

isSchemeAllowed(method, scheme, hasProjectName) ==
  \/ isSchemeAgnostic(method)
  \/ scheme = "API-Key" /\ isProjectScoped(method)
  \/ scheme = "Bearer" /\ (isProjectScoped(method) => hasProjectName)

(***************************************************************************)
(* The programs.  A step is named by op; role is the least role wanted     *)
(* after it, "" when none is.                                              *)
(***************************************************************************)
Do(op) == [op |-> op, role |-> ""]
Wants(op, role) == [op |-> op, role |-> role]

(* The owner of the project needs no member row: the step "name" drops the *)
(* step "member" after it, and so does "owner".                            *)
FindUserRoleByName == <<Do("name"), Do("member")>>
ProjectAndRole(role) == FindUserRoleByName \o <<Wants("info", role)>>
FindUserRole(role) == <<Do("owner"), Wants("member", role)>>

(* Mutant: a member of the project, of whatever role, is let through. *)
CheckPermissionAny(role) == FindUserRole("")

CheckPermission(role) == FindUserRole(role)

(* One step for every server of the cluster. *)
BroadcastCacheInvalidation == <<Do("nodes"), Do("invalidate")>>

authorizeProject(method) == ProjectAndRole(projectScopedMethods[method])

authenticate(r) ==
  IF ~isSchemeAllowed(r.method, r.scheme, r.name # "") THEN <<Do("refuse")>>
  ELSE IF r.scheme = "Bearer"
       THEN <<Do("user")>> \o (IF isProjectScoped(r.method) THEN authorizeProject(r.method)
                               ELSE <<>>)
       ELSE IF isSecretKeyAllowed(r.method) THEN <<Do("secret")>>
            ELSE <<Do("secret"), Do("refuse")>>

buildContext(r) == IF isRequiredAuth(r.method) THEN authenticate(r) ELSE <<>>

SignUp == <<Do("createUser")>>
LogIn == <<Do("password"), Do("token")>>
DeleteAccount == <<Do("password"), Do("deleteUser")>>
ChangePassword == <<Do("password"), Do("setPassword")>>

CreateProject == <<Do("createProject")>>
ListProjects == <<Do("listOwned"), Do("listMemberRows"), Do("listMemberProjects")>>
GetProject == ProjectAndRole("") \o <<Do("show")>>

(* The check of the role, the change, and the caches that held the old     *)
(* row: the one of this server, then those of all servers.                 *)
UpdateProject ==
  CheckPermission("admin") \o <<Do("update"), Do("uncache")>> \o BroadcastCacheInvalidation
    \o <<Do("show")>>

(* The entry is dropped from this server's cache before the keys change. *)
RotateProjectKeys ==
  CheckPermission("admin") \o <<Do("peek"), Do("rotate")>> \o BroadcastCacheInvalidation
    \o <<Do("show")>>

GetProjectStats == <<Do("stats")>>

RemoveMember ==
  ProjectAndRole("") \o CheckPermission("admin") \o <<Do("findUser"), Do("deleteMember")>>

(* A member whose account is gone fails the listing. *)
ListMembers == ProjectAndRole("") \o <<Do("memberRows"), Do("memberUsers"), Do("ownerUser")>>

UpdateMemberRole ==
  ProjectAndRole("") \o CheckPermission("admin") \o <<Do("findUser"), Do("setRole")>>

CreateInvite == ProjectAndRole("") \o CheckPermission("admin") \o <<Do("createInvite")>>
AcceptInvite == <<Do("findInvite"), Do("inviteOwner"), Do("upsertMember")>>

CreateDocument == <<Do("findOrCreateDoc"), Do("createDoc")>>
GetDocument == <<Do("findDoc"), Do("attachedClients"), Do("shardCall")>>
GetDocuments == <<Do("findDocs"), Do("shardCall")>>
GetSnapshotMeta == <<Do("findOrCreateRead"), Do("buildDoc")>>
ListDocuments == <<Do("findDocs"), Do("attachedClients"), Do("buildDoc")>>
SearchDocuments == <<Do("findDocs")>>
ListChanges == <<Do("findDoc"), Do("findChanges")>>

ListChannels == <<Do("nodes"), Do("list"), Do("merge")>>
GetChannels == <<Do("cachedCounts"), Do("fanOutCounts")>>
BroadcastByAdmin == <<Do("shardCall")>>

CreateSchema == <<Do("createSchema")>>
GetSchema == <<Do("readSchemas")>>
GetSchemas == <<Do("readSchemas")>>
ListSchemas == <<Do("readSchemas")>>
RemoveSchema == <<Do("schemaAttached"), Do("removeSchema")>>

GetServerVersion == <<>>

ListRevisionsByAdmin == ProjectAndRole("") \o <<Do("findDoc"), Do("revisions")>>
GetRevisionByAdmin == ProjectAndRole("") \o <<Do("findDoc"), Do("revision")>>
RestoreRevisionByAdmin ==
  ProjectAndRole("") \o CheckPermission("admin") \o <<Do("findDoc"), Do("revision"), Do("restore")>>

(* The handlers that change documents by way of the packs and of the       *)
(* attachment locks are those of DocumentHandlers and Compaction, and      *)
(* RevalidateAccess that of WatchAccess; here they only need a role.       *)
Elsewhere == <<Do("findDoc"), Do("write")>>

Handlers ==
  [SignUp |-> SignUp, LogIn |-> LogIn, DeleteAccount |-> DeleteAccount,
   ChangePassword |-> ChangePassword, CreateProject |-> CreateProject,
   ListProjects |-> ListProjects, GetProject |-> GetProject, UpdateProject |-> UpdateProject,
   RotateProjectKeys |-> RotateProjectKeys, GetProjectStats |-> GetProjectStats,
   RemoveMember |-> RemoveMember, ListMembers |-> ListMembers,
   UpdateMemberRole |-> UpdateMemberRole, CreateInvite |-> CreateInvite,
   AcceptInvite |-> AcceptInvite, CreateDocument |-> CreateDocument,
   GetDocument |-> GetDocument, GetDocuments |-> GetDocuments,
   GetSnapshotMeta |-> GetSnapshotMeta, ListDocuments |-> ListDocuments,
   SearchDocuments |-> SearchDocuments, ListChanges |-> ListChanges,
   ListChannels |-> ListChannels, GetChannels |-> GetChannels,
   BroadcastByAdmin |-> BroadcastByAdmin, CreateSchema |-> CreateSchema,
   GetSchema |-> GetSchema, GetSchemas |-> GetSchemas, ListSchemas |-> ListSchemas,
   RemoveSchema |-> RemoveSchema, GetServerVersion |-> GetServerVersion,
   ListRevisionsByAdmin |-> ListRevisionsByAdmin, GetRevisionByAdmin |-> GetRevisionByAdmin,
   RestoreRevisionByAdmin |-> RestoreRevisionByAdmin, UpdateDocument |-> Elsewhere,
   RemoveDocumentByAdmin |-> Elsewhere, CompactDocumentByAdmin |-> Elsewhere,
   RevalidateAccess |-> Elsewhere]

(***************************************************************************)
(* A request: what was asked, and what its steps have learnt.              *)
(***************************************************************************)
Idle == [prog |-> <<>>, err |-> "", method |-> "", uid |-> 0]

NewRequest(ask) ==
  ask @@ [prog |-> buildContext(ask) \o Handlers[ask.method], err |-> "", uid |-> 0, have |-> "",
          info |-> <<>>, row |-> <<>>, user |-> 0, rows |-> {}, infos |-> {}, left |-> {}, bad |-> {},
          got |-> <<>>, seq |-> 0, shown |-> {}]

At(s, op) == reqs[s].prog # <<>> /\ Head(reqs[s].prog).op = op
Wanted(s) == Head(reqs[s].prog).role
Rest(s) == Tail(reqs[s].prog)

(* The request takes note of what it learnt; it goes on; it fails. *)
Note(s, learnt) == reqs' = [reqs EXCEPT ![s] = learnt @@ @]
Learn(s, learnt) == Note(s, learnt @@ [prog |-> Rest(s)])
Go(s) == Learn(s, [err |-> ""])
Fail(s, err) == Note(s, [prog |-> <<>>, err |-> err])

Start(s) ==
  /\ reqs[s].prog = <<>> /\ todo[s] # <<>>
  /\ reqs' = [reqs EXCEPT ![s] = NewRequest(Head(todo[s]))]
  /\ todo' = [todo EXCEPT ![s] = Tail(@)]
  /\ UNCHANGED <<users, projects, members, invites, schemas, docs, tokens, projectCache, fetched,
                 channels, sessionCounts, fresh, issued>>

(* What every step of a request leaves alone. *)
Kept == <<todo, fetched, channels>>
Rows == <<users, projects, members, invites, schemas, docs>>
Ids == <<tokens, fresh, issued>>

(***************************************************************************)
(* The project cache of a server.                                          *)
(***************************************************************************)
EmptyCache == [byID |-> <<>>, apiKeyToID |-> <<>>, secretKeyToID |-> <<>>]

Without(f, x) == [y \in DOMAIN f \ {x} |-> f[y]]

Add(c, info) ==
  [byID |-> (info.id :> info) @@ c.byID,
   apiKeyToID |-> (info.pub :> info.id) @@ c.apiKeyToID,
   secretKeyToID |-> (info.sec :> info.id) @@ c.secretKeyToID]

(* The keys dropped from the indexes are those of the cached copy. *)
Remove(c, id) ==
  IF id \notin DOMAIN c.byID THEN c
  ELSE [byID |-> Without(c.byID, id),
        apiKeyToID |-> Without(c.apiKeyToID, c.byID[id].pub),
        secretKeyToID |-> Without(c.secretKeyToID, c.byID[id].sec)]

(* The copies a lookup through an index finds. *)
ByIndex(c, index, k) ==
  {c.byID[id] : id \in {c[index][j] : j \in {k} \cap DOMAIN c[index]} \cap DOMAIN c.byID}

(* The time to live of an entry passes. *)
Expire(n, id) ==
  /\ id \in DOMAIN projectCache[n].byID
  /\ projectCache' = [projectCache EXCEPT ![n] = Remove(@, id)]
  /\ UNCHANGED <<Kept, Rows, Ids, sessionCounts, reqs>>

(* A request of an SDK, which names the project by its public key, misses  *)
(* the cache, reads the row, and caches it later.                          *)
GetProjectFromAPIKey(n, id) ==
  /\ fetched[n] = <<>>
  /\ ByIndex(projectCache[n], "apiKeyToID", projects[id].pub) = {}
  /\ fetched' = [fetched EXCEPT ![n] = <<projects[id]>>]
  /\ projectCache' = [projectCache EXCEPT ![n].apiKeyToID = Without(@, projects[id].pub)]
  /\ UNCHANGED <<todo, channels, Rows, Ids, sessionCounts, reqs>>

CacheFetched(n) ==
  /\ fetched[n] # <<>>
  /\ fetched' = [fetched EXCEPT ![n] = <<>>]
  /\ projectCache' = [projectCache EXCEPT ![n] = Add(@, fetched[n][1])]
  /\ UNCHANGED <<todo, channels, Rows, Ids, sessionCounts, reqs>>

(***************************************************************************)
(* Authentication and roles.                                               *)
(***************************************************************************)
Refuse(s) ==
  /\ At(s, "refuse")
  /\ Fail(s, "PermissionDenied")
  /\ UNCHANGED <<Kept, Rows, Ids, projectCache, sessionCounts>>

(* The session token names a user, who may be gone by now. *)
GetUserByName(s) ==
  /\ At(s, "user")
  /\ IF reqs[s].cred \in tokens /\ reqs[s].cred \in DOMAIN users
     THEN Learn(s, [uid |-> users[reqs[s].cred].id])
     ELSE Fail(s, "Unauthenticated")
  /\ UNCHANGED <<Kept, Rows, Ids, projectCache, sessionCounts>>

(* A lookup of a project finds the cached copy, or the row, which the next *)
(* step caches.                                                            *)
Cached(p) == [info |-> p, add |-> <<>>]
Read(p) == [info |-> p, add |-> <<Do("add")>>]

FindProjectInfoByID(n, id) ==
  IF id \in DOMAIN projectCache[n].byID THEN {Cached(projectCache[n].byID[id])}
  ELSE {Read(projects[i]) : i \in {id} \cap DOMAIN projects}

FindProjectInfoBySecretKey(n, key) ==
  LET hit == ByIndex(projectCache[n], "secretKeyToID", key)
  IN  IF hit # {} THEN {Cached(p) : p \in hit}
      ELSE {Read(projects[id]) : id \in {i \in DOMAIN projects : projects[i].sec = key}}

ProjectFromSecretKey(s) ==
  /\ At(s, "secret")
  /\ LET found == FindProjectInfoBySecretKey(reqs[s].node, reqs[s].cred)
     IN  \/ \E f \in found : Learn(s, [pid |-> f.info.id, info |-> <<f.info>>, row |-> <<f.info>>,
                                       prog |-> f.add \o Rest(s)])
         \/ found = {} /\ Fail(s, "Unauthenticated")
  /\ UNCHANGED <<Kept, Rows, Ids, projectCache, sessionCounts>>

(* The cache keeps what the request read. *)
CacheRow(s) ==
  /\ At(s, "add")
  /\ projectCache' = [projectCache EXCEPT ![reqs[s].node] = Add(@, reqs[s].row[1])]
  /\ Go(s)
  /\ UNCHANGED <<Kept, Rows, Ids, sessionCounts>>

FindProjectInfoByName(s) ==
  /\ At(s, "name")
  /\ LET found == {id \in DOMAIN projects : projects[id].name = reqs[s].name}
     IN  \/ \E id \in found :
              IF projects[id].owner = reqs[s].uid
              THEN Learn(s, [pid |-> id, have |-> "owner", prog |-> Tail(Rest(s))])
              ELSE Learn(s, [pid |-> id])
         \/ found = {} /\ Fail(s, "ErrProjectNotFound")
  /\ UNCHANGED <<Kept, Rows, Ids, projectCache, sessionCounts>>

FindMemberInfo(s) ==
  /\ At(s, "member")
  /\ LET row == {<<reqs[s].pid, reqs[s].uid>>} \cap DOMAIN members
     IN  \/ \E k \in row : IF Wanted(s) = "" \/ IsAtLeast(members[k], Wanted(s))
                           THEN Learn(s, [have |-> members[k]])
                           ELSE Fail(s, "ErrInsufficientPermission")
         \/ row = {} /\ Fail(s, "ErrMemberNotFound")
  /\ UNCHANGED <<Kept, Rows, Ids, projectCache, sessionCounts>>

CanReadSecretKey(role) == IsAtLeast(role, "admin")

redactForRole(p, role) == IF CanReadSecretKey(role) THEN p ELSE [p EXCEPT !.sec = 0]

(* The project of the role found, without its secret key for a role below  *)
(* admin; then the role the method wants.                                  *)
FindProjectInfo(s) ==
  /\ At(s, "info")
  /\ LET found == FindProjectInfoByID(reqs[s].node, reqs[s].pid)
         denied == Wanted(s) # "" /\ ~IsAtLeast(reqs[s].have, Wanted(s))
     IN  IF found = {} THEN Fail(s, "ErrProjectNotFound")
         ELSE \E f \in found :
                Learn(s, [info |-> <<redactForRole(f.info, reqs[s].have)>>, row |-> <<f.info>>,
                          prog |-> f.add \o (IF denied THEN <<Do("refuse")>> ELSE Rest(s))])
  /\ UNCHANGED <<Kept, Rows, Ids, projectCache, sessionCounts>>

(* The owner needs no member row. *)
FindOwner(s) ==
  /\ At(s, "owner")
  /\ LET found == FindProjectInfoByID(reqs[s].node, reqs[s].pid)
     IN  \/ \E f \in found :
              Learn(s, [row |-> <<f.info>>,
                        prog |-> f.add \o (IF f.info.owner = reqs[s].uid THEN Tail(Rest(s))
                                           ELSE Rest(s))])
         \/ found = {} /\ Fail(s, "ErrProjectNotFound")
  /\ UNCHANGED <<Kept, Rows, Ids, projectCache, sessionCounts>>

(***************************************************************************)
(* Accounts.                                                               *)
(***************************************************************************)
CreateUserInfo(s) ==
  /\ At(s, "createUser")
  /\ IF reqs[s].who \in DOMAIN users
     THEN Fail(s, "ErrUserAlreadyExists") /\ UNCHANGED <<users, fresh>>
     ELSE /\ users' = (reqs[s].who :> [id |-> fresh, pw |-> reqs[s].cred]) @@ users
          /\ fresh' = fresh + 1
          /\ Go(s)
  /\ UNCHANGED <<Kept, projects, members, invites, schemas, docs, tokens, issued, projectCache,
                 sessionCounts>>

IsCorrectPassword(s) ==
  /\ At(s, "password")
  /\ IF reqs[s].who \in DOMAIN users /\ users[reqs[s].who].pw = reqs[s].cred
     THEN Go(s) ELSE Fail(s, "ErrMismatchedPassword")
  /\ UNCHANGED <<Kept, Rows, Ids, projectCache, sessionCounts>>

(* The token names the user, not the account. *)
GenerateToken(s) ==
  /\ At(s, "token")
  /\ tokens' = tokens \cup {reqs[s].who}
  /\ Go(s)
  /\ UNCHANGED <<Kept, Rows, fresh, issued, projectCache, sessionCounts>>

(* The account of that name by now; its projects and memberships stay. *)
DeleteAccountByName(s) ==
  /\ At(s, "deleteUser")
  /\ IF reqs[s].who \in DOMAIN users
     THEN users' = Without(users, reqs[s].who) /\ Go(s)
     ELSE Fail(s, "ErrUserNotFound") /\ UNCHANGED users
  /\ UNCHANGED <<Kept, projects, members, invites, schemas, docs, Ids, projectCache, sessionCounts>>

ChangeUserPassword(s) ==
  /\ At(s, "setPassword")
  /\ IF reqs[s].who \in DOMAIN users
     THEN users' = [users EXCEPT ![reqs[s].who].pw = reqs[s].new] /\ Go(s)
     ELSE Fail(s, "ErrUserNotFound") /\ UNCHANGED users
  /\ UNCHANGED <<Kept, projects, members, invites, schemas, docs, Ids, projectCache, sessionCounts>>

(***************************************************************************)
(* Projects and their caches.                                              *)
(***************************************************************************)
CreateProjectInfo(s) ==
  LET p == [id |-> fresh, name |-> reqs[s].new, owner |-> reqs[s].uid, pub |-> fresh,
            sec |-> fresh, rev |-> 0]
  IN  /\ At(s, "createProject")
      /\ IF \E id \in DOMAIN projects : projects[id].name = reqs[s].new
         THEN Fail(s, "ErrProjectAlreadyExists") /\ UNCHANGED <<projects, issued, fresh>>
         ELSE /\ projects' = (fresh :> p) @@ projects
              /\ issued' = (fresh :> fresh) @@ issued
              /\ fresh' = fresh + 1
              /\ Learn(s, [pid |-> fresh, shown |-> {p}])
      /\ UNCHANGED <<Kept, users, members, invites, schemas, docs, tokens, projectCache,
                     sessionCounts>>

ListOwned(s) ==
  /\ At(s, "listOwned")
  /\ Learn(s, [shown |-> {projects[id] : id \in {i \in DOMAIN projects :
                                               projects[i].owner = reqs[s].uid}}])
  /\ UNCHANGED <<Kept, Rows, Ids, projectCache, sessionCounts>>

(* The memberships and their projects are read apart. *)
ListMemberRows(s) ==
  /\ At(s, "listMemberRows")
  /\ Learn(s, [rows |-> {k[1] : k \in {j \in DOMAIN members : j[2] = reqs[s].uid}}])
  /\ UNCHANGED <<Kept, Rows, Ids, projectCache, sessionCounts>>

ListMemberProjects(s) ==
  LET owned == {p.id : p \in reqs[s].shown}
      found == {projects[id] : id \in (reqs[s].rows \ owned) \cap DOMAIN projects}
  IN  /\ At(s, "listMemberProjects")
      /\ Learn(s, [infos |-> found, prog |-> IF found = {} THEN <<>> ELSE <<Do("listRole")>>])
      /\ UNCHANGED <<Kept, Rows, Ids, projectCache, sessionCounts>>

(* The role is read back for each; a role that is gone is no role. *)
ListRole(s) ==
  /\ At(s, "listRole")
  /\ \E p \in reqs[s].infos :
       LET k == <<p.id, reqs[s].uid>>
           role == IF k \in DOMAIN members THEN members[k] ELSE ""
       IN  Learn(s, [infos |-> reqs[s].infos \ {p},
                     shown |-> reqs[s].shown \cup {redactForRole(p, role)},
                     prog |-> IF reqs[s].infos = {p} THEN <<>> ELSE reqs[s].prog])
  /\ UNCHANGED <<Kept, Rows, Ids, projectCache, sessionCounts>>

Show(s) ==
  /\ At(s, "show")
  /\ Learn(s, [shown |-> {reqs[s].info[1]}])
  /\ UNCHANGED <<Kept, Rows, Ids, projectCache, sessionCounts>>

(* New settings, and a new name if one is asked for. *)
UpdateProjectInfo(s) ==
  LET id == reqs[s].pid
      clash == \E j \in DOMAIN projects \ {id} : projects[j].name = reqs[s].new
      p == [projects[id] EXCEPT !.rev = @ + 1,
                                !.name = IF reqs[s].new = "" THEN @ ELSE reqs[s].new]
  IN  /\ At(s, "update")
      /\ IF clash THEN Fail(s, "ErrProjectAlreadyExists") /\ UNCHANGED projects
         ELSE projects' = [projects EXCEPT ![id] = p] /\ Learn(s, [info |-> <<p>>])
      /\ UNCHANGED <<Kept, users, members, invites, schemas, docs, Ids, projectCache,
                     sessionCounts>>

UncacheProject(s) ==
  /\ \/ At(s, "uncache") /\ Go(s)
     \/ At(s, "peek") /\ Go(s)
  /\ projectCache' = [projectCache EXCEPT ![reqs[s].node] = Remove(@, reqs[s].pid)]
  /\ UNCHANGED <<Kept, Rows, Ids, sessionCounts>>

RotateKeys(s) ==
  LET p == [projects[reqs[s].pid] EXCEPT !.pub = fresh, !.sec = fresh]
  IN  /\ At(s, "rotate")
      /\ projects' = [projects EXCEPT ![reqs[s].pid] = p]
      /\ issued' = (fresh :> reqs[s].pid) @@ issued
      /\ fresh' = fresh + 1
      /\ Learn(s, [info |-> <<p>>])
      /\ UNCHANGED <<Kept, users, members, invites, schemas, docs, tokens, projectCache,
                     sessionCounts>>

(* The servers of the cluster.  When they cannot be read, a listing fails;  *)
(* an invalidation is left out, which is only logged.                      *)
prepareClusterClients(s) ==
  /\ At(s, "nodes")
  /\ \/ Learn(s, [left |-> Nodes])
     \/ IF Head(Rest(s)).op = "invalidate" THEN Learn(s, [prog |-> Tail(Rest(s))])
        ELSE Fail(s, "broadcast channel list")
  /\ UNCHANGED <<Kept, Rows, Ids, projectCache, sessionCounts>>

(* A step that is repeated for each server; the last one ends it. *)
Visited(s, n, learnt) ==
  Learn(s, learnt @@ [left |-> reqs[s].left \ {n},
                      prog |-> IF reqs[s].left = {n} THEN Rest(s) ELSE reqs[s].prog])

(* Each server drops its copy, or is not reached, which is only logged. *)
InvalidateCache(s) ==
  /\ At(s, "invalidate")
  /\ \E n \in reqs[s].left :
       /\ \/ projectCache' = [projectCache EXCEPT ![n] = Remove(@, reqs[s].pid)]
          \/ UNCHANGED projectCache
       /\ Visited(s, n, <<>>)
  /\ UNCHANGED <<Kept, Rows, Ids, sessionCounts>>

(* Thirteen reads at once, any of which fails them all. *)
ReadStats(s) ==
  /\ At(s, "stats")
  /\ Go(s) \/ Fail(s, "collect project stats")
  /\ UNCHANGED <<Kept, Rows, Ids, projectCache, sessionCounts>>

(***************************************************************************)
(* Members and invites.                                                    *)
(***************************************************************************)
FindUserInfoByName(s) ==
  /\ At(s, "findUser")
  /\ IF reqs[s].who \in DOMAIN users THEN Learn(s, [user |-> users[reqs[s].who].id])
     ELSE Fail(s, "ErrUserNotFound")
  /\ UNCHANGED <<Kept, Rows, Ids, projectCache, sessionCounts>>

DeleteMemberInfo(s) ==
  LET k == <<reqs[s].pid, reqs[s].user>>
  IN  /\ At(s, "deleteMember")
      /\ IF k \in DOMAIN members THEN members' = Without(members, k) /\ Go(s)
         ELSE Fail(s, "ErrMemberNotFound") /\ UNCHANGED members
      /\ UNCHANGED <<Kept, users, projects, invites, schemas, docs, Ids, projectCache,
                     sessionCounts>>

UpdateRole(s) ==
  LET k == <<reqs[s].pid, reqs[s].user>>
  IN  /\ At(s, "setRole")
      /\ IF k \in DOMAIN members /\ ValidRole(reqs[s].new)
         THEN members' = [members EXCEPT ![k] = reqs[s].new] /\ Go(s)
         ELSE Fail(s, "ErrMemberNotFound") /\ UNCHANGED members
      /\ UNCHANGED <<Kept, users, projects, invites, schemas, docs, Ids, projectCache,
                     sessionCounts>>

ListMemberInfos(s) ==
  /\ At(s, "memberRows")
  /\ Learn(s, [rows |-> {k[2] : k \in {j \in DOMAIN members : j[1] = reqs[s].pid}}])
  /\ UNCHANGED <<Kept, Rows, Ids, projectCache, sessionCounts>>

FindMemberUsers(s) ==
  /\ \/ At(s, "memberUsers") /\ IF reqs[s].rows \subseteq {users[u].id : u \in DOMAIN users}
                                THEN Go(s) ELSE Fail(s, "ErrUserNotFound")
     \/ At(s, "ownerUser") /\ IF reqs[s].info[1].owner \in {users[u].id : u \in DOMAIN users}
                              THEN Go(s) ELSE Fail(s, "ErrUserNotFound")
  /\ UNCHANGED <<Kept, Rows, Ids, projectCache, sessionCounts>>

(* The token is random; a token that exists is drawn again. *)
CreateInviteInfo(s) ==
  /\ At(s, "createInvite")
  /\ IF ValidRole(reqs[s].new)
     THEN /\ invites' = (fresh :> [project |-> reqs[s].pid, role |-> reqs[s].new,
                                   by |-> reqs[s].uid, expired |-> FALSE]) @@ invites
          /\ fresh' = fresh + 1
          /\ Go(s)
     ELSE Fail(s, "ErrInvalidMemberRole") /\ UNCHANGED <<invites, fresh>>
  /\ UNCHANGED <<Kept, users, projects, members, schemas, docs, tokens, issued, projectCache,
                 sessionCounts>>

FindInvite(s) ==
  /\ At(s, "findInvite")
  /\ \/ \E t \in DOMAIN invites :
          IF invites[t].expired THEN Fail(s, "ErrInviteExpired")
          ELSE Learn(s, [pid |-> invites[t].project, new |-> invites[t].role])
     \/ DOMAIN invites = {} /\ Fail(s, "ErrInviteNotFound")
  /\ UNCHANGED <<Kept, Rows, Ids, projectCache, sessionCounts>>

InviteOwner(s) ==
  /\ At(s, "inviteOwner")
  /\ \E f \in FindProjectInfoByID(reqs[s].node, reqs[s].pid) :
       IF f.info.owner = reqs[s].uid
       THEN Learn(s, [row |-> <<f.info>>, prog |-> f.add \o <<Do("refuse")>>])
       ELSE Learn(s, [row |-> <<f.info>>, prog |-> f.add \o Rest(s)])
  /\ UNCHANGED <<Kept, Rows, Ids, projectCache, sessionCounts>>

(* A member keeps the row it has. *)
UpsertMemberInfo(s) ==
  /\ At(s, "upsertMember")
  /\ members' = members @@ (<<reqs[s].pid, reqs[s].uid>> :> reqs[s].new)
  /\ Go(s)
  /\ UNCHANGED <<Kept, users, projects, invites, schemas, docs, Ids, projectCache, sessionCounts>>

(* The time of an invite passes; housekeeping deletes it later. *)
ExpireInvite(t) ==
  /\ ~invites[t].expired
  /\ invites' = [invites EXCEPT ![t].expired = TRUE]
  /\ UNCHANGED <<Kept, users, projects, members, schemas, docs, Ids, projectCache, sessionCounts,
                 reqs>>

(***************************************************************************)
(* Documents and schemas of the project of the context.                    *)
(***************************************************************************)
InitialActorID == -1

NewDoc(owner) == [owner |-> owner, seq |-> 0, schema |-> "", made |-> 0]

FindOrCreateDocInfo(k, owner) == IF k \in DOMAIN docs THEN docs ELSE (k :> NewDoc(owner)) @@ docs

(* The document of an admin belongs to the owner of the project, and has   *)
(* no change yet.                                                          *)
FindOrCreateOwn(s) ==
  LET owner == reqs[s].info[1].owner
      ds == FindOrCreateDocInfo(reqs[s].key, owner)
  IN  /\ At(s, "findOrCreateDoc")
      /\ docs' = ds
      /\ IF ds[reqs[s].key].owner # owner \/ ds[reqs[s].key].seq # 0
         THEN Fail(s, "ErrDocumentAlreadyExists") ELSE Learn(s, [seq |-> ds[reqs[s].key].seq])
      /\ UNCHANGED <<Kept, users, projects, members, invites, schemas, Ids, projectCache,
                     sessionCounts>>

(* The root becomes the one change of the document, unless the document    *)
(* has moved past the sequence that was read.  An empty root is no change. *)
CompactChangeInfos(s) ==
  LET k == reqs[s].key
      n == IF reqs[s].new = "" THEN 0 ELSE 1
  IN  /\ At(s, "createDoc")
      /\ IF docs[k].seq = reqs[s].seq
         THEN docs' = [docs EXCEPT ![k].seq = n, ![k].made = @ + n] /\ Go(s)
         ELSE Fail(s, "ErrConflictOnUpdate") /\ UNCHANGED docs
      /\ UNCHANGED <<Kept, users, projects, members, invites, schemas, Ids, projectCache,
                     sessionCounts>>

(* Reading a snapshot of a document that is not there makes it. *)
GetDocumentByServerSeq(s) ==
  /\ At(s, "findOrCreateRead")
  /\ docs' = FindOrCreateDocInfo(reqs[s].key, InitialActorID)
  /\ Go(s)
  /\ UNCHANGED <<Kept, users, projects, members, invites, schemas, Ids, projectCache,
                 sessionCounts>>

FindDocInfoByKey(s) ==
  /\ At(s, "findDoc")
  /\ IF reqs[s].key \in DOMAIN docs THEN Go(s) ELSE Fail(s, "ErrDocumentNotFound")
  /\ UNCHANGED <<Kept, Rows, Ids, projectCache, sessionCounts>>

(* The reads whose rows no property is about. *)
Reads == {"findDocs", "attachedClients", "buildDoc", "findChanges", "readSchemas", "revisions"}

ReadRows(s) ==
  /\ \E op \in Reads : At(s, op)
  /\ Go(s)
  /\ UNCHANGED <<Kept, Rows, Ids, projectCache, sessionCounts>>

(* A call of the server that owns the shard of a document or a channel. *)
ShardCall(s) ==
  /\ At(s, "shardCall")
  /\ Go(s) \/ Fail(s, "Unavailable")
  /\ UNCHANGED <<Kept, Rows, Ids, projectCache, sessionCounts>>

(* A revision is looked up by its id, and must be one of the document. *)
FindRevisionInfoByID(s) ==
  /\ At(s, "revision")
  /\ Go(s) \/ Fail(s, "revision not found")
  /\ UNCHANGED <<Kept, Rows, Ids, projectCache, sessionCounts>>

(* A change of a document that is detailed elsewhere. *)
ChangeDocument(s) ==
  /\ At(s, "write") \/ At(s, "restore")
  /\ docs' = [docs EXCEPT ![reqs[s].key].seq = IF @ < MaxSeq THEN @ + 1 ELSE @]
  /\ Go(s)
  /\ UNCHANGED <<Kept, users, projects, members, invites, schemas, Ids, projectCache,
                 sessionCounts>>

(* An SDK client pushes a change. *)
PushChange(k) ==
  /\ docs[k].seq < MaxSeq
  /\ docs' = [docs EXCEPT ![k].seq = @ + 1]
  /\ UNCHANGED <<Kept, users, projects, members, invites, schemas, Ids, projectCache,
                 sessionCounts, reqs>>

CreateSchemaInfo(s) ==
  /\ At(s, "createSchema")
  /\ IF reqs[s].new \in schemas THEN Fail(s, "ErrSchemaAlreadyExists") /\ UNCHANGED schemas
     ELSE schemas' = schemas \cup {reqs[s].new} /\ Go(s)
  /\ UNCHANGED <<Kept, users, projects, members, invites, docs, Ids, projectCache, sessionCounts>>

IsSchemaAttached(s) ==
  /\ At(s, "schemaAttached")
  /\ IF \E k \in DOMAIN docs : docs[k].schema = reqs[s].new
     THEN Fail(s, "schema is being used") ELSE Go(s)
  /\ UNCHANGED <<Kept, Rows, Ids, projectCache, sessionCounts>>

RemoveSchemaInfo(s) ==
  /\ At(s, "removeSchema")
  /\ IF reqs[s].new \in schemas THEN schemas' = schemas \ {reqs[s].new} /\ Go(s)
     ELSE Fail(s, "ErrSchemaNotFound") /\ UNCHANGED schemas
  /\ UNCHANGED <<Kept, users, projects, members, invites, docs, Ids, projectCache, sessionCounts>>

(***************************************************************************)
(* Channels of the cluster.  Keys are ordered; a server lists the first    *)
(* keys it has, with their sessions.                                       *)
(***************************************************************************)
First(f, n) == [k \in {j \in DOMAIN f : Cardinality({i \in DOMAIN f : i < j}) < n} |-> f[k]]

SumOf(f, g) ==
  [k \in DOMAIN f \cup DOMAIN g |-> (IF k \in DOMAIN f THEN f[k] ELSE 0) +
                                   (IF k \in DOMAIN g THEN g[k] ELSE 0)]

(* Sessions of a key are added up; a server that does not answer is left   *)
(* out.                                                                    *)
ListOn(s) ==
  /\ At(s, "list")
  /\ \E n \in reqs[s].left :
       \/ Visited(s, n, [got |-> SumOf(reqs[s].got, First(channels[n], Limit))])
       \/ Visited(s, n, [bad |-> reqs[s].bad \cup {n}])
  /\ UNCHANGED <<Kept, Rows, Ids, projectCache, sessionCounts>>

(* Nothing found is an error only when a server did not answer. *)
BroadcastChannelList(s) ==
  /\ At(s, "merge")
  /\ IF reqs[s].bad # {} /\ reqs[s].got = <<>> THEN Fail(s, "broadcast channel list")
     ELSE Learn(s, [got |-> First(reqs[s].got, Limit)])
  /\ UNCHANGED <<Kept, Rows, Ids, projectCache, sessionCounts>>

(* The first path of a key, which names the shard that has its sessions. *)
FirstPath(k) == k \div 10

groupByFirstPath(keys) == {{k \in keys : FirstPath(k) = FirstPath(j)} : j \in keys}

(* The counts this server has cached are answered from the cache; the      *)
(* others are asked for, one call for each first path.                     *)
CachedCounts(s) ==
  LET cached == sessionCounts[reqs[s].node]
      hits == [k \in reqs[s].keys \cap DOMAIN cached |-> cached[k]]
      groups == groupByFirstPath(reqs[s].keys \ DOMAIN cached)
  IN  /\ At(s, "cachedCounts")
      /\ Learn(s, [got |-> hits, left |-> groups, prog |-> IF groups = {} THEN <<>> ELSE Rest(s)])
      /\ UNCHANGED <<Kept, Rows, Ids, projectCache, sessionCounts>>

(* The calls run together and one that fails fails them all; the counts    *)
(* are cached when all have answered.                                      *)
FanOutCounts(s) ==
  LET Count(k) == LET at == {n \in Nodes : k \in DOMAIN channels[n]}
                  IN  IF at = {} THEN 0 ELSE channels[CHOOSE n \in at : TRUE][k]
      asked == UNION reqs[s].left
      counts == [k \in asked |-> Count(k)]
  IN  /\ At(s, "fanOutCounts")
      /\ \/ /\ sessionCounts' = [sessionCounts EXCEPT ![reqs[s].node] = counts @@ @]
            /\ Learn(s, [got |-> counts @@ reqs[s].got, left |-> {}])
         \/ Fail(s, "Unavailable") /\ UNCHANGED sessionCounts
      /\ UNCHANGED <<Kept, Rows, Ids, projectCache>>

(***************************************************************************)
(* The specification.                                                      *)
(***************************************************************************)
AdminInit ==
  \E a \in Arrangements :
    /\ todo = a.todo /\ users = a.users /\ projects = a.projects /\ members = a.members
    /\ invites = a.invites /\ schemas = a.schemas /\ docs = a.docs /\ tokens = a.tokens
    /\ channels = a.channels /\ fresh = a.fresh
    /\ projectCache = [n \in Nodes |-> EmptyCache]
    /\ fetched = [n \in a.sdk |-> <<>>]
    /\ sessionCounts = [n \in Nodes |-> <<>>]
    /\ reqs = [s \in Slots |-> Idle]
    /\ issued = [k \in {a.projects[id].sec : id \in DOMAIN a.projects} |->
                   CHOOSE id \in DOMAIN a.projects : a.projects[id].sec = k]
    /\ held = [s \in Slots |-> {}]

Step(s) ==
  \/ Refuse(s) \/ GetUserByName(s) \/ ProjectFromSecretKey(s) \/ CacheRow(s)
  \/ FindProjectInfoByName(s) \/ FindMemberInfo(s) \/ FindProjectInfo(s) \/ FindOwner(s)
  \/ CreateUserInfo(s) \/ IsCorrectPassword(s) \/ GenerateToken(s) \/ DeleteAccountByName(s)
  \/ ChangeUserPassword(s) \/ CreateProjectInfo(s) \/ ListOwned(s) \/ ListMemberRows(s)
  \/ ListMemberProjects(s) \/ ListRole(s) \/ Show(s) \/ UpdateProjectInfo(s)
  \/ UncacheProject(s) \/ RotateKeys(s) \/ prepareClusterClients(s) \/ InvalidateCache(s)
  \/ ReadStats(s) \/ FindUserInfoByName(s) \/ DeleteMemberInfo(s) \/ UpdateRole(s)
  \/ ListMemberInfos(s) \/ FindMemberUsers(s) \/ CreateInviteInfo(s) \/ FindInvite(s)
  \/ InviteOwner(s) \/ UpsertMemberInfo(s) \/ FindOrCreateOwn(s) \/ CompactChangeInfos(s)
  \/ GetDocumentByServerSeq(s) \/ FindDocInfoByKey(s) \/ ReadRows(s) \/ ShardCall(s)
  \/ FindRevisionInfoByID(s) \/ ChangeDocument(s) \/ CreateSchemaInfo(s) \/ IsSchemaAttached(s)
  \/ RemoveSchemaInfo(s) \/ ListOn(s) \/ BroadcastChannelList(s) \/ CachedCounts(s)
  \/ FanOutCounts(s)

(* The roles of a user, for the properties. *)
RolesOf(uid, ps, ms) ==
  {<<id, "owner">> : id \in {i \in DOMAIN ps : ps[i].owner = uid}} \cup
  {<<k[1], ms[k]>> : k \in {j \in DOMAIN ms : j[2] = uid}}

Witness ==
  held' = [s \in Slots |-> IF reqs'[s].uid = 0 THEN {}
                           ELSE held[s] \cup RolesOf(reqs'[s].uid, projects', members')]

Serve(s) == (Start(s) \/ Step(s)) /\ Witness
Age(n, id) == Expire(n, id) /\ Witness
Store(n) == n \in DOMAIN fetched /\ CacheFetched(n) /\ Witness

Outside ==
  /\ \/ \E n \in DOMAIN fetched, id \in DOMAIN projects : GetProjectFromAPIKey(n, id)
     \/ \E t \in DOMAIN invites : ExpireInvite(t)
     \/ \E k \in DOMAIN docs : PushChange(k)
  /\ Witness

AdminNext ==
  \/ \E s \in Slots : Serve(s)
  \/ \E n \in Nodes : Store(n) \/ \E id \in ProjectIDs : Age(n, id)
  \/ Outside

(* Handlers run on, an SDK request caches what it read, and the entries of *)
(* the cache have a time to live.                                          *)
AdminFairness ==
  /\ \A s \in Slots : WF_adminVars(Serve(s))
  /\ \A n \in Nodes : WF_adminVars(Store(n)) /\ \A id \in ProjectIDs : WF_adminVars(Age(n, id))

AdminSpec == AdminInit /\ [][AdminNext]_adminVars /\ AdminFairness

(***************************************************************************)
(* Properties.                                                             *)
(***************************************************************************)

(* The request of s was made by one who held the role in its project at    *)
(* some time since it was authenticated, or with a key made for it.        *)
Authorised(s, role) ==
  \/ reqs[s].scheme = "API-Key" /\ reqs[s].cred \in DOMAIN issued /\ issued[reqs[s].cred] = reqs[s].pid
  \/ \E h \in held[s] : h[1] = reqs[s].pid /\ IsAtLeast(h[2], role)

(* The rows of f that a step added, removed or changed. *)
Touched(f, g) ==
  {x \in DOMAIN f \cup DOMAIN g : ~(x \in DOMAIN f /\ x \in DOMAIN g /\ f[x] = g[x])}

(* Every project-scoped procedure is gated on a role, whichever credential *)
(* reached it (docs/design/admin-credentials.md): a step that changes the  *)
(* project, its members, invites, schemas or documents is one of a request *)
(* whose user was an admin of that project while the request ran, or that  *)
(* had a secret key made for it, and it touches no other project.  A user  *)
(* makes projects of its own; accepting an invite adds the member, with a  *)
(* role some invite gives, and never changes a role that was there; reading *)
(* a snapshot, which may make the document, needs a member.                *)
Gated(s) ==
  LET r == reqs[s]
      touchedMembers == Touched(members, members')
  IN  IF r.method = "CreateProject" THEN
        /\ \A id \in Touched(projects, projects') :
             id \notin DOMAIN projects /\ projects'[id].owner = r.uid
        /\ <<members, invites, schemas, docs>>' = <<members, invites, schemas, docs>>
      ELSE IF r.method = "AcceptInvite" THEN
        /\ touchedMembers \subseteq {<<r.pid, r.uid>>} \ DOMAIN members
        /\ \A k \in touchedMembers : \E t \in DOMAIN invites :
             invites[t].project = r.pid /\ invites[t].role = members'[k]
        /\ projects'[r.pid].owner # r.uid
        /\ <<projects, invites, schemas, docs>>' = <<projects, invites, schemas, docs>>
      ELSE
        /\ Authorised(s, IF r.method = "GetSnapshotMeta" THEN "member" ELSE "admin")
        /\ Touched(projects, projects') \subseteq {r.pid}
        /\ \A k \in touchedMembers : k[1] = r.pid
        /\ \A t \in Touched(invites, invites') : invites'[t].project = r.pid

AuthorityHeld ==
  [][\A s \in Slots :
       (/\ reqs'[s] # reqs[s]
        /\ <<projects, members, invites, schemas, docs>>' # <<projects, members, invites, schemas, docs>>)
       => Gated(s)]_adminVars

(* The secret key reaches only callers whose project role already carries  *)
(* the authority the key grants (docs/design/admin-credentials.md), also   *)
(* when the role, the project or the membership changes between the reads  *)
(* of GetProject, ListProjects, UpdateProject or RotateProjectKeys.        *)
SecretKeyForAdmins ==
  \A s \in Slots : reqs[s].uid # 0 =>
    \A p \in reqs[s].shown : p.sec # 0 =>
      \E h \in held[s] : h[1] = p.id /\ IsAtLeast(h[2], "admin")

(* A document is made by at most one CreateDocument with a root, although  *)
(* two of them, and a client that pushes, may find it empty together: the  *)
(* sequence that was read decides (documents.CreateDocument,               *)
(* CompactChangeInfos).                                                    *)
CreatedOnce == \A k \in DOMAIN docs : docs[k].made <= 1 /\ (docs[k].made = 1 => docs[k].seq > 0)

(* A listing of the channels of the cluster has the first keys of the      *)
(* servers that answered, each with all the sessions it has there, although *)
(* every server is asked for no more than the limit; GetChannels answers   *)
(* every key it is asked for.                                              *)
ListingExact ==
  \A s \in Slots : (reqs[s].method \in {"ListChannels", "GetChannels"} /\ reqs[s].prog = <<>>
                    /\ reqs[s].err = "") =>
    LET heard == Nodes \ reqs[s].bad
        keys == UNION {DOMAIN channels[n] : n \in heard}
        Sessions(k) == LET on == {n \in heard : k \in DOMAIN channels[n]}
                       IN  FoldFunctionOnSet(+, 0, [n \in on |-> channels[n][k]], on)
    IN  IF reqs[s].method = "GetChannels" THEN DOMAIN reqs[s].got = reqs[s].keys
        ELSE reqs[s].got = First([k \in keys |-> Sessions(k)], Limit)

(* A change of a project reaches every server: when the changes are over,  *)
(* every copy in a cache is in the end the row, although an invalidation   *)
(* may be lost, and a read may cache the old row after it                  *)
(* (BroadcastCacheInvalidation only logs a failure).                       *)
SettingsReachEveryNode ==
  <>[](\A n \in Nodes : \A id \in DOMAIN projectCache[n].byID :
         projectCache[n].byID[id] = projects[id])
=============================================================================

-------------------------- MODULE DocumentHandlers --------------------------
(***************************************************************************)
(* The handlers that change a document or a client's row, run side by     *)
(* side: AttachDocument, PushPullChanges, DetachDocument and              *)
(* RemoveDocument of the Yorkie service, DetachDocument, CompactDocument, *)
(* PurgeDocument and GetDocument of the cluster service, the admin's      *)
(* UpdateDocument and RemoveDocumentByAdmin, the revisions, the           *)
(* deactivation of a client and the background job that stores a          *)
(* snapshot.                                                              *)
(*                                                                        *)
(* A worker runs one request.  Every lock it takes, every call of the     *)
(* store and every use of the snapshot cache is a step of its own, in the *)
(* handler's order; the locks are those of the code: the document's       *)
(* read-write lock, the client's pull lock and the document's attachment  *)
(* lock.  The push lock is taken and released inside one step (Push).     *)
(*                                                                        *)
(* All requests concern one document key.  Removing its document and      *)
(* attaching again creates the next identifier of Docs.  A change is the  *)
(* pair of the epoch and the sequence it was stored under, and a document *)
(* built from the store is the set of the changes it holds.  Checkpoints, *)
(* resumed attaches and what a pull returns are the subject of PushPull.  *)
(***************************************************************************)
EXTENDS Naturals, FiniteSets, TLC

CONSTANTS
  Clients,         \* the clients, all active at first
  Docs,            \* identifiers for documents of the key, 1 .. n
  Workers,         \* what runs the requests
  Projects,        \* settings of the project, with the requests it gets
  MaxRequests      \* bound: the requests that arrive in all

Server == "server"
AllKinds == {"attach", "sync", "detach", "remove", "deactivate", "compact", "forceCompact",
             "purge", "adminRemove", "forceRemove", "adminRoot", "adminSchema", "restore",
             "revision", "getDocument"}

(* A project: how many clients may attach a document (0 is no limit),      *)
(* whether the last client to leave removes it, the changes between two    *)
(* snapshots; the requests that arrive and the schemas they name (0 is     *)
(* none), how many are served at a time and whether the clients have       *)
(* attached a first document are its workload.                             *)
Project == [limit : Nat, removeOnDetach : BOOLEAN, snapshotInterval : Nat \ {0},
            kinds : SUBSET AllKinds, schemas : SUBSET Nat, atATime : Nat, attached : BOOLEAN]

ASSUME ProjectsKnown == \A p \in Projects : p \in Project
ASSUME DocsNumbered == Docs = 1 .. Cardinality(Docs)

VARIABLES
  project,   \* the settings; they stay as they are
  doc,       \* the rows of the documents
  rows,      \* the rows of the clients
  snapshots, \* the snapshots stored for each document
  cache,     \* Cache.Snapshot: at most one built document each
  work,      \* what each worker is at
  jobs,      \* background jobs not started: the rows the pushes returned
  requests   \* requests begun so far

vars == <<project, doc, rows, snapshots, cache, work, jobs, requests>>

NoDoc == [status |-> "absent", seq |-> 0, epoch |-> 0, schema |-> 0]
NoEntry == [status |-> "none", epoch |-> 0, rules |-> 0]
Blank == [seq |-> 0, content |-> {}]

(* A worker without a request.  d, info: the document and the copy of its  *)
(* row the handler read; entry: the copy of the client's entry; todo: the  *)
(* documents a deactivation has still to detach; built: the document it    *)
(* builds; found: the changes it read; arg: the schema an attach names; writes: the pack has changes.  *)
Idle == [kind |-> "none", pc |-> "idle", c |-> Server, d |-> 1, info |-> NoDoc,
         entry |-> NoEntry, todo |-> {}, built |-> Blank, found |-> {}, arg |-> 0,
         writes |-> FALSE, removes |-> FALSE, holds |-> {}]

Init ==
  /\ project \in Projects
  /\ doc = [d \in Docs |-> IF d = 1 /\ project.attached THEN [NoDoc EXCEPT !.status = "live"]
                            ELSE NoDoc]
  /\ rows = [c \in Clients |-> [active |-> TRUE, docs |-> [d \in Docs |->
               IF d = 1 /\ project.attached THEN [NoEntry EXCEPT !.status = "attached"]
               ELSE NoEntry]]]
  /\ snapshots = [d \in Docs |-> {}]
  /\ cache = [d \in Docs |-> {}]
  /\ work = [w \in Workers |-> Idle]
  /\ jobs = {}
  /\ requests = 0

(***************************************************************************)
(* The store.                                                              *)
(***************************************************************************)
Live == {d \in Docs : doc[d].status = "live"}
Stored(d) == doc[d].status \in {"live", "removed"}
Holders(d, statuses) == {c \in Clients : rows[c].docs[d].status \in statuses}

(* FindAttachedClientInfosByRefKey: activated clients that have attached. *)
Attached(d) == {c \in Holders(d, {"attached"}) : rows[c].active}

(* IsDocumentAttachedOrAttaching, for clients other than c. *)
IsDocumentAttachedOrAttaching(d, c) == Holders(d, {"attached", "attaching"}) \ {c} # {}

(* The changes stored for a document: those of its epoch, 1 .. seq. *)
FindChangesBetweenServerSeqs(d, from, to) ==
  {<<doc[d].epoch, s>> : s \in {t \in 1 .. doc[d].seq : from <= t /\ t <= to}}

(* The newest snapshot at or before a sequence, an empty one if none. *)
FindClosestSnapshotInfo(d, seq) ==
  LET before == {s \in snapshots[d] : s.seq <= seq}
  IN  IF before = {} THEN Blank
      ELSE CHOOSE s \in before : \A t \in before : t.seq <= s.seq

SetStatus(c, d, status) == [rows EXCEPT ![c].docs[d].status = status]

(***************************************************************************)
(* The locks.                                                              *)
(***************************************************************************)
HeldByOther(w, name) == {v \in Workers \ {w} : name \in work[v].holds}

(* sync.RWMutex: a writer that waits keeps new readers out. *)
CanRLock(w) == HeldByOther(w, "write") = {} /\ \A v \in Workers : work[v].pc # "wlock"
CanLock(w) == HeldByOther(w, "write") = {} /\ HeldByOther(w, "read") = {}

CanPullLock(w) == \A v \in HeldByOther(w, "pull") : work[v].c # work[w].c
CanAttachLock(w) == \A v \in HeldByOther(w, "attachment") : work[v].d # work[w].d

(***************************************************************************)
(* Steps of a worker.                                                      *)
(***************************************************************************)
At(w, pc) == work[w].pc = pc
Kind(w) == work[w].kind
Client(w) == work[w].c
Doc(w) == work[w].d

Goto(w, pc) == work' = [work EXCEPT ![w].pc = pc]

(* The request ends and its deferred unlocks run.  A failed detach fails   *)
(* the deactivation it belongs to.                                         *)
Fail(w) ==
  /\ work' = [work EXCEPT ![w] = Idle]
  /\ UNCHANGED <<doc, rows, snapshots, cache, jobs>>

Refuse(w, condition) == condition /\ Fail(w)

(***************************************************************************)
(* A request arrives.                                                      *)
(***************************************************************************)
Free(w) ==
  At(w, "idle") /\ Cardinality({v \in Workers : ~At(v, "idle")}) < project.atATime

Arrive(w, r) ==
  /\ Free(w)
  /\ requests < MaxRequests
  /\ requests' = requests + 1
  /\ work' = [work EXCEPT ![w] = r]
  /\ UNCHANGED <<doc, rows, snapshots, cache, jobs>>

(* The locks a handler takes before its first read, in order: the         *)
(* document's read or write lock, the client's pull lock.                 *)
LockOrder(kind) ==
  CASE kind \in {"attach", "sync", "detach", "remove", "deactivate"} -> <<"rlock", "plock", "client">>
    [] kind \in {"adminRemove", "forceRemove", "adminRoot", "adminSchema", "restore"} -> <<"rlock", "info">>
    [] kind \in {"compact", "forceCompact", "purge"} -> <<"wlock", "info">>
    [] OTHER -> <<"info">>

First(kind) == LockOrder(kind)[1]

After(kind, lock) ==
  LET order == LockOrder(kind)
      i == CHOOSE j \in DOMAIN order : order[j] = lock
  IN  order[i + 1]

(* A client names the document identifier its attach returned. *)
ClientRequest(w, kind, c) ==
  \E d \in Docs, schema \in project.schemas, writes \in BOOLEAN :
    /\ kind = "attach" => d = 1 /\ (Live = {} => \E n \in Docs : doc[n].status = "absent")
    /\ kind # "attach" => schema = 0 /\ rows[c].docs[d].status # "none"
    /\ kind \in {"detach", "remove"} => ~writes
    /\ Arrive(w, [Idle EXCEPT !.kind = kind, !.pc = First(kind), !.c = c, !.d = d, !.arg = schema,
                              !.writes = writes, !.removes = kind = "remove"])

ServerRequest(w, kind) ==
  \E d \in Docs, schema \in project.schemas :
    /\ Stored(d)
    /\ kind # "adminSchema" => schema = 0
    /\ Arrive(w, [Idle EXCEPT !.kind = kind, !.d = d, !.arg = schema,
                              !.pc = First(kind),
                              !.writes = kind \in {"adminRoot", "restore"}])

(* DeactivateClient, or the housekeeping for a client that stays silent:   *)
(* the latter comes back as often as it takes, so no bound counts it.      *)
DeactivateRequest(w, c) ==
  /\ "deactivate" \in project.kinds
  /\ Free(w)
  /\ rows[c].active
  /\ work' = [work EXCEPT ![w] = [Idle EXCEPT !.kind = "deactivate", !.pc = "candidates", !.c = c]]
  /\ UNCHANGED <<doc, rows, snapshots, cache, jobs, requests>>

(***************************************************************************)
(* Locking.                                                                *)
(***************************************************************************)
Takes(w, lock, name) ==
  /\ At(w, lock)
  /\ work' = [work EXCEPT ![w].pc = After(Kind(w), lock), ![w].holds = @ \cup {name}]
  /\ UNCHANGED <<doc, rows, snapshots, cache, jobs>>

LockerWithRLock(w) == CanRLock(w) /\ Takes(w, "rlock", "read")
Locker(w) == CanLock(w) /\ Takes(w, "wlock", "write")
DocPullKey(w) == CanPullLock(w) /\ Takes(w, "plock", "pull")

(* DocAttachmentKey, where the project or the request calls for it. *)
DocAttachmentKey(w, needed) == needed => CanAttachLock(w)
HoldingAttachment(w, needed) == work[w].holds \cup (IF needed THEN {"attachment"} ELSE {})

(***************************************************************************)
(* AttachDocument.                                                         *)
(***************************************************************************)
AttachFind(w) ==
  /\ At(w, "client") /\ Kind(w) = "attach"
  /\ \/ ~rows[Client(w)].active /\ Fail(w)
     \/ /\ rows[Client(w)].active
        /\ LET new == CHOOSE n \in Docs : /\ doc[n].status = "absent"
                                         /\ \A m \in Docs : doc[m].status = "absent" => n <= m
               d == IF Live = {} THEN new ELSE CHOOSE n \in Live : TRUE
           IN  /\ Live = {} => \E n \in Docs : doc[n].status = "absent"
               /\ doc' = IF Live = {} THEN [doc EXCEPT ![d].status = "live"] ELSE doc
               /\ work' = [work EXCEPT ![w].pc = "attaching", ![w].d = d, ![w].info = doc'[d],
                                       ![w].entry = rows[Client(w)].docs[d]]
        /\ UNCHANGED <<rows, snapshots, cache, jobs>>

(* TryAttaching refuses a client deactivated meanwhile. *)
AttachTry(w) ==
  LET c == Client(w)
      r == rows[c]
  IN  /\ At(w, "attaching")
      /\ \/ /\ ~r.active \/ r.docs[Doc(w)].status = "attached"
            /\ Fail(w)
         \/ /\ r.active /\ r.docs[Doc(w)].status # "attached"
            /\ rows' = SetStatus(c, Doc(w), "attaching")
            /\ work' = [work EXCEPT ![w].pc = "count", ![w].entry =
                          [status |-> "attached", epoch |-> work[w].info.epoch,
                           rules |-> work[w].info.schema]]
            /\ UNCHANGED <<doc, snapshots, cache, jobs>>

AttachNeedsLock(w) ==
  project.limit > 0 \/ project.removeOnDetach \/ (work[w].info.schema = 0 /\ work[w].arg # 0)

(* An attach that edits writes the schema it names, even none; one that    *)
(* does not writes it when it names another than the one it read.          *)
CanRebindSchema(w) == work[w].writes \/ work[w].arg \notin {0, work[w].info.schema}

(* Mutant: the attachments are counted without their lock. *)
AttachCountUnlocked(w) ==
  LET d == Doc(w)
  IN  /\ At(w, "count") /\ Kind(w) = "attach"
      /\ \/ project.limit > 0 /\ Cardinality(Attached(d)) >= project.limit /\ Fail(w)
         \/ /\ project.limit > 0 => Cardinality(Attached(d)) < project.limit
            /\ doc' = doc
            /\ work' = [work EXCEPT ![w].pc = "push"]
            /\ UNCHANGED <<rows, snapshots, cache, jobs>>

AttachCount(w) ==
  LET d == Doc(w)
      needed == AttachNeedsLock(w)
      rebinds == needed /\ Attached(d) = {} /\ CanRebindSchema(w)
  IN  /\ At(w, "count") /\ Kind(w) = "attach"
      /\ DocAttachmentKey(w, needed)
      /\ \/ needed /\ project.limit > 0 /\ Cardinality(Attached(d)) >= project.limit /\ Fail(w)
         \/ /\ needed /\ project.limit > 0 => Cardinality(Attached(d)) < project.limit
            /\ doc' = IF rebinds THEN [doc EXCEPT ![d].schema = work[w].arg] ELSE doc
            /\ work' = [work EXCEPT ![w].pc = "push", ![w].holds = HoldingAttachment(w, needed),
                          ![w].entry.rules = IF rebinds THEN work[w].arg ELSE @]
            /\ UNCHANGED <<rows, snapshots, cache, jobs>>

(***************************************************************************)
(* PushPullChanges, DetachDocument, RemoveDocument, and the cluster's     *)
(* DetachDocument that a deactivation calls.                              *)
(***************************************************************************)
Entry(w) == rows[Client(w)].docs[Doc(w)]

SyncFind(w) ==
  /\ At(w, "client") /\ Kind(w) = "sync"
  /\ \/ /\ ~rows[Client(w)].active \/ Entry(w).status # "attached" \/ ~Stored(Doc(w))
        /\ Fail(w)
     \/ /\ rows[Client(w)].active /\ Entry(w).status = "attached" /\ Stored(Doc(w))
        /\ work' = [work EXCEPT ![w].pc = "push", ![w].entry = Entry(w)]
        /\ UNCHANGED <<doc, rows, snapshots, cache, jobs>>

LeaveFind(w) ==
  /\ At(w, "client") /\ Kind(w) \in {"detach", "remove", "deactivate"}
  /\ \/ /\ ~rows[Client(w)].active \/ ~Stored(Doc(w))
        /\ Fail(w)
     \/ /\ rows[Client(w)].active /\ Stored(Doc(w))
        /\ work' = [work EXCEPT ![w].pc = "count", ![w].entry = Entry(w)]
        /\ UNCHANGED <<doc, rows, snapshots, cache, jobs>>

LeaveNeedsLock(w) == project.limit > 0 \/ (project.removeOnDetach /\ Kind(w) # "remove")

(* Mutant: a document other clients have attached is removed too. *)
LeaveRemovesAttached(w) ==
  /\ At(w, "count") /\ Kind(w) \in {"detach", "remove", "deactivate"}
  /\ DocAttachmentKey(w, LeaveNeedsLock(w))
  /\ work' = [work EXCEPT ![w].pc = "push",
                ![w].holds = HoldingAttachment(w, LeaveNeedsLock(w)),
                ![w].removes = \/ Kind(w) = "remove"
                               \/ /\ project.removeOnDetach
                                  /\ Holders(Doc(w), {"attaching"}) \ {Client(w)} = {}]
  /\ UNCHANGED <<doc, rows, snapshots, cache, jobs>>

(* With RemoveOnDetach the last client to leave removes the document. *)
LeaveCount(w) ==
  /\ At(w, "count") /\ Kind(w) \in {"detach", "remove", "deactivate"}
  /\ DocAttachmentKey(w, LeaveNeedsLock(w))
  /\ work' = [work EXCEPT ![w].pc = "push",
                ![w].holds = HoldingAttachment(w, LeaveNeedsLock(w)),
                ![w].removes = \/ Kind(w) = "remove"
                               \/ /\ project.removeOnDetach
                                  /\ ~IsDocumentAttachedOrAttaching(Doc(w), Client(w))]
  /\ UNCHANGED <<doc, rows, snapshots, cache, jobs>>

(***************************************************************************)
(* packs.PushPull: the push, then the row of the client and the            *)
(* background job.                                                         *)
(***************************************************************************)
EpochMismatch(w) ==
  Client(w) # Server /\ work[w].entry.status # "none" /\ work[w].entry.epoch # doc[Doc(w)].epoch

(* Under the push lock: read the row, store the changes, mark a removal. *)
Push(w) ==
  LET d == Doc(w)
      stores == work[w].writes /\ ~EpochMismatch(w)
      after == [doc[d] EXCEPT !.seq = IF stores THEN @ + 1 ELSE @,
                              !.status = IF work[w].removes THEN "removed" ELSE @]
  IN  /\ At(w, "push")
      /\ \/ ~Stored(d) /\ Fail(w)
         \/ /\ Stored(d)
            /\ doc' = [doc EXCEPT ![d] = after]
            /\ work' = [work EXCEPT ![w].pc = "answer", ![w].info = after, ![w].writes = stores]
            /\ UNCHANGED <<rows, snapshots, cache, jobs>>

(* A sync or an attach of an older epoch is refused, a leave goes on; a    *)
(* client can only leave what it has attached or is attaching.             *)
PullRefuses(w) ==
  \/ Kind(w) \in {"attach", "sync"} /\ EpochMismatch(w)
  \/ Kind(w) \in {"detach", "remove", "deactivate"} /\ work[w].entry.status \notin {"attached", "attaching"}

RowsAfterPull(w) ==
  CASE Kind(w) = "attach" -> [rows EXCEPT ![Client(w)].docs[Doc(w)] = work[w].entry]
    [] Kind(w) \in {"detach", "remove", "deactivate"} ->
         SetStatus(Client(w), Doc(w), IF work[w].removes THEN "removed" ELSE "detached")
    [] OTHER -> rows

(* storeSnapshot returns at once before the first interval is full: no job *)
(* is kept for it.                                                         *)
Spawned(w) ==
  IF (work[w].writes \/ work[w].removes) /\ work[w].info.seq >= project.snapshotInterval
  THEN jobs \cup {[d |-> Doc(w), seq |-> work[w].info.seq]} ELSE jobs

(* The handler returns and its unlocks run; a deactivation goes on with    *)
(* the next document.                                                      *)
Return(w) ==
  IF Kind(w) = "deactivate"
  THEN [Idle EXCEPT !.kind = "deactivate", !.pc = "detach", !.c = Client(w),
                    !.todo = work[w].todo \ {Doc(w)}]
  ELSE Idle

Pull(w) ==
  /\ At(w, "answer")
  /\ \/ PullRefuses(w) /\ Fail(w)
     \/ /\ ~PullRefuses(w)
        /\ rows' = RowsAfterPull(w)
        /\ jobs' = Spawned(w)
        /\ work' = [work EXCEPT ![w] = Return(w)]
        /\ UNCHANGED <<doc, snapshots, cache>>

(***************************************************************************)
(* clients.Deactivate.                                                     *)
(***************************************************************************)
DeactivateFind(w) ==
  LET c == Client(w)
      ids == {d \in Docs : rows[c].docs[d].status \in {"attached", "attaching"}}
  IN  /\ At(w, "candidates")
      /\ \/ /\ ~rows[c].active \/ \E d \in ids : ~Stored(d)
            /\ Fail(w)
         \/ /\ rows[c].active /\ \A d \in ids : Stored(d)
            /\ work' = [work EXCEPT ![w].pc = "detach", ![w].todo = ids]
            /\ UNCHANGED <<doc, rows, snapshots, cache, jobs>>

(* The cluster's DetachDocument pushes a change that clears the presence. *)
DeactivateDetach(w) ==
  /\ At(w, "detach")
  /\ \E d \in work[w].todo :
       work' = [work EXCEPT ![w].pc = First("deactivate"), ![w].d = d, ![w].writes = TRUE]
  /\ UNCHANGED <<doc, rows, snapshots, cache, jobs>>

(* The store deactivates only a client that holds no document. *)
DeactivateClient(w) ==
  LET c == Client(w)
      free == rows[c].active /\ \A d \in Docs : rows[c].docs[d].status \notin {"attached", "attaching"}
  IN  /\ At(w, "detach") /\ work[w].todo = {}
      /\ \/ ~free /\ Fail(w)
         \/ /\ free
            /\ rows' = [rows EXCEPT ![c].active = FALSE]
            /\ work' = [work EXCEPT ![w] = Idle]
            /\ UNCHANGED <<doc, snapshots, cache, jobs>>

(***************************************************************************)
(* BuildInternalDocForServerSeq, for the row in info: the cached document  *)
(* unless it is newer, else the closest snapshot; then the changes; then   *)
(* the result goes into the cache.                                         *)
(***************************************************************************)
BuildBase(w) ==
  LET usable == {b \in cache[Doc(w)] : b.seq <= work[w].info.seq}
      base == IF usable # {} THEN CHOOSE b \in usable : TRUE
              ELSE FindClosestSnapshotInfo(Doc(w), work[w].info.seq)
  IN  /\ At(w, "base")
      /\ work' = [work EXCEPT ![w].pc = "changes", ![w].built = base]
      /\ UNCHANGED <<doc, rows, snapshots, cache, jobs>>

BuildChanges(w) ==
  /\ At(w, "changes")
  /\ work' = [work EXCEPT ![w].pc = "cache", ![w].built =
                [seq |-> work[w].info.seq,
                 content |-> @.content \cup FindChangesBetweenServerSeqs(
                                Doc(w), @.seq + 1, work[w].info.seq)]]
  /\ UNCHANGED <<doc, rows, snapshots, cache, jobs>>

AfterBuild(kind) ==
  CASE kind \in {"compact", "forceCompact"} -> "invalidate"
    [] kind \in {"adminRoot", "restore"} -> "push"
    [] OTHER -> "done"

BuildCache(w) ==
  /\ At(w, "cache")
  /\ cache' = [cache EXCEPT ![Doc(w)] = {work[w].built}]
  /\ Goto(w, AfterBuild(Kind(w)))
  /\ UNCHANGED <<doc, rows, snapshots, jobs>>

(***************************************************************************)
(* Reading a document without its lock: GetDocument of the cluster, the    *)
(* summaries of the admin, CreateRevision.                                 *)
(***************************************************************************)
ReadsRow(w, kind) ==
  /\ At(w, "info") /\ Kind(w) = kind
  /\ \/ ~Stored(Doc(w)) /\ Fail(w)
     \/ /\ Stored(Doc(w))
        /\ work' = [work EXCEPT ![w].pc = "base", ![w].info = doc[Doc(w)]]
        /\ UNCHANGED <<doc, rows, snapshots, cache, jobs>>

GetDocument(w) == ReadsRow(w, "getDocument")
CreateRevision(w) == ReadsRow(w, "revision")

(* The summary, or the revision stored from the document, is returned. *)
ReadDone(w) ==
  /\ At(w, "done")
  /\ work' = [work EXCEPT ![w] = Idle]
  /\ UNCHANGED <<doc, rows, snapshots, cache, jobs>>

(***************************************************************************)
(* Compact and Purge, under the document's write lock.                     *)
(***************************************************************************)
CompactFind(w) ==
  LET d == Doc(w)
      refused == \/ ~Stored(d)
                 \/ Kind(w) = "compact" /\ IsDocumentAttachedOrAttaching(d, Server)
  IN  /\ At(w, "info") /\ Kind(w) \in {"compact", "forceCompact"}
      /\ \/ refused /\ Fail(w)
         \/ /\ ~refused
            /\ work' = [work EXCEPT ![w].pc = "base", ![w].info = doc[d]]
            /\ UNCHANGED <<doc, rows, snapshots, cache, jobs>>

CompactInvalidate(w) ==
  /\ At(w, "invalidate")
  /\ cache' = [cache EXCEPT ![Doc(w)] = {}]
  /\ Goto(w, "compact")
  /\ UNCHANGED <<doc, rows, snapshots, jobs>>

(* CompactChangeInfos claims the sequence the handler read. *)
CompactChangeInfos(w) ==
  LET d == Doc(w)
  IN  /\ At(w, "compact")
      /\ \/ doc[d].seq # work[w].info.seq /\ Fail(w)
         \/ /\ doc[d].seq = work[w].info.seq
            /\ doc' = [doc EXCEPT ![d].seq = 1, ![d].epoch = @ + 1]
            /\ snapshots' = [snapshots EXCEPT ![d] = {}]
            /\ work' = [work EXCEPT ![w] = Idle]
            /\ UNCHANGED <<rows, cache, jobs>>

Purge(w) ==
  LET d == Doc(w)
      purges == doc[d].status = "removed"
  IN  /\ At(w, "info") /\ Kind(w) = "purge"
      /\ cache' = [cache EXCEPT ![d] = {}]
      /\ doc' = IF purges THEN [doc EXCEPT ![d].status = "purged"] ELSE doc
      /\ snapshots' = IF purges THEN [snapshots EXCEPT ![d] = {}] ELSE snapshots
      /\ work' = [work EXCEPT ![w] = Idle]
      /\ UNCHANGED <<rows, jobs>>

(***************************************************************************)
(* The admin's UpdateDocument and RemoveDocumentByAdmin, and               *)
(* RestoreRevision, under the document's read lock.                        *)
(***************************************************************************)
(* The document is found, or the request fails. *)
Finds(w, found, next) ==
  \/ found = {} /\ Fail(w)
  \/ \E d \in found :
       /\ work' = [work EXCEPT ![w].pc = next, ![w].d = d, ![w].info = doc[d]]
       /\ UNCHANGED <<doc, rows, snapshots, cache, jobs>>

(* UpdateDocument finds the document by its key; a new root is pushed on   *)
(* top of the document built, a new schema needs the clients counted.      *)
UpdateDocumentFind(w) ==
  /\ At(w, "info") /\ Kind(w) \in {"adminRoot", "adminSchema"}
  /\ Finds(w, Live, IF Kind(w) = "adminRoot" THEN "base" ELSE "count")

(* The clients are counted under the attachment lock. *)
UpdateDocumentCount(w) ==
  /\ At(w, "count") /\ Kind(w) = "adminSchema"
  /\ CanAttachLock(w)
  /\ \/ Attached(Doc(w)) # {} /\ Fail(w)
     \/ /\ Attached(Doc(w)) = {}
        /\ work' = [work EXCEPT ![w].pc = "mark", ![w].holds = @ \cup {"attachment"}]
        /\ UNCHANGED <<doc, rows, snapshots, cache, jobs>>

UpdateDocInfoSchema(w) ==
  /\ At(w, "mark") /\ Kind(w) = "adminSchema"
  /\ doc' = [doc EXCEPT ![Doc(w)].schema = work[w].arg]
  /\ work' = [work EXCEPT ![w] = Idle]
  /\ UNCHANGED <<rows, snapshots, cache, jobs>>

RemoveDocumentFind(w) ==
  /\ At(w, "info") /\ Kind(w) \in {"adminRemove", "forceRemove"}
  /\ Finds(w, Live, IF Kind(w) = "forceRemove" THEN "mark" ELSE "count")

(* Whether a client has the document is asked without the attachment lock. *)
RemoveDocumentCheck(w) ==
  /\ At(w, "count") /\ Kind(w) = "adminRemove"
  /\ \/ IsDocumentAttachedOrAttaching(Doc(w), Server) /\ Fail(w)
     \/ /\ ~IsDocumentAttachedOrAttaching(Doc(w), Server)
        /\ Goto(w, "mark")
        /\ UNCHANGED <<doc, rows, snapshots, cache, jobs>>

UpdateDocInfoStatusToRemoved(w) ==
  /\ At(w, "mark") /\ Kind(w) \in {"adminRemove", "forceRemove"}
  /\ doc' = [doc EXCEPT ![Doc(w)].status = "removed"]
  /\ work' = [work EXCEPT ![w] = Idle]
  /\ UNCHANGED <<rows, snapshots, cache, jobs>>

(* A restore names its document by the identifier; the revision's content  *)
(* is pushed on top of the document built.                                 *)
Restore(w) ==
  /\ At(w, "info") /\ Kind(w) = "restore"
  /\ Finds(w, {d \in {Doc(w)} : Stored(d)}, "base")

(***************************************************************************)
(* storeSnapshot, in the background, for the row a push returned.          *)
(***************************************************************************)
StartJob(w) ==
  /\ At(w, "idle")
  /\ \E j \in jobs :
       /\ jobs' = jobs \ {j}
       /\ work' = [work EXCEPT ![w] = [Idle EXCEPT !.kind = "snapshot", !.pc = "closest",
                                       !.d = j.d, !.info.seq = j.seq]]
  /\ UNCHANGED <<doc, rows, snapshots, cache>>

(* Another snapshot of the document in progress, or an interval that is    *)
(* not full, ends the job.                                                 *)
SnapshotClosest(w) ==
  LET base == FindClosestSnapshotInfo(Doc(w), work[w].info.seq)
      ends == \/ HeldByOther(w, "snapshot") # {}
              \/ work[w].info.seq - base.seq < project.snapshotInterval
  IN  /\ At(w, "closest")
      /\ \/ ends /\ Fail(w)
         \/ /\ ~ends
            /\ work' = [work EXCEPT ![w].pc = "between", ![w].built = base, ![w].holds = {"snapshot"}]
            /\ UNCHANGED <<doc, rows, snapshots, cache, jobs>>

SnapshotChanges(w) ==
  /\ At(w, "between")
  /\ work' = [work EXCEPT ![w].pc = "fetch", ![w].found =
                FindChangesBetweenServerSeqs(Doc(w), work[w].built.seq + 1, work[w].info.seq)]
  /\ UNCHANGED <<doc, rows, snapshots, cache, jobs>>

(* A snapshot that has gone meanwhile is read as an empty one. *)
SnapshotFetch(w) ==
  LET same == {s \in snapshots[Doc(w)] : s.seq = work[w].built.seq}
      base == IF same = {} THEN Blank ELSE CHOOSE s \in same : TRUE
  IN  /\ At(w, "fetch")
      /\ work' = [work EXCEPT ![w].pc = "store", ![w].built =
                    [seq |-> work[w].info.seq, content |-> base.content \cup work[w].found]]
      /\ UNCHANGED <<doc, rows, snapshots, cache, jobs>>

(* CreateSnapshotInfo: sequences are unique in a document. *)
SnapshotStore(w) ==
  LET d == Doc(w)
  IN  /\ At(w, "store")
      /\ snapshots' = IF \E s \in snapshots[d] : s.seq = work[w].built.seq THEN snapshots
                      ELSE [snapshots EXCEPT ![d] = @ \cup {work[w].built}]
      /\ work' = [work EXCEPT ![w] = Idle]
      /\ UNCHANGED <<doc, rows, cache, jobs>>

(***************************************************************************)
(* The whole.                                                              *)
(***************************************************************************)
Handle(w) ==
  \/ LockerWithRLock(w) \/ Locker(w) \/ DocPullKey(w)
  \/ AttachFind(w) \/ AttachTry(w) \/ AttachCount(w)
  \/ SyncFind(w) \/ LeaveFind(w) \/ LeaveCount(w) \/ Push(w) \/ Pull(w)
  \/ DeactivateFind(w) \/ DeactivateDetach(w) \/ DeactivateClient(w)
  \/ BuildBase(w) \/ BuildChanges(w) \/ BuildCache(w) \/ GetDocument(w) \/ CreateRevision(w) \/ ReadDone(w)
  \/ CompactFind(w) \/ CompactInvalidate(w) \/ CompactChangeInfos(w) \/ Purge(w)
  \/ UpdateDocumentFind(w) \/ UpdateDocumentCount(w) \/ UpdateDocInfoSchema(w)
  \/ RemoveDocumentFind(w) \/ RemoveDocumentCheck(w) \/ UpdateDocInfoStatusToRemoved(w) \/ Restore(w)
  \/ SnapshotClosest(w) \/ SnapshotChanges(w) \/ SnapshotFetch(w) \/ SnapshotStore(w)
  \/ StartJob(w)

Step(w) == Handle(w) /\ UNCHANGED requests

ClientKinds == project.kinds \cap {"attach", "sync", "detach", "remove"}
ServerKinds == project.kinds \ ({"deactivate"} \cup ClientKinds)

Request(w) ==
  \/ \E c \in Clients, kind \in ClientKinds : ClientRequest(w, kind, c)
  \/ \E kind \in ServerKinds : ServerRequest(w, kind)

Next ==
  /\ UNCHANGED project
  /\ \E w \in Workers :
       \/ Request(w)
       \/ \E c \in Clients : DeactivateRequest(w, c)
       \/ Step(w)

Spec == Init /\ [][Next]_vars

(* The workers go on whenever they can.  A mutex of sync serves a waiting  *)
(* goroutine in the end, and a writer that waits keeps new readers out, so *)
(* a lock that is free again and again is got.  The housekeeping comes     *)
(* back for a client that stays active.                                    *)
Fairness ==
  /\ \A w \in Workers : SF_vars(Step(w) /\ UNCHANGED project)
  /\ \A c \in Clients : SF_vars(\E w \in Workers : DeactivateRequest(w, c) /\ UNCHANGED project)

FairSpec == Spec /\ Fairness

(***************************************************************************)
(* Properties.                                                             *)
(***************************************************************************)
TypeOK ==
  /\ project \in Projects
  /\ \A d \in Docs : /\ doc[d].status \in {"absent", "live", "removed", "purged"}
                     /\ doc[d].seq \in Nat /\ doc[d].epoch \in Nat
                     /\ Cardinality(cache[d]) <= 1
  /\ \A c \in Clients, d \in Docs :
       rows[c].docs[d].status \in {"none", "attaching", "attached", "detached", "removed"}
  /\ \A w \in Workers : work[w].holds \subseteq {"read", "write", "pull", "attachment", "snapshot"}
  /\ requests \in 0 .. MaxRequests

(* The lock a worker waits for is taken. *)
Blocked(w) ==
  \/ At(w, "rlock") /\ ~CanRLock(w)
  \/ At(w, "wlock") /\ ~CanLock(w)
  \/ At(w, "plock") /\ ~CanPullLock(w)
  \/ /\ At(w, "count") /\ ~CanAttachLock(w)
     /\ CASE Kind(w) = "attach" -> AttachNeedsLock(w)
          [] Kind(w) \in {"detach", "remove", "deactivate"} -> LeaveNeedsLock(w)
          [] OTHER -> Kind(w) = "adminSchema"

(* The handlers never all wait for locks the others hold: the order in     *)
(* which each takes the document, pull and attachment locks, with a        *)
(* compaction waiting between two readers, leaves one that can go on.      *)
NotStuck ==
  (\E w \in Workers : ~At(w, "idle")) => \E w \in Workers : ~At(w, "idle") /\ ~Blocked(w)

(* No more clients have a document attached than the project allows,       *)
(* although an attach counts them long before it becomes one of them.      *)
LimitKept ==
  project.limit > 0 => \A d \in Docs : Cardinality(Attached(d)) <= project.limit

(* A compaction that is not forced never leaves a client attached to the   *)
(* epoch before: a client is attached to its document's epoch.             *)
CompactedAlone ==
  "forceCompact" \notin project.kinds =>
    \A c \in Clients, d \in Docs :
      rows[c].docs[d].status = "attached" => rows[c].docs[d].epoch = doc[d].epoch

(* A deactivated client holds no document, and none is being attached to   *)
(* it: whatever an attach that began before did.                           *)
DeactivatedHoldsNothing ==
  \A c \in Clients : ~rows[c].active =>
    \A d \in Docs : rows[c].docs[d].status \notin {"attached", "attaching"}

(* A detach removes a document only while no other client has it attached: *)
(* the check and the removal are two calls, and others attach in between.  *)
RemovedByLast ==
  [][\A d \in Docs, w \in Workers :
      (/\ doc[d].status = "live" /\ doc'[d].status = "removed"
       /\ At(w, "push") /\ work'[w].pc = "answer" /\ Doc(w) = d
       /\ Kind(w) \in {"detach", "deactivate"})
      => Attached(d) \subseteq {Client(w)}]_vars

(* What a document of this epoch holds at a sequence. *)
Whole(d, seq) == {<<doc[d].epoch, s>> : s \in 1 .. seq}

(* Everything a later build may start from, a stored snapshot or the       *)
(* cached document, holds the changes of the document's epoch up to its    *)
(* sequence, whoever built it beside the pushes.                           *)
BasesFit ==
  \A d \in Docs : Stored(d) =>
    \A b \in snapshots[d] \cup cache[d] : b.seq <= doc[d].seq => b.content = Whole(d, b.seq)

(* An attached client checks its edits against the document's schema. *)
AttachedFollowSchema ==
  \A d \in Docs : \A c \in Attached(d) : rows[c].docs[d].rules = doc[d].schema

(* A client that has gone silent is deactivated in the end, whatever its   *)
(* last requests left behind: an attach that failed half way, a document   *)
(* removed or compacted under it, a detach that was in progress.           *)
AllDeactivated == \A c \in Clients : ~rows[c].active
SilentDeactivated == []<>AllDeactivated
=============================================================================

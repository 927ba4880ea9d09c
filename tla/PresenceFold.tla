---------------------------- MODULE PresenceFold ----------------------------
(***************************************************************************)
(* Presence patches: a client sends only the keys of its presence that    *)
(* changed, and the server that takes the push folds each patch into a    *)
(* put of the whole presence, from a base it caches per client.           *)
(*                                                                        *)
(* One client and one document, and several servers, each with its cache  *)
(* of bases and its cached copy of the client's row.  A request goes to   *)
(* any server, since shards move; the client may stop waiting for it and  *)
(* send the next, to another server, while the first is still served.  A  *)
(* handler's reads and writes of the store are steps of their own; on one *)
(* server the pull lock makes the requests of the client take turns.      *)
(*                                                                        *)
(* Every change also carries, for the property only, the presence its     *)
(* sender held after making it (held).  What the other parts of PushPull  *)
(* do is the subject of PushPull; how the client SDK of another language  *)
(* makes patches is taken from the protocol the server implements.        *)
(***************************************************************************)
EXTENDS Integers, Sequences, FiniteSets, TLC
LOCAL INSTANCE SequencesExt
LOCAL INSTANCE FiniteSetsExt

CONSTANTS
  Servers,
  Writes,          \* what the client writes in turn: [set : key -> value, removed : keys]
  Overhead,        \* presenceEntryOverhead
  MaxBaseSize,     \* maxPresenceBaseSize
  BroadcastsFail,  \* an invalidation may not reach a server
  LateRequests,    \* the client may attach anew while an old request is served
  Budgets          \* bounds: how often each thing may happen, one of them per behaviour

VARIABLES
  doc,        \* the document's row: [seq, epoch]
  row,        \* the client's entry for the document, as the store has it
  rowCache,   \* each server's copy of it, if any
  bases,      \* each server's Cache.PresenceBase for this client, if any
  job,        \* what each server is at, under the client's pull lock
  wire,       \* requests no server has begun
  stored,     \* the presence changes stored for the client
  client,     \* the client and its Document
  left        \* what is left of the bounds

foldVars == <<doc, row, rowCache, bases, job, wire, stored, client, left>>

NoData == <<>>
None == [type |-> "none", data |-> NoData, removed |-> {}]
Put(data) == [type |-> "put", data |-> data, removed |-> {}]
Clear == [type |-> "clear", data |-> NoData, removed |-> {}]
Patch(w) == [type |-> "patch", data |-> w.set, removed |-> w.removed]
ApplyTo(pc, base) == pc.data @@ [k \in DOMAIN base \ pc.removed |-> base[k]]

PresenceSize(data) == MapThenSumSet(LAMBDA k : Overhead + data[k], DOMAIN data)

NoEntry == [status |-> "detached", sseq |-> 0, cseq |-> 0, epoch |-> 0]
Checkpoint(info) == <<info.sseq, info.cseq>>
InitialCheckpoint == <<0, 0>>
IsAttached(info) == info.status = "attached"

(* pushed, seq, cseq and epoch are what pushPack returns. *)
Resting == [pc |-> "idle", id |-> 0, kind |-> "sync", sseq |-> 0, changes |-> <<>>, info |-> NoEntry,
            base |-> {}, pushed |-> <<>>, seq |-> 0, cseq |-> 0, epoch |-> 0, todo |-> {},
            answer |-> "ok"]

FoldInit ==
  /\ doc = [seq |-> 0, epoch |-> 0] /\ row = NoEntry
  /\ rowCache = [s \in Servers |-> {}] /\ bases = [s \in Servers |-> {}]
  /\ job = [s \in Servers |-> Resting] /\ wire = {} /\ stored = {} /\ left \in Budgets
  /\ client = [session |-> 0, attached |-> FALSE, held |-> NoData, pending |-> <<>>, sseq |-> 0,
               cseq |-> 0, waits |-> 0, kind |-> "sync", requests |-> 0]

Spend(what) == left[what] > 0 /\ left' = [left EXCEPT ![what] = @ - 1]

(***************************************************************************)
(* The client.                                                             *)
(***************************************************************************)
Made(pc, held) == [session |-> client.session, cseq |-> client.cseq + Len(client.pending) + 1,
                   pc |-> pc, held |-> held]

Write ==
  LET w == Writes[left.writes]
      held == ApplyTo(Patch(w), client.held)
  IN /\ client.attached /\ client.waits = 0 /\ Spend("writes")
     /\ client' = [client EXCEPT !.held = held, !.pending = Append(@, Made(Patch(w), held))]
     /\ UNCHANGED <<doc, row, rowCache, bases, job, wire, stored>>

Send(kind, changes) ==
  /\ Spend(kind)
  /\ wire' = wire \cup {[id |-> client.requests + 1, kind |-> kind, sseq |-> client.sseq,
                         changes |-> changes]}
  /\ UNCHANGED <<doc, row, rowCache, bases, job, stored>>

Requested(c, kind) == [c EXCEPT !.waits = client.requests + 1, !.kind = kind, !.requests = @ + 1]

Sync(kind) ==
  /\ client.attached /\ client.waits = 0
  /\ Send(kind, client.pending)
  /\ client' = Requested(client, kind)

(* The Document of a new attachment numbers its changes from 1 and starts  *)
(* with a put of its initial presence.                                     *)
Attach ==
  /\ ~client.attached /\ client.waits = 0
  /\ LateRequests \/ (wire = {} /\ \A s \in Servers : job[s].pc = "idle")
  /\ LET first == [session |-> client.session + 1, cseq |-> 1, pc |-> Put(NoData), held |-> NoData]
         fresh == [client EXCEPT !.session = @ + 1, !.attached = TRUE, !.held = NoData, !.sseq = 0,
                                 !.cseq = 0, !.pending = <<first>>]
     IN /\ wire' = wire \cup {[id |-> client.requests + 1, kind |-> "attach", sseq |-> 0,
                               changes |-> <<first>>]}
        /\ client' = Requested(fresh, "attach")
  /\ Spend("attach")
  /\ UNCHANGED <<doc, row, rowCache, bases, job, stored>>

(* A detach first clears the presence. *)
Detach ==
  /\ client.attached /\ client.waits = 0
  /\ LET gone == [client EXCEPT !.held = NoData, !.pending = Append(@, Made(Clear, NoData))]
     IN Send("detach", gone.pending) /\ client' = Requested(gone, "detach")

(* The client stops waiting, and the request goes on.  A Document whose    *)
(* attach or detach went unanswered may be let go.                         *)
GiveUp ==
  /\ client.waits # 0 /\ Spend("timeouts")
  /\ \E still \in CASE client.kind = "attach" -> {FALSE}
                     [] client.kind = "detach" -> BOOLEAN
                     [] OTHER -> {TRUE} :
       client' = [client EXCEPT !.waits = 0, !.attached = still]
  /\ UNCHANGED <<doc, row, rowCache, bases, job, wire, stored>>

AsPut(ch) == IF ch.pc.type = "patch" THEN [ch EXCEPT !.pc = Put(ch.held)] ELSE ch

(* What the client makes of an answer, if it still waits for it: changes   *)
(* the server has are dropped, and after ErrPresenceBaseUnavailable the    *)
(* patches become puts.                                                    *)
Answered(c, id, answer, sseq, cseq) ==
  IF c.waits # id THEN c
  ELSE [c EXCEPT !.waits = 0,
          !.attached = IF answer = "ok" THEN c.kind # "detach" ELSE c.kind # "attach",
          !.sseq = IF answer = "ok" /\ sseq > @ THEN sseq ELSE @,
          !.cseq = IF answer = "ok" /\ cseq > @ THEN cseq ELSE @,
          !.pending = CASE answer = "ok" -> SelectSeq(@, LAMBDA ch : ch.cseq > cseq)
                        [] answer = "nobase" -> [i \in DOMAIN @ |-> AsPut(c.pending[i])]
                        [] OTHER -> @]

(***************************************************************************)
(* The fold.                                                               *)
(***************************************************************************)
Pushables(changes, cseq) == SelectSeq(changes, LAMBDA ch : ch.cseq > cseq)

(* validateClientSeqContinuity *)
Continuous(changes, cseq) ==
  LET new == Pushables(changes, cseq) IN \A i \in DOMAIN new : new[i].cseq = cseq + i

(* Mutant: a base is used whatever checkpoint it was cached at. *)
BaseForAny(s, info) ==
  IF Checkpoint(info) = InitialCheckpoint THEN {}
  ELSE {e.data : e \in {b \in bases[s] : b.epoch = info.epoch}}

(* The cached base, when it was cached at the client's checkpoint. *)
BaseFor(s, info) ==
  IF Checkpoint(info) = InitialCheckpoint THEN {}
  ELSE {e.data : e \in {b \in bases[s] : /\ b.cp = Checkpoint(info)
                                         /\ b.epoch = info.epoch}}

LastReset(new) ==
  LET resets == {i \in DOMAIN new : new[i].pc.type \in {"put", "clear"}}
  IN IF resets = {} THEN 0 ELSE Max(resets)

(* One change of the walk: a = [base, done, failed]. *)
FoldOne(a, ch, resetLater) ==
  LET next == {d \in {ApplyTo(ch.pc, b) : b \in a.base} : PresenceSize(d) <= MaxBaseSize}
      kept(pc) == Append(a.done, [ch EXCEPT !.pc = pc])
  IN CASE ch.pc.type = "none" -> [a EXCEPT !.done = kept(None)]
       [] ch.pc.type = "put" -> [a EXCEPT !.done = kept(ch.pc), !.base = {ch.pc.data}]
       [] ch.pc.type = "clear" -> [a EXCEPT !.done = kept(Clear), !.base = {}]
       [] ch.pc.type = "patch" /\ next # {} ->
            [a EXCEPT !.done = kept(Put(CHOOSE d \in next : TRUE)), !.base = next]
       [] ch.pc.type = "patch" /\ next = {} ->
            [a EXCEPT !.done = kept(None), !.base = {}, !.failed = @ \/ ~resetLater]

(* foldPresencePatches *)
FoldPresencePatches(new, base) ==
  LET reset == LastReset(new)
  IN FoldLeft(LAMBDA a, i : FoldOne(a, new[i], i < reset),
              [base |-> base, done |-> <<>>, failed |-> FALSE], [i \in DOMAIN new |-> i])

(***************************************************************************)
(* The handlers, at a server.                                              *)
(***************************************************************************)
(* FindClientInfoByRefKey: the cached copy, or the store's, cached. *)
Found(s) == IF rowCache[s] # {} THEN CHOOSE i \in rowCache[s] : TRUE ELSE row

(* TryAttaching and AttachDocument: the row as the store gets it, and the  *)
(* entry the handler goes on with.                                         *)
Attaching == [row EXCEPT !.status = "attaching", !.sseq = 0, !.cseq = 0]
AttachDocument(sseq, cseq) ==
  [status |-> "attached", epoch |-> doc.epoch, sseq |-> sseq,
   cseq |-> IF sseq = 0 THEN 0 ELSE cseq]

(* The checkpoint of the reply: push-only echoes the request's, and so     *)
(* does a detach of a compacted document.                                  *)
Replied(j) ==
  IF j.kind = "pushonly" \/ j.info.epoch # j.epoch THEN j.sseq ELSE j.seq

(* InvalidateCachedClient is deferred by an attach and called by a detach  *)
(* that went through.                                                      *)
Started(r, info) ==
  [Resting EXCEPT !.pc = "push", !.id = r.id, !.kind = r.kind, !.sseq = r.sseq, !.info = info]

(* The handler is over: the pull lock is released and the client answered. *)
Finish(s, j, answer) ==
  /\ job' = [job EXCEPT ![s] = Resting]
  /\ client' = Answered(client, j.id, answer, Replied(j), j.cseq)

Invalidating(s, j, answer) ==
  /\ job' = [job EXCEPT ![s] = [j EXCEPT !.pc = "invalidate", !.answer = answer, !.todo = Servers]]
  /\ UNCHANGED client

Fail(s, j, answer) ==
  IF j.kind = "attach" THEN Invalidating(s, j, answer) ELSE Finish(s, j, answer)

(* PushPull up to the fold, with the client's entry info. *)
StartPush(s, r, info) ==
  IF ~Continuous(r.changes, info.cseq) THEN Fail(s, Started(r, info), "error")
  ELSE \E f \in {FoldPresencePatches(Pushables(r.changes, info.cseq), BaseFor(s, info))} :
         IF f.failed THEN Fail(s, Started(r, info), "nobase")
         ELSE /\ job' = [job EXCEPT ![s] = [Started(r, info) EXCEPT !.changes = f.done,
                                                                  !.base = BaseFor(s, info)]]
              /\ UNCHANGED client

(* The handler takes the pull lock and reads the client's row; an attach   *)
(* is refused when the store has the document attached.                    *)
Begin(s, r) ==
  /\ job[s].pc = "idle" /\ r \in wire
  /\ wire' = wire \ {r}
  /\ IF r.kind = "attach" /\ ~IsAttached(row)
     THEN /\ row' = Attaching /\ rowCache' = [rowCache EXCEPT ![s] = {row'}]
          /\ StartPush(s, r, AttachDocument(r.sseq, 0))
     ELSE /\ rowCache' = [rowCache EXCEPT ![s] = {Found(s)}] /\ UNCHANGED row
          /\ IF r.kind = "attach" \/ (r.kind # "detach" /\ ~IsAttached(Found(s)))
             THEN Finish(s, Started(r, NoEntry), "error")
             ELSE StartPush(s, r, Found(s))
  /\ UNCHANGED <<doc, bases, stored, left>>

(* pushPack: what is left of the pack is stored, unless the document was   *)
(* compacted since the client attached it.                                 *)
Push(s) ==
  LET j == job[s]
      stale == j.info.epoch # doc.epoch
      new == IF stale THEN <<>> ELSE j.changes
  IN /\ j.pc = "push"
     /\ IF new # <<>> /\ j.sseq > doc.seq THEN Fail(s, j, "error") /\ UNCHANGED <<doc, stored>>
        ELSE /\ job' = [job EXCEPT ![s] =
                   [j EXCEPT !.pc = "pull", !.pushed = new, !.seq = doc.seq + Len(new),
                             !.cseq = IF new = <<>> THEN j.info.cseq ELSE Last(new).cseq,
                             !.epoch = doc.epoch]]
             /\ doc' = [doc EXCEPT !.seq = @ + Len(new)]
             /\ stored' = stored \cup {new[i] : i \in DOMAIN new}
             /\ UNCHANGED client
     /\ UNCHANGED <<row, rowCache, bases, wire, left>>

(* UpdateDocStatus: the entry after the pull. *)
Updated(j) ==
  IF j.kind = "detach" THEN [j.info EXCEPT !.status = "detached", !.sseq = 0, !.cseq = 0]
  ELSE [j.info EXCEPT !.cseq = j.cseq, !.sseq = Replied(j)]

(* UpdateClientInfoAfterPushPull: the store keeps the larger sequences. *)
Merged(info) ==
  IF ~IsAttached(info) THEN [row EXCEPT !.status = info.status, !.sseq = 0, !.cseq = 0]
  ELSE [info EXCEPT !.sseq = Max({info.sseq, row.sseq}), !.cseq = Max({info.cseq, row.cseq})]

NothingNew(s, info) ==
  \E i \in rowCache[s] : i.sseq >= info.sseq /\ i.cseq >= info.cseq /\ i.status = info.status
                           /\ i.epoch = info.epoch

(* pullPack *)
Pull(s) ==
  LET j == job[s]
      mismatch == j.kind # "pushonly" /\ j.info.epoch # j.epoch
      ahead == j.kind # "pushonly" /\ ~mismatch /\ j.seq - Len(j.pushed) < j.sseq
      refused == \/ mismatch /\ j.kind # "detach"
                 \/ ahead
                 \/ j.kind = "detach" /\ j.info.status = "detached"
      next == [j EXCEPT !.pc = "commit", !.info = Updated(j)]
  IN /\ j.pc = "pull"
     /\ IF refused THEN Fail(s, j, "error") /\ UNCHANGED <<row, rowCache>>
        ELSE /\ job' = [job EXCEPT ![s] = next] /\ UNCHANGED client
             /\ IF NothingNew(s, next.info) THEN UNCHANGED <<row, rowCache>>
                ELSE row' = Merged(next.info) /\ rowCache' = [rowCache EXCEPT ![s] = {row'}]
     /\ UNCHANGED <<doc, bases, wire, stored, left>>

PresenceAfter(base, pushed) ==
  FoldLeft(LAMBDA b, ch : CASE ch.pc.type = "put" -> {ch.pc.data}
                            [] ch.pc.type = "clear" -> {}
                            [] OTHER -> b, base, pushed)

(* What commit caches for the client as the store has it. *)
Kept(info, cseq, data) ==
  IF ~IsAttached(info) \/ Checkpoint(info) = InitialCheckpoint \/ info.cseq # cseq THEN {}
  ELSE {[cp |-> Checkpoint(info), epoch |-> info.epoch, data |-> d] :
          d \in {x \in data : PresenceSize(x) <= MaxBaseSize}}

(* presenceFold.commit.  A pull without base and changes has nothing to    *)
(* commit.                                                                 *)
Commit(s) ==
  LET j == job[s]
      data == PresenceAfter(j.base, j.pushed)
      idle == j.base = {} /\ j.changes = <<>>
  IN /\ j.pc = "commit"
     /\ bases' = IF idle THEN bases
                 ELSE [bases EXCEPT ![s] = Kept(Found(s), j.cseq, data)]
     /\ rowCache' = IF idle \/ data = {} THEN rowCache ELSE [rowCache EXCEPT ![s] = {Found(s)}]
     /\ IF j.kind \in {"attach", "detach"} THEN Invalidating(s, j, "ok") ELSE Finish(s, j, "ok")
     /\ UNCHANGED <<doc, row, wire, stored, left>>

(* InvalidateCachedClient: every server in turn drops its copy of the row. *)
Invalidate(s, t) ==
  LET j == job[s]
  IN /\ j.pc = "invalidate" /\ t \in j.todo
     /\ IF j.todo = {t} THEN Finish(s, j, j.answer)
        ELSE job' = [job EXCEPT ![s].todo = @ \ {t}] /\ UNCHANGED client
     /\ \E reached \in IF BroadcastsFail THEN BOOLEAN ELSE {TRUE} :
          rowCache' = [rowCache EXCEPT ![t] = IF reached THEN {} ELSE @]
     /\ UNCHANGED <<doc, row, bases, wire, stored, left>>

(***************************************************************************)
(* The surroundings.                                                       *)
(***************************************************************************)
OthersPush ==
  /\ Spend("others")
  /\ doc' = [doc EXCEPT !.seq = @ + 1]
  /\ UNCHANGED <<row, rowCache, bases, job, wire, stored, client>>

(* A forced compaction numbers the document's changes anew. *)
Compact ==
  /\ doc.seq > 0 /\ Spend("compactions")
  /\ doc' = [seq |-> 1, epoch |-> doc.epoch + 1]
  /\ UNCHANGED <<row, rowCache, bases, job, wire, stored, client>>

Evict(s) ==
  /\ Spend("losses")
  /\ \/ bases[s] # {} /\ bases' = [bases EXCEPT ![s] = {}] /\ UNCHANGED rowCache
     \/ rowCache[s] # {} /\ rowCache' = [rowCache EXCEPT ![s] = {}] /\ UNCHANGED bases
  /\ UNCHANGED <<doc, row, job, wire, stored, client>>

Restart(s) ==
  /\ Spend("losses")
  /\ bases' = [bases EXCEPT ![s] = {}] /\ rowCache' = [rowCache EXCEPT ![s] = {}]
  /\ job' = [job EXCEPT ![s] = Resting]
  /\ UNCHANGED <<doc, row, wire, stored, client>>

FoldNext ==
  \/ Write \/ Sync("sync") \/ Sync("pushonly") \/ Attach \/ Detach \/ GiveUp
  \/ \E s \in Servers : \/ \E r \in wire : Begin(s, r)
                        \/ Push(s) \/ Pull(s) \/ Commit(s)
                        \/ \E t \in Servers : Invalidate(s, t)
                        \/ Evict(s) \/ Restart(s)
  \/ OthersPush \/ Compact

(* The server never stores a presence its sender did not hold: whatever    *)
(* server a patch reaches, and whatever base that server has, what is      *)
(* stored for the change is the presence the client had after making it,   *)
(* or nothing when a later change of the pack replaces it                  *)
(* (foldPresencePatches, presenceFold.commit).                             *)
StoredAsHeld ==
  \A ch \in stored : /\ ch.pc.type # "patch"
                     /\ ch.pc.type = "put" => ch.pc.data = ch.held

FoldSpec == FoldInit /\ [][FoldNext]_foldVars
=============================================================================

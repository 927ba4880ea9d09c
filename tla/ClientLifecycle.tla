-------------------------- MODULE ClientLifecycle --------------------------
(***************************************************************************)
(* The Go client (client/client.go, client/attachment.go): activation and  *)
(* deactivation, attachments of one key, the sync loop, and the watch      *)
(* pipeline of an attachment with its stream reader and its pump.          *)
(*                                                                         *)
(* A goroutine's step is what happens between two points at which another  *)
(* one can get in the way: a lock, an atomic field, a request, or a send   *)
(* on the document's event channel, which has room for one event.  The     *)
(* requests fail or succeed as the server likes; what they carry is left   *)
(* out, except for the number of the last change that was pulled.          *)
(***************************************************************************)
EXTENDS Naturals, Sequences, FiniteSets

CONSTANTS
  Threads,         \* goroutines of the application
  Docs,            \* documents and channels of one key
  ClientSettings,  \* what the goroutines do, and what may go wrong
  MaxAttachments   \* the bound on the attachments made

VARIABLES
  app,             \* the setting, chosen at the start
  status,          \* the status of the client
  generation,      \* the number of activations
  lifecycleMu,     \* the goroutine that holds the lock
  attaching,       \* whether an attach of the key is in flight
  attachments,     \* the attachment registered for the key; 0 if none
  atts,            \* the attachments made
  docs,            \* the documents
  routines,        \* the goroutines: the application's and the sync loop
  remote           \* the changes of others on the server

vars == <<app, status, generation, lifecycleMu, attaching, attachments, atts, docs, routines, remote>>

Loop == "loop"
Free == "free"
Routines == Threads \cup {Loop}

NewAttachment == [doc |-> 0, gen |-> 0, mode |-> "manual", syncMu |-> Free,
                  canceled |-> FALSE, pump |-> FALSE, stopped |-> FALSE, handshake |-> FALSE,
                  reader |-> "none", changeEventReceived |-> FALSE, told |-> 0]
NewDoc == [status |-> "detached", online |-> FALSE, events |-> 0, eventsMu |-> Free, pulled |-> 0]
NewRoutine == [pc |-> "idle", next |-> 1, att |-> 0, gen |-> 0, send |-> 0, then |-> "", todo |-> {},
               pending |-> FALSE, removed |-> FALSE, version |-> 0, closing |-> FALSE]

(* The client is fresh, or it is activated and the first document has been *)
(* attached in real time.                                                  *)
Init ==
  /\ app \in ClientSettings
  /\ status = IF app.attached THEN "activated" ELSE "deactivated"
  /\ generation = IF app.attached THEN 1 ELSE 0
  /\ lifecycleMu = Free
  /\ attaching = FALSE
  /\ attachments = IF app.attached THEN 1 ELSE 0
  /\ atts = IF app.attached
       THEN <<[NewAttachment EXCEPT !.doc = 1, !.gen = 1, !.mode = "realtime", !.pump = TRUE, !.reader = "open"]>>
       ELSE <<>>
  /\ docs = [d \in Docs |-> IF d = 1 /\ app.attached
       THEN [NewDoc EXCEPT !.status = "attached", !.online = TRUE] ELSE NewDoc]
  /\ routines = [t \in Routines |-> IF t = Loop /\ ~app.attached
       THEN [NewRoutine EXCEPT !.pc = "off"] ELSE NewRoutine]
  /\ remote = 0

At(t, pc) == routines[t].pc = pc
Op(t) == app.ops[t][routines[t].next]
Calls(t, name) == At(t, "idle") /\ t # Loop /\ routines[t].next <= Len(app.ops[t]) /\ Op(t).name = name

Goto(t, pc) == routines' = [routines EXCEPT ![t].pc = pc]

(* The call returns, or the loop goes on. *)
Returned(t) == [NewRoutine EXCEPT !.next = routines[t].next + (IF t = Loop THEN 0 ELSE 1)]
Return(t) == routines' = [routines EXCEPT ![t] = Returned(t)]

lifecycle == <<status, generation, lifecycleMu>>
registry == <<attaching, attachments>>

(***************************************************************************)
(* Activate.                                                               *)
(***************************************************************************)
Activate(t) ==
  /\ Calls(t, "activate")
  /\ IF status = "deactivating" THEN Return(t) ELSE Goto(t, "activate")
  /\ UNCHANGED <<app, lifecycle, registry, atts, docs, remote>>

ActivateLock(t) ==
  /\ At(t, "activate") /\ lifecycleMu = Free
  /\ IF status = "deactivated"
     THEN lifecycleMu' = t /\ Goto(t, "activateClient")
     ELSE lifecycleMu' = Free /\ Return(t)
  /\ UNCHANGED <<app, status, generation, registry, atts, docs, remote>>

(* The request fails, or the generation is raised before the status is     *)
(* set.                                                                    *)
ActivateClient(t) ==
  /\ At(t, "activateClient")
  /\ \/ /\ app.fails /\ lifecycleMu' = Free /\ Return(t) /\ UNCHANGED generation
     \/ /\ generation' = generation + 1 /\ Goto(t, "activated") /\ UNCHANGED lifecycleMu
  /\ UNCHANGED <<app, status, registry, atts, docs, remote>>

(* The status is set, the sync loop runs and the lock is released. *)
runSyncLoop(t) ==
  /\ At(t, "activated")
  /\ status' = "activated"
  /\ lifecycleMu' = Free
  /\ routines' = [routines EXCEPT ![t] = Returned(t), ![Loop] = NewRoutine]
  /\ UNCHANGED <<app, generation, registry, atts, docs, remote>>

(***************************************************************************)
(* Retiring a pipeline: stopWatchPipeline, called with the lock of the     *)
(* attachment or before the attachment was published.                      *)
(***************************************************************************)

(* The context of the attachment ends, then the pump when no reader is     *)
(* left.  A second call finds it done.                                     *)
closeWatchStream(t) ==
  LET a == routines[t].att
  IN  /\ At(t, "stop")
      /\ atts' = [atts EXCEPT ![a].canceled = TRUE]
      /\ Goto(t, "stopping")
      /\ UNCHANGED <<app, lifecycle, registry, docs, remote>>

stopWatchPipeline(t) ==
  LET a == routines[t].att
  IN  /\ At(t, "stopping")
      /\ atts[a].stopped \/ (atts[a].reader = "none" /\ ~atts[a].handshake)
      /\ atts' = [atts EXCEPT ![a].pump = FALSE, ![a].stopped = TRUE]
      /\ Goto(t, routines[t].then)
      /\ UNCHANGED <<app, lifecycle, registry, docs, remote>>

Stopping(r, a, then) == [r EXCEPT !.pc = "stop", !.att = a, !.then = then]

(***************************************************************************)
(* Deactivate and Close.                                                   *)
(***************************************************************************)
Deactivate(t) ==
  /\ Calls(t, "deactivate") \/ Calls(t, "close")
  /\ routines' = [routines EXCEPT ![t].pc = "deactivate"]
  /\ UNCHANGED <<app, lifecycle, registry, atts, docs, remote>>

DeactivateLock(t) ==
  /\ At(t, "deactivate") /\ lifecycleMu = Free
  /\ IF status = "deactivated"
     THEN lifecycleMu' = Free /\ Return(t)
     ELSE lifecycleMu' = t /\ Goto(t, "stopLoop")
  /\ UNCHANGED <<app, status, generation, registry, atts, docs, remote>>

(* beginDeactivation: the sync loop is waited for. *)
stopSyncLoop(t) ==
  /\ At(t, "stopLoop") /\ routines[Loop].pc \in {"idle", "off"}
  /\ routines' = [routines EXCEPT ![t].pc = "leave", ![Loop] = [NewRoutine EXCEPT !.pc = "off"]]
  /\ UNCHANGED <<app, lifecycle, registry, atts, docs, remote>>

(* The status is left under attachingMu. *)
beginDeactivation(t) ==
  /\ At(t, "leave")
  /\ status' = "deactivating"
  /\ Goto(t, "values")
  /\ UNCHANGED <<app, generation, lifecycleMu, registry, atts, docs, remote>>

(* Every attachment registered by now is retired under its lock. *)
WalkAttachments(t) ==
  /\ At(t, "values")
  /\ routines' = [routines EXCEPT ![t].pc = "retire", ![t].att = attachments]
  /\ UNCHANGED <<app, lifecycle, registry, atts, docs, remote>>

Retire(t) ==
  LET a == routines[t].att
  IN  /\ At(t, "retire")
      /\ IF a = 0 THEN Goto(t, "deactivateClient") /\ UNCHANGED atts
         ELSE /\ atts[a].syncMu = Free
              /\ atts' = [atts EXCEPT ![a].syncMu = t]
              /\ routines' = [routines EXCEPT ![t] = Stopping(@, a, "retired")]
      /\ UNCHANGED <<app, lifecycle, registry, docs, remote>>

Retired(t) ==
  /\ At(t, "retired")
  /\ atts' = [atts EXCEPT ![routines[t].att].syncMu = Free]
  /\ Goto(t, "deactivateClient")
  /\ UNCHANGED <<app, lifecycle, registry, docs, remote>>

dropAttachments ==
  /\ docs' = [d \in Docs |-> IF attachments # 0 /\ atts[attachments].doc = d /\ docs[d].status # "removed"
                             THEN [docs[d] EXCEPT !.status = "detached"] ELSE docs[d]]
  /\ attachments' = 0

(* The request ends the session, or fails: then the client stays as it is, *)
(* unless it is being closed, which finishes without the server.           *)
DeactivateClient(t) ==
  /\ At(t, "deactivateClient")
  /\ \/ /\ dropAttachments
        /\ status' = "deactivated" /\ lifecycleMu' = Free
        /\ Return(t)
     \/ /\ app.fails /\ ~routines[t].closing
        /\ lifecycleMu' = Free
        /\ IF Op(t).name = "close"
           THEN routines' = [routines EXCEPT ![t].pc = "deactivate", ![t].closing = TRUE]
           ELSE Return(t)
        /\ UNCHANGED <<status, docs, attachments>>
  /\ UNCHANGED <<app, generation, attaching, atts, remote>>

(***************************************************************************)
(* Attach.                                                                 *)
(***************************************************************************)
Attach(t) ==
  /\ Calls(t, "attach")
  /\ IF status # "activated" THEN Return(t) ELSE Goto(t, "attach")
  /\ UNCHANGED <<app, lifecycle, registry, atts, docs, remote>>

(* The generation is read after the status. *)
AttachGeneration(t) ==
  /\ At(t, "attach")
  /\ IF docs[Op(t).doc].status # "detached" THEN Return(t)
     ELSE routines' = [routines EXCEPT ![t].pc = "mark", ![t].gen = generation]
  /\ UNCHANGED <<app, lifecycle, registry, atts, docs, remote>>

(* A stale attachment of the key is dropped and then retired. *)
markAttaching(t) ==
  LET stale == attachments # 0 /\ docs[atts[attachments].doc].status # "attached"
  IN  /\ At(t, "mark")
      /\ IF attaching \/ (attachments # 0 /\ ~stale)
         THEN Return(t) /\ UNCHANGED registry
         ELSE /\ attaching' = TRUE
              /\ attachments' = 0
              /\ routines' = [routines EXCEPT ![t].att = attachments,
                                              ![t].pc = IF stale THEN "stale" ELSE "attachRpc"]
      /\ UNCHANGED <<app, lifecycle, atts, docs, remote>>

RetireStale(t) ==
  LET a == routines[t].att
  IN  /\ At(t, "stale") /\ atts[a].syncMu = Free
      /\ atts' = [atts EXCEPT ![a].syncMu = t]
      /\ routines' = [routines EXCEPT ![t] = Stopping(@, a, "staleRetired")]
      /\ UNCHANGED <<app, lifecycle, registry, docs, remote>>

StaleRetired(t) ==
  /\ At(t, "staleRetired")
  /\ atts' = [atts EXCEPT ![routines[t].att].syncMu = Free]
  /\ Goto(t, "attachRpc")
  /\ UNCHANGED <<app, lifecycle, registry, docs, remote>>

(* An event is published for a peer that is known to be online. *)
Events(d) == IF docs[d].online THEN 0 .. 2 ELSE {0}

(* The request; the pipeline of a realtime attachment runs before the pack *)
(* is applied.                                                             *)
attachDocument(t) ==
  LET d == Op(t).doc
  IN  /\ At(t, "attachRpc") /\ d \notin app.channels
      /\ \/ app.fails /\ attaching' = FALSE /\ Return(t) /\ UNCHANGED atts
         \/ /\ atts' = Append(atts, [NewAttachment EXCEPT !.doc = d, !.gen = routines[t].gen,
                                       !.mode = Op(t).mode, !.pump = Op(t).mode = "realtime"])
            /\ \E n \in Events(d), removed \in app.removes :
                 routines' = [routines EXCEPT ![t].pc = "apply", ![t].att = Len(atts) + 1,
                                ![t].send = n, ![t].removed = removed, ![t].version = remote,
                                ![t].then = "attached"]
            /\ UNCHANGED attaching
      /\ UNCHANGED <<app, lifecycle, attachments, docs, remote>>

(* A channel has no pump; it is attached once the request succeeded. *)
attachChannel(t) ==
  LET d == Op(t).doc
  IN  /\ At(t, "attachRpc") /\ d \in app.channels
      /\ \/ app.fails /\ attaching' = FALSE /\ Return(t) /\ UNCHANGED <<atts, docs>>
         \/ /\ atts' = Append(atts, [NewAttachment EXCEPT !.doc = d, !.gen = routines[t].gen,
                                       !.mode = Op(t).mode])
            /\ docs' = [docs EXCEPT ![d].status = "attached"]
            /\ routines' = [routines EXCEPT ![t].pc = "register", ![t].att = Len(atts) + 1]
            /\ UNCHANGED attaching
      /\ UNCHANGED <<app, lifecycle, attachments, remote>>

(* The pack was applied.  Only now is the document attached; a removed one *)
(* is not.                                                                 *)
AttachApplied(t) ==
  LET a == routines[t].att
      d == atts[a].doc
  IN  /\ At(t, "attached")
      /\ IF docs[d].status = "removed"
         THEN /\ routines' = [routines EXCEPT ![t] = Stopping(@, a, "endAttach")]
              /\ UNCHANGED <<atts, docs>>
         ELSE /\ docs' = [docs EXCEPT ![d].status = "attached"]
              /\ atts' = [atts EXCEPT ![a].handshake = atts[a].mode = "realtime"]
              /\ Goto(t, "register")
      /\ UNCHANGED <<app, lifecycle, registry, remote>>

(* Mutant: the generation is not compared. *)
registerAttachmentAnyGeneration(t) ==
  LET a == routines[t].att
  IN  /\ At(t, "register")
      /\ IF status # "activated"
         THEN /\ atts' = [atts EXCEPT ![a].handshake = FALSE]
              /\ routines' = [routines EXCEPT ![t] = Stopping(@, a, "undoAttach")]
              /\ UNCHANGED attachments
         ELSE /\ attachments' = a
              /\ Goto(t, IF atts[a].pump THEN "watch" ELSE "endAttach")
              /\ UNCHANGED atts
      /\ UNCHANGED <<app, lifecycle, attaching, docs, remote>>

(* The status and the generation are compared and the attachment is        *)
(* published under one lock.                                               *)
registerAttachment(t) ==
  LET a == routines[t].att
  IN  /\ At(t, "register")
      /\ IF status # "activated" \/ generation # routines[t].gen
         THEN /\ atts' = [atts EXCEPT ![a].handshake = FALSE]
              /\ routines' = [routines EXCEPT ![t] = Stopping(@, a, "undoAttach")]
              /\ UNCHANGED attachments
         ELSE /\ attachments' = a
              /\ Goto(t, IF atts[a].pump THEN "watch" ELSE "endAttach")
              /\ UNCHANGED atts
      /\ UNCHANGED <<app, lifecycle, attaching, docs, remote>>

UndoAttach(t) ==
  /\ At(t, "undoAttach")
  /\ docs' = [docs EXCEPT ![atts[routines[t].att].doc].status = "detached"]
  /\ Goto(t, "endAttach")
  /\ UNCHANGED <<app, lifecycle, registry, atts, remote>>

(* The first handshake of the watch stream, which counts as a reader: it   *)
(* tells who is online and leaves a reader, or fails.                      *)
runWatchLoop(t) ==
  LET a == routines[t].att
  IN  /\ At(t, "watch")
      /\ \/ /\ ~atts[a].canceled
            /\ atts' = [atts EXCEPT ![a].handshake = FALSE, ![a].reader = "open"]
            /\ docs' = [docs EXCEPT ![atts[a].doc].online = TRUE]
         \/ /\ app.fails \/ atts[a].canceled
            /\ atts' = [atts EXCEPT ![a].handshake = FALSE]
            /\ UNCHANGED docs
      /\ Goto(t, "endAttach")
      /\ UNCHANGED <<app, lifecycle, registry, remote>>

endAttach(t) ==
  /\ At(t, "endAttach")
  /\ attaching' = FALSE
  /\ Return(t)
  /\ UNCHANGED <<app, lifecycle, attachments, atts, docs, remote>>

(***************************************************************************)
(* Applying a pack: ApplyChangePack holds eventsMu and sends its events on *)
(* a channel with room for one.                                            *)
(***************************************************************************)
ApplyChangePack(t) ==
  LET d == atts[routines[t].att].doc
  IN  /\ At(t, "apply") /\ docs[d].eventsMu = Free
      /\ docs' = [docs EXCEPT ![d].eventsMu = t, ![d].pulled = routines[t].version,
                              ![d].status = IF routines[t].removed THEN "removed" ELSE @]
      /\ Goto(t, "publish")
      /\ UNCHANGED <<app, lifecycle, registry, atts, remote>>

publish(t) ==
  LET d == atts[routines[t].att].doc
  IN  /\ At(t, "publish")
      /\ \/ /\ routines[t].send > 0 /\ docs[d].events = 0
            /\ docs' = [docs EXCEPT ![d].events = 1]
            /\ routines' = [routines EXCEPT ![t].send = @ - 1]
         \/ /\ routines[t].send = 0
            /\ docs' = [docs EXCEPT ![d].eventsMu = Free]
            /\ Goto(t, routines[t].then)
      /\ UNCHANGED <<app, lifecycle, registry, atts, remote>>

(***************************************************************************)
(* Detach, Remove, Sync and the sync loop: calls on a live attachment.     *)
(***************************************************************************)
Detach(t) ==
  /\ Calls(t, "detach") \/ Calls(t, "remove")
  /\ IF status # "activated" \/ attachments = 0 \/ atts[attachments].doc # Op(t).doc THEN Return(t)
     ELSE routines' = [routines EXCEPT ![t].pc = "lock", ![t].att = attachments, ![t].then = Op(t).name]
  /\ UNCHANGED <<app, lifecycle, registry, atts, docs, remote>>

Sync(t) ==
  /\ Calls(t, "sync")
  /\ IF attachments = 0 THEN Return(t)
     ELSE routines' = [routines EXCEPT ![t].pc = "lock", ![t].att = attachments, ![t].then = "sync"]
  /\ UNCHANGED <<app, lifecycle, registry, atts, docs, remote>>

(* Mutant: a change that was announced does not start a sync. *)
needSyncDeaf(a) ==
  /\ atts[a].syncMu = Free
  /\ atts[a].mode = "realtime"
  /\ atts[a].doc \in app.channels

(* A document with a change to pull, or a channel whose heartbeat is due.  *)
needSync(a) ==
  /\ atts[a].syncMu = Free
  /\ atts[a].mode = "realtime"
  /\ atts[a].doc \in app.channels \/ atts[a].changeEventReceived

(* A round of the sync loop, which works on a snapshot of the attachments. *)
SyncLoop ==
  /\ At(Loop, "idle") /\ attachments # 0 /\ needSync(attachments)
  /\ routines' = [routines EXCEPT ![Loop].pc = "lock", ![Loop].att = attachments, ![Loop].then = "sync"]
  /\ UNCHANGED <<app, lifecycle, registry, atts, docs, remote>>

(* The status and the registration are read under the lock. *)
lockLiveAttachment(t) ==
  LET a == routines[t].att
  IN  /\ At(t, "lock") /\ atts[a].syncMu = Free
      /\ IF status = "activated" /\ attachments = a
         THEN /\ atts' = [atts EXCEPT ![a].syncMu = t]
              /\ Goto(t, IF routines[t].then = "sync" THEN "swap" ELSE "request")
         ELSE Return(t) /\ UNCHANGED atts
      /\ UNCHANGED <<app, lifecycle, registry, docs, remote>>

(* The reader's flag is cleared before the request; a push-only sync       *)
(* leaves it.                                                              *)
syncInternal(t) ==
  LET a == routines[t].att
      pull == t = Loop \/ ~Op(t).pushOnly
  IN  /\ At(t, "swap")
      /\ routines' = [routines EXCEPT ![t].pc = "request",
                        ![t].pending = pull /\ atts[a].changeEventReceived]
      /\ atts' = IF pull THEN [atts EXCEPT ![a].changeEventReceived = FALSE] ELSE atts
      /\ UNCHANGED <<app, lifecycle, registry, docs, remote>>

Acknowledges(t) == routines[t].then = "sync" /\ t # Loop /\ Op(t).pushOnly

(* The request is answered: its pack holds what others changed so far.     *)
(* The reply to a push-only request is only an acknowledgement, and that   *)
(* of a channel a count.                                                   *)
Answered(t) ==
  LET a == routines[t].att
      d == atts[a].doc
  IN  /\ At(t, "request")
      /\ IF Acknowledges(t) \/ d \in app.channels
         THEN Goto(t, routines[t].then)
         ELSE \E n \in Events(d), removed \in app.removes :
                routines' = [routines EXCEPT ![t].pc = "apply", ![t].send = n,
                  ![t].version = remote, ![t].removed = removed \/ routines[t].then = "remove"]
      /\ UNCHANGED <<app, lifecycle, registry, atts, docs, remote>>

(* The request fails: a change that was pending is pending again. *)
Failed(t) ==
  LET a == routines[t].att
  IN  /\ At(t, "request") /\ app.fails
      /\ atts' = [atts EXCEPT ![a].syncMu = Free,
                              ![a].changeEventReceived = @ \/ routines[t].pending]
      /\ Return(t)
      /\ UNCHANGED <<app, lifecycle, registry, docs, remote>>

(* The pack was applied.  A document that is gone leaves the registry, and *)
(* its pipeline is retired under the lock that is still held.              *)
Applied(t) ==
  LET a == routines[t].att
      d == atts[a].doc
      gone == routines[t].then = "detach" \/ docs[d].status = "removed"
  IN  /\ routines[t].pc \in {"detach", "remove", "sync"}
      /\ docs' = [docs EXCEPT ![d].status = IF gone /\ @ # "removed" THEN "detached" ELSE @]
      /\ IF gone
         THEN /\ attachments' = 0
              /\ routines' = [routines EXCEPT ![t] = Stopping(@, a, "unlock")]
         ELSE Goto(t, "unlock") /\ UNCHANGED attachments
      /\ UNCHANGED <<app, lifecycle, attaching, atts, remote>>

Unlock(t) ==
  /\ At(t, "unlock")
  /\ atts' = [atts EXCEPT ![routines[t].att].syncMu = Free]
  /\ Return(t)
  /\ UNCHANGED <<app, lifecycle, registry, docs, remote>>

(***************************************************************************)
(* The pipeline of an attachment.                                          *)
(***************************************************************************)

(* The pump takes the document's event. *)
Pump(a) ==
  /\ atts[a].pump /\ docs[atts[a].doc].events = 1
  /\ docs' = [docs EXCEPT ![atts[a].doc].events = 0]
  /\ UNCHANGED <<app, lifecycle, registry, atts, routines, remote>>

(* The reader learns of a change. *)
ReadChanged(a) ==
  /\ atts[a].reader = "open" /\ atts[a].told < remote
  /\ atts' = [atts EXCEPT ![a].told = remote, ![a].changeEventReceived = TRUE]
  /\ UNCHANGED <<app, lifecycle, registry, docs, routines, remote>>

(* The reader learns that a peer came or left, and publishes that under    *)
(* eventsMu.                                                               *)
ReadWatched(a) ==
  LET d == atts[a].doc
  IN  /\ atts[a].reader = "open" /\ docs[d].eventsMu = Free /\ app.peers
      /\ docs' = [docs EXCEPT ![d].eventsMu = "reader"]
      /\ atts' = [atts EXCEPT ![a].reader = "publish"]
      /\ UNCHANGED <<app, lifecycle, registry, routines, remote>>

ReadPublished(a) ==
  LET d == atts[a].doc
  IN  /\ atts[a].reader = "publish" /\ docs[d].events = 0
      /\ docs' = [docs EXCEPT ![d].eventsMu = Free, ![d].events = 1]
      /\ atts' = [atts EXCEPT ![a].reader = "open"]
      /\ UNCHANGED <<app, lifecycle, registry, routines, remote>>

(* The stream ends: the context was cancelled, or the stream was lost and  *)
(* is to be opened again unless the client is leaving.                     *)
ReadEnd(a) ==
  /\ atts[a].reader = "open"
  /\ \/ atts[a].canceled /\ atts' = [atts EXCEPT ![a].reader = "none"]
     \/ /\ app.fails /\ ~atts[a].canceled
        /\ atts' = [atts EXCEPT ![a].reader = IF status = "activated" THEN "lost" ELSE "none"]
  /\ UNCHANGED <<app, lifecycle, registry, docs, routines, remote>>

(* A handshake succeeds, or the retries end with the attachment or the     *)
(* session.                                                                *)
reconnectWatch(a) ==
  /\ atts[a].reader = "lost"
  /\ \/ ~atts[a].canceled /\ atts' = [atts EXCEPT ![a].reader = "open"]
     \/ /\ atts[a].canceled \/ status # "activated"
        /\ atts' = [atts EXCEPT ![a].reader = "none"]
  /\ UNCHANGED <<app, lifecycle, registry, docs, routines, remote>>

(* The application ends the stream it was given; the pump runs on. *)
CancelStream(a) ==
  /\ app.cancels /\ attachments = a /\ atts[a].pump /\ ~atts[a].canceled
  /\ atts' = [atts EXCEPT ![a].canceled = TRUE]
  /\ UNCHANGED <<app, lifecycle, registry, docs, routines, remote>>

(* Another client changes the document. *)
RemoteChange ==
  /\ remote < app.remote
  /\ remote' = remote + 1
  /\ UNCHANGED <<app, lifecycle, registry, atts, docs, routines>>

(***************************************************************************)
(* The specification.                                                      *)
(***************************************************************************)
Routine(t) ==
  \/ Activate(t) \/ ActivateLock(t) \/ ActivateClient(t) \/ runSyncLoop(t)
  \/ Deactivate(t) \/ DeactivateLock(t) \/ stopSyncLoop(t) \/ beginDeactivation(t)
  \/ WalkAttachments(t) \/ Retire(t) \/ Retired(t) \/ DeactivateClient(t)
  \/ Attach(t) \/ AttachGeneration(t) \/ markAttaching(t) \/ RetireStale(t) \/ StaleRetired(t)
  \/ attachDocument(t) \/ attachChannel(t) \/ AttachApplied(t) \/ registerAttachment(t) \/ UndoAttach(t)
  \/ runWatchLoop(t) \/ endAttach(t)
  \/ Detach(t) \/ Sync(t)

Synchronize(t) ==
  \/ lockLiveAttachment(t) \/ syncInternal(t) \/ Answered(t) \/ Failed(t) \/ Applied(t) \/ Unlock(t)
  \/ ApplyChangePack(t) \/ publish(t) \/ closeWatchStream(t) \/ stopWatchPipeline(t)

Pipeline(a) ==
  \/ ReadChanged(a) \/ ReadWatched(a) \/ ReadPublished(a) \/ ReadEnd(a) \/ reconnectWatch(a)

Next ==
  \/ \E t \in Threads : Routine(t)
  \/ \E t \in Routines : Synchronize(t)
  \/ SyncLoop
  \/ \E a \in DOMAIN atts : Pump(a) \/ Pipeline(a) \/ CancelStream(a)
  \/ RemoteChange

(* No goroutine that can run is left waiting, Go's locks are granted to    *)
(* whoever waits, every request returns, not every sync fails, and a       *)
(* stream ends once it was cancelled.                                      *)
Fairness ==
  /\ \A t \in Threads : SF_vars(Routine(t))
  /\ \A t \in Routines : SF_vars(Synchronize(t))
  /\ SF_vars(Answered(Loop))
  /\ WF_vars(SyncLoop)
  /\ \A a \in 1 .. MaxAttachments : WF_vars(a \in DOMAIN atts /\ Pump(a))
  /\ \A a \in 1 .. MaxAttachments : WF_vars(a \in DOMAIN atts /\ Pipeline(a))
  /\ \A a \in 1 .. MaxAttachments : SF_vars(a \in DOMAIN atts /\ atts[a].canceled /\ ReadEnd(a))

Spec == Init /\ [][Next]_vars /\ Fairness

(***************************************************************************)
(* Properties.                                                             *)
(***************************************************************************)

(* Whoever has an event to send for a document, an ApplyChangePack of a    *)
(* call or of the sync loop, or a stream reader, finds the pump of its     *)
(* attachment running, so that the send cannot block for ever: what        *)
(* lockLiveAttachment and stopWatchPipeline promise.                       *)
PumpDrains ==
  /\ \A t \in Routines : At(t, "publish") /\ routines[t].send > 0 => atts[routines[t].att].pump
  /\ \A a \in DOMAIN atts : atts[a].reader = "publish" => atts[a].pump

(* An activated client holds no attachment of an earlier activation: an    *)
(* Attach whose request outlived its session is not registered in the next *)
(* one.                                                                    *)
SessionHoldsItsOwn ==
  status = "activated" /\ attachments # 0 => atts[attachments].gen = generation

(* Once a client is deactivated and no attach is in flight, nothing of the *)
(* session is left: no attachment, no attached document, and no pump or    *)
(* stream reader, unless a call that is about to retire it holds its lock. *)
NothingOutlives ==
  status = "deactivated" /\ ~attaching /\ lifecycleMu = Free =>
    /\ attachments = 0
    /\ \A d \in Docs : docs[d].status # "attached"
    /\ \A a \in DOMAIN atts : atts[a].syncMu = Free => ~atts[a].pump /\ atts[a].reader = "none"

(* A change the stream announced is not forgotten: until it is pulled, the *)
(* flag of its attachment is set or a sync that began after it was set     *)
(* is on its way.                                                          *)
NoChangeForgotten ==
  \A a \in DOMAIN atts :
    attachments = a /\ atts[a].told > docs[atts[a].doc].pulled =>
      \/ atts[a].changeEventReceived
      \/ \E t \in Routines : routines[t].att = a /\ routines[t].pending

(* Every call returns, whatever the others do meanwhile. *)
Returns == <>[](\A t \in Threads : At(t, "idle") /\ routines[t].next > Len(app.ops[t]))

(* The sync loop pulls every change that the stream of a live attachment   *)
(* announced.                                                              *)
Pulled ==
  \A a \in 1 .. MaxAttachments :
    a \in DOMAIN atts /\ attachments = a /\ atts[a].told > docs[atts[a].doc].pulled
      ~> attachments # a \/ status # "activated" \/ atts[a].told <= docs[atts[a].doc].pulled
=============================================================================

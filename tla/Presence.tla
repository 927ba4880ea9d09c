------------------------------ MODULE Presence ------------------------------
(***************************************************************************)
(* The presences of one document as a client holds them: the proxy an     *)
(* updater writes its own presence with, the undo and redo of the keys    *)
(* marked for it, the packs and snapshots a sync applies, the set of      *)
(* clients a watch stream reports online, and the events that tell the    *)
(* application who came, left or changed.                                 *)
(*                                                                        *)
(* Three goroutines meet here.  The application updates and undoes under  *)
(* d.mu, each in one step.  The sync loop and the watch stream change the *)
(* document under d.mu and then publish what they changed to a channel    *)
(* with room for one event, d.mu released and eventsMu held.              *)
(*                                                                        *)
(* A presence is a function from the keys it has.  A value is a text and  *)
(* how many times it is JSON-encoded.  The operations of a change are the *)
(* subject of Replicas and TextReplicas: here a change edits the root or  *)
(* does not.                                                              *)
(***************************************************************************)
EXTENDS Integers, Sequences, TLC
LOCAL INSTANCE SequencesExt

CONSTANTS
  Me,          \* the actor of this document
  Peers,       \* the other actors
  Updaters,    \* what an updater may do: sequences of calls of the proxy
  PeerData,    \* the presences a peer puts
  StackDepth,  \* MaxUndoRedoStackDepth
  Budgets      \* bounds: pairs of the updates, undos and redos there are in all,
               \* and the packs, snapshots and reports of the watch stream

VARIABLES
  presences,   \* doc.presences
  online,      \* doc.onlineClients
  clone,       \* clonePresences
  stale,       \* cloneStale
  undo, redo,  \* the stacks of History, newest last
  local,       \* the presence changes of the local changes, oldest first
  server,      \* what the server holds for Me: at most one presence
  sending,     \* the events each goroutine has still to send, under eventsMu
  channel,     \* Document.events
  app,         \* what the events told the application
  told,        \* the actors nothing happened to without an event since their last
  disabled,    \* options.DisablePresence
  updates, remote  \* what is left of the bounds

docPresVars == <<presences, online, clone, stale, undo, redo, local, server, sending, channel,
                 app, told, disabled, updates, remote>>

Actors == {Me} \cup Peers
Threads == {"sync", "watch"}
Nothing == <<>>                                    \* the function with no argument
Without(f, dropped) == [x \in DOMAIN f \ dropped |-> f[x]]
ValueAt(f, x) == IF x \in DOMAIN f THEN {f[x]} ELSE {}

(***************************************************************************)
(* Values and presence changes.                                            *)
(***************************************************************************)
EncodeValue(v) == [v EXCEPT !.encoded = @ + 1]
DecodeValue(v) == IF v.encoded > 0 THEN [v EXCEPT !.encoded = @ - 1] ELSE v
DecodeData(data) == [k \in DOMAIN data |-> DecodeValue(data[k])]

NoPresence == [type |-> "none", data |-> Nothing, removed |-> {}]
PutOf(data) == [type |-> "put", data |-> data, removed |-> {}]
ClearOf == [type |-> "clear", data |-> Nothing, removed |-> {}]

(* Change.ApplyTo: deletions first, then sets. *)
ApplyTo(pc, base) == pc.data @@ Without(base, pc.removed)

Load(map, a) == IF a \in DOMAIN map THEN map[a] ELSE Nothing
Store(map, a, data) == (a :> data) @@ map
Delete(map, a) == Without(map, {a})

(* Change.Execute of a presence change. *)
ExecutePresence(pc, a, map) ==
  CASE pc.type = "none"  -> map
    [] pc.type = "clear" -> Delete(map, a)
    [] pc.type = "patch" -> Store(map, a, ApplyTo(pc, Load(map, a)))
    [] pc.type = "put"   -> Store(map, a, pc.data)

(***************************************************************************)
(* The proxy of an updater with the context it reports to: its data, the   *)
(* presence change so far, the value each touched key held first, and the  *)
(* keys marked undoable.                                                   *)
(***************************************************************************)
New(data) == [data |-> data, pc |-> NoPresence, previous |-> Nothing, marked |-> {}]

RecordPrevious(p, keys) ==
  [p EXCEPT !.previous = @ @@ [k \in keys |-> ValueAt(p.data, k)]]

SetReversePresenceKey(p, k, history) ==
  [p EXCEPT !.marked = IF history THEN @ \cup {k} ELSE @ \ {k}]

PutData(p, data) == [p EXCEPT !.data = data, !.pc = PutOf(data)]

SetJSON(p, k, v, history) ==
  SetReversePresenceKey(PutData(RecordPrevious(p, {k}), (k :> v) @@ p.data), k, history)
Set(p, k, v, history) == SetJSON(p, k, EncodeValue(v), history)
DeleteKey(p, k, history) ==
  SetReversePresenceKey(PutData(RecordPrevious(p, {k}), Without(p.data, {k})), k, history)
Initialize(p, data) ==
  PutData(RecordPrevious(p, DOMAIN p.data \cup DOMAIN data),
          [k \in DOMAIN data |-> EncodeValue(data[k])])
Clear(p) ==
  [RecordPrevious(p, DOMAIN p.data) EXCEPT !.data = Nothing, !.pc = ClearOf]

(* A call of an updater: [op, key, value, history, data]. *)
Call(p, c) ==
  CASE c.op = "set"    -> Set(p, c.key, c.value, c.history)
    [] c.op = "delete" -> DeleteKey(p, c.key, c.history)
    [] c.op = "init"   -> Initialize(p, c.data)
    [] c.op = "clear"  -> Clear(p)

Run(updater, data) == FoldLeft(Call, New(data), updater)

ReversePresence(p) ==
  LET kept == {k \in p.marked : k \in DOMAIN p.previous /\ p.previous[k] # {}}
  IN [values |-> [k \in kept |-> CHOOSE v \in p.previous[k] : TRUE],
      absent |-> p.marked \ kept]

(***************************************************************************)
(* The stacks.  An entry also carries, for the properties only, the        *)
(* presence at the moment the change began (before).                       *)
(***************************************************************************)
EntryOf(p, edits, before) ==
  LET r == ReversePresence(p)
  IN [values |-> r.values, absent |-> r.absent, edits |-> edits, before |-> before]
HasReverse(e) == DOMAIN e.values # {} \/ e.absent # {} \/ e.edits

PushEntry(stack, e) ==
  IF ~HasReverse(e) THEN stack
  ELSE Append(IF Len(stack) >= StackDepth THEN Tail(stack) ELSE stack, e)

(* The presence part of an entry, applied by executeUndoRedo. *)
Restore(e, data) ==
  LET keys == SetToSeq(DOMAIN e.values)
      given == FoldLeft(LAMBDA p, k : SetJSON(p, k, e.values[k], TRUE), New(data), keys)
  IN FoldLeft(LAMBDA p, k : DeleteKey(p, k, TRUE), given, SetToSeq(e.absent))

(***************************************************************************)
(* What the application is told.                                           *)
(***************************************************************************)
Visible(map, on, a) == IF a \in on /\ a \in DOMAIN map THEN {DecodeData(map[a])} ELSE {}

EventOf(kind, a, data) == [kind |-> kind, actor |-> a, data |-> data]

(* Mutant: an actor that went offline while its presence was there is not  *)
(* reported.                                                               *)
ReconcilePresenceQuiet(map, on, a, hadPresence, wasOnline, prev) ==
  LET has == a \in DOMAIN map
  IN CASE ~(has /\ a \in on) /\ hadPresence /\ wasOnline /\ ~has -> <<EventOf("unwatched", a, DecodeData(prev))>>
       [] ~(has /\ a \in on) -> <<>>
       [] has /\ a \in on /\ ~(hadPresence /\ wasOnline) -> <<EventOf("watched", a, DecodeData(map[a]))>>
       [] OTHER -> <<EventOf("changed", a, DecodeData(map[a]))>>

ReconcilePresence(map, on, a, hadPresence, wasOnline, prev) ==
  LET shown == a \in DOMAIN map /\ a \in on
  IN CASE ~shown /\ hadPresence /\ wasOnline -> <<EventOf("unwatched", a, DecodeData(prev))>>
       [] ~shown /\ ~(hadPresence /\ wasOnline) -> <<>>
       [] shown /\ ~(hadPresence /\ wasOnline) -> <<EventOf("watched", a, DecodeData(map[a]))>>
       [] shown /\ hadPresence /\ wasOnline -> <<EventOf("changed", a, DecodeData(map[a]))>>

(* The events a change of an actor from (map, on) to (map2, on2) gives.    *)
Reconciled(map, on, map2, on2, a) ==
  ReconcilePresence(map2, on2, a, a \in DOMAIN map, a \in on, Load(map, a))

Hear(view, e) ==
  IF e.kind = "unwatched" THEN Delete(view, e.actor) ELSE Store(view, e.actor, e.data)

(* eventsMu is held until everything is sent. *)
EventsMuFree == \A t \in Threads : sending[t] = <<>>

Publishes(t, events) ==
  /\ EventsMuFree
  /\ sending' = [sending EXCEPT ![t] = events]

(* For the properties: the actors still told of when what is visible       *)
(* changes without an event, and those events tell of.                     *)
ToldStill(map, on) == {a \in told : Visible(presences, online, a) = Visible(map, on, a)}
ToldBy(events) == {events[i].actor : i \in 1 .. Len(events)}

(***************************************************************************)
(* The application.                                                        *)
(***************************************************************************)
DocPresInit ==
  /\ disabled \in BOOLEAN
  /\ presences = IF disabled THEN Nothing ELSE (Me :> Nothing)
  /\ online = {} /\ clone = presences /\ stale = FALSE
  /\ undo = <<>> /\ redo = <<>> /\ local = <<>>
  /\ server = ValueAt(presences, Me)
  /\ sending = [t \in Threads |-> <<>>] /\ channel = <<>>
  /\ app = Nothing /\ told = {}
  /\ \E b \in Budgets : updates = b[1] /\ remote = b[2]

EnsureClone == IF stale THEN presences ELSE clone

Spend == updates > 0 /\ updates' = updates - 1

(* A local change with presence change pc is applied to the root and kept  *)
(* for the server.                                                         *)
Commit(pc) ==
  /\ presences' = ExecutePresence(pc, Me, presences)
  /\ local' = IF pc.type = "none" THEN local ELSE Append(local, pc)
  /\ told' = ToldStill(presences', online)

Update(updater, edits) ==
  LET own == Load(EnsureClone, Me)
      p == Run(updater, own)
      dropped == disabled /\ p.pc.type # "none"
  IN /\ Spend
     /\ clone' = Store(EnsureClone, Me, p.data)
     /\ stale' = dropped
     /\ IF dropped
        THEN /\ undo' = PushEntry(undo, EntryOf(New(own), edits, own))
             /\ UNCHANGED <<presences, local, told>>
        ELSE /\ undo' = PushEntry(undo, EntryOf(p, edits, own))
             /\ Commit(p.pc)
     /\ redo' = IF edits THEN <<>> ELSE redo
     /\ UNCHANGED <<online, server, sending, channel, app, disabled, remote>>

(* The updater returns an error or panics: the clone it wrote to is        *)
(* discarded.                                                              *)
UpdateFails(updater) ==
  /\ Spend
  /\ clone' = Store(EnsureClone, Me, Run(updater, Load(EnsureClone, Me)).data)
  /\ stale' = TRUE
  /\ UNCHANGED <<presences, online, undo, redo, local, server, sending, channel, app, told,
                 disabled, remote>>

(* executeUndoRedo of a popped entry: the proxy after it. *)
Replayed(e) ==
  IF DOMAIN e.values # {} \/ e.absent # {} THEN Restore(e, Load(EnsureClone, Me))
  ELSE New(Load(EnsureClone, Me))

ExecuteUndoRedo(e, p) ==
  /\ Spend
  /\ clone' = ExecutePresence(p.pc, Me, EnsureClone)
  /\ stale' = FALSE
  /\ Commit(p.pc)
  /\ UNCHANGED <<online, server, sending, channel, app, disabled, remote>>

Opposite(stack, e, p) == PushEntry(stack, EntryOf(p, e.edits, Load(EnsureClone, Me)))

Undo ==
  /\ undo # <<>>
  /\ \E p \in {Replayed(Last(undo))} :
       /\ redo' = Opposite(redo, Last(undo), p)
       /\ undo' = Front(undo)
       /\ ExecuteUndoRedo(Last(undo), p)

Redo ==
  /\ redo # <<>>
  /\ \E p \in {Replayed(Last(redo))} :
       /\ undo' = Opposite(undo, Last(redo), p)
       /\ redo' = Front(redo)
       /\ ExecuteUndoRedo(Last(redo), p)

(***************************************************************************)
(* The sync loop.                                                          *)
(***************************************************************************)
Arrive == remote > 0 /\ remote' = remote - 1

(* applyChanges of one change: the clone, then the root, then the event.   *)
ApplyOne(s, c) ==
  LET map == ExecutePresence(c.pc, c.actor, s.map)
      on == IF c.pc.type = "clear" THEN s.on \ {c.actor} ELSE s.on
  IN [map |-> map, on |-> on, copy |-> ExecutePresence(c.pc, c.actor, s.copy),
      events |-> s.events \o (IF c.pc.type = "none" THEN <<>>
                              ELSE Reconciled(s.map, s.on, map, on, c.actor))]

ApplyChanges(changes, map, copy) ==
  FoldLeft(ApplyOne, [map |-> map, on |-> online, copy |-> copy, events |-> <<>>], changes)

Applied(s) ==
  /\ presences' = s.map /\ online' = s.on /\ clone' = s.copy /\ stale' = FALSE
  /\ Publishes("sync", s.events)

(* The server confirms the first n local changes. *)
Acknowledge(n) ==
  /\ server' = IF n = 0 THEN server
               ELSE ValueAt(ExecutePresence(local[n], Me, Nothing), Me)
  /\ local' = SubSeq(local, n + 1, Len(local))

Own(pcs) == [i \in DOMAIN pcs |-> [actor |-> Me, pc |-> pcs[i]]]

ApplyChangePack(changes, n) ==
  /\ Arrive
  /\ \E s \in {ApplyChanges(changes, presences, EnsureClone)} :
       Applied(s) /\ told' = told \cup ToldBy(s.events)
  /\ Acknowledge(n)
  /\ UNCHANGED <<undo, redo, channel, app, disabled, updates>>

(* A snapshot brings the peers' presences and what the server holds for    *)
(* Me; the local changes it did not confirm are applied again, and the     *)
(* stacks are cleared.                                                     *)
ApplySnapshot(peers, n) ==
  /\ Arrive
  /\ Acknowledge(n)
  /\ \E map \in {IF server' = {} THEN peers ELSE Store(peers, Me, CHOOSE d \in server' : TRUE)} :
       \E s \in {ApplyChanges(Own(local'), map, map)} :
         Applied(s) /\ told' = ToldStill(map, online) \cup ToldBy(s.events)
  /\ undo' = <<>> /\ redo' = <<>>
  /\ UNCHANGED <<channel, app, disabled, updates>>

(* AcknowledgePushedChanges: the reply to a push-only request. *)
AcknowledgePushed(n) ==
  /\ n > 0
  /\ Acknowledge(n)
  /\ UNCHANGED <<presences, online, clone, stale, undo, redo, sending, channel, app, told,
                 disabled, updates, remote>>

(***************************************************************************)
(* The watch stream.                                                       *)
(***************************************************************************)
Reports(on) ==
  /\ Arrive
  /\ online' = on
  /\ UNCHANGED <<presences, clone, stale, undo, redo, local, server, channel, app, disabled,
                 updates>>

(* The first message of a stream names who watches; no event is sent. *)
SetOnlineClients(ids) ==
  /\ Reports(ids)
  /\ told' = ToldStill(presences, ids)
  /\ UNCHANGED sending

AddOnlineClientAndReconcile(a) ==
  \E events \in {Reconciled(presences, online, presences, online \cup {a}, a)} :
    /\ Publishes("watch", events)
    /\ Reports(online \cup {a})
    /\ told' = told \cup ToldBy(events)

RemoveOnlineClientAndReconcile(a) ==
  \E events \in {Reconciled(presences, online, presences, online \ {a}, a)} :
    /\ Publishes("watch", events)
    /\ Reports(online \ {a})
    /\ told' = told \cup ToldBy(events)

(***************************************************************************)
(* The channel of events.                                                  *)
(***************************************************************************)
Publish(t) ==
  /\ sending[t] # <<>> /\ channel = <<>>
  /\ channel' = <<Head(sending[t])>>
  /\ sending' = [sending EXCEPT ![t] = Tail(@)]
  /\ UNCHANGED <<presences, online, clone, stale, undo, redo, local, server, app, told,
                 disabled, updates, remote>>

Receive ==
  /\ channel # <<>>
  /\ app' = Hear(app, Head(channel))
  /\ channel' = <<>>
  /\ UNCHANGED <<presences, online, clone, stale, undo, redo, local, server, sending, told,
                 disabled, updates, remote>>

(* Inputs: what a peer's change carries, packs of one or two of them, and  *)
(* the peers' part of a snapshot.  No change of a document without         *)
(* presence carries one.                                                   *)
PeerChanges ==
  [actor : Peers, pc : {NoPresence} \cup
     (IF disabled THEN {} ELSE {PutOf(d) : d \in PeerData} \cup {ClearOf})]
Packs == {<<>>} \cup {<<c>> : c \in PeerChanges} \cup {<<c, d>> : c, d \in PeerChanges}
PeerMaps == IF disabled THEN {Nothing} ELSE UNION {[some -> PeerData] : some \in SUBSET Peers}

DocPresNext ==
  \/ \E u \in Updaters, edits \in BOOLEAN : Update(u, edits)
  \/ \E u \in Updaters : UpdateFails(u)
  \/ Undo \/ Redo
  \/ \E pack \in Packs, n \in 0 .. Len(local) : ApplyChangePack(pack, n)
  \/ \E peers \in PeerMaps, n \in 0 .. Len(local) : ApplySnapshot(peers, n)
  \/ \E n \in 1 .. Len(local) : AcknowledgePushed(n)
  \/ \E ids \in SUBSET Actors : SetOnlineClients(ids)
  \/ \E a \in Actors : AddOnlineClientAndReconcile(a) \/ RemoveOnlineClientAndReconcile(a)
  \/ \E t \in Threads : Publish(t)
  \/ Receive

(***************************************************************************)
(* Properties.                                                             *)
(***************************************************************************)
(* The events are a faithful account: once those on their way are heard,   *)
(* the application's picture of an actor is what Document.Presences shows, *)
(* unless a snapshot, the list of a new stream or a local update changed   *)
(* it without an event since the last one about that actor                 *)
(* (ReconcilePresence, eventsMu).                                          *)
EventsTell ==
  LET heard == FoldLeft(Hear, app, channel \o sending["sync"] \o sending["watch"])
  IN \A a \in told : ValueAt(heard, a) = Visible(presences, online, a)

(* A client's own presence survives what happens around it: the clone      *)
(* shows the root's, the changes not yet confirmed lead from what the      *)
(* server holds to it, and undoing or redoing now gives every marked key   *)
(* the value it held when its change began (RecordPreviousPresence,        *)
(* SetJSON in executeUndoRedo, replay of local changes after a snapshot).  *)
OwnPresenceExact ==
  LET own == Load(presences, Me)
      restores(stack) ==
        stack = <<>> \/ LET e == Last(stack)
                            p == Restore(e, own)
                        IN \A k \in DOMAIN e.values \cup e.absent :
                             ValueAt(p.data, k) = ValueAt(e.before, k)
  IN /\ stale \/ \A a \in Actors : Load(clone, a) = Load(presences, a)
     /\ IF local = <<>> THEN ValueAt(presences, Me) = server
        ELSE ExecutePresence(Last(local), Me, Delete(presences, Me)) = presences
     /\ restores(undo) /\ restores(redo)

DocPresSpec == DocPresInit /\ [][DocPresNext]_docPresVars
=============================================================================

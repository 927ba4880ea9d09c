------------------------------- MODULE PubSub -------------------------------
(***************************************************************************)
(* The subscriptions of one document, or of one channel, on one server and *)
(* the streams that own them: server/backend/pubsub (PubSub, Subscriptions, Subscription,   *)
(* BatchPublisher) and the part of server/rpc/yorkie_server.go that        *)
(* subscribes a Watch stream, merges its events and unsubscribes it.       *)
(*                                                                         *)
(* The map of subscriptions, each collection of them and each publisher    *)
(* have a lock of their own, so a step here is what one of those locks     *)
(* covers.  A publisher runs beside the streams: it takes the batch, then  *)
(* sends it to one subscription after the other.                           *)
(***************************************************************************)
EXTENDS Naturals, Sequences, FiniteSets

CONSTANTS
  Streams,         \* the Watch streams
  Publishers,      \* clients that push changes of the document
  PubSubSettings,  \* the actor of each stream, the limit, the bounds
  MaxGroups        \* the bound on the collections created

VARIABLES
  room,            \* the setting, chosen at the start
  docSubsMap,      \* the collection of the document: its number, 0 if none
  groups,          \* the collections created: subscriptions, batch, publisher
  subs,            \* stream -> its subscription
  handlers,        \* stream -> its handler
  pushers,         \* publisher -> its call of Publish
  views,           \* stream -> what its client knows
  owed             \* stream -> the actors whose change its client must learn of

vars == <<room, docSubsMap, groups, subs, handlers, pushers, views, owed>>

NoSub == [closed |-> TRUE, events |-> <<>>, failures |-> 0]
NewHandler == [pc |-> "idle", group |-> 0, merged |-> <<>>]
NewGroup == [members |-> {}, events |-> <<>>, closing |-> FALSE, last |-> FALSE, stopped |-> FALSE,
             sending |-> FALSE, batch |-> <<>>, todo |-> {}, dead |-> {},
             current |-> {}, rest |-> <<>>]
NoView == [peers |-> {}, lost |-> FALSE]

(* The streams of room.open are served already and know of each other. *)
Init ==
  /\ room \in PubSubSettings
  /\ docSubsMap = IF room.open = {} THEN 0 ELSE 1
  /\ groups = IF room.open = {} THEN <<>> ELSE <<[NewGroup EXCEPT !.members = room.open]>>
  /\ subs = [s \in Streams |-> [NoSub EXCEPT !.closed = s \notin room.open]]
  /\ handlers = [s \in Streams |-> [NewHandler EXCEPT !.pc = IF s \in room.open THEN "open" ELSE "idle"]]
  /\ pushers = [p \in Publishers |-> [pc |-> "idle", group |-> 0, count |-> 0]]
  /\ views = [s \in Streams |-> IF s \in room.open
       THEN [NoView EXCEPT !.peers = {room.actor[t] : t \in room.open}] ELSE NoView]
  /\ owed = [s \in Streams |-> {}]

Actor(s) == room.actor[s]
At(s, pc) == handlers[s].pc = pc
Goto(s, pc) == handlers' = [handlers EXCEPT ![s].pc = pc]

(***************************************************************************)
(* Publishing.                                                             *)
(***************************************************************************)
Changed(a) == [type |-> "changed", actor |-> a]
Watched(a) == [type |-> "watched", actor |-> a]
Unwatched(a) == [type |-> "unwatched", actor |-> a]

(* OnEnqueue of a document: of the changes of one actor two are kept in a  *)
(* batch.  A channel keeps all its events.                                 *)
OnEnqueue(events, e) ==
  IF ~room.channel /\ e.type = "changed" /\ Len(SelectSeq(events, LAMBDA x : x = e)) > 1
  THEN events
  ELSE Append(events, e)

(* The batch of a collection that was found before; its publisher may have *)
(* stopped since.                                                          *)
Publish(g, e) ==
  groups' = IF g = 0 THEN groups ELSE [groups EXCEPT ![g].events = OnEnqueue(@, e)]

(* A pushed change is announced: the collection is found, then the event   *)
(* is added to its batch.                                                  *)
PublishFind(p) ==
  /\ pushers[p].pc = "idle" /\ pushers[p].count < room.changes
  /\ pushers' = [pushers EXCEPT ![p] = [pc |-> "put", group |-> docSubsMap, count |-> @.count + 1]]
  /\ UNCHANGED <<room, docSubsMap, groups, subs, handlers, views, owed>>

PublishPut(p) ==
  LET g == pushers[p].group
  IN  /\ pushers[p].pc = "put"
      /\ Publish(g, Changed(p))
      /\ owed' = [s \in Streams |->
           IF g # 0 /\ s \in groups[g].members /\ ~subs[s].closed /\ Actor(s) # p
           THEN owed[s] \cup {p} ELSE owed[s]]
      /\ pushers' = [pushers EXCEPT ![p].pc = "idle", ![p].group = 0]
      /\ UNCHANGED <<room, docSubsMap, subs, handlers, views>>

(***************************************************************************)
(* A stream subscribes: subscribeDocument with watchDoc, subscribeChannel.  *)
(***************************************************************************)
Subscribing(s) == handlers[s].pc \in {"ids", "watched", "watchedPut"}

(* The lock of DocWatchStreamKey lets one stream of an actor subscribe at  *)
(* a time.                                                                 *)
MaySubscribe(s) ==
  /\ At(s, "idle") /\ s \in room.comes
  /\ \A t \in Streams : Actor(t) = Actor(s) => ~Subscribing(t)

Full(group) == room.limit > 0 /\ Cardinality(group.members) >= room.limit

(* Under the lock of the map: the collection is created if there is none,  *)
(* and the subscription of the stream is added.                            *)
Upsert(s, pc, full(_)) ==
  LET g == IF docSubsMap = 0 THEN Len(groups) + 1 ELSE docSubsMap
      all == IF docSubsMap = 0 THEN Append(groups, NewGroup) ELSE groups
  IN  /\ g <= MaxGroups
      /\ docSubsMap' = g
      /\ IF full(all[g])
         THEN groups' = all /\ UNCHANGED subs /\ Goto(s, "done")
         ELSE /\ groups' = [all EXCEPT ![g].members = @ \cup {s}]
              /\ subs' = [subs EXCEPT ![s] = [NoSub EXCEPT !.closed = FALSE]]
              /\ Goto(s, pc)
      /\ UNCHANGED <<room, pushers, views, owed>>

Subscribe(s) == MaySubscribe(s) /\ Upsert(s, "ids", Full)

SubscribeChannel(s) ==
  /\ At(s, "idle") /\ s \in room.comes
  /\ Upsert(s, "open", LAMBDA group : FALSE)

(* ClientIDs, for the first response of the stream. *)
ClientIDs(s) ==
  /\ At(s, "ids")
  /\ views' = [views EXCEPT ![s].peers =
       IF docSubsMap = 0 THEN {} ELSE {Actor(t) : t \in groups[docSubsMap].members}]
  /\ Goto(s, "watched")
  /\ UNCHANGED <<room, docSubsMap, groups, subs, pushers, owed>>

(* The other subscribers learn that the actor watches the document. *)
WatchedFind(s) ==
  /\ At(s, "watched")
  /\ handlers' = [handlers EXCEPT ![s].pc = "watchedPut", ![s].group = docSubsMap]
  /\ UNCHANGED <<room, docSubsMap, groups, subs, pushers, views, owed>>

WatchedPut(s) ==
  /\ At(s, "watchedPut")
  /\ Publish(handlers[s].group, Watched(Actor(s)))
  /\ Goto(s, "open")
  /\ UNCHANGED <<room, docSubsMap, subs, pushers, views, owed>>

(***************************************************************************)
(* The publisher of a collection: BatchPublisher.publish.                  *)
(***************************************************************************)
Dead(g) == {s \in groups[g].members : subs[s].closed}

(* A tick, or the end of the publisher: the batch is taken.  (A tick that  *)
(* finds neither events nor dead subscriptions does nothing.)              *)
publish(g) ==
  /\ ~groups[g].sending /\ ~groups[g].stopped
  /\ groups[g].events # <<>> \/ Dead(g) # {} \/ groups[g].closing
  /\ groups' = [groups EXCEPT ![g].batch = groups[g].events, ![g].events = <<>>,
                              ![g].sending = TRUE, ![g].last = groups[g].closing,
                              ![g].todo = groups[g].members]
  /\ UNCHANGED <<room, docSubsMap, subs, handlers, pushers, views, owed>>

(* The events of a batch for a subscriber: its own are filtered out. *)
Filter(s, events) == SelectSeq(events, LAMBDA e : e.actor # Actor(s))

(* The publisher turns to the next subscription, in any order, and passes  *)
(* over a dead one.                                                        *)
NextSub(g, s) ==
  /\ groups[g].sending /\ groups[g].current = {} /\ s \in groups[g].todo
  /\ groups' = IF subs[s].closed
       THEN [groups EXCEPT ![g].todo = @ \ {s}, ![g].dead = @ \cup {s}]
       ELSE [groups EXCEPT ![g].todo = @ \ {s},
               ![g].rest = Filter(s, groups[g].batch),
               ![g].current = IF Filter(s, groups[g].batch) = <<>> THEN {} ELSE {s}]
  /\ UNCHANGED <<room, docSubsMap, subs, handlers, pushers, views, owed>>

(* The publisher has done with the first of the remaining events. *)
Sent(group, s, dead) ==
  LET rest == IF dead THEN <<>> ELSE Tail(group.rest)
  IN  [group EXCEPT !.rest = rest, !.current = IF rest = <<>> THEN {} ELSE @,
                    !.dead = IF dead THEN @ \cup {s} ELSE @]

(* Subscription.Publish of one event.  It waits for a full subscription;   *)
(* one that stays full too long loses the event, and closes itself when    *)
(* that happens too often in a row.                                        *)
SubPublish(g, s) ==
  LET sub == subs[s]
      full == Len(sub.events) >= room.buffer
      closes == sub.failures + 1 >= room.maxFailures
  IN  /\ s \in groups[g].current
      /\ \/ /\ sub.closed
            /\ groups' = [groups EXCEPT ![g] = Sent(@, s, TRUE)]
            /\ UNCHANGED <<subs, views>>
         \/ /\ ~sub.closed /\ ~full
            /\ subs' = [subs EXCEPT ![s].events = Append(@, Head(groups[g].rest)), ![s].failures = 0]
            /\ groups' = [groups EXCEPT ![g] = Sent(@, s, FALSE)]
            /\ UNCHANGED views
         \/ /\ ~sub.closed /\ full /\ room.timeouts
            /\ subs' = [subs EXCEPT ![s].failures = @ + 1, ![s].closed = closes]
            /\ groups' = [groups EXCEPT ![g] = Sent(@, s, closes)]
            /\ views' = [views EXCEPT ![s].lost = TRUE]
      /\ UNCHANGED <<room, docSubsMap, handlers, pushers, owed>>

(* The dead subscriptions that were met are deleted; a publisher that was  *)
(* closed before this batch was taken stops.                               *)
Reap(g) ==
  /\ groups[g].sending /\ groups[g].todo = {} /\ groups[g].current = {}
  /\ groups' = [groups EXCEPT
       ![g] = [NewGroup EXCEPT !.members = groups[g].members \ groups[g].dead,
                               !.events = groups[g].events,
                               !.closing = groups[g].closing, !.stopped = groups[g].last]]
  /\ UNCHANGED <<room, docSubsMap, subs, handlers, pushers, views, owed>>

(***************************************************************************)
(* The stream's loop: streamMergedEvents.                                  *)
(***************************************************************************)

(* A fan-in takes an event and puts it into the merged queue.  A Watch     *)
(* stream has room for one event there beside the one the fan-in holds; a  *)
(* WatchDocument stream (streamEvents) holds only the one it is sending.   *)
FanIn(s) ==
  /\ At(s, "open")
  /\ subs[s].events # <<>> /\ Len(handlers[s].merged) < room.merged
  /\ handlers' = [handlers EXCEPT ![s].merged = Append(@, Head(subs[s].events))]
  /\ subs' = [subs EXCEPT ![s].events = Tail(@)]
  /\ UNCHANGED <<room, docSubsMap, groups, pushers, views, owed>>

Learn(view, e) ==
  CASE e.type = "watched" -> [view EXCEPT !.peers = @ \cup {e.actor}]
    [] e.type = "unwatched" -> [view EXCEPT !.peers = @ \ {e.actor}]
    [] OTHER -> view

(* An event is sent to the client. *)
Send(s) ==
  LET e == Head(handlers[s].merged)
  IN  /\ At(s, "open") /\ handlers[s].merged # <<>>
      /\ views' = [views EXCEPT ![s] = Learn(@, e)]
      /\ owed' = [owed EXCEPT ![s] = IF e.type = "changed" THEN @ \ {e.actor} ELSE @]
      /\ handlers' = [handlers EXCEPT ![s].merged = Tail(@)]
      /\ UNCHANGED <<room, docSubsMap, groups, subs, pushers>>

(* The stream ends: its client left, the server stops, or its subscription *)
(* closed itself and everything before that was sent (ErrSubscriptions-    *)
(* Closed).                                                                *)
End(s) ==
  /\ At(s, "open")
  /\ s \in room.leaves \/ (subs[s].closed /\ subs[s].events = <<>> /\ handlers[s].merged = <<>>)
  /\ Goto(s, "close")
  /\ UNCHANGED <<room, docSubsMap, groups, subs, pushers, views, owed>>

(***************************************************************************)
(* The stream unsubscribes: unwatchDoc, UnsubscribeChannel.                *)
(***************************************************************************)

(* The view of the client ends with the stream. *)
CloseSub(s) ==
  /\ At(s, "close")
  /\ subs' = [subs EXCEPT ![s].closed = TRUE, ![s].events = <<>>]
  /\ views' = [views EXCEPT ![s] = NoView]
  /\ owed' = [owed EXCEPT ![s] = {}]
  /\ handlers' = [handlers EXCEPT ![s].pc = "delete", ![s].merged = <<>>]
  /\ UNCHANGED <<room, docSubsMap, groups, pushers>>

(* What follows: the others are told that the actor has left; a channel    *)
(* tells nobody.                                                           *)
Left == IF room.channel THEN "done" ELSE "unwatched"

(* The subscription leaves the collection, if the map has one.  (It may    *)
(* have been reaped; the collection that held it cannot have been replaced *)
(* as long as it is a member.)                                             *)
DeleteSub(s) ==
  /\ At(s, "delete")
  /\ groups' = IF docSubsMap = 0 THEN groups
               ELSE [groups EXCEPT ![docSubsMap].members = @ \ {s}]
  /\ Goto(s, IF docSubsMap # 0 THEN "drop" ELSE Left)
  /\ UNCHANGED <<room, docSubsMap, subs, pushers, views, owed>>

(* Mutant: the collection is dropped whenever a stream leaves. *)
DropGroupUnchecked(s) ==
  /\ At(s, "drop")
  /\ docSubsMap' = 0
  /\ groups' = IF docSubsMap # 0 THEN [groups EXCEPT ![docSubsMap].closing = TRUE] ELSE groups
  /\ Goto(s, Left)
  /\ UNCHANGED <<room, subs, pushers, views, owed>>

(* Under the lock of the map: a collection without subscriptions is        *)
(* dropped and its publisher closed.                                       *)
DropGroup(s) ==
  LET empty == docSubsMap # 0 /\ groups[docSubsMap].members = {}
  IN  /\ At(s, "drop")
      /\ docSubsMap' = IF empty THEN 0 ELSE docSubsMap
      /\ groups' = IF empty THEN [groups EXCEPT ![docSubsMap].closing = TRUE] ELSE groups
      /\ Goto(s, Left)
      /\ UNCHANGED <<room, subs, pushers, views, owed>>

UnwatchedFind(s) ==
  /\ At(s, "unwatched")
  /\ handlers' = [handlers EXCEPT ![s].pc = "unwatchedPut", ![s].group = docSubsMap]
  /\ UNCHANGED <<room, docSubsMap, groups, subs, pushers, views, owed>>

UnwatchedPut(s) ==
  /\ At(s, "unwatchedPut")
  /\ Publish(handlers[s].group, Unwatched(Actor(s)))
  /\ handlers' = [handlers EXCEPT ![s] = [NewHandler EXCEPT !.pc = "done"]]
  /\ UNCHANGED <<room, docSubsMap, subs, pushers, views, owed>>

streamMergedEvents(s) == FanIn(s) \/ Send(s) \/ End(s)

Unsubscribe(s) == CloseSub(s) \/ DeleteSub(s) \/ DropGroup(s)

WatchDocument(s) ==
  /\ ~room.channel
  /\ \/ Subscribe(s) \/ ClientIDs(s) \/ WatchedFind(s) \/ WatchedPut(s)
     \/ streamMergedEvents(s)
     \/ Unsubscribe(s) \/ UnwatchedFind(s) \/ UnwatchedPut(s)

WatchChannel(s) ==
  /\ room.channel
  /\ SubscribeChannel(s) \/ streamMergedEvents(s) \/ Unsubscribe(s)

Publisher(g) == publish(g) \/ Reap(g) \/ \E s \in Streams : NextSub(g, s) \/ SubPublish(g, s)

Next ==
  \/ \E p \in Publishers : PublishFind(p) \/ PublishPut(p)
  \/ \E s \in Streams : WatchDocument(s) \/ WatchChannel(s)
  \/ \E g \in DOMAIN groups : Publisher(g)

Spec == Init /\ [][Next]_vars

(***************************************************************************)
(* Properties.                                                             *)
(***************************************************************************)

(* Nothing is under way: what was published was sent. *)
Quiet ==
  /\ \A p \in Publishers : pushers[p].pc = "idle"
  /\ \A s \in Streams : /\ handlers[s].merged = <<>> /\ subs[s].events = <<>>
                        /\ handlers[s].pc \in {"idle", "done"} \/ (At(s, "open") /\ ~subs[s].closed)
  /\ \A g \in DOMAIN groups : groups[g].stopped \/ (groups[g].events = <<>> /\ ~groups[g].sending)

Open == {s \in Streams : At(s, "open")}

(* A client that lost no event knows, when nothing is under way, exactly   *)
(* who else watches the document: no order of subscribing, listing and     *)
(* announcing leaves a peer that is gone or misses one that is there.      *)
PeersKnown ==
  (Quiet /\ ~room.channel) => \A s \in Open : ~views[s].lost =>
             views[s].peers \cup {Actor(s)} = {Actor(t) : t \in Open}

(* Every change announced while a stream is subscribed reaches its client, *)
(* although a batch keeps only two announcements of one actor.             *)
ChangesKnown ==
  Quiet => \A s \in Open : ~views[s].lost => owed[s] = {}

(* When no stream is served, no collection is left and every publisher was *)
(* told to stop: also after a subscription closed itself and was reaped by *)
(* its publisher.                                                          *)
NothingLeft ==
  (\A s \in Streams : handlers[s].pc \in {"idle", "done"})
    => docSubsMap = 0 /\ \A g \in DOMAIN groups : groups[g].closing
=============================================================================

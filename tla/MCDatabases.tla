---------------------------- MODULE MCDatabases ----------------------------
(***************************************************************************)
(* Instances of what a server stores and announces.  A behaviour runs one  *)
(* part: the two databases, answering the same calls; one document's       *)
(* history, pushed to and compacted; the streams of one document.          *)
(***************************************************************************)
EXTENDS Databases

CONSTANT Parts

VARIABLES part, v1, v2, v3, v4, v5, v6, v7, v8, v9, v10

slots == <<v1, v2, v3, v4, v5, v6, v7, v8, v9, v10>>

CallsOf == [a \in Areas |-> CASE a = "projects" -> 4
                             [] a = "accounts" -> 4
                             [] a = "clients" -> 6
                             [] a = "documents" -> 4
                             [] a = "history" -> 5]

(* A server whose pushes and claims may fail, and one that folds           *)
(* presence-only changes, snapshots and documents too large to compact     *)
(* into the history.                                                       *)
Workloads ==
  {[servers |-> {"a"}, compacts |-> TRUE, snapshots |-> TRUE, failures |-> 2,
    fails |-> {"bulk", "update", "claim", "replace", "verify", "undo", "restart"},
    kinds |-> {<<"op">>, <<"op", "op">>}],
   [servers |-> {"a"}, compacts |-> TRUE, snapshots |-> TRUE, failures |-> 0, fails |-> {},
    kinds |-> {<<"op">>, <<"presence">>, <<"op", "presence">>, <<"big">>}]}

Writes == INSTANCE Compaction WITH
  Settings <- Workloads, MaxSeq <- 4, MaxChanges <- 5, MaxEpoch <- 3,
  setting <- v1, row <- v2, records <- v3, snapshots <- v4, caches <- v5, call <- v6,
  stored <- v7, pushed <- v8, failures <- v9, halfway <- v10

Usual == [actor |-> <<"a", "b", "c">>, channel |-> FALSE, limit |-> 3, open |-> {}, comes |-> {1, 2, 3},
          changes |-> 0, buffer |-> 1, merged |-> 2, timeouts |-> FALSE, maxFailures |-> 2,
          leaves |-> {1, 2, 3}]

(* Two clients that come and go; a third that comes while one leaves; one  *)
(* that pushes more changes than a batch keeps; a limit of one; a slow     *)
(* client that loses events; a channel.                                    *)
Rooms == {
  [Usual EXCEPT !.comes = {1, 2}],
  [Usual EXCEPT !.open = {2}, !.leaves = {2}, !.comes = {1, 3}],
  [Usual EXCEPT !.open = {1}, !.comes = {2}, !.changes = 4, !.leaves = {}],
  [Usual EXCEPT !.comes = {1, 2}, !.limit = 1],
  [Usual EXCEPT !.open = {1, 2}, !.comes = {}, !.changes = 3,
     !.leaves = {2}, !.merged = 1, !.timeouts = TRUE, !.maxFailures = 1],
  [Usual EXCEPT !.comes = {1, 2}, !.channel = TRUE, !.limit = 0, !.changes = 2] }

Events == INSTANCE PubSub WITH
  Streams <- {1, 2, 3}, Publishers <- {"b"}, PubSubSettings <- Rooms, MaxGroups <- 3,
  room <- v1, docSubsMap <- v2, groups <- v3, subs <- v4, handlers <- v5, pushers <- v6,
  views <- v7, owed <- v8

NoSlots == /\ v1 = 0 /\ v2 = 0 /\ v3 = 0 /\ v4 = 0 /\ v5 = 0
           /\ v6 = 0 /\ v7 = 0 /\ v8 = 0 /\ v9 = 0 /\ v10 = 0

NoTables == area = "none" /\ mem = 0 /\ mongo = 0 /\ agree = TRUE /\ calls = 0

StorageInit ==
  /\ part \in Parts
  /\ \/ part = "tables" /\ Init /\ NoSlots
     \/ part = "history" /\ Writes!Init /\ NoTables
     \/ part = "events" /\ Events!Init /\ v9 = 0 /\ v10 = 0 /\ NoTables

StorageNext ==
  /\ UNCHANGED part
  /\ \/ part = "tables" /\ Next /\ UNCHANGED slots
     \/ part = "history" /\ Writes!Next /\ UNCHANGED vars
     \/ part = "events" /\ Events!Next /\ UNCHANGED <<v9, v10, vars>>

StorageSpec == StorageInit /\ [][StorageNext]_<<part, vars, slots>>

(* Both databases answer a call alike, a read included, and hold the same  *)
(* rows; what the MongoDB backend caches is what it stores, and the lists  *)
(* its queries use name the documents whose status says so.                *)
BackendsAgree ==
  part = "tables" => /\ CallsAgree /\ ReadsAgree /\ SameRows
                     /\ CachesCurrent /\ AttachedDocsMatch

(* A document's history is what was pushed, through failed pushes and      *)
(* compactions that stop half way, and only a document that is too large   *)
(* is passed over.                                                         *)
HistoryKept == part = "history" => Writes!HistoryKept /\ Writes!SkippedOnlyTooLarge

(* A watching client that lost no event knows its peers and every change,  *)
(* and the last one to leave leaves nothing behind.                        *)
WatchersInformed == part = "events" => Events!PeersKnown /\ Events!ChangesKnown /\ Events!NothingLeft
=============================================================================

------------------------------- MODULE MCData -------------------------------
(***************************************************************************)
(* The data of a document and of its owners, on small instances: the index *)
(* trees and the channel tries against the lists and maps they stand for,  *)
(* the conversions, the counter, the presence of a document and the        *)
(* presence the server folds.  The parts do not interact: a behaviour is   *)
(* one of one part, and the slots v1 .. v15 hold that part's variables.    *)
(***************************************************************************)
EXTENDS Converters, TLC

CONSTANTS
    Parts,          \* the parts to check
    BroadcastsFail  \* whether an invalidation may fail to reach a server

VARIABLES part, v1, v2, v3, v4, v5, v6, v7, v8, v9, v10, v11, v12, v13, v14, v15

slots == <<v1, v2, v3, v4, v5, v6, v7, v8, v9, v10, v11, v12, v13, v14, v15>>

dataVars == <<part, slots, convVars>>

(* Trees and tries. *)
Splay == INSTANCE SplayTree WITH Nodes <- 1..4, Run <- 2,
           splay <- v1, chain <- v2, content <- v3, removed <- v4

List == INSTANCE TreeList WITH ListNodes <- 1..5, tlist <- v1, elements <- v2

Tree == INSTANCE LLRB WITH Keys <- 1..9, Values <- {1}, llrb <- v1, size <- v2, stored <- v3

(* Channel keys of up to three segments over the letters 2 and 3, 1 being  *)
(* the separator; only the segment of two letters hashes to bucket 2.      *)
SegmentA == <<2>>
SegmentB == <<3>>
SegmentAB == <<2, 3>>
TrieKeys == {<<SegmentA>>, <<SegmentA, SegmentB>>, <<SegmentA, SegmentB, SegmentA>>, <<SegmentAB>>}
TrieBucket(segment) == IF segment = SegmentAB THEN 2 ELSE 1

Trie == INSTANCE ChannelTrie WITH ChannelKeys <- TrieKeys, Buckets <- {1, 2}, BucketOf <- TrieBucket,
          Queries <- {<<2>>, <<2, 1, 3>>}, Limit <- 2, TopSize <- 2, MaxSessions <- 2,
          tries <- v1, members <- v2, lister <- v3

(* Counters of 3 and 5 bits and Doubles of 4 bits of mantissa: an operand  *)
(* out of every width, deltas at the bounds of each, actors two of which   *)
(* share a register.                                                       *)
Number(type, of) == [type |-> type, of |-> of]
Sent(type, of) == [delta |-> Number(type, of), actor |-> ""]
SentIncreases == {Sent("Double", d) : d \in {-13}} \cup {Sent("NonFinite", 0), Sent("String", 0),
                  Sent("Element", 0), Sent("Long", 13), [Sent("Integer", 1) EXCEPT !.actor = "b"]}
DeltasTried == {Number("Integer", n) : n \in {-4, 3}} \cup {Number("Long", n) : n \in {-16, 7}}
                 \cup {Number("Double", n) : n \in {-3, 31, 64, 70}}
HashOfActor(a) == IF a = "a" THEN <<1, 2>> ELSE IF a = "b" THEN <<1, 3>> ELSE <<2, 1>>

Count == INSTANCE Counter WITH Sites <- {1, 2}, Kinds <- {"IntegerCnt", "LongCnt", "IntegerDedupCnt"},
           IntBits <- 3, LongBits <- 5, Mantissa <- 4,
           Operands <- {[float |-> FALSE, of |-> -9], [float |-> TRUE, of |-> 7]},
           Wire <- SentIncreases, Deltas <- DeltasTried, Actors <- {"a", "b", "c"}, Registers <- {1, 2},
           HashOf <- HashOfActor, MaxRegister <- 3, MaxCount <- 7, MaxIncreases <- 3,
           kind <- v1, counters <- v2, log <- v3, unsent <- v4, seen <- v5, undo <- v6, redo <- v7

(* Updaters that set a key twice, set one and delete another, clear before *)
(* and after setting, initialise, or do nothing.                           *)
Plain(n) == [text |-> n, encoded |-> 0]
CallSet(k, n, h) == [op |-> "set", key |-> k, value |-> Plain(n), history |-> h, data |-> <<>>]
CallDelete(k, h) == [op |-> "delete", key |-> k, value |-> Plain(0), history |-> h, data |-> <<>>]
CallInit(d) == [op |-> "init", key |-> "a", value |-> Plain(0), history |-> FALSE, data |-> d]
CallClear == [op |-> "clear", key |-> "a", value |-> Plain(0), history |-> FALSE, data |-> <<>>]
UpdatersTried ==
  {<<CallSet("a", 1, TRUE)>>, <<CallSet("a", 2, FALSE), CallSet("a", 1, TRUE)>>,
   <<CallSet("b", 1, TRUE), CallDelete("a", TRUE)>>, <<CallClear, CallSet("a", 2, TRUE)>>,
   <<CallSet("a", 1, TRUE), CallClear>>, <<CallInit("b" :> Plain(2)), CallSet("b", 1, TRUE)>>, <<>>}

Pres == INSTANCE Presence WITH Me <- "me", Peers <- {"p"}, Updaters <- UpdatersTried,
          PeerData <- {"a" :> [text |-> 1, encoded |-> 1]}, StackDepth <- 2,
          Budgets <- {<<4, 0>>, <<2, 1>>, <<1, 2>>, <<0, 4>>},
          presences <- v1, online <- v2, clone <- v3, stale <- v4, undo <- v5, redo <- v6, local <- v7,
          server <- v8, sending <- v9, channel <- v10, app <- v11, told <- v12, disabled <- v13,
          updates <- v14, remote <- v15

(* Two servers, four writes, and behaviours with a detach and a second     *)
(* attach, a compaction, lost answers, evictions and restarts.             *)
WriteOf(k, v, gone) == [set |-> (k :> v), removed |-> gone]
WritesInTurn == <<WriteOf("b", 2, {}), WriteOf("a", 1, {}), WriteOf("b", 1, {"a"}), WriteOf("a", 2, {})>>
Budget(attach, sync, pushonly, detach, writes, timeouts, losses, others, compactions) ==
  [attach |-> attach, sync |-> sync, pushonly |-> pushonly, detach |-> detach, writes |-> writes,
   timeouts |-> timeouts, losses |-> losses, others |-> others, compactions |-> compactions]
FoldBudgets ==
  IF BroadcastsFail THEN {Budget(2, 3, 0, 1, 3, 0, 0, 0, 0)}
  ELSE {Budget(2, 3, 0, 1, 3, 0, 0, 0, 0), Budget(2, 2, 0, 1, 2, 0, 0, 0, 1), Budget(1, 1, 1, 0, 2, 1, 1, 0, 0),
        Budget(1, 4, 0, 0, 3, 1, 0, 0, 0), Budget(1, 1, 1, 0, 2, 1, 0, 1, 0), Budget(2, 1, 0, 1, 2, 1, 0, 0, 0),
        Budget(1, 0, 2, 1, 2, 0, 1, 0, 1)}

Fold == INSTANCE PresenceFold WITH Servers <- {"s1", "s2"}, Writes <- WritesInTurn, Overhead <- 1,
          MaxBaseSize <- 5, LateRequests <- FALSE, Budgets <- FoldBudgets,
          doc <- v1, row <- v2, rowCache <- v3, bases <- v4, job <- v5, wire <- v6, stored <- v7,
          client <- v8, left <- v9

(***************************************************************************)
(* Operations of every kind and elements of every type, with the fields    *)
(* each may carry present and absent.                                      *)
(***************************************************************************)
Tick(l, d) == {[lamport |-> l, delimiter |-> d, actor |-> 1]}
Other(l, d) == {[lamport |-> l, delimiter |-> d, actor |-> 20]}
RootTick == {[lamport |-> 0, delimiter |-> 0, actor |-> 0]}
At(fields) == [f \in ToSet(fields) |-> IF f = "executedAt" THEN Tick(5, 0) ELSE IF f = "parentCreatedAt" THEN RootTick ELSE Tick(1, 1)]
PrimitiveEl(vt, v, at) == [type |-> "primitive", vt |-> vt, v |-> v] @@ Times(at)
Attribute(v, at) == [val |-> v, updatedAt |-> at, isRemoved |-> FALSE]
GoneAttribute(at) == [val |-> "", updatedAt |-> at, isRemoved |-> TRUE]
TextEl == [type |-> "text", createdAt |-> Tick(2, 1), movedAt |-> Tick(3, 1), removedAt |-> {},
           nodes |-> <<[id |-> [createdAt |-> Tick(2, 2), offset |-> 0], text |-> "ab", attrs |-> ("b" :> Attribute("1", Other(3, 1))),
                        removedAt |-> Tick(4, 1), events |-> <<Other(4, 1)>>, insPrev |-> {}],
                       [id |-> [createdAt |-> Tick(2, 2), offset |-> 2], text |-> "c", attrs |-> ("b" :> GoneAttribute(Tick(4,2))),
                        removedAt |-> {}, events |-> <<>>, insPrev |-> {[createdAt |-> Tick(2, 2), offset |-> 0]}]>>]
CounterEl(vt, v, h) == [type |-> "counter", vt |-> vt, v |-> v, hll |-> h] @@ Times(Tick(2, 3))
TreeNodeOf(id, off, type, text, kids) ==
  [id |-> [createdAt |-> id, offset |-> off], type |-> type, text |-> text, attrs |-> <<>>, removedAt |-> {},
   insPrev |-> {}, insNext |-> {}, mergedFrom |-> {}, mergedAt |-> {}, children |-> kids]
SplitLeft == [TreeNodeOf(Tick(2, 5), 0, "p", "", <<TreeNodeOf(Tick(2, 6), 0, "text", "x", <<>>)>>) EXCEPT !.attrs = ("a" :> Attribute("1", Tick(3, 1))),
        !.insNext = {[createdAt |-> Tick(4, 1), offset |-> 0]}, !.removedAt = Other(4, 4)]
SplitRight == [TreeNodeOf(Tick(4, 1), 0, "p", "", <<TreeNodeOf(Tick(2, 6), 1, "text", "y", <<>>)>>) EXCEPT !.insPrev = {[createdAt |-> Tick(2, 5), offset |-> 0]},
        !.mergedFrom = {[createdAt |-> Tick(2, 9), offset |-> 0]}, !.mergedAt = Tick(4, 2)]
TreeEl == [type |-> "tree", root |-> TreeNodeOf(Tick(2, 4), 0, "doc", "", <<SplitLeft, SplitRight>>)] @@ Times(Tick(2, 4))
ObjectEl == [type |-> "object", createdAt |-> Tick(1, 2), movedAt |-> Tick(4, 0), removedAt |-> {},
        members |-> [all |-> {[key |-> "k", elem |-> [PrimitiveEl("Integer", "1", Tick(3, 1)) EXCEPT !.movedAt = Tick(4, 1)]],
                              [key |-> "k", elem |-> [PrimitiveEl("Integer", "2", Tick(3, 2)) EXCEPT !.removedAt = Tick(4, 1), !.movedAt = Tick(3, 2)]],
                              [key |-> "k", elem |-> [PrimitiveEl("Long", "3", Other(3, 1)) EXCEPT !.removedAt = Tick(4, 1)]],
                              [key |-> "t", elem |-> TreeEl], [key |-> "x", elem |-> [TextEl EXCEPT !.movedAt = {}]],
                              [key |-> "d", elem |-> CounterEl("IntegerDedupCnt", 2, {1, 2})]},
                     byKey |-> ("k" :> Tick(3, 1)) @@ ("t" :> Tick(2, 4)) @@ ("x" :> Tick(2, 1)) @@ ("d" :> Tick(2, 3))]]
ArrayNode(h, pc, pm) == [held |-> h, posCreatedAt |-> pc, posMovedAt |-> pm, removedAt |-> {}]
ArrayEl == [type |-> "array", createdAt |-> Tick(1, 3), movedAt |-> {}, removedAt |-> {},
        nodes |-> <<ArrayNode({[PrimitiveEl("String", "s", Tick(2, 1)) EXCEPT !.movedAt = Tick(4, 1)]}, Tick(4, 1), Tick(4, 1)),
                    [held |-> {}, posCreatedAt |-> Tick(2, 1), posMovedAt |-> {}, removedAt |-> Tick(4, 1)],
                    ArrayNode({[TreeEl EXCEPT !.createdAt = Tick(2, 2)]}, Tick(2, 2), {}),
                    ArrayNode({[PrimitiveEl("Null", "", Other(2, 3)) EXCEPT !.removedAt = Tick(4, 4)]}, Other(2, 3), {})>>]
TextPos(o) == [createdAt |-> Tick(2, 2), offset |-> o, relative |-> 0]
TreePosAt(o) == [parentID |-> [createdAt |-> Tick(2, 4), offset |-> 0], leftID |-> [createdAt |-> Other(2, 5), offset |-> o]]
SetOp(v) == [kind |-> "set", at |-> At(PE), key |-> "k", value |-> v]
EditOp(c, rs, m, rt) == [kind |-> "edit", at |-> At(PE), from |-> TextPos(0), to |-> TextPos(2), content |-> c, attributes |-> {"b"},
       restore |-> rs, mode |-> m, retombstone |-> rt]
TextSpan == [createdAt |-> Tick(2, 2), start |-> 0, end |-> 2, content |-> <<"a", "b">>, attributes |-> {}]
TreeSpan == [id |-> [createdAt |-> Tick(2, 5), offset |-> 0], nodeType |-> "p", isText |-> FALSE, length |-> 0, text |-> <<>>,
          attrs |-> ("a" :> Attribute("1", Tick(3, 1))), parent |-> {[createdAt |-> Tick(2, 4), offset |-> 0]},
          left |-> {[createdAt |-> Other(2, 4), offset |-> 0]}, right |-> {}]
TreeSpanText == [TreeSpan EXCEPT !.isText = TRUE, !.length = 1, !.text = <<"x">>, !.attrs = <<>>, !.left = {}, !.right = {[createdAt |-> Tick(2, 8), offset |-> 1]}]
TreeEditOp(c, l, st, rs, m, rt) == [kind |-> "treeEdit", at |-> At(PE), from |-> TreePosAt(0), to |-> TreePosAt(1), contents |-> c, level |-> l,
       splitTickets |-> st, restore |-> rs, retombstone |-> rt, mode |-> m]
PushedOperations == {SetOp(PrimitiveEl("Integer", "7", Tick(5, 0))), SetOp(TextEl), SetOp(ObjectEl), SetOp(TreeEl), SetOp(CounterEl("LongCnt", 3, {})), SetOp(CounterEl("IntegerDedupCnt", 2, {1, 2})),
   [kind |-> "add", at |-> At(PPE), value |-> ArrayEl], [kind |-> "add", at |-> At(PPE), value |-> TextEl],
   [kind |-> "move", at |-> At(PPCE)], [kind |-> "remove", at |-> At(PCE)],
   [kind |-> "arraySet", at |-> At(PCE), value |-> [PrimitiveEl("Double", "1.5", Tick(5, 1)) EXCEPT !.removedAt = Tick(6, 1)]],
   [kind |-> "increase", at |-> At(PE), value |-> PrimitiveEl("Double", "1.5", Tick(5, 1)), actor |-> ""],
   [kind |-> "increase", at |-> At(PE), value |-> PrimitiveEl("Integer", "1", Tick(5, 1)), actor |-> "a"],
   [kind |-> "style", at |-> At(PE), from |-> TextPos(0), to |-> TextPos(1), attributes |-> {"b"}, remove |-> {"i"}],
   [kind |-> "treeStyle", at |-> At(PE), from |-> TreePosAt(0), to |-> TreePosAt(1), attributes |-> {"b"}, remove |-> {}],
   EditOp(<<"x">>, <<>>, "none", <<>>),
   [EditOp(<<>>, <<TextSpan>>, "restore", <<[TextSpan EXCEPT !.start = 2, !.end = 3, !.content = <<"c">>]>>) EXCEPT !.attributes = {}],
   TreeEditOp(<<SplitLeft, TreeNodeOf(Tick(5, 9), 0, "text", "z", <<>>)>>, 0, <<>>, <<>>, "none", <<>>),
   TreeEditOp(<<>>, 2, <<Tick(5, 3), Tick(5, 4)>>, <<>>, "none", <<>>),
   TreeEditOp(<<>>, 0, <<>>, <<TreeSpan, TreeSpanText>>, "restore", <<>>), TreeEditOp(<<>>, 0, <<>>, <<>>, "retombstone", <<TreeSpanText>>)}
FieldValue(f, n) == IF f \in NarrowFields THEN n ELSE f
ResourceOf(k, fs, n) == [kind |-> k, fields |-> [f \in fs |-> FieldValue(f, n)]]
PresenceResource(ty, d, rk) == [kind |-> "presence", fields |-> [change |-> {[type |-> ty, data |-> d, removedKeys |-> rk]}]]
PushedResources == {ResourceOf("project", ProjectFields, n) : n \in {1, 7, 8}} \cup {ResourceOf("update", UpdatableFields, 3), ResourceOf("update", {"Name", "AllowedOrigins"}, 0),
   ResourceOf("document", SummaryFields \cup {"SchemaKey"}, 2), ResourceOf("schema", SchemaFields \cup {"ID"}, 2), ResourceOf("member", MemberFields, 0),
   ResourceOf("user", UserFields, 0), ResourceOf("channel", {"Key", "SessionCount"}, 9), [kind |-> "presence", fields |-> [change |-> {}]],
   PresenceResource("put", {{"c"}}, {}), PresenceResource("clear", {}, {}), PresenceResource("patch", {{}}, {"c"}), PresenceResource("put", {{}}, {}),
   [kind |-> "snapshot", fields |-> [root |-> [ObjectEl EXCEPT !.createdAt = RootTick, !.movedAt = {}], presences |-> ("a" :> {{"c"}}) @@ ("b" :> {{}})]]}

(***************************************************************************)
(* One part at a time.                                                     *)
(***************************************************************************)
(* The slots from the n-th on are unused. *)
Free10 == v10 = 0 /\ v11 = 0 /\ v12 = 0 /\ v13 = 0 /\ v14 = 0 /\ v15 = 0
Free8 == v8 = 0 /\ v9 = 0 /\ Free10
Free5 == v5 = 0 /\ v6 = 0 /\ v7 = 0 /\ Free8
Free4 == v4 = 0 /\ Free5
Free3 == v3 = 0 /\ Free4
Free1 == v1 = 0 /\ v2 = 0 /\ Free3

DataInit ==
  /\ part \in Parts
  /\ ConvInit
  /\ \/ part = "conversion" /\ Free1
     \/ part = "splay" /\ Splay!SplayInit /\ Free5
     \/ part = "list" /\ List!ListInit /\ Free3
     \/ part = "map" /\ Tree!LLRBInit /\ Free4
     \/ part = "trie" /\ Trie!TrieInit /\ Free4
     \/ part = "counter" /\ Count!CounterInit /\ Free8
     \/ part = "presence" /\ Pres!DocPresInit
     \/ part = "fold" /\ Fold!FoldInit /\ Free10

DataNext ==
  /\ UNCHANGED part
  /\ \/ part = "conversion" /\ ConvNext /\ UNCHANGED slots
     \/ part = "splay" /\ Splay!SplayNext /\ UNCHANGED <<v5, v6, v7, v8, v9, v10, v11, v12, v13, v14, v15>> /\ UNCHANGED convVars
     \/ part = "list" /\ List!ListNext /\ UNCHANGED <<v3, v4, v5, v6, v7, v8, v9, v10, v11, v12, v13, v14, v15>> /\ UNCHANGED convVars
     \/ part = "map" /\ Tree!LLRBNext /\ UNCHANGED <<v4, v5, v6, v7, v8, v9, v10, v11, v12, v13, v14, v15>> /\ UNCHANGED convVars
     \/ part = "trie" /\ Trie!TrieNext /\ UNCHANGED <<v4, v5, v6, v7, v8, v9, v10, v11, v12, v13, v14, v15>> /\ UNCHANGED convVars
     \/ part = "counter" /\ Count!CounterNext /\ UNCHANGED <<v8, v9, v10, v11, v12, v13, v14, v15>> /\ UNCHANGED convVars
     \/ part = "presence" /\ Pres!DocPresNext /\ UNCHANGED convVars
     \/ part = "fold" /\ Fold!FoldNext /\ UNCHANGED <<v10, v11, v12, v13, v14, v15>> /\ UNCHANGED convVars

DataSpec == DataInit /\ [][DataNext]_dataVars

(* The splay tree, the tree list and the left-leaning red-black tree hold  *)
(* exactly the list or the map they index, with the weights, the order and *)
(* the balance their code relies on, after any calls; the tries of the     *)
(* channel manager hold the channels there are, and a listing returns,     *)
(* whatever attaches and detaches between its reads, only channels that    *)
(* were there during it and every one that was there throughout, up to its *)
(* limit (pkg/splay, pkg/llrb, crdt.TreeList, channel.Trie).               *)
ContainersExact ==
  /\ part = "splay" => Splay!SplayIsList
  /\ part = "list" => List!TreeIsList
  /\ part = "map" => Tree!TreeIsMap
  /\ part = "trie" => Trie!TriesHoldChannels /\ Trie!ListingIsRegular

(* A value that crosses the wire arrives as it was, a stored change loads  *)
(* whatever version of the server wrote it, and a change of a document not *)
(* yet attached is renamed to its real actor in every ticket that names    *)
(* the provisional one (api/converter, Change.SetActor).                   *)
ConversionsExact == part = "conversion" => WireExact /\ StoredLoads /\ ReissueRenames

(* Sites that have exchanged everything have the counter the server's      *)
(* replay builds; a reverse operation restores the value, and a stored     *)
(* increase never fails to apply (crdt.Counter, operations.Increase).      *)
CountersSound ==
  part = "counter" => Count!CountersAgree /\ Count!ReverseInverts /\ Count!StoredChangesApply

(* The data of a document is what its calls and conversions promise. *)
DataExact == ContainersExact /\ ConversionsExact /\ CountersSound

(* What the events told the application is what the document shows of      *)
(* every actor whose presence changed only with an event, and undo and     *)
(* redo restore exactly the presence there was (Document.publish,          *)
(* ReconcilePresence, executeUndoRedo).                                    *)
PresenceTold == part = "presence" => Pres!EventsTell /\ Pres!OwnPresenceExact

(* The server stores, for a change, the presence its sender held after it  *)
(* or nothing (foldPresencePatches, presenceFold.commit).                  *)
PresenceStoredAsHeld == part = "fold" => Fold!StoredAsHeld
=============================================================================

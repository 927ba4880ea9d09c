------------------------------ MODULE Converters ------------------------------
(***************************************************************************)
(* The conversion between the models and the wire (api/converter): the     *)
(* operations a client pushes, the elements nested in them, the repair of  *)
(* the operations read back from storage, the re-issue of the tickets of a *)
(* document that never synced, and the resources of the admin API.         *)
(*                                                                         *)
(* A pointer that may be nil is a set of at most one.  A ticket of a model *)
(* is [lamport, delimiter, actor]; on the wire its actor is bytes, which   *)
(* decode only when their length is an actor's (one here).  The payload of *)
(* a primitive is [width, v] on the wire.  A decoder answers Ok(value) or  *)
(* Err("ticket") for ErrMissingTicket or Err("other") for any other error, *)
(* and its checks are listed in the order the code makes them.             *)
(***************************************************************************)
EXTENDS Integers, Sequences, FiniteSets, SequencesExt

CONSTANTS
    Operations,          \* the operations a client may push in a change
    Resources,           \* the other values that cross the wire
    Prev, Next0,         \* the actor before and after the first attach
    Half,                \* 2^31: an int32 holds -Half .. Half - 1
    MaxRemovalEvents,    \* maxTextRemovalEvents
    MaxOps               \* the operations of a change

VARIABLES
    change,      \* the operations of the change, as models
    stored,      \* the operations as stored: wire form, perhaps written under older rules
    legacy,      \* the operations damaged so, with the kind of the damage
    resource     \* another value that crosses the wire, at most one

convVars == <<change, stored, legacy, resource>>

Ok(v)  == [ok |-> TRUE, val |-> v]
Err(k) == [ok |-> FALSE, why |-> k]

(* The first error of the results, or the value made of theirs. *)
Combined(results, bad, Make(_)) ==
    IF bad # <<>> THEN bad[1] ELSE Ok(Make([i \in DOMAIN results |-> results[i].val]))

Checked(results, Make(_)) == Combined(results, SelectSeq(results, LAMBDA r : ~r.ok), Make)

Build(results, Make(_)) == Checked(SelectSeq(results, LAMBDA r : TRUE), Make)

Same(v) == v

All(results) == Build(results, Same)

Require(cond, kind) == IF cond THEN Ok(TRUE) ELSE Err(kind)

The(s) == CHOOSE x \in s : TRUE

(* A nil-able part, decoded when present. *)
Maybe(s, Decode(_)) == IF s = {} THEN Ok({}) ELSE Build(<<Decode(The(s))>>, LAMBDA v : {v[1]})

Int32(n) == ((n + Half) % (2 * Half)) - Half

IsInt32(n) == n \in (-Half)..(Half - 1)

-----------------------------------------------------------------------------
(* Tickets *)

ToTimeTicket(t) ==
    {[lamport |-> x.lamport, delimiter |-> x.delimiter, actorId |-> <<x.actor>>] : x \in t}

ActorIDFromBytes(b) == IF Len(b) = 1 THEN Ok(b[1]) ELSE Err("other")

fromTimeTicket(pb) ==
    Maybe(pb, LAMBDA x : Build(<<ActorIDFromBytes(x.actorId)>>,
                               LAMBDA v : [lamport |-> x.lamport, delimiter |-> x.delimiter, actor |-> v[1]]))

fromRequiredTimeTicket(pb) == IF pb = {} THEN Err("ticket") ELSE fromTimeTicket(pb)

Earlier(a, b) ==
    \/ a.lamport < b.lamport
    \/ a.lamport = b.lamport /\ a.actor < b.actor
    \/ a.lamport = b.lamport /\ a.actor = b.actor /\ a.delimiter < b.delimiter

(* The ticket fields of an operation, all of them required. *)
ToTickets(at) == [f \in DOMAIN at |-> ToTimeTicket(at[f])]

Required(pb, fields) == [i \in DOMAIN fields |-> fromRequiredTimeTicket(pb.at[fields[i]])]

Tickets(fields, v) == [f \in ToSet(fields) |-> v[CHOOSE i \in DOMAIN fields : fields[i] = f]]

-----------------------------------------------------------------------------
(* Payloads *)

WidthOf == [Null |-> 0, Boolean |-> 1, Integer |-> 4, Long |-> 8, Double |-> 8,
            String |-> 0, Bytes |-> 0, Date |-> 8]

CounterWidth == [IntegerCnt |-> 4, LongCnt |-> 8, IntegerDedupCnt |-> 4]

PrimitiveBytes(p) == [width |-> WidthOf[p.vt], v |-> p.v]

ValueFromBytes(vt, b) == IF b.width >= WidthOf[vt] THEN Ok(b.v) ELSE Err("other")

CounterBytes(c) == [width |-> CounterWidth[c.vt], v |-> c.v]

CounterValueFromBytes(vt, b) == IF b.width >= CounterWidth[vt] THEN Ok(b.v) ELSE Err("other")

IsDedup(c) == c.vt = "IntegerDedupCnt"

(* A dedup counter starts empty whatever value is given. *)
NewCounter(vt, v, at) ==
    [type |-> "counter", vt |-> vt, v |-> IF vt = "IntegerDedupCnt" THEN 0 ELSE v,
     hll |-> {}, createdAt |-> at, movedAt |-> {}, removedAt |-> {}]

(* The registers are the set of actors they count, and the value follows. *)
RestoreHLL(c, actors) == [c EXCEPT !.hll = actors, !.v = Cardinality(actors)]

IsText(e)   == e.type = "text"
IsObject(e) == e.type = "object"
IsArray(e)  == e.type = "array"
IsTree(e)   == e.type = "tree"

-----------------------------------------------------------------------------
(* Members of an object: every node, and the node that holds each key *)

NewElementRHT == [all |-> {}, byKey |-> <<>>]

PositionedAt(e) == The(IF e.movedAt # {} THEN e.movedAt ELSE e.createdAt)

Holder(rht, k) == CHOOSE n \in rht.all : n.elem.createdAt = rht.byKey[k]

Removed(e, at) ==
    IF /\ Earlier(The(e.createdAt), at)
       /\ \A r \in e.removedAt : Earlier(r, at)
    THEN [e EXCEPT !.removedAt = {at}] ELSE e

SetWithExecutedAt(rht, k, v, at) ==
    LET others == {n \in rht.all : n.elem.createdAt # v.createdAt}
        held   == {n \in others : k \in DOMAIN rht.byKey /\ n = Holder(rht, k)}
        wins   == \/ k \notin DOMAIN rht.byKey
                  \/ Earlier(PositionedAt(Holder(rht, k).elem), at)
        evicted == {IF n \in held /\ n.elem.removedAt = {} THEN [n EXCEPT !.elem = Removed(@, at)] ELSE n
                      : n \in others}
    IN  IF wins
        THEN [all |-> evicted \cup {[key |-> k, elem |-> [v EXCEPT !.movedAt = {at}]]},
              byKey |-> [x \in DOMAIN rht.byKey \cup {k} |->
                            IF x = k THEN v.createdAt ELSE rht.byKey[x]]]
        ELSE [rht EXCEPT !.all = others \cup
                 {[key |-> k, elem |-> IF v.removedAt = {}
                                       THEN Removed(v, PositionedAt(Holder(rht, k).elem)) ELSE v]}]

(* The nodes in the order a peer replays them. *)
ReplayedBefore(a, b) ==
    \/ Earlier(PositionedAt(a.elem), PositionedAt(b.elem))
    \/ PositionedAt(a.elem) = PositionedAt(b.elem) /\ Earlier(The(a.elem.createdAt), The(b.elem.createdAt))

RHTNodes(obj) ==
    [i \in 1..Cardinality(obj.members.all) |->
       CHOOSE n \in obj.members.all : Cardinality({m \in obj.members.all : ReplayedBefore(m, n)}) = i - 1]

-----------------------------------------------------------------------------
(* Nodes of a tree: nested in the model, flat in post-order on the wire *)

toTreeNodeID(id) == [createdAt |-> ToTimeTicket(id.createdAt), offset |-> Int32(id.offset)]

fromTreeNodeIDCreatedAt(pb) == IF pb = {} THEN Err("other") ELSE fromRequiredTimeTicket(The(pb).createdAt)

fromTreeNodeID(pb) ==
    Build(<<fromTreeNodeIDCreatedAt(pb)>>, LAMBDA v : [createdAt |-> v[1], offset |-> The(pb).offset])

(* A negative offset of an anchor is floored rather than rejected. *)
fromTreeRestoreAnchorID(pb) ==
    Build(<<fromTreeNodeIDCreatedAt(pb)>>,
          LAMBDA v : [createdAt |-> v[1], offset |-> IF The(pb).offset < 0 THEN 0 ELSE The(pb).offset])

MaybeID(s) == Maybe(s, LAMBDA id : fromTreeNodeID({id}))

toRHT(attrs) == [k \in DOMAIN attrs |-> [attrs[k] EXCEPT !.updatedAt = ToTimeTicket(@)]]

(* An attribute without a time is an error, though not ErrMissingTicket. *)
fromNodeAttr(pb) ==
    Build(<<fromTimeTicket(pb.updatedAt), Require(pb.updatedAt # {}, "other")>>,
          LAMBDA v : [val |-> IF pb.isRemoved THEN "" ELSE pb.val, updatedAt |-> v[1],
                      isRemoved |-> pb.isRemoved])

fromRHT(pb) ==
    IF \E k \in DOMAIN pb : ~fromNodeAttr(pb[k]).ok THEN Err("other")
    ELSE Ok([k \in DOMAIN pb |-> fromNodeAttr(pb[k]).val])

toTreeNode(n, depth) ==
    [id |-> {toTreeNodeID(n.id)}, type |-> n.type, text |-> n.text, depth |-> Int32(depth),
     removedAt |-> ToTimeTicket(n.removedAt), attrs |-> toRHT(n.attrs),
     insPrev |-> {toTreeNodeID(i) : i \in n.insPrev}, insNext |-> {toTreeNodeID(i) : i \in n.insNext},
     mergedFrom |-> {toTreeNodeID(i) : i \in n.mergedFrom}, mergedAt |-> ToTimeTicket(n.mergedAt)]

RECURSIVE PostOrder(_, _)
PostOrder(n, depth) ==
    FlattenSeq([i \in DOMAIN n.children |-> PostOrder(n.children[i], depth + 1)]) \o <<toTreeNode(n, depth)>>

ToTreeNodes(root) == PostOrder(root, 0)

fromTreeNode(pb) ==
    Build(<<fromTreeNodeID(pb.id), fromRHT(pb.attrs), MaybeID(pb.insPrev), MaybeID(pb.insNext),
            MaybeID(pb.mergedFrom), fromTimeTicket(pb.mergedAt), fromTimeTicket(pb.removedAt)>>,
          LAMBDA v : [id |-> v[1], type |-> pb.type, text |-> pb.text, attrs |-> v[2],
                      insPrev |-> v[3], insNext |-> v[4], mergedFrom |-> v[5], mergedAt |-> v[6],
                      removedAt |-> v[7], children |-> <<>>])

(* The last node before which node i stands one level up. *)
ParentsOf(pbs, i) == {j \in (i + 1)..Len(pbs) : pbs[j].depth = pbs[i].depth - 1}

ParentOf(pbs, i) == CHOOSE j \in ParentsOf(pbs, i) : \A k \in ParentsOf(pbs, i) : j <= k

RECURSIVE Nest(_, _, _)
Nest(pbs, nodes, j) ==
    LET below == SelectSeq([i \in 1..(j - 1) |-> i], LAMBDA i : ParentsOf(pbs, i) # {} /\ ParentOf(pbs, i) = j)
    IN  [nodes[j] EXCEPT !.children = [i \in DOMAIN below |-> Nest(pbs, nodes, below[i])]]

(* An empty list decodes to no node at all. *)
FromTreeNodes(pbs) ==
    IF pbs = <<>> THEN Ok({})
    ELSE Build(<<All([i \in DOMAIN pbs |-> fromTreeNode(pbs[i])]),
                 Require(\A i \in 1..(Len(pbs) - 1) :
                            ParentsOf(pbs, i) # {} /\ pbs[ParentOf(pbs, i)].type # "text", "other")>>,
               LAMBDA v : {Nest(pbs, v[1], Len(pbs))})

(* The tree with the given fields cleared on every node. *)
RECURSIVE Cleared(_, _)
Cleared(n, fields) ==
    [f \in DOMAIN n |-> IF f \in fields THEN {}
                        ELSE IF f = "children" THEN [i \in DOMAIN n.children |-> Cleared(n.children[i], fields)]
                        ELSE n[f]]

DropSplitLinks(root) == Cleared(root, {"insPrev", "insNext"})

DropEngineOnlyLinks(root) == Cleared(root, {"insPrev", "insNext", "mergedFrom", "mergedAt"})

ClearTombstones(root) == Cleared(root, {"removedAt"})

ToTreeNodesWhenEdit(nodes) == [i \in DOMAIN nodes |-> {ToTreeNodes(nodes[i])}]

(* Content no edit can have touched carries no link and no tombstone. *)
FromTreeNodesWhenEdit(pbs) ==
    All([i \in DOMAIN pbs |->
           IF pbs[i] \in {{}, {<<>>}} THEN Err("other")
           ELSE Build(<<FromTreeNodes(The(pbs[i]))>>, LAMBDA v : ClearTombstones(DropEngineOnlyLinks(The(v[1]))))])

-----------------------------------------------------------------------------
(* Elements in full: what a snapshot, and the bytes of a nested value, hold *)

toTextNodeID(id) == [createdAt |-> ToTimeTicket(id.createdAt), offset |-> Int32(id.offset)]

fromTextNodeID(pb) ==
    Maybe(pb, LAMBDA id : Build(<<fromRequiredTimeTicket(id.createdAt)>>,
                                LAMBDA v : [createdAt |-> v[1], offset |-> id.offset]))

toTextNodes(nodes) ==
    [i \in DOMAIN nodes |->
       [id |-> {toTextNodeID(nodes[i].id)}, text |-> nodes[i].text, attrs |-> toRHT(nodes[i].attrs),
        removedAt |-> ToTimeTicket(nodes[i].removedAt),
        events |-> [j \in DOMAIN nodes[i].events |-> ToTimeTicket(nodes[i].events[j])],
        insPrev |-> {toTextNodeID(p) : p \in nodes[i].insPrev}]]

(* The ledger is refused when it repeats a ticket. *)
fromTextNode(pb) ==
    Build(<<fromTextNodeID(pb.id), Require(pb.id # {}, "other"), fromRHT(pb.attrs),
            fromTimeTicket(pb.removedAt), All([j \in DOMAIN pb.events |-> fromRequiredTimeTicket(pb.events[j])]),
            Require(/\ IsInjective(pb.events)
                    /\ pb.events # <<>> => pb.removedAt \notin ToSet(pb.events), "other")>>,
          LAMBDA v : [id |-> The(v[1]), text |-> pb.text, attrs |-> v[3], removedAt |-> v[4],
                      events |-> v[5], insPrev |-> {}])

(* A node's insertion predecessor must have been read before it. *)
LinkInsPrev(pbs, nodes, links) ==
    IF \E i \in DOMAIN nodes : \E p \in links[i] : \A j \in 1..i : nodes[j].id # p THEN Err("other")
    ELSE Ok([i \in DOMAIN nodes |-> [nodes[i] EXCEPT !.insPrev = links[i]]])

fromTextNodes(pbs) ==
    LET read  == All([i \in DOMAIN pbs |-> fromTextNode(pbs[i])])
        links == All([i \in DOMAIN pbs |-> fromTextNodeID(pbs[i].insPrev)])
    IN  IF ~read.ok THEN read ELSE IF ~links.ok THEN links ELSE LinkInsPrev(pbs, read.val, links.val)

(* The three times every element carries. *)
ToTimes(e) == [createdAt |-> ToTimeTicket(e.createdAt), movedAt |-> ToTimeTicket(e.movedAt),
               removedAt |-> ToTimeTicket(e.removedAt)]

FromTimes(pb) ==
    Build(<<fromRequiredTimeTicket(pb.createdAt), fromTimeTicket(pb.movedAt), fromTimeTicket(pb.removedAt)>>,
          LAMBDA v : [createdAt |-> v[1], movedAt |-> v[2], removedAt |-> v[3]])

toPrimitive(e) == [type |-> "primitive", vt |-> e.vt, bytes |-> PrimitiveBytes(e)] @@ ToTimes(e)

toText(e) == [type |-> "text", nodes |-> toTextNodes(e.nodes)] @@ ToTimes(e)

toCounter(e) == [type |-> "counter", vt |-> e.vt, bytes |-> CounterBytes(e), hll |-> e.hll] @@ ToTimes(e)

toTree(e) == [type |-> "tree", nodes |-> ToTreeNodes(e.root)] @@ ToTimes(e)

RECURSIVE toJSONElement(_)

toMembers(nodes) == [i \in DOMAIN nodes |-> [key |-> nodes[i].key, element |-> {toJSONElement(nodes[i].elem)}]]

toJSONObject(e) == [type |-> "object", nodes |-> toMembers(RHTNodes(e))] @@ ToTimes(e)

(* A position an element has left is written with its removal; a live *)
(* element's position only when the element was moved there.          *)
toRGANode(n) ==
    IF n.held = {}
    THEN [element |-> {}, posCreatedAt |-> ToTimeTicket(n.posCreatedAt), posMovedAt |-> {},
          posRemovedAt |-> ToTimeTicket(n.removedAt)]
    ELSE [element |-> {toJSONElement(e) : e \in n.held}, posMovedAt |-> ToTimeTicket(n.posMovedAt),
          posCreatedAt |-> IF n.posMovedAt = {} THEN {} ELSE ToTimeTicket(n.posCreatedAt), posRemovedAt |-> {}]

toJSONArray(e) == [type |-> "array", nodes |-> [i \in DOMAIN e.nodes |-> toRGANode(e.nodes[i])]] @@ ToTimes(e)

toJSONElement(e) ==
    CASE e.type = "object"    -> toJSONObject(e)
      [] e.type = "array"     -> toJSONArray(e)
      [] e.type = "primitive" -> toPrimitive(e)
      [] e.type = "text"      -> toText(e)
      [] e.type = "counter"   -> toCounter(e)
      [] e.type = "tree"      -> toTree(e)

RECURSIVE fromJSONElement(_)

RECURSIVE Replayed(_, _)
Replayed(rht, nodes) ==
    IF nodes = <<>> THEN rht
    ELSE Replayed(SetWithExecutedAt(rht, nodes[1].key, nodes[1].elem, PositionedAt(nodes[1].elem)), Tail(nodes))

(* The members are set again one by one, each at the time it holds its place. *)
fromJSONObject(pb) ==
    Build(<<All([i \in DOMAIN pb.nodes |-> fromJSONElement(The(pb.nodes[i].element))]), FromTimes(pb)>>,
          LAMBDA v : [type |-> "object",
                      members |-> Replayed(NewElementRHT,
                                     [i \in DOMAIN pb.nodes |-> [key |-> pb.nodes[i].key, elem |-> v[1][i]]])] @@ v[2])

fromRGANode(pb) ==
    CASE pb.element = {} ->
             Build(<<Require(pb.posCreatedAt # {} /\ pb.posRemovedAt # {}, "ticket"),
                     fromTimeTicket(pb.posCreatedAt), fromTimeTicket(pb.posRemovedAt)>>,
                   LAMBDA v : [held |-> {}, posCreatedAt |-> v[2], posMovedAt |-> {}, removedAt |-> v[3]])
      [] pb.element # {} /\ pb.posMovedAt # {} ->
             Build(<<fromJSONElement(The(pb.element)), fromTimeTicket(pb.posMovedAt),
                     fromRequiredTimeTicket(pb.posCreatedAt)>>,
                   LAMBDA v : [held |-> {v[1]}, posCreatedAt |-> v[3], posMovedAt |-> v[2], removedAt |-> {}])
      [] OTHER ->
             Build(<<fromJSONElement(The(pb.element))>>,
                   LAMBDA v : [held |-> {v[1]}, posCreatedAt |-> v[1].createdAt, posMovedAt |-> {},
                               removedAt |-> {}])

fromJSONArray(pb) ==
    Build(<<All([i \in DOMAIN pb.nodes |-> fromRGANode(pb.nodes[i])]), FromTimes(pb)>>,
          LAMBDA v : [type |-> "array", nodes |-> v[1]] @@ v[2])

fromJSONPrimitive(pb) ==
    Build(<<FromTimes(pb), ValueFromBytes(pb.vt, pb.bytes)>>,
          LAMBDA v : [type |-> "primitive", vt |-> pb.vt, v |-> v[2]] @@ v[1])

fromJSONText(pb) ==
    Build(<<FromTimes(pb), fromTextNodes(pb.nodes)>>, LAMBDA v : [type |-> "text", nodes |-> v[2]] @@ v[1])

fromJSONCounter(pb) ==
    Build(<<FromTimes(pb), CounterValueFromBytes(pb.vt, pb.bytes)>>,
          LAMBDA v : [IF IsDedup(pb) /\ pb.hll # {} THEN RestoreHLL(NewCounter(pb.vt, v[2], v[1].createdAt), pb.hll)
                      ELSE NewCounter(pb.vt, v[2], v[1].createdAt)
                      EXCEPT !.movedAt = v[1].movedAt, !.removedAt = v[1].removedAt])

fromJSONTree(pb) ==
    Build(<<FromTimes(pb), FromTreeNodes(pb.nodes), Require(pb.nodes # <<>>, "other")>>,
          LAMBDA v : [type |-> "tree", root |-> The(v[2])] @@ v[1])

fromJSONElement(pb) ==
    CASE pb.type = "object"    -> fromJSONObject(pb)
      [] pb.type = "array"     -> fromJSONArray(pb)
      [] pb.type = "primitive" -> fromJSONPrimitive(pb)
      [] pb.type = "text"      -> fromJSONText(pb)
      [] pb.type = "counter"   -> fromJSONCounter(pb)
      [] pb.type = "tree"      -> fromJSONTree(pb)

NewData == {}

ToPresences(presences) == [c \in DOMAIN presences |-> {presences[c]}]

(* A message without data is an empty presence, no message none. *)
fromPresence(pb) == IF pb = {{}} THEN {NewData} ELSE UNION pb

fromPresences(pbs) == [c \in DOMAIN pbs |-> fromPresence(pbs[c])]

(* The bytes of an object, an array or a tree; decoding them asks for that type. *)
ElementToBytes(e) == {toJSONElement(e)}

BytesToElement(bytes, type) ==
    IF bytes = {} \/ The(bytes).type # type THEN Err("other") ELSE fromJSONElement(The(bytes))

SnapshotToBytes(obj, presences) == {[root |-> toJSONElement(obj), presences |-> ToPresences(presences)]}

NoDocument ==
    [root |-> [type |-> "object", members |-> NewElementRHT, movedAt |-> {}, removedAt |-> {},
               createdAt |-> {[lamport |-> 0, delimiter |-> 0, actor |-> 0]}],
     presences |-> <<>>]

BytesToSnapshot(bytes) ==
    IF bytes = {} THEN Ok(NoDocument)
    ELSE Build(<<fromJSONElement(The(bytes).root), Require(The(bytes).root.type = "object", "other")>>,
               LAMBDA v : [root |-> v[1], presences |-> fromPresences(The(bytes).presences)])

-----------------------------------------------------------------------------
(* Elements as an operation carries them *)

(* The elements directly below, live and dead. *)
Below(e) ==
    CASE IsObject(e) -> {n.elem : n \in e.members.all}
      [] IsArray(e)  -> UNION {n.held : n \in ToSet(e.nodes)}
      [] OTHER       -> {}

RECURSIVE DropSplitLinksInElement(_)
DropSplitLinksInElement(e) ==
    CASE IsTree(e)   -> [e EXCEPT !.root = DropSplitLinks(@)]
      [] IsObject(e) -> [e EXCEPT !.members.all =
                            {[n EXCEPT !.elem = DropSplitLinksInElement(@)] : n \in e.members.all}]
      [] IsArray(e)  -> [e EXCEPT !.nodes = [i \in DOMAIN e.nodes |->
                            [e.nodes[i] EXCEPT !.held = {DropSplitLinksInElement(x) : x \in @}]]]
      [] OTHER       -> e

RECURSIVE checkRemovalEvents(_)
checkRemovalEvents(e) ==
    /\ IsText(e) => \A i \in DOMAIN e.nodes : Len(e.nodes[i].events) <= MaxRemovalEvents
    /\ \A x \in Below(e) : checkRemovalEvents(x)

sanitizeElement(decoded) ==
    IF ~decoded.ok THEN decoded
    ELSE IF ~checkRemovalEvents(decoded.val) THEN Err("other")
    ELSE Ok(DropSplitLinksInElement(decoded.val))

(* An object, an array and a tree travel in full; a primitive and a counter *)
(* as a payload; a text as its creation alone.                              *)
toJSONElementSimple(e) ==
    [type |-> e.type, createdAt |-> ToTimeTicket(e.createdAt),
     vt |-> IF e.type \in {"primitive", "counter"} THEN e.vt ELSE "",
     payload |-> CASE e.type \in {"object", "array", "tree"} -> ElementToBytes(e)
                   [] e.type = "primitive"                   -> {PrimitiveBytes(e)}
                   [] e.type = "counter"                     -> {CounterBytes(e)}
                   [] e.type = "text"                        -> {}]

Times(at) == [createdAt |-> at, movedAt |-> {}, removedAt |-> {}]

fromElement(pb) ==
    CASE pb.type \in {"object", "array"} /\ pb.payload = {} ->
             Build(<<fromRequiredTimeTicket(pb.createdAt)>>,
                   LAMBDA v : IF pb.type = "object" THEN [type |-> "object", members |-> NewElementRHT] @@ Times(v[1])
                              ELSE [type |-> "array", nodes |-> <<>>] @@ Times(v[1]))
      [] pb.type = "tree" /\ pb.payload = {} -> Err("other")
      [] pb.type \in {"object", "array", "tree"} /\ pb.payload # {} -> sanitizeElement(BytesToElement(pb.payload, pb.type))
      [] pb.type = "primitive" ->
             Build(<<fromRequiredTimeTicket(pb.createdAt), ValueFromBytes(pb.vt, The(pb.payload))>>,
                   LAMBDA v : [type |-> "primitive", vt |-> pb.vt, v |-> v[2]] @@ Times(v[1]))
      [] pb.type = "text" ->
             Build(<<fromRequiredTimeTicket(pb.createdAt)>>,
                   LAMBDA v : [type |-> "text", nodes |-> <<>>] @@ Times(v[1]))
      [] pb.type = "counter" ->
             Build(<<fromRequiredTimeTicket(pb.createdAt), CounterValueFromBytes(pb.vt, The(pb.payload))>>,
                   LAMBDA v : NewCounter(pb.vt, v[2], v[1]))

-----------------------------------------------------------------------------
(* Operations.  [kind, at, ...]: at holds the required times. *)

PE  == <<"parentCreatedAt", "executedAt">>
PPE == <<"parentCreatedAt", "prevCreatedAt", "executedAt">>
PCE == <<"parentCreatedAt", "createdAt", "executedAt">>
PPCE == <<"parentCreatedAt", "prevCreatedAt", "createdAt", "executedAt">>

toSet(op) == [kind |-> "set", at |-> ToTickets(op.at), key |-> op.key, value |-> toJSONElementSimple(op.value)]

fromSet(pb, value) ==
    Build(Required(pb, PE) \o <<value>>,
          LAMBDA v : [kind |-> "set", at |-> Tickets(PE, v), key |-> pb.key, value |-> v[3]])

toAdd(op) == [kind |-> "add", at |-> ToTickets(op.at), value |-> toJSONElementSimple(op.value)]

fromAdd(pb, value) ==
    Build(<<Required(pb, PPE)[1], Required(pb, PPE)[2], value, Required(pb, PPE)[3]>>,
          LAMBDA v : [kind |-> "add", at |-> Tickets(PPE, <<v[1], v[2], v[4]>>), value |-> v[3]])

toMove(op) == [kind |-> "move", at |-> ToTickets(op.at)]

fromMove(pb) == Build(Required(pb, PPCE), LAMBDA v : [kind |-> "move", at |-> Tickets(PPCE, v)])

toRemove(op) == [kind |-> "remove", at |-> ToTickets(op.at)]

fromRemove(pb) == Build(Required(pb, PCE), LAMBDA v : [kind |-> "remove", at |-> Tickets(PCE, v)])

toArraySet(op) == [kind |-> "arraySet", at |-> ToTickets(op.at), value |-> toJSONElementSimple(op.value)]

fromArraySet(pb, value) ==
    Build(<<Required(pb, PCE)[1], Required(pb, PCE)[2], value, Required(pb, PCE)[3]>>,
          LAMBDA v : [kind |-> "arraySet", at |-> Tickets(PCE, <<v[1], v[2], v[4]>>), value |-> v[3]])

toIncrease(op) ==
    [kind |-> "increase", at |-> ToTickets(op.at), value |-> toJSONElementSimple(op.value), actor |-> op.actor]

NonFinite(e) == e.type = "primitive" /\ e.vt = "Double" /\ e.v \in {"nan", "inf"}

fromIncrease(pb, value) ==
    Build(<<Required(pb, PE)[1], value, Require(value.ok => ~NonFinite(value.val), "other"), Required(pb, PE)[2]>>,
          LAMBDA v : [kind |-> "increase", at |-> Tickets(PE, <<v[1], v[4]>>), value |-> v[2], actor |-> pb.actor])

(* Positions in a text and in a tree *)
toTextNodePos(pos) ==
    {[createdAt |-> ToTimeTicket(pos.createdAt), offset |-> Int32(pos.offset), relative |-> Int32(pos.relative)]}

fromTextNodePos(pb) ==
    IF pb = {} THEN Err("other")
    ELSE Build(<<fromRequiredTimeTicket(The(pb).createdAt)>>,
               LAMBDA v : [createdAt |-> v[1], offset |-> The(pb).offset, relative |-> The(pb).relative])

toTreePos(pos) == {[parent |-> {toTreeNodeID(pos.parentID)}, left |-> {toTreeNodeID(pos.leftID)}]}

fromTreePos(pb) ==
    IF pb = {} THEN Err("other")
    ELSE Build(<<fromTreeNodeID(The(pb).parent), fromTreeNodeID(The(pb).left)>>,
               LAMBDA v : [parentID |-> v[1], leftID |-> v[2]])

(* A style sets, removes, or does both. *)
toStyle(op) ==
    [kind |-> "style", at |-> ToTickets(op.at), from |-> toTextNodePos(op.from), to |-> toTextNodePos(op.to),
     attributes |-> op.attributes, remove |-> op.remove]

fromStyle(pb) ==
    Build(<<Required(pb, PE)[1], fromTextNodePos(pb.from), fromTextNodePos(pb.to), Required(pb, PE)[2]>>,
          LAMBDA v : [kind |-> "style", at |-> Tickets(PE, <<v[1], v[4]>>), from |-> v[2], to |-> v[3],
                      attributes |-> pb.attributes, remove |-> pb.remove])

toTreeStyle(op) ==
    [kind |-> "treeStyle", at |-> ToTickets(op.at), from |-> toTreePos(op.from), to |-> toTreePos(op.to),
     attributes |-> op.attributes, remove |-> op.remove]

fromTreeStyle(pb) ==
    Build(Required(pb, PE) \o <<fromTreePos(pb.from), fromTreePos(pb.to)>>,
          LAMBDA v : [kind |-> "treeStyle", at |-> Tickets(PE, v), from |-> v[3], to |-> v[4],
                      attributes |-> pb.attributes, remove |-> pb.remove])

(* Spans an undo restores or removes again.  A content's weight is its length. *)
toRestoreSpans(spans) ==
    All([i \in DOMAIN spans |->
           IF IsInt32(spans[i].start) /\ IsInt32(spans[i].end)
           THEN Ok([spans[i] EXCEPT !.createdAt = ToTimeTicket(@)]) ELSE Err("other")])

fromRestoreSpans(pbs) ==
    All([i \in DOMAIN pbs |->
           Build(<<Require(pbs[i].start >= 0 /\ pbs[i].end >= pbs[i].start, "other"),
                   Require(pbs[i].end - pbs[i].start = Len(pbs[i].content), "other"),
                   fromTimeTicket(pbs[i].createdAt), Require(pbs[i].createdAt # {}, "other")>>,
                 LAMBDA v : [pbs[i] EXCEPT !.createdAt = v[3]])])

toRestoreMode(mode) == IF mode \in {"restore", "retombstone"} THEN mode ELSE "unspecified"

fromRestoreMode(pb) == IF pb \in {"restore", "retombstone"} THEN pb ELSE "none"

(* A mode without spans, or spans without a mode, is malformed. *)
ModeAgrees(pb) == (fromRestoreMode(pb.mode) # "none") = (pb.restore # <<>> \/ pb.retombstone # <<>>)

toEdit(op) ==
    Build(<<toRestoreSpans(op.restore), toRestoreSpans(op.retombstone)>>,
          LAMBDA v : [kind |-> "edit", at |-> ToTickets(op.at), from |-> toTextNodePos(op.from),
                      to |-> toTextNodePos(op.to), content |-> op.content, attributes |-> op.attributes,
                      restore |-> v[1], mode |-> toRestoreMode(op.mode), retombstone |-> v[2]])

(* A restoring edit carries its spans and nothing to insert. *)
fromEdit(pb) ==
    Build(<<Required(pb, PE)[1], fromTextNodePos(pb.from), fromTextNodePos(pb.to), Required(pb, PE)[2],
            fromRestoreSpans(pb.restore), fromRestoreSpans(pb.retombstone), Require(ModeAgrees(pb), "other")>>,
          LAMBDA v : [kind |-> "edit", at |-> Tickets(PE, <<v[1], v[4]>>), from |-> v[2], to |-> v[3],
                      content |-> IF v[5] \o v[6] = <<>> THEN pb.content ELSE <<>>,
                      attributes |-> IF v[5] \o v[6] = <<>> THEN pb.attributes ELSE {},
                      restore |-> v[5], mode |-> fromRestoreMode(pb.mode), retombstone |-> v[6]])

toTreeRestoreSpans(spans) ==
    All([i \in DOMAIN spans |->
           IF spans[i].length \notin 0..(Half - 1) THEN Err("other")
           ELSE Ok([spans[i] EXCEPT !.id = {toTreeNodeID(@)}, !.attrs = toRHT(@),
                                    !.parent = {toTreeNodeID(x) : x \in @}, !.left = {toTreeNodeID(x) : x \in @},
                                    !.right = {toTreeNodeID(x) : x \in @}])])

fromTreeRestoreSpans(pbs) ==
    All([i \in DOMAIN pbs |->
           Build(<<fromTreeNodeID(pbs[i].id), Require(pbs[i].length >= 0, "other"),
                   Require(pbs[i].isText => pbs[i].length = Len(pbs[i].text), "other"), fromRHT(pbs[i].attrs),
                   MaybeID(pbs[i].parent), Maybe(pbs[i].left, LAMBDA x : fromTreeRestoreAnchorID({x})),
                   MaybeID(pbs[i].right)>>,
                 LAMBDA v : [pbs[i] EXCEPT !.id = v[1], !.attrs = v[4], !.parent = v[5], !.left = v[6],
                                           !.right = v[7]])])

toTreeEdit(op) ==
    Build(<<toTreeRestoreSpans(op.restore), toTreeRestoreSpans(op.retombstone)>>,
          LAMBDA v : [kind |-> "treeEdit", at |-> ToTickets(op.at), from |-> toTreePos(op.from),
                      to |-> toTreePos(op.to), contents |-> ToTreeNodesWhenEdit(op.contents),
                      level |-> Int32(op.level), splitTickets |-> [i \in DOMAIN op.splitTickets |->
                                                                     ToTimeTicket(op.splitTickets[i])],
                      restore |-> v[1], retombstone |-> v[2],
                      mode |-> IF op.restore # <<>> \/ op.retombstone # <<>> THEN toRestoreMode(op.mode)
                               ELSE "unspecified"])

fromTreeEdit(pb) ==
    LET plain == fromRestoreMode(pb.mode) = "none"
    IN  Build(Required(pb, PE) \o
              <<fromTreePos(pb.from), fromTreePos(pb.to), FromTreeNodesWhenEdit(pb.contents),
                fromTreeRestoreSpans(pb.restore), fromTreeRestoreSpans(pb.retombstone),
                Require(ModeAgrees(pb), "other"), Require(plain => pb.level >= 0, "other"),
                IF plain THEN All([i \in DOMAIN pb.splitTickets |-> fromRequiredTimeTicket(pb.splitTickets[i])])
                ELSE Ok(<<>>)>>,
              LAMBDA v : [kind |-> "treeEdit", at |-> Tickets(PE, v), from |-> v[3], to |-> v[4],
                          contents |-> IF plain THEN v[5] ELSE <<>>, level |-> IF plain THEN pb.level ELSE 0,
                          splitTickets |-> v[10], restore |-> v[6], retombstone |-> v[7],
                          mode |-> fromRestoreMode(pb.mode)])

ToOperation(op) ==
    CASE op.kind = "set"       -> Ok(toSet(op))
      [] op.kind = "add"       -> Ok(toAdd(op))
      [] op.kind = "move"      -> Ok(toMove(op))
      [] op.kind = "remove"    -> Ok(toRemove(op))
      [] op.kind = "edit"      -> toEdit(op)
      [] op.kind = "style"     -> Ok(toStyle(op))
      [] op.kind = "increase"  -> Ok(toIncrease(op))
      [] op.kind = "treeEdit"  -> toTreeEdit(op)
      [] op.kind = "treeStyle" -> Ok(toTreeStyle(op))
      [] op.kind = "arraySet"  -> Ok(toArraySet(op))

fromValued(pb, value) ==
    CASE pb.kind = "set"      -> fromSet(pb, value)
      [] pb.kind = "add"      -> fromAdd(pb, value)
      [] pb.kind = "arraySet" -> fromArraySet(pb, value)
      [] pb.kind = "increase" -> fromIncrease(pb, value)

fromOperation(pb) ==
    CASE pb.kind \in {"set", "add", "arraySet", "increase"} -> fromValued(pb, fromElement(pb.value))
      [] pb.kind = "move"      -> fromMove(pb)
      [] pb.kind = "remove"    -> fromRemove(pb)
      [] pb.kind = "edit"      -> fromEdit(pb)
      [] pb.kind = "style"     -> fromStyle(pb)
      [] pb.kind = "treeEdit"  -> fromTreeEdit(pb)
      [] pb.kind = "treeStyle" -> fromTreeStyle(pb)

ToOperations(ops) == All([i \in DOMAIN ops |-> ToOperation(ops[i])])

Decodings(pbs) == [i \in DOMAIN pbs |-> fromOperation(pbs[i])]

FromOperations(pbs) == All(Decodings(pbs))

-----------------------------------------------------------------------------
(* Operations read back from storage, written under whatever rules held then *)

zeroNonFiniteDelta(pb) ==
    IF pb.value.vt = "Double" /\ \A b \in pb.value.payload : b.width >= 8 /\ b.v \in {"nan", "inf"}
    THEN [pb EXCEPT !.value.payload = {[width |-> 8, v |-> "zero"]}] ELSE pb

withoutEmptyContents(groups) == SelectSeq(groups, LAMBDA g : g \notin {{}, {<<>>}})

(* A list that has lost one ticket is dropped whole. *)
splitTicketsUnlessUndated(tickets) == IF {} \in ToSet(tickets) THEN <<>> ELSE tickets

Dated(attrs) == [k \in {k \in DOMAIN attrs : attrs[k].updatedAt # {}} |-> attrs[k]]

dropUndatedAttrs(spans) == [i \in DOMAIN spans |-> [spans[i] EXCEPT !.attrs = Dated(@)]]

NormalizeStoredOperation(pb) ==
    CASE pb.kind = "increase" -> zeroNonFiniteDelta(pb)
      [] pb.kind = "treeEdit" ->
             [pb EXCEPT !.level = IF @ < 0 THEN 0 ELSE @, !.contents = withoutEmptyContents(@),
                        !.splitTickets = splitTicketsUnlessUndated(@),
                        !.restore = dropUndatedAttrs(@), !.retombstone = dropUndatedAttrs(@)]
      [] OTHER -> pb

NormalizeStoredOperations(pbs) == [i \in DOMAIN pbs |-> NormalizeStoredOperation(pbs[i])]

MissingTicket(r) == ~r.ok /\ r.why = "ticket"

(* The operations whose decoding did not miss a ticket: a sequence over the  *)
(* operations, from what each of them decodes to.                            *)
withoutUndatedOperations(seq, decoded) ==
    LET kept == SelectSeq([i \in DOMAIN seq |-> i], LAMBDA i : ~MissingTicket(decoded[i]))
    IN  [j \in DOMAIN kept |-> seq[kept[j]]]

FromStored(decoded) ==
    IF MissingTicket(All(decoded)) THEN All(withoutUndatedOperations(decoded, decoded)) ELSE All(decoded)

FromStoredOperations(pbs) == FromStored(Decodings(NormalizeStoredOperations(pbs)))

Sanitized(pbs, decoded) == IF MissingTicket(All(decoded)) THEN withoutUndatedOperations(pbs, decoded) ELSE pbs

Sanitize(pbs) == Sanitized(pbs, Decodings(pbs))

SanitizeStoredOperations(pbs) == Sanitize(NormalizeStoredOperations(pbs))

-----------------------------------------------------------------------------
(* The tickets of a document that never synced, issued again to its first actor *)

TicketFields  == {"createdAt", "movedAt", "removedAt", "updatedAt", "mergedAt", "posCreatedAt", "posMovedAt",
                  "posRemovedAt", "parentCreatedAt", "prevCreatedAt", "executedAt"}
MessageFields == {"id", "insPrev", "insNext", "mergedFrom", "element", "parent", "left", "right", "from", "to"}

ReissuedTicket(tickets, from, to) ==
    {[x EXCEPT !.actorId = IF x.lamport # 0 /\ @ = <<from>> THEN <<to>> ELSE @] : x \in tickets}

(* Every ticket reachable from a message, the ones in the bytes of a nested element included. *)
RECURSIVE walk(_, _, _)
walkNestedElement(pb, from, to) ==
    IF pb.type \in {"object", "array", "tree"} THEN {walk(x, from, to) : x \in pb.payload} ELSE pb.payload
walk(m, from, to) ==
    [f \in DOMAIN m |->
       CASE f \in TicketFields -> ReissuedTicket(m[f], from, to)
         [] f \in MessageFields -> {walk(x, from, to) : x \in m[f]}
         [] f \in {"nodes", "restore", "retombstone"} -> [i \in DOMAIN m[f] |-> walk(m[f][i], from, to)]
         [] f \in {"at", "value"} -> walk(m[f], from, to)
         [] f = "attrs" -> [k \in DOMAIN m.attrs |-> walk(m.attrs[k], from, to)]
         [] f \in {"events", "splitTickets"} -> [i \in DOMAIN m[f] |-> ReissuedTicket(m[f][i], from, to)]
         [] f = "contents" -> [i \in DOMAIN m.contents |->
                                 {[j \in DOMAIN g |-> walk(g[j], from, to)] : g \in m.contents[i]}]
         [] f = "payload" -> walkNestedElement(m, from, to)
         [] OTHER -> m[f]]

(* A text restored by an undo keeps its content: it is re-issued in full. *)
reissueTextValue(op, decoded, from, to) ==
    IF op.kind \in {"set", "add", "arraySet"} /\ IsText(op.value)
    THEN [decoded EXCEPT !.value = fromJSONElement(walk(toJSONElement(op.value), from, to)).val]
    ELSE decoded

ReissueOperations(ops, from, to) ==
    Build(<<FromOperations([i \in DOMAIN ops |-> walk(ToOperation(ops[i]).val, from, to)])>>,
          LAMBDA v : [i \in DOMAIN ops |-> reissueTextValue(ops[i], v[1][i], from, to)])

-----------------------------------------------------------------------------
(* Packs, presences and the resources of the admin API *)

StringBase64(actor) == <<"base64", actor>>

ToVersionVector(vv) == [k \in {StringBase64(a) : a \in DOMAIN vv} |-> vv[k[2]]]

FromVersionVector(pb) ==
    IF \E k \in DOMAIN pb : Len(k) # 2 THEN Err("other")
    ELSE Ok([a \in {k[2] : k \in DOMAIN pb} |-> pb[StringBase64(a)]])

(* A presence change is nil, or says what to put, patch or clear. *)
ToPresenceChange(p) ==
    {CASE x.type = "put"   -> [type |-> "put", presence |-> {x.data}, removedKeys |-> {}]
       [] x.type = "clear" -> [type |-> "clear", presence |-> {}, removedKeys |-> {}]
       [] x.type = "patch" -> [type |-> "patch", presence |-> {x.data}, removedKeys |-> x.removedKeys]
       [] OTHER            -> [type |-> "unspecified", presence |-> {}, removedKeys |-> {}] : x \in p}

(* A defined type that nobody writes decodes to a change of no type. *)
FromPresenceChange(pb) ==
    Maybe(pb, LAMBDA x :
        CASE x.type = "put" ->
                 IF x.presence = {} THEN Err("other")
                 ELSE Ok([type |-> "put", data |-> fromPresence(x.presence), removedKeys |-> {}])
          [] x.type = "clear" -> Ok([type |-> "clear", data |-> {}, removedKeys |-> {}])
          [] x.type = "patch" ->
                 Ok([type |-> "patch", removedKeys |-> x.removedKeys,
                     data |-> IF x.presence = {} THEN {NewData} ELSE fromPresence(x.presence)])
          [] x.type \in {"unspecified", "delete"} -> Ok([type |-> "", data |-> {}, removedKeys |-> {}])
          [] OTHER -> Err("other"))

ToChangeID(id) == {[id EXCEPT !.actor = <<@>>, !.vector = ToVersionVector(@)]}

fromChangeID(pb) ==
    IF pb = {} THEN Err("other")
    ELSE Build(<<ActorIDFromBytes(The(pb).actor), FromVersionVector(The(pb).vector)>>,
               LAMBDA v : [The(pb) EXCEPT !.actor = v[1], !.vector = v[2]])

ToChanges(cs) ==
    All([i \in DOMAIN cs |->
           Build(<<ToOperations(cs[i].ops)>>,
                 LAMBDA v : {[id |-> ToChangeID(cs[i].id), message |-> cs[i].message, ops |-> v[1],
                              presence |-> ToPresenceChange(cs[i].presence)]})])

FromChanges(pbs) ==
    All([i \in DOMAIN pbs |->
           IF pbs[i] = {} THEN Err("other")
           ELSE Build(<<fromChangeID(The(pbs[i]).id), FromOperations(The(pbs[i]).ops),
                        FromPresenceChange(The(pbs[i]).presence)>>,
                      LAMBDA v : [id |-> v[1], message |-> The(pbs[i]).message, ops |-> v[2], presence |-> v[3]])])

ToChangePack(pack) ==
    Build(<<ToChanges(pack.changes)>>,
          LAMBDA v : {[pack EXCEPT !.changes = v[1], !.vector = ToVersionVector(@), !.checkpoint = {@}]})

FromChangePack(pb) ==
    IF pb = {} \/ The(pb).checkpoint = {} THEN Err("other")
    ELSE Build(<<FromChanges(The(pb).changes), FromVersionVector(The(pb).vector)>>,
               LAMBDA v : [The(pb) EXCEPT !.changes = v[1], !.vector = v[2], !.checkpoint = The(@)])

(* A resource on the wire holds the fields its encoder writes, the int32 ones *)
(* narrowed; a field the decoder reads and nobody wrote is its zero value.    *)
NarrowFields == {"MaxSubscribersPerDocument", "MaxAttachmentsPerDocument", "MaxSizePerDocument",
                 "AttachedClients", "SessionCount", "Version", "LiveData", "LiveMeta", "GCData", "GCMeta", "Value"}

Written(r, fields) == [f \in fields |-> IF f \in NarrowFields THEN Int32(r[f]) ELSE r[f]]

ReadBack(pb, fields) ==
    [f \in fields |-> IF f \in DOMAIN pb THEN pb[f] ELSE IF f \in NarrowFields THEN 0 ELSE ""]

ProjectFields ==
    {"ID", "Name", "AuthWebhookURL", "AuthWebhookMethods", "AuthWebhookMaxRetries", "AuthWebhookMinWaitInterval",
     "AuthWebhookMaxWaitInterval", "AuthWebhookRequestTimeout", "EventWebhookURL", "EventWebhookEvents",
     "EventWebhookMaxRetries", "EventWebhookMinWaitInterval", "EventWebhookMaxWaitInterval",
     "EventWebhookRequestTimeout", "ClientDeactivateThreshold", "ChannelSessionTTL", "SnapshotThreshold",
     "SnapshotInterval", "MaxSubscribersPerDocument", "MaxAttachmentsPerDocument", "MaxSizePerDocument",
     "RemoveOnDetach", "AutoRevisionEnabled", "AllowedOrigins", "PublicKey", "SecretKey", "CreatedAt", "UpdatedAt"}

UpdatableFields == ProjectFields \ {"ID", "PublicKey", "SecretKey", "CreatedAt", "UpdatedAt"}

ToProject(p) == Written(p, ProjectFields)

FromProject(pb) == ReadBack(pb, ProjectFields)

(* An update names the fields it sets; the encoder has no case for AllowedOrigins. *)
ToUpdatableProjectFields(u) == Written(u, DOMAIN u \cap (UpdatableFields \ {"AllowedOrigins"}))

FromUpdatableProjectFields(pb) == ReadBack(pb, DOMAIN pb \cap UpdatableFields)

DocSizeFields == {"LiveData", "LiveMeta", "GCData", "GCMeta"}

SummaryFields ==
    {"ID", "Key", "AttachedClients", "CreatedAt", "AccessedAt", "UpdatedAt", "Root", "Presences"} \cup DocSizeFields

(* The summary's schema is written and not read back. *)
ToDocumentSummary(d) == Written(d, SummaryFields \cup {"SchemaKey"})

FromDocumentSummary(pb) == ReadBack(pb, SummaryFields)

SchemaFields == {"Name", "Version", "Body", "Rules", "CreatedAt"}

(* A schema's ID is read back and never written. *)
ToSchema(x) == Written(x, SchemaFields)

FromSchema(pb) == ReadBack(pb, SchemaFields \cup {"ID"})

MemberFields == {"ID", "ProjectID", "UserID", "Username", "Role", "InvitedAt"}

ToMember(x) == Written(x, MemberFields)

FromMember(pb) == ReadBack(pb, MemberFields)

UserFields == {"ID", "AuthProvider", "Username", "CreatedAt"}

ToUser(u) == Written(u, UserFields)

FromUser(pb) == ReadBack(pb, UserFields)

ToChannelSummary(c) == Written(c, {"Key", "SessionCount"})

FromChannelSummary(pb) == ReadBack(pb, {"Key", "SessionCount"})

RevisionFields == {"ID", "Label", "Description", "Snapshot", "CreatedAt"}

ToRevisionSummary(r) == Written(r, RevisionFields)

(* What a resource of a kind is read back as. *)
Returned(kind, r) ==
    CASE kind = "project"  -> FromProject(ToProject(r))
      [] kind = "update"   -> FromUpdatableProjectFields(ToUpdatableProjectFields(r))
      [] kind = "document" -> FromDocumentSummary(ToDocumentSummary(r))
      [] kind = "schema"   -> FromSchema(ToSchema(r))
      [] kind = "member"   -> FromMember(ToMember(r))
      [] kind = "user"     -> FromUser(ToUser(r))
      [] kind = "channel"  -> FromChannelSummary(ToChannelSummary(r))

-----------------------------------------------------------------------------
(* A change is made, stored and read back; rows written under older rules lack *)
(* what the decoders now require.                                              *)

Author(op) == The(op.at.executedAt).actor

ConvInit == change = <<>> /\ stored = <<>> /\ legacy = <<>> /\ resource = {}

(* A client updates its document, and the change is stored as it is encoded. *)
Update(op) ==
    /\ Len(change) < MaxOps /\ legacy = <<>> /\ resource = {}
    /\ \A i \in DOMAIN change : Author(change[i]) = Author(op)
    /\ change' = Append(change, op)
    /\ stored' = ToOperations(Append(change, op)).val
    /\ UNCHANGED <<legacy, resource>>

(* The ways an older writer left an operation short of what is required now. *)
Undated(pb) ==
    {[pb EXCEPT !.at[f] = {}] : f \in DOMAIN pb.at}
    \cup (IF pb.kind \in {"edit", "style"} THEN {[pb EXCEPT !.from = {[x EXCEPT !.createdAt = {}] : x \in @}]} ELSE {})
    \cup (IF pb.kind \in {"treeEdit", "treeStyle"}
          THEN {[pb EXCEPT !.to = {[x EXCEPT !.left = {[id EXCEPT !.createdAt = {}] : id \in @}] : x \in @}]} ELSE {})
    \cup (IF pb.kind \in {"set", "add", "arraySet", "increase"} /\ pb.value.type \in {"primitive", "text", "counter"}
          THEN {[pb EXCEPT !.value.createdAt = {}]} ELSE {})

UndatedAttr(attrs) == [k \in DOMAIN attrs |-> [attrs[k] EXCEPT !.updatedAt = {}]]

Legacy(pb) ==
    [undated   |-> Undated(pb),
     nonfinite |-> IF pb.kind = "increase" /\ pb.value.vt = "Double"
                   THEN {[pb EXCEPT !.value.payload = {[width |-> 8, v |-> "nan"]}]} ELSE {},
     level     |-> IF pb.kind = "treeEdit" THEN {[pb EXCEPT !.level = -1]} ELSE {},
     group     |-> IF pb.kind = "treeEdit" /\ pb.restore \o pb.retombstone = <<>>
                   THEN {[pb EXCEPT !.contents = <<{}>> \o @], [pb EXCEPT !.contents = Append(@, {<<>>})]} ELSE {},
     split     |-> IF pb.kind = "treeEdit" /\ pb.splitTickets # <<>>
                   THEN {[pb EXCEPT !.splitTickets[Len(pb.splitTickets)] = {}]} ELSE {},
     attr      |-> IF pb.kind = "treeEdit" /\ \E i \in DOMAIN pb.restore : pb.restore[i].attrs # <<>>
                   THEN {[pb EXCEPT !.restore = [i \in DOMAIN @ |-> [@[i] EXCEPT !.attrs = UndatedAttr(@)]]]} ELSE {}]

(* Operation i is one an older writer stored. *)
Age(i, kind) ==
    /\ resource = {} /\ i \notin DOMAIN legacy
    /\ \E old \in Legacy(stored[i])[kind] : stored' = [stored EXCEPT ![i] = old]
    /\ legacy' = (i :> kind) @@ legacy
    /\ UNCHANGED <<change, resource>>

(* Document.setActorWithReissue: the changes of a document that never synced. *)
Reissue ==
    /\ change # <<>> /\ legacy = <<>> /\ resource = {}
    /\ \A i \in DOMAIN change : Author(change[i]) = Prev
    /\ \E ops \in {ReissueOperations(change, Prev, Next0).val} :
          change' = ops /\ stored' = ToOperations(ops).val
    /\ UNCHANGED <<legacy, resource>>

Send(r) ==
    /\ resource = {} /\ legacy = <<>> /\ Len(change) <= 1
    /\ resource' = {r}
    /\ UNCHANGED <<change, stored, legacy>>

ConvNext ==
    \/ \E op \in Operations : Update(op)
    \/ \E i \in DOMAIN stored : \E kind \in {"undated", "nonfinite", "level", "group", "split", "attr"} : Age(i, kind)
    \/ Reissue
    \/ \E r \in Resources : Send(r)

-----------------------------------------------------------------------------
(* What an operation carries across the wire *)

(* Every member of a decoded object holds its place at the time it was set. *)
RECURSIVE Decoded(_)
Decoded(e) ==
    CASE IsObject(e) -> [e EXCEPT !.members.all =
                            {[n EXCEPT !.elem = [Decoded(@) EXCEPT !.movedAt = {PositionedAt(n.elem)}]]
                               : n \in e.members.all}]
      [] IsArray(e)  -> [e EXCEPT !.nodes = [i \in DOMAIN e.nodes |->
                            [e.nodes[i] EXCEPT !.held = {Decoded(x) : x \in @}]]]
      [] OTHER       -> e

(* A text is carried without its content and a dedup counter without its count. *)
CarriedElement(e) ==
    CASE e.type \in {"object", "array", "tree"} -> DropSplitLinksInElement(Decoded(e))
      [] e.type = "primitive" -> [e EXCEPT !.movedAt = {}, !.removedAt = {}]
      [] e.type = "text"      -> [e EXCEPT !.movedAt = {}, !.removedAt = {}, !.nodes = <<>>]
      [] e.type = "counter"   -> [e EXCEPT !.movedAt = {}, !.removedAt = {}, !.hll = {}, !.v = IF IsDedup(e) THEN 0 ELSE @]

Carried(op) ==
    CASE op.kind \in {"set", "add", "arraySet", "increase"} -> [op EXCEPT !.value = CarriedElement(@)]
      [] op.kind = "treeEdit" -> [op EXCEPT !.contents = [i \in DOMAIN @ |-> ClearTombstones(DropEngineOnlyLinks(@[i]))]]
      [] OTHER -> op

(* What a legacy operation is worth once repaired. *)
Repaired(op, kind) ==
    CASE kind = "nonfinite" -> [op EXCEPT !.value.v = "zero"]
      [] kind = "level"     -> [op EXCEPT !.level = 0]
      [] kind = "split"     -> [op EXCEPT !.splitTickets = <<>>]
      [] kind = "attr"      -> [op EXCEPT !.restore = [i \in DOMAIN @ |-> [@[i] EXCEPT !.attrs = <<>>]]]
      [] kind = "group"     -> op

(* The operation with the tickets of Prev given to Next0; the root's stays. *)
RenamedTickets(tickets) == {[x EXCEPT !.actor = IF x.lamport # 0 /\ @ = Prev THEN Next0 ELSE @] : x \in tickets}

RECURSIVE Renamed(_)
Renamed(m) ==
    [f \in DOMAIN m |->
       CASE f \in TicketFields -> RenamedTickets(m[f])
         [] f \in {"insPrev", "insNext", "mergedFrom", "held", "all", "parent", "left", "right"} ->
                {Renamed(x) : x \in m[f]}
         [] f \in {"id", "root", "members", "elem", "at", "value", "from", "to", "parentID", "leftID"} -> Renamed(m[f])
         [] f \in {"nodes", "children", "contents", "restore", "retombstone"} -> [i \in DOMAIN m[f] |-> Renamed(m[f][i])]
         [] f = "attrs" -> [k \in DOMAIN m.attrs |-> Renamed(m.attrs[k])]
         [] f \in {"byKey", "events", "splitTickets"} -> [i \in DOMAIN m[f] |-> RenamedTickets(m[f][i])]
         [] OTHER -> m[f]]

(* The pack the change travels in. *)
PackOf(presence) ==
    [key |-> "doc", checkpoint |-> [serverSeq |-> 1, clientSeq |-> 1], snapshot |-> {}, isRemoved |-> FALSE,
     vector |-> (Prev :> 3), epoch |-> 0,
     changes |-> <<[id |-> [clientSeq |-> 1, serverSeq |-> 0, lamport |-> 3, actor |-> Prev, vector |-> (Prev :> 3)],
                    message |-> "", ops |-> change, presence |-> presence]>>]

(* WireExact: a pack that is encoded and decoded again carries the same          *)
(* operations, the nested elements with every member, position, tombstone,       *)
(* attribute and ledger in its place and the same member holding each key,        *)
(* except for what Carried names; the presence change arrives as it was made; a   *)
(* snapshot keeps the links between the parts of split nodes as well;             *)
(* and a resource of the admin API keeps every field that both converters know    *)
(* and that fits its width (ToChangePack and FromChangePack, to_pb and from_pb).  *)
WireExact ==
    /\ FromOperations(ToOperations(change).val) = Ok([i \in DOMAIN change |-> Carried(change[i])])
    /\ \A r \in resource :
         IF r.kind = "presence"
         THEN LET pack == PackOf(r.fields.change)
              IN  FromChangePack(ToChangePack(pack).val) =
                      Ok([pack EXCEPT !.changes[1].ops = [i \in DOMAIN change |-> Carried(change[i])]])
         ELSE IF r.kind = "snapshot"
         THEN BytesToSnapshot(SnapshotToBytes(r.fields.root, r.fields.presences)) =
                  Ok([root |-> Decoded(r.fields.root), presences |-> r.fields.presences])
         ELSE LET back == Returned(r.kind, r.fields)
                  lost == IF r.kind = "update" THEN {"AllowedOrigins"}
                          ELSE IF r.kind = "document" THEN {"SchemaKey"} ELSE IF r.kind = "schema" THEN {"ID"} ELSE {}
              IN  \A f \in DOMAIN r.fields \ lost :
                      /\ f \in DOMAIN back
                      /\ (f \in NarrowFields => IsInt32(r.fields[f])) => back[f] = r.fields[f]

(* StoredLoads: a stored change always loads.  Its operations come back as they   *)
(* were pushed and in their order; one an older writer left without a time is     *)
(* dropped, one it left malformed in another way is repaired; and what            *)
(* SanitizeStoredOperations hands to a client is what FromStoredOperations        *)
(* applies on the server, under the rules for fresh operations (normalize.go).    *)
StoredLoads ==
    LET kept == SelectSeq([i \in DOMAIN change |-> i], LAMBDA i : i \in DOMAIN legacy => legacy[i] # "undated")
        worth(i) == IF i \in DOMAIN legacy THEN Repaired(change[i], legacy[i]) ELSE change[i]
        loaded == Ok([j \in DOMAIN kept |-> Carried(worth(kept[j]))])
    IN  /\ FromStoredOperations(stored) = loaded
        /\ FromOperations(SanitizeStoredOperations(stored)) = loaded

(* ReissueRenames: re-issuing the operations of a document that never synced      *)
(* gives every ticket of the provisional actor to the real one, those inside      *)
(* nested elements, ledgers, links and spans included, changes nothing else and   *)
(* keeps a text's content (ReissueOperations, reissue.go).                        *)
ReissueRenames ==
    ReissueOperations(change, Prev, Next0) =
        Ok([i \in DOMAIN change |->
              LET op == change[i]
                  carried == IF op.kind \in {"set", "add", "arraySet"} /\ IsText(op.value) THEN op ELSE Carried(op)
              IN  Renamed(carried)])

=============================================================================

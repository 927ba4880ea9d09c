---------------------------- MODULE ChannelTrie ----------------------------
(***************************************************************************)
(* The channels of a project as the server keeps and lists them: a trie    *)
(* per first segment of the key (pkg/trie), the tries in a concurrent map  *)
(* with a lock per bucket (pkg/cmap), and the calls of the channel manager *)
(* that walk them (server/backend/channel: List, Count, SessionCount and   *)
(* the metrics with their heap, pkg/heap).                                 *)
(*                                                                         *)
(* A trie is immutable and replaced as a whole, so a reader that has       *)
(* loaded a root sees one state of that trie; a listing reads the buckets  *)
(* and then the tries one after another while channels come and go.  How   *)
(* Attach and Detach interleave with each other is ChannelManager's        *)
(* subject; here each is one step.                                         *)
(*                                                                         *)
(* A key is a sequence of segments, a segment a sequence of letters, and a *)
(* letter a number above 1; 1 is the separator.                            *)
(***************************************************************************)
EXTENDS Integers, Sequences, FiniteSets, TLC

CONSTANTS
    ChannelKeys,    \* the keys in use
    Buckets,        \* 1..n: the buckets of the concurrent map
    BucketOf(_),    \* the bucket of a first segment: its hash
    Queries,        \* the prefixes listed for, as sequences of letters and separators
    Limit,          \* channels a listing returns at most
    TopSize,        \* channels the metrics keep
    MaxSessions     \* bound: sessions of a channel

VARIABLES
    tries,          \* the trie of every first segment in use
    members,        \* sessions of each channel
    lister          \* the listing under way, or what the last one returned

trieVars == <<tries, members, lister>>

Bare == [value |-> {}, kids |-> <<>>]

Kid(x, segment) == IF segment \in DOMAIN x.kids THEN x.kids[segment] ELSE Bare

RECURSIVE InsertNode(_, _, _)
InsertNode(x, path, v) ==
    IF path = <<>> THEN [x EXCEPT !.value = {v}]
    ELSE [x EXCEPT !.kids = (Head(path) :> InsertNode(Kid(x, Head(path)), Tail(path), v)) @@ @]

RECURSIVE Navigate(_, _)
Navigate(x, path) ==
    IF path = <<>> THEN x.value
    ELSE IF Head(path) \in DOMAIN x.kids THEN Navigate(x.kids[Head(path)], Tail(path)) ELSE {}

EmptyNode(x) == x.value = {} /\ x.kids = <<>>

Kids(kids, segment, left) ==
    [s \in {t \in DOMAIN kids : t # segment \/ left # {}} |->
        IF s = segment THEN CHOOSE y \in left : TRUE ELSE kids[s]]

(***************************************************************************)
(* deleteNode: the node without the value, or none when nothing is left in *)
(* it.  The root stays.                                                    *)
(***************************************************************************)
RECURSIVE DeleteNode(_, _, _)
Pruned(x, isRoot) == IF EmptyNode(x) /\ ~isRoot THEN {} ELSE {x}
DeleteNode(x, path, isRoot) ==
    IF path = <<>> THEN Pruned([x EXCEPT !.value = {}], isRoot)
    ELSE IF Head(path) \notin DOMAIN x.kids THEN {x}
    ELSE Pruned([x EXCEPT !.kids = Kids(@, Head(path),
                                        DeleteNode(x.kids[Head(path)], Tail(path), FALSE))], isRoot)

(* traverseNode, in some order. *)
RECURSIVE Traverse(_)
Traverse(x) == x.value \cup UNION {Traverse(x.kids[s]) : s \in DOMAIN x.kids}

RECURSIVE Below(_, _)
Below(x, path) ==
    IF path = <<>> THEN Traverse(x)
    ELSE IF Head(path) \in DOMAIN x.kids THEN Below(x.kids[Head(path)], Tail(path)) ELSE {}

-----------------------------------------------------------------------------
(***************************************************************************)
(* ShardedPathTrie and ChannelTrie.                                        *)
(***************************************************************************)
GetOrInsert(k) ==
    IF Head(k) \in DOMAIN tries THEN [tries EXCEPT ![Head(k)] = InsertNode(@, Tail(k), k)]
    ELSE (Head(k) :> InsertNode(Bare, Tail(k), k)) @@ tries

(* The emptied trie goes with its last channel. *)
DeleteKey(k) ==
    LET left == CHOOSE x \in DeleteNode(tries[Head(k)], Tail(k), TRUE) : TRUE IN
      [s \in {t \in DOMAIN tries : t # Head(k) \/ Traverse(left) # {}} |->
          IF s = Head(k) THEN left ELSE tries[s]]

ForEachDescendant(k) == IF Head(k) \in DOMAIN tries THEN Below(tries[Head(k)], Tail(k)) ELSE {}

RECURSIVE Joined(_)
Joined(k) == IF Len(k) = 1 THEN Head(k) ELSE Head(k) \o <<1>> \o Joined(Tail(k))

HasPrefix(text, prefix) ==
    Len(prefix) <= Len(text) /\ SubSeq(text, 1, Len(prefix)) = prefix

(* The part of a query before its first separator. *)
FirstLevel(query) ==
    LET ends == {i \in DOMAIN query : query[i] = 1} IN
      IF ends = {} THEN query ELSE SubSeq(query, 1, (CHOOSE i \in ends : \A j \in ends : i <= j) - 1)

(* A query may end within the first segment. *)
MatchesShard(segment, query) == HasPrefix(segment, FirstLevel(query))

Matching(x, query) == {k \in Traverse(x) : HasPrefix(Joined(k), query)}

SessionCount(k, includeSubPath) ==
    IF includeSubPath THEN LET ks == ForEachDescendant(k) IN {<<c, members[c]>> : c \in ks}
    ELSE {<<c, members[c]>> : c \in IF Head(k) \in DOMAIN tries THEN Navigate(tries[Head(k)], Tail(k)) ELSE {}}

-----------------------------------------------------------------------------
(* Text order, as strings.Compare. *)
RECURSIVE Precedes(_, _)
Precedes(a, b) ==
    IF a = <<>> \/ b = <<>> THEN a = <<>> /\ b # <<>>
    ELSE Head(a) < Head(b) \/ (Head(a) = Head(b) /\ Precedes(Tail(a), Tail(b)))

Sorted(ks) == SortSeq(CHOOSE s \in [1 .. Cardinality(ks) -> ks] : \A i, j \in DOMAIN s : i # j => s[i] # s[j],
                      LAMBDA a, b : Precedes(Joined(a), Joined(b)))

FirstOf(seq, n) == SubSeq(seq, 1, IF Len(seq) > n THEN n ELSE Len(seq))

(***************************************************************************)
(* A push on a heap of bounded size: when it is full, an item that is not  *)
(* below the root takes the place of the root, which is a smallest item.   *)
(* Which of several smallest is the root depends on the heap's history:    *)
(* the result is the set of what the heap may hold.                        *)
(***************************************************************************)
Roots(held) == {r \in held : \A x \in held : members[r] <= members[x]}

HeapPush(held, k) ==
    IF Cardinality(held) < TopSize THEN {held \cup {k}}
    ELSE {IF members[k] < members[r] THEN held ELSE (held \ {r}) \cup {k} : r \in Roots(held)}

RECURSIVE Pushed(_, _)
Pushed(heaps, ks) ==
    IF ks = {} THEN heaps
    ELSE UNION {Pushed(UNION {HeapPush(h, k) : h \in heaps}, ks \ {k}) : k \in ks}

Active == {k \in DOMAIN members : members[k] > 0}

(* collectAndPublishMetrics: the channels with sessions in the order of the walk, whatever that is. *)
TopChannels == Pushed({{}}, Active)

-----------------------------------------------------------------------------
Idle == [at |-> "idle"]

TrieInit == tries = <<>> /\ members = <<>> /\ lister = Idle

Present == DOMAIN members

(* A listing remembers what was there all the time and what was there at some time. *)
Observe(present) ==
    IF lister.at \in {"buckets", "shards"}
    THEN [lister EXCEPT !.always = @ \cap present, !.ever = @ \cup present] ELSE lister

TrieAttach ==
    \E k \in ChannelKeys :
      /\ k \in Present => members[k] < MaxSessions
      /\ tries' = IF k \in Present THEN tries ELSE GetOrInsert(k)
      /\ members' = (k :> IF k \in Present THEN members[k] + 1 ELSE 1) @@ members
      /\ lister' = Observe(Present \cup {k})

TrieDetach ==
    \E k \in Present :
      /\ tries' = IF members[k] = 1 THEN DeleteKey(k) ELSE tries
      /\ members' = IF members[k] = 1 THEN [c \in Present \ {k} |-> members[c]]
                    ELSE [members EXCEPT ![k] = @ - 1]
      /\ lister' = Observe(IF members[k] = 1 THEN Present \ {k} ELSE Present)

ListBegin ==
    /\ lister.at \in {"idle", "done"}
    /\ \E q \in Queries :
         lister' = [at |-> "buckets", query |-> q, bucket |-> 1, shards |-> {}, found |-> {},
                    always |-> Present, ever |-> Present, result |-> <<>>]
    /\ UNCHANGED <<tries, members>>

(* Map.Keys: one bucket at a time under its lock. *)
ReadBucket ==
    /\ lister.at = "buckets"
    /\ LET here == {s \in DOMAIN tries : BucketOf(s) = lister.bucket /\ MatchesShard(s, lister.query)} IN
         lister' = [lister EXCEPT !.shards = @ \cup here, !.bucket = @ + 1,
                                  !.at = IF lister.bucket + 1 \in Buckets THEN "buckets" ELSE "shards"]
    /\ UNCHANGED <<tries, members>>

(* One of the tries, if it is still there; its root is loaded once. *)
ReadShard ==
    /\ lister.at = "shards"
    /\ \E s \in lister.shards :
         lister' = [lister EXCEPT !.shards = @ \ {s},
                      !.found = @ \cup (IF s \in DOMAIN tries THEN Matching(tries[s], lister.query) ELSE {})]
    /\ UNCHANGED <<tries, members>>

ListEnd ==
    /\ lister.at = "shards" /\ lister.shards = {}
    /\ lister' = [lister EXCEPT !.at = "done", !.result = FirstOf(Sorted(lister.found), Limit)]
    /\ UNCHANGED <<tries, members>>

TrieNext == TrieAttach \/ TrieDetach \/ ListBegin \/ ReadBucket \/ ReadShard \/ ListEnd

-----------------------------------------------------------------------------
(* No node without value and children, except below nothing. *)
RECURSIVE Lean(_)
Lean(x) == \A s \in DOMAIN x.kids : ~EmptyNode(x.kids[s]) /\ Lean(x.kids[s])

(***************************************************************************)
(* The tries hold the channels that have sessions and nothing else, no     *)
(* node or trie stays behind empty, the channels under a key are those     *)
(* whose path extends its path (PathTrie.Delete, ForEachDescendant), and   *)
(* the channels the metrics show are ones no other exceeds in sessions,    *)
(* whatever the order of the walk (Heap.Push).                             *)
(***************************************************************************)
TriesHoldChannels ==
    /\ UNION {Traverse(tries[s]) : s \in DOMAIN tries} = Present
    /\ \A s \in DOMAIN tries : ~EmptyNode(tries[s]) /\ Lean(tries[s])
    /\ \A k \in ChannelKeys :
         /\ SessionCount(k, FALSE) = {<<c, members[c]>> : c \in Present \cap {k}}
         /\ SessionCount(k, TRUE) = {<<c, members[c]>> : c \in {x \in Present : HasPrefix(x, k)}}
    /\ \A top \in TopChannels :
         /\ Cardinality(top) = IF Cardinality(Active) < TopSize THEN Cardinality(Active) ELSE TopSize
         /\ \A k \in top, other \in Active \ top : members[k] >= members[other]

(***************************************************************************)
(* A listing returns the first channels that match, in order and each      *)
(* once: a channel that matched and was there from beginning to end is     *)
(* only left out for channels before it, and every channel in it was there *)
(* at some time of it (Manager.List, ForEachPrefix, cmap.Map.Keys).        *)
(***************************************************************************)
ListingIsRegular ==
    lister.at = "done" =>
      LET listed == {lister.result[i] : i \in DOMAIN lister.result}
          Match(k) == HasPrefix(Joined(k), lister.query)
      IN  /\ Len(lister.result) <= Limit
          /\ \A i, j \in DOMAIN lister.result : i < j => Precedes(Joined(lister.result[i]), Joined(lister.result[j]))
          /\ \A k \in listed : k \in lister.ever /\ Match(k)
          /\ \A k \in lister.always :
               Match(k) /\ k \notin listed
                 => Len(lister.result) = Limit /\ \A c \in listed : Precedes(Joined(c), Joined(k))
=============================================================================

--------------------------- MODULE ChannelManager ---------------------------
(***************************************************************************)
(* The channel manager of a server (server/backend/channel): which client  *)
(* has a session on which channel.  Attach and Detach run concurrently on   *)
(* lock-free structures; an action is one operation on one of them:         *)
(*                                                                         *)
(*   - the trie of channels, whose shard is created on demand and deleted   *)
(*     when it is empty (pkg/trie); all keys here fall into one shard;      *)
(*   - the session map and the activeCount of a Channel, and its RWMutex;   *)
(*   - the indexes sessionIDToKey and clientToSession; the latter maps a    *)
(*     client to a map object that other goroutines may still hold.         *)
(*                                                                         *)
(* Shards, channels and maps are addressed by pointers.  A new object takes *)
(* an address nobody refers to, as after garbage collection.                *)
(***************************************************************************)
EXTENDS Integers, FiniteSets

CONSTANTS
    Threads,      \* goroutines serving AttachChannel, DetachChannel and the cleanup
    Clients, Keys,
    Addresses,    \* addresses of shards, channels and maps
    Nil,         \* nil
    MaxSessions   \* bound: the session IDs handed out

Sessions == 1..MaxSessions

VARIABLES
    shard,        \* the trie's shard, or Nil
    trie,         \* shard address -> key -> channel, or Nil
    sessions,     \* Channel.Sessions: channel -> set of session IDs
    activeCount,  \* Channel.activeCount
    readers, writer,   \* Channel.mu
    indexed,      \* the session IDs in sessionIDToKey
    clientMap,    \* clientToSession: client -> map address, or Nil
    maps,         \* map address -> key -> session, or Nil
    session,      \* what each session ID was created for: [client, key], or Nil
    at, op        \* where each goroutine is, and its local variables

mutex == <<readers, writer>>
index == <<indexed, clientMap, maps>>
managerVars == <<shard, trie, sessions, activeCount, mutex, index, session, at, op>>

NoOp == [client |-> Nil, key |-> Nil, id |-> Nil, shard |-> Nil, ch |-> Nil, map |-> Nil]

ManagerInit ==
    /\ shard = Nil
    /\ trie = [a \in Addresses |-> [k \in Keys |-> Nil]]
    /\ sessions = [a \in Addresses |-> {}]
    /\ activeCount = [a \in Addresses |-> 0]
    /\ readers = [a \in Addresses |-> {}]
    /\ writer = [a \in Addresses |-> Nil]
    /\ indexed = {}
    /\ clientMap = [c \in Clients |-> Nil]
    /\ maps = [a \in Addresses |-> [k \in Keys |-> Nil]]
    /\ session = [s \in Sessions |-> Nil]
    /\ at = [t \in Threads |-> "idle"]
    /\ op = [t \in Threads |-> NoOp]

Goto(t, label) == at' = [at EXCEPT ![t] = label]
Return(t) == at' = [at EXCEPT ![t] = "idle"] /\ op' = [op EXCEPT ![t] = NoOp]

(* ChannelTrie.Get.                                                        *)
Get(k) == IF shard = Nil THEN Nil ELSE trie[shard][k]

(* The session clientToSession has for the client and the key.             *)
SessionOf(c, k) == IF clientMap[c] = Nil THEN Nil ELSE maps[clientMap[c]][k]

(* Addresses free for a new shard, channel or map.  The bound on addresses *)
(* holds up an allocation for which none is left.                          *)
FreeShards == {a \in Addresses : shard # a /\ \A t \in Threads : op[t].shard # a}
FreeChannels ==
    {a \in Addresses :
        /\ sessions[a] = {}
        /\ \A t \in Threads : op[t].ch # a
        /\ \A b \in Addresses, k \in Keys : trie[b][k] # a}
FreeMaps ==
    {a \in Addresses :
        /\ \A c \in Clients : clientMap[c] # a
        /\ \A t \in Threads : op[t].map # a}

FreeShard == CHOOSE a \in FreeShards : TRUE
FreeChannel == CHOOSE a \in FreeChannels : TRUE
FreeMap == CHOOSE a \in FreeMaps : TRUE

-----------------------------------------------------------------------------
(* Attach.                                                                 *)

Unused == {s \in Sessions : session[s] = Nil /\ \A t \in Threads : op[t].id # s}

(* Attach returns at once when the client has a session on the channel.    *)
(* The client library has one Attach of a key outstanding at a time.       *)
BeginAttach(t, c, k) ==
    /\ at[t] = "idle"
    /\ Unused # {}
    /\ \A u \in Threads : op[u].client # c \/ op[u].key # k
    /\ SessionOf(c, k) = Nil
    /\ op' = [op EXCEPT ![t] = [NoOp EXCEPT !.client = c, !.key = k,
                                            !.id = CHOOSE s \in Unused : TRUE]]
    /\ Goto(t, "shard")
    /\ UNCHANGED <<shard, trie, sessions, activeCount, mutex, index, session>>

GetOrCreateShard(t) ==
    /\ at[t] = "shard"
    /\ shard = Nil => FreeShards # {}
    /\ shard' = IF shard = Nil THEN FreeShard ELSE shard
    /\ trie' = IF shard = Nil THEN [trie EXCEPT ![FreeShard] = [k \in Keys |-> Nil]] ELSE trie
    /\ op' = [op EXCEPT ![t].shard = shard']
    /\ Goto(t, "insert")
    /\ UNCHANGED <<sessions, activeCount, mutex, index, session>>

(* PathTrie.GetOrInsert, in the shard found before, which may be gone.     *)
GetOrInsert(t) ==
    LET sh == op[t].shard
        k == op[t].key
    IN  /\ at[t] = "insert"
        /\ \/ /\ trie[sh][k] # Nil
              /\ op' = [op EXCEPT ![t].ch = trie[sh][k], ![t].shard = Nil]
              /\ UNCHANGED <<trie, activeCount>>
           \/ /\ trie[sh][k] = Nil /\ FreeChannels # {}
              /\ trie' = [trie EXCEPT ![sh][k] = FreeChannel]
              /\ activeCount' = [activeCount EXCEPT ![FreeChannel] = 0]
              /\ op' = [op EXCEPT ![t].ch = FreeChannel, ![t].shard = Nil]
        /\ Goto(t, "count")
        /\ UNCHANGED <<shard, sessions, mutex, index, session>>

(* Mutant: the count goes up only with the commit.                         *)
CountInLate(t) ==
    /\ at[t] = "count"
    /\ Goto(t, "precheck")
    /\ UNCHANGED <<shard, trie, sessions, activeCount, mutex, index, session, op>>

CountIn(t) ==
    /\ at[t] = "count"
    /\ activeCount' = [activeCount EXCEPT ![op[t].ch] = @ + 1]
    /\ Goto(t, "precheck")
    /\ UNCHANGED <<shard, trie, sessions, mutex, index, session, op>>

PreCheck(t) ==
    /\ at[t] = "precheck"
    /\ Goto(t, IF Get(op[t].key) = op[t].ch THEN "rlock" ELSE "undo")
    /\ UNCHANGED <<shard, trie, sessions, activeCount, mutex, index, session, op>>

(* Count out and try again.                                                *)
Undo(t) ==
    /\ at[t] = "undo"
    /\ activeCount' = [activeCount EXCEPT ![op[t].ch] = @ - 1]
    /\ op' = [op EXCEPT ![t].ch = Nil]
    /\ Goto(t, "shard")
    /\ UNCHANGED <<shard, trie, sessions, mutex, index, session>>

RLock(t) ==
    /\ at[t] = "rlock"
    /\ writer[op[t].ch] = Nil
    /\ readers' = [readers EXCEPT ![op[t].ch] = @ \cup {t}]
    /\ Goto(t, "recheck")
    /\ UNCHANGED <<shard, trie, sessions, activeCount, writer, index, session, op>>

RUnlock(t) == readers' = [readers EXCEPT ![op[t].ch] = @ \ {t}]

ReCheck(t) ==
    /\ at[t] = "recheck"
    /\ \/ /\ Get(op[t].key) = op[t].ch
          /\ Goto(t, "set")
          /\ UNCHANGED readers
       \/ /\ Get(op[t].key) # op[t].ch
          /\ RUnlock(t)
          /\ Goto(t, "undo")
    /\ UNCHANGED <<shard, trie, sessions, activeCount, writer, index, session, op>>

SetSession(t) ==
    /\ at[t] = "set"
    /\ sessions' = [sessions EXCEPT ![op[t].ch] = @ \cup {op[t].id}]
    /\ session' = [session EXCEPT ![op[t].id] = [client |-> op[t].client, key |-> op[t].key]]
    /\ Goto(t, "index")
    /\ UNCHANGED <<shard, trie, activeCount, mutex, index, op>>

IndexSession(t) ==
    /\ at[t] = "index"
    /\ indexed' = indexed \cup {op[t].id}
    /\ Goto(t, "upsert")
    /\ UNCHANGED <<shard, trie, sessions, activeCount, mutex, clientMap, maps, session, op>>

UpsertMap(t) ==
    LET c == op[t].client
    IN  /\ at[t] = "upsert"
        /\ \/ /\ clientMap[c] # Nil
              /\ op' = [op EXCEPT ![t].map = clientMap[c]]
              /\ UNCHANGED <<clientMap, maps>>
           \/ /\ clientMap[c] = Nil /\ FreeMaps # {}
              /\ clientMap' = [clientMap EXCEPT ![c] = FreeMap]
              /\ maps' = [maps EXCEPT ![FreeMap] = [k \in Keys |-> Nil]]
              /\ op' = [op EXCEPT ![t].map = FreeMap]
        /\ Goto(t, "map")
        /\ UNCHANGED <<shard, trie, sessions, activeCount, mutex, indexed, session>>

(* The session enters the client's map; the read lock is released.         *)
EndAttach(t) ==
    /\ at[t] = "map"
    /\ maps' = [maps EXCEPT ![op[t].map][op[t].key] = op[t].id]
    /\ RUnlock(t)
    /\ Return(t)
    /\ UNCHANGED <<shard, trie, sessions, activeCount, writer, indexed, clientMap, session>>

-----------------------------------------------------------------------------
(* Detach, by a client or by the cleanup of expired sessions.              *)

BeginDetach(t, s) ==
    /\ at[t] = "idle"
    /\ s \in indexed
    /\ LET ch == Get(session[s].key)
       IN  /\ ch # Nil /\ s \in sessions[ch]
           /\ op' = [op EXCEPT ![t] = [NoOp EXCEPT !.client = session[s].client,
                                                   !.key = session[s].key, !.id = s, !.ch = ch]]
    /\ Goto(t, "remove")
    /\ UNCHANGED <<shard, trie, sessions, activeCount, mutex, index, session>>

(* Of two Detach calls for one session only the one that removes it goes   *)
(* on.                                                                     *)
RemoveSession(t) ==
    /\ at[t] = "remove"
    /\ sessions' = [sessions EXCEPT ![op[t].ch] = @ \ {op[t].id}]
    /\ IF op[t].id \in sessions[op[t].ch]
       THEN Goto(t, "unindex") /\ UNCHANGED op
       ELSE Return(t)
    /\ UNCHANGED <<shard, trie, activeCount, mutex, index, session>>

UnindexSession(t) ==
    /\ at[t] = "unindex"
    /\ indexed' = indexed \ {op[t].id}
    /\ op' = [op EXCEPT ![t].map = clientMap[op[t].client]]
    /\ Goto(t, IF clientMap[op[t].client] = Nil THEN "dec" ELSE "unmap")
    /\ UNCHANGED <<shard, trie, sessions, activeCount, mutex, clientMap, maps, session>>

UnmapKey(t) ==
    /\ at[t] = "unmap"
    /\ maps' = [maps EXCEPT ![op[t].map][op[t].key] = Nil]
    /\ Goto(t, "len")
    /\ UNCHANGED <<shard, trie, sessions, activeCount, mutex, indexed, clientMap, session, op>>

CheckMapEmpty(t) ==
    /\ at[t] = "len"
    /\ Goto(t, IF \A k \in Keys : maps[op[t].map][k] = Nil THEN "drop" ELSE "dec")
    /\ op' = [op EXCEPT ![t].map = Nil]
    /\ UNCHANGED <<shard, trie, sessions, activeCount, mutex, index, session>>

DropMap(t) ==
    /\ at[t] = "drop"
    /\ clientMap' = [clientMap EXCEPT ![op[t].client] = Nil]
    /\ Goto(t, "dec")
    /\ UNCHANGED <<shard, trie, sessions, activeCount, mutex, indexed, maps, session, op>>

CountOut(t) ==
    /\ at[t] = "dec"
    /\ activeCount' = [activeCount EXCEPT ![op[t].ch] = @ - 1]
    /\ IF activeCount[op[t].ch] = 1 THEN Goto(t, "lock") /\ UNCHANGED op ELSE Return(t)
    /\ UNCHANGED <<shard, trie, sessions, mutex, index, session>>

Lock(t) ==
    /\ at[t] = "lock"
    /\ writer[op[t].ch] = Nil /\ readers[op[t].ch] = {}
    /\ writer' = [writer EXCEPT ![op[t].ch] = t]
    /\ Goto(t, "load")
    /\ UNCHANGED <<shard, trie, sessions, activeCount, readers, index, session, op>>

Unlock(t) == writer' = [writer EXCEPT ![op[t].ch] = Nil]

(* Mutant: the count is not read again under the lock.                     *)
LoadNothing(t) ==
    /\ at[t] = "load"
    /\ Goto(t, "delete") /\ UNCHANGED <<writer, op>>
    /\ UNCHANGED <<shard, trie, sessions, activeCount, readers, index, session>>

LoadCount(t) ==
    /\ at[t] = "load"
    /\ \/ /\ activeCount[op[t].ch] = 0
          /\ Goto(t, "delete")
          /\ UNCHANGED <<writer, op>>
       \/ /\ activeCount[op[t].ch] # 0
          /\ Unlock(t)
          /\ Return(t)
    /\ UNCHANGED <<shard, trie, sessions, activeCount, readers, index, session>>

(* The trie forgets whatever channel the key has now.                      *)
DeleteKey(t) ==
    /\ at[t] = "delete"
    /\ trie' = IF shard = Nil THEN trie ELSE [trie EXCEPT ![shard][op[t].key] = Nil]
    /\ Goto(t, "shardDelete")
    /\ UNCHANGED <<shard, sessions, activeCount, mutex, index, session, op>>

DeleteShardIfEmpty(t) ==
    /\ at[t] = "shardDelete"
    /\ shard' = IF shard # Nil /\ \A k \in Keys : trie[shard][k] = Nil THEN Nil ELSE shard
    /\ Unlock(t)
    /\ Return(t)
    /\ UNCHANGED <<trie, sessions, activeCount, readers, index, session>>

-----------------------------------------------------------------------------
AttachStep(t) ==
    \/ GetOrCreateShard(t) \/ GetOrInsert(t) \/ CountIn(t) \/ PreCheck(t) \/ Undo(t)
    \/ RLock(t) \/ ReCheck(t) \/ SetSession(t) \/ IndexSession(t) \/ UpsertMap(t)
    \/ EndAttach(t)

DetachStep(t) ==
    \/ RemoveSession(t) \/ UnindexSession(t) \/ UnmapKey(t) \/ CheckMapEmpty(t)
    \/ DropMap(t) \/ CountOut(t) \/ Lock(t) \/ LoadCount(t) \/ DeleteKey(t)
    \/ DeleteShardIfEmpty(t)

ManagerNext ==
    \E t \in Threads :
        \/ \E c \in Clients, k \in Keys : BeginAttach(t, c, k)
        \/ \E s \in Sessions : BeginDetach(t, s)
        \/ AttachStep(t)
        \/ DetachStep(t)

ManagerSpec == ManagerInit /\ [][ManagerNext]_managerVars

ManagerFairness == \A t \in Threads : WF_managerVars(AttachStep(t)) /\ WF_managerVars(DetachStep(t))

ManagerFairSpec == ManagerSpec /\ ManagerFairness

-----------------------------------------------------------------------------
(* The maps, counts and local variables have their types; activeCount is   *)
(* never negative, as it would be if two Detach calls both counted out.    *)
ManagerTypeOK ==
    /\ shard \in Addresses \cup {Nil}
    /\ trie \in [Addresses -> [Keys -> Addresses \cup {Nil}]]
    /\ sessions \in [Addresses -> SUBSET Sessions]
    /\ activeCount \in [Addresses -> Nat]
    /\ readers \in [Addresses -> SUBSET Threads]
    /\ writer \in [Addresses -> Threads \cup {Nil}]
    /\ indexed \subseteq Sessions
    /\ clientMap \in [Clients -> Addresses \cup {Nil}]
    /\ maps \in [Addresses -> [Keys -> Sessions \cup {Nil}]]
    /\ session \in [Sessions -> [client: Clients, key: Keys] \cup {Nil}]
    /\ at \in [Threads -> {"idle", "shard", "insert", "count", "precheck", "undo", "rlock",
                           "recheck", "set", "index", "upsert", "map", "remove", "unindex",
                           "unmap", "len", "drop", "dec", "lock", "load", "delete",
                           "shardDelete"}]

(* Goroutines that count in activeCount of ch beside its sessions: an      *)
(* Attach that has counted in and not yet added its session, and a Detach  *)
(* that has removed its session and not yet counted out.                   *)
Counting(ch) ==
    {t \in Threads : op[t].ch = ch /\ at[t] \in {"precheck", "undo", "rlock", "recheck", "set",
                                                 "unindex", "unmap", "len", "drop", "dec"}}

(* activeCount is exact: it is zero only when the channel has no session   *)
(* and no Attach is under way on it, which is what Detach takes it for.    *)
ActiveCountExact ==
    \A ch \in Addresses : activeCount[ch] = Cardinality(sessions[ch]) + Cardinality(Counting(ch))

(* A session that Attach has returned can be found: its channel is in the  *)
(* trie, so that it is counted, refreshed, detached and swept.  "The       *)
(* channel must not be lost" (manager_test.go:1316).                       *)
SessionsReachable ==
    \A s \in indexed :
        \/ \E t \in Threads : op[t].id = s
        \/ LET ch == Get(session[s].key) IN ch # Nil /\ s \in sessions[ch]

Quiet == \A t \in Threads : at[t] = "idle"

(* A channel whose last session is gone leaves the trie, and the trie its  *)
(* shard: "detach all sessions removes channel" (manager_test.go:711).     *)
NoEmptyChannel ==
    Quiet /\ shard # Nil =>
        /\ \E k \in Keys : trie[shard][k] # Nil
        /\ \A k \in Keys : trie[shard][k] # Nil => sessions[trie[shard][k]] # {}

(* clientToSession knows the sessions of a client, so that "attach same    *)
(* client to same channel returns existing session" (manager_test.go:654). *)
OneSessionPerClient ==
    Quiet => \A s \in indexed : SessionOf(session[s].client, session[s].key) = s

(* Every Attach and every Detach returns: an Attach is not sent round for  *)
(* ever by channels that are deleted under it.                             *)
CallsReturn == \A t \in Threads : (at[t] # "idle") ~> (at[t] = "idle")
=============================================================================

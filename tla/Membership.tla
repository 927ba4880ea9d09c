----------------------------- MODULE Membership -----------------------------
(***************************************************************************)
(* Leader election among the servers of a cluster                          *)
(* (server/backend/membership) over the clusternodes collection.  Each      *)
(* server runs one loop: a cycle of database calls, then a wait of          *)
(* RenewalInterval.  A leader's cycle renews its lease; a follower's asks   *)
(* for the leadership.  Housekeeping consults only the flag isLeader.       *)
(*                                                                         *)
(* Time is discrete and every deadline is kept as the time that is left     *)
(* until it, so no clock grows: Tick moves all of them.  A lease token is   *)
(* only ever compared with the one in the node's own row; the row keeps     *)
(* whether the two agree.                                                   *)
(*                                                                         *)
(* The same loop runs over the two databases.  MongoDB answers a            *)
(* follower's request in up to three calls (count, upsert, follower         *)
(* update), has a unique index on is_leader and deletes a row TTL after     *)
(* its last update.  The memory database answers in one transaction.        *)
(***************************************************************************)
EXTENDS Integers, FiniteSets

CONSTANTS
    Nodes,             \* the servers, named by their rpcAddr
    Stores,            \* the databases: a subset of {"mongo", "memory"}
    LeaseDuration, RenewalInterval,
    TTL,               \* expireAfterSeconds of the index on updated_at
    MaxLag,            \* how long after it is due a cycle of a timely server ends
    Faults             \* a subset of {"stop", "crash", "error", "pause"}

ASSUME StoresKnown == Stores \subseteq {"mongo", "memory"}
ASSUME TimesArePositive ==
    /\ LeaseDuration \in Nat \ {0}
    /\ RenewalInterval \in Nat \ {0}
    /\ TTL \in Nat \ {0}
    /\ MaxLag \in Nat \ {0}

VARIABLES
    store,      \* the database the servers share, which does not change
    row,        \* the clusternodes collection: rpcAddr -> row, or NoRow
    isLeader,   \* Manager.isLeader
    pc,         \* where the loop is: waiting, or after some call of a cycle
    wake,       \* time left until the next cycle is due
    lag,        \* time since the current cycle was due
    alive       \* the server process runs

loop == <<pc, wake, lag>>
vars == <<store, row, isLeader, loop, alive>>

NoRow == [exists |-> FALSE, isLeader |-> FALSE, left |-> 0, age |-> 0, mine |-> FALSE]

(* left: time until expires_at; age: time since updated_at; mine: the      *)
(* lease token is the one the node's Manager holds.                         *)
Row == [exists: BOOLEAN, isLeader: BOOLEAN, left: 0..LeaseDuration, age: 0..TTL, mine: BOOLEAN]

LeaderRow == [exists |-> TRUE, isLeader |-> TRUE, left |-> LeaseDuration, age |-> 0, mine |-> FALSE]
FollowerRow == [NoRow EXCEPT !.exists = TRUE]

Init ==
    /\ store \in Stores
    /\ row = [n \in Nodes |-> NoRow]
    /\ isLeader = [n \in Nodes |-> FALSE]
    /\ pc = [n \in Nodes |-> "idle"]
    /\ wake = [n \in Nodes |-> 0]
    /\ lag = [n \in Nodes |-> 0]
    /\ alive = [n \in Nodes |-> TRUE]

Due(n) == alive[n] /\ pc[n] = "idle" /\ wake[n] = 0
InCycle(n) == alive[n] /\ pc[n] # "idle"

EndCycle(n) ==
    /\ pc' = [pc EXCEPT ![n] = "idle"]
    /\ wake' = [wake EXCEPT ![n] = RenewalInterval]
    /\ lag' = [lag EXCEPT ![n] = 0]

After(n, call) == pc' = [pc EXCEPT ![n] = call] /\ UNCHANGED <<wake, lag>>

Held(m) == row[m].exists /\ row[m].isLeader
Active(m) == Held(m) /\ row[m].left > 0

-----------------------------------------------------------------------------
(* Renewal: one conditional update, on the node's own leader row, its      *)
(* token and an unexpired lease.                                           *)

RenewMatches(n) == Active(n) /\ row[n].mine

(* Mutant: the renewal forgets expires_at.                                 *)
RenewHeartbeatOnly(n) ==
    /\ Due(n) /\ isLeader[n] /\ RenewMatches(n)
    /\ row' = [row EXCEPT ![n] = [LeaderRow EXCEPT !.left = row[n].left]]
    /\ After(n, "renewing")
    /\ UNCHANGED <<isLeader, alive>>

Renew(n) ==
    /\ Due(n) /\ isLeader[n] /\ RenewMatches(n)
    /\ row' = [row EXCEPT ![n] = LeaderRow]
    /\ After(n, "renewing")
    /\ UNCHANGED <<isLeader, alive>>

(* ErrInvalidLeaseToken: the leader steps down.                            *)
RenewRefused(n) ==
    /\ Due(n) /\ isLeader[n] /\ ~RenewMatches(n)
    /\ isLeader' = [isLeader EXCEPT ![n] = FALSE]
    /\ EndCycle(n)
    /\ UNCHANGED <<row, alive>>

(* The answer with the new token arrives: becomeLeader, or the next lease  *)
(* stored.                                                                 *)
LeaseArrives(n) ==
    /\ InCycle(n) /\ pc[n] \in {"claimed", "renewing"}
    /\ isLeader' = [isLeader EXCEPT ![n] = TRUE]
    /\ row' = [row EXCEPT ![n].mine = row[n].exists]
    /\ EndCycle(n)
    /\ UNCHANGED alive

-----------------------------------------------------------------------------
(* Acquisition over MongoDB.                                               *)

CheckLeader(n) ==
    /\ store = "mongo"
    /\ Due(n) /\ ~isLeader[n]
    /\ After(n, IF \E m \in Nodes : Active(m) THEN "following" ELSE "claiming")
    /\ UNCHANGED <<row, isLeader, alive>>

(* Mutant: no unique index on is_leader.                                   *)
ClaimUnindexed(n) ==
    /\ InCycle(n) /\ pc[n] = "claiming"
    /\ row' = [row EXCEPT ![n] = LeaderRow]
    /\ After(n, "claimed")
    /\ UNCHANGED <<isLeader, alive>>

(* The upsert of the node's own row; the unique index on is_leader lets it *)
(* through when no other row, expired or not, is a leader's.               *)
Claim(n) ==
    /\ InCycle(n) /\ pc[n] = "claiming"
    /\ \A m \in Nodes \ {n} : ~Held(m)
    /\ row' = [row EXCEPT ![n] = LeaderRow]
    /\ After(n, "claimed")
    /\ UNCHANGED <<isLeader, alive>>

DuplicateKey(n) ==
    /\ InCycle(n) /\ pc[n] = "claiming"
    /\ \E m \in Nodes \ {n} : Held(m)
    /\ After(n, "following")
    /\ UNCHANGED <<row, isLeader, alive>>

(* updateClusterFollower: a heartbeat on the row that exists, which may    *)
(* still be a leader's, or a new follower row.                             *)
Follow(n) ==
    /\ InCycle(n) /\ pc[n] = "following"
    /\ row' = [row EXCEPT ![n] = IF row[n].exists THEN [row[n] EXCEPT !.age = 0] ELSE FollowerRow]
    /\ EndCycle(n)
    /\ UNCHANGED <<isLeader, alive>>

(* Mutant: the index keeps the rows of leaders.                            *)
ExpireFollowerRow(n) ==
    /\ store = "mongo"
    /\ row[n].exists /\ row[n].age = TTL /\ ~row[n].isLeader
    /\ row' = [row EXCEPT ![n] = NoRow]
    /\ UNCHANGED <<isLeader, loop, alive>>

(* The TTL index on updated_at.                                            *)
ExpireRow(n) ==
    /\ store = "mongo"
    /\ row[n].exists /\ row[n].age = TTL
    /\ row' = [row EXCEPT ![n] = NoRow]
    /\ UNCHANGED <<isLeader, loop, alive>>

-----------------------------------------------------------------------------
(* Acquisition in the memory database: the new leader's row when there is  *)
(* no leader row; a follower row when the leader's lease is unexpired; and *)
(* nothing when it has expired.                                            *)

AcquireInMemory(n) ==
    /\ store = "memory"
    /\ Due(n) /\ ~isLeader[n]
    /\ \A m \in Nodes : ~Held(m)
    /\ row' = [row EXCEPT ![n] = LeaderRow]
    /\ After(n, "claimed")
    /\ UNCHANGED <<isLeader, alive>>

FollowInMemory(n) ==
    /\ store = "memory"
    /\ Due(n) /\ ~isLeader[n]
    /\ \E m \in Nodes : Held(m)
    /\ row' = IF \E m \in Nodes : Active(m)
              THEN [row EXCEPT ![n] = FollowerRow] ELSE row
    /\ EndCycle(n)
    /\ UNCHANGED <<isLeader, alive>>

-----------------------------------------------------------------------------
(* Faults.                                                                 *)

(* A call fails before or after its effect: a leader steps down, a         *)
(* follower ends its cycle; a token that was on its way is lost.  Calls of *)
(* the memory database do not fail, and a crash takes it along.            *)
CallFails(n) ==
    /\ "error" \in Faults /\ store = "mongo"
    /\ Due(n) \/ InCycle(n)
    /\ isLeader' = [isLeader EXCEPT ![n] = FALSE]
    /\ row' = [row EXCEPT ![n].mine = FALSE]
    /\ EndCycle(n)
    /\ UNCHANGED alive

Down(n) ==
    /\ alive' = [alive EXCEPT ![n] = FALSE]
    /\ isLeader' = [isLeader EXCEPT ![n] = FALSE]
    /\ pc' = [pc EXCEPT ![n] = "idle"]
    /\ wake' = [wake EXCEPT ![n] = 0]
    /\ lag' = [lag EXCEPT ![n] = 0]

(* Stop waits for the loop, then removes the node's row.  Housekeeping has *)
(* been stopped before, so the flag is read no more.                       *)
Stop(n) ==
    /\ "stop" \in Faults
    /\ alive[n] /\ pc[n] = "idle"
    /\ row' = [row EXCEPT ![n] = NoRow]
    /\ Down(n)

Crash(n) ==
    /\ "crash" \in Faults /\ store = "mongo"
    /\ alive[n]
    /\ row' = [row EXCEPT ![n].mine = FALSE]
    /\ Down(n)

Start(n) ==
    /\ ~alive[n]
    /\ alive' = [alive EXCEPT ![n] = TRUE]
    /\ UNCHANGED <<row, isLeader, loop>>

-----------------------------------------------------------------------------
Less(t) == IF t > 0 THEN t - 1 ELSE 0
More(t, max) == IF t < max THEN t + 1 ELSE max

Busy(n) == Due(n) \/ InCycle(n)

(* Time passes.  A server that is not paused ends a cycle within MaxLag.   *)
Tick ==
    /\ \A n \in Nodes : Busy(n) => lag[n] < MaxLag \/ "pause" \in Faults
    /\ row' = [n \in Nodes |->
                  [row[n] EXCEPT !.left = Less(row[n].left),
                                 !.age = IF row[n].exists THEN More(row[n].age, TTL) ELSE 0]]
    /\ wake' = [n \in Nodes |-> Less(wake[n])]
    /\ lag' = [n \in Nodes |-> IF Busy(n) THEN More(lag[n], MaxLag) ELSE lag[n]]
    /\ UNCHANGED <<isLeader, pc, alive>>

Cycle(n) ==
    \/ Renew(n) \/ RenewRefused(n) \/ LeaseArrives(n)
    \/ CheckLeader(n) \/ Claim(n) \/ DuplicateKey(n) \/ Follow(n)
    \/ AcquireInMemory(n) \/ FollowInMemory(n)

Fault(n) == CallFails(n) \/ Stop(n) \/ Crash(n)

Step ==
    \/ Tick
    \/ \E n \in Nodes : Cycle(n) \/ ExpireRow(n) \/ Fault(n) \/ Start(n)

Next == Step /\ UNCHANGED store

Spec == Init /\ [][Next]_vars

(* The servers that are up and the TTL monitor keep running, time passes,  *)
(* and the faults come to an end.  A server that went down may stay down.  *)
Fairness ==
    /\ WF_vars(Tick /\ UNCHANGED store)
    /\ \A n \in Nodes : WF_vars(Cycle(n) /\ UNCHANGED store) /\ WF_vars(ExpireRow(n) /\ UNCHANGED store)
    /\ <>[][\A n \in Nodes : ~Fault(n)]_vars

FairSpec == Spec /\ Fairness

-----------------------------------------------------------------------------
(* The collection's rows, the flags and the timers stay within their       *)
(* ranges: a lease is never longer than LeaseDuration.                     *)
TypeOK ==
    /\ row \in [Nodes -> Row]
    /\ isLeader \in [Nodes -> BOOLEAN]
    /\ pc \in [Nodes -> {"idle", "renewing", "claiming", "claimed", "following"}]
    /\ wake \in [Nodes -> 0..RenewalInterval]
    /\ lag \in [Nodes -> 0..MaxLag]
    /\ alive \in [Nodes -> BOOLEAN]

(* Leader Election (membership.md:15): at most one server at a time has    *)
(* isLeader set, so that housekeeping runs on one server only.             *)
AtMostOneLeader == \A n, m \in Nodes : isLeader[n] /\ isLeader[m] => n = m

(* A server whose flag is set has the leader's row, with a lease that has  *)
(* not expired: the flag, which is all Housekeeping looks at, is never     *)
(* older than what the database says.                                      *)
LeaderHoldsLease == \A n \in Nodes : isLeader[n] => Active(n)

(* Leader Succession (membership.md:37, and the test "TryLeadership should *)
(* allow takeover after expiry"): however the leadership was lost, some    *)
(* server leads again, unless all of them are down.                        *)
LeaderEmerges == []<>(\/ \E n \in Nodes : isLeader[n]
                      \/ \A n \in Nodes : ~alive[n])
=============================================================================

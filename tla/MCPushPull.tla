----------------------------- MODULE MCPushPull -----------------------------
(***************************************************************************)
(* Instances of PushPull and of WatchAccess.  A behaviour runs one part    *)
(* and the others rest in their initial states: synchronisation under the  *)
(* constants of the configuration; synchronisation with handlers that      *)
(* crash and Documents edited before they are attached; the admission of   *)
(* Watch streams.                                                          *)
(***************************************************************************)
EXTENDS PushPull, WatchAccess, TLC

CONSTANT Parts

VARIABLE part

(* Handlers crash, nothing is detached, and no Document is reopened. *)
Recovery == INSTANCE PushPull WITH
  Kinds <- {"attach", "sync", "pushonly", "remove"}, Faults <- {"crash"},
  SnapshotThreshold <- 100, EditBeforeAttach <- TRUE

(* One node and two streams that ask the same question, with a unary       *)
(* request; two nodes, and questions that share a key.                     *)
MCAccessSettings ==
  {[node |-> [r \in Requests |-> "n1"], asks |-> [r \in Requests |-> {"k1"}],
    watch |-> [r1 |-> TRUE, r2 |-> FALSE], denials |-> {"forbidden", "unauthorized"},
    silent |-> TRUE, cached |-> TRUE, keys |-> {{"k1"}}, opens |-> 2, expires |-> FALSE],
   [node |-> [r1 |-> "n1", r2 |-> "n2"], asks |-> [r1 |-> {"k1"}, r2 |-> {"k1", "k2"}],
    watch |-> [r \in Requests |-> TRUE], denials |-> {"invalid"},
    silent |-> FALSE, cached |-> TRUE, keys |-> {{}, {"k1"}}, opens |-> 1, expires |-> TRUE],
   [node |-> [r \in Requests |-> "n1"], asks |-> [r \in Requests |-> {"k1"}],
    watch |-> [r \in Requests |-> TRUE], denials |-> {"forbidden"},
    silent |-> TRUE, cached |-> FALSE, keys |-> {{}}, opens |-> 1, expires |-> FALSE]}

MCRequests == {"r1", "r2"}

syncVars == <<part, vars, accessVars>>

SyncInit ==
  /\ part \in Parts
  /\ Init
  /\ AccessInit
  /\ part # "access" => ~cluster.cached

SyncNext ==
  /\ UNCHANGED part
  /\ \/ part = "sync" /\ Next /\ UNCHANGED accessVars
     \/ part = "recovery" /\ Recovery!Next /\ UNCHANGED <<gen, accessVars>>
     \/ part = "access" /\ AccessNext /\ UNCHANGED vars

SyncSpec == SyncInit /\ [][SyncNext]_syncVars
SyncFairSpec == SyncSpec /\ Fairness

\* Outstanding requests are interchangeable.
Symmetry == Permutations(Slots)
=============================================================================

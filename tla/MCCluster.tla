----------------------------- MODULE MCCluster -----------------------------
(***************************************************************************)
(* Parts that each run for themselves, on small instances: the election of *)
(* a leader among servers, the channel manager of a server, the broadcasts *)
(* of a client and the lifecycle of a client.  A behaviour is one of one   *)
(* part; the others rest in their initial states, and the slots v1 .. v10  *)
(* hold the variables of the client.                                       *)
(***************************************************************************)
EXTENDS Membership, ChannelManager, ChannelBroadcast, Sequences, TLC

CONSTANT Parts   \* the parts to check

VARIABLES part, v1, v2, v3, v4, v5, v6, v7, v8, v9, v10

slots == <<v1, v2, v3, v4, v5, v6, v7, v8, v9, v10>>

clusterVars == <<part, vars, managerVars, servingVars, slots>>

(***************************************************************************)
(* Two goroutines of an application, two resources of one key.             *)
(***************************************************************************)
Call(name) == [name |-> name, doc |-> 1, mode |-> "realtime", pushOnly |-> FALSE]
On(name, d) == [Call(name) EXCEPT !.doc = d]
Manual(d) == [On("attach", d) EXCEPT !.mode = "manual"]
PushOnly == [Call("sync") EXCEPT !.pushOnly = TRUE]

Plan(a, b) ==
  [attached |-> TRUE, ops |-> ("a" :> a @@ "b" :> b), fails |-> FALSE, removes |-> {FALSE}, peers |-> FALSE,
   cancels |-> FALSE, channels |-> {}, remote |-> 0]

ClientPlans == {
  \* the session ends under an attach, and another one begins
  [Plan(<<Call("activate"), Call("deactivate"), Call("activate")>>, <<Call("activate"), Call("attach")>>)
     EXCEPT !.attached = FALSE, !.fails = TRUE],
  \* a removed document is replaced while its last sync is still running
  [Plan(<<Call("sync")>>, <<On("attach", 2)>>) EXCEPT !.removes = {FALSE, TRUE}, !.peers = TRUE],
  \* a detach and a deactivation, which fails and is given up
  [Plan(<<Call("detach")>>, <<Call("close")>>) EXCEPT !.fails = TRUE, !.peers = TRUE],
  \* a removal and syncs, with changes of others
  [Plan(<<Call("remove")>>, <<PushOnly>>) EXCEPT !.remote = 2, !.fails = TRUE],
  \* the application cancels the stream and deactivates
  [Plan(<<Call("sync")>>, <<Call("deactivate")>>) EXCEPT !.cancels = TRUE, !.peers = TRUE, !.remote = 1],
  \* a channel of the same key
  [Plan(<<Call("detach"), On("attach", 2), On("sync", 2), On("detach", 2)>>, <<Call("deactivate")>>)
     EXCEPT !.channels = {2}, !.fails = TRUE]}

RestingPlan == Plan(<<>>, <<>>)

Client == INSTANCE ClientLifecycle WITH Threads <- {"a", "b"}, Docs <- {1, 2}, ClientSettings <- ClientPlans \cup {RestingPlan},
            MaxAttachments <- 2, app <- v1, status <- v2, generation <- v3, lifecycleMu <- v4,
            attaching <- v5, attachments <- v6, atts <- v7, docs <- v8, routines <- v9, remote <- v10

(***************************************************************************)
(* One part at a time.                                                     *)
(***************************************************************************)
ClusterInit ==
  /\ part \in Parts
  /\ Init /\ ManagerInit /\ ServingInit
  /\ part # "membership" => store = "mongo"
  /\ Client!Init
  /\ part # "client" <=> v1 = RestingPlan

InMembership(A) == part = "membership" /\ A /\ UNCHANGED <<part, managerVars, servingVars, slots>>
InManager(A) == part = "manager" /\ A /\ UNCHANGED <<part, vars, servingVars, slots>>
InServing(A) == part = "serving" /\ A /\ UNCHANGED <<part, vars, managerVars, slots>>
InClient(A) == part = "client" /\ A /\ UNCHANGED <<part, vars, managerVars, servingVars>>

ClusterNext ==
  \/ InMembership(Next)
  \/ InManager(ManagerNext)
  \/ InServing(ServingNext)
  \/ InClient(Client!Next)

(* The fairness each part has for itself.  One caller needs no more than   *)
(* weak fairness of a Broadcast.                                           *)
ClusterFairness ==
  /\ WF_clusterVars(InMembership(Tick /\ UNCHANGED store))
  /\ \A n \in Nodes : /\ WF_clusterVars(InMembership(Cycle(n) /\ UNCHANGED store))
                       /\ WF_clusterVars(InMembership(ExpireRow(n) /\ UNCHANGED store))
  /\ <>[][\A n \in Nodes : ~(part = "membership" /\ Fault(n))]_clusterVars
  /\ \A t \in Threads : WF_clusterVars(InManager(AttachStep(t))) /\ WF_clusterVars(InManager(DetachStep(t)))
  /\ \A w \in Watches : WF_clusterVars(InServing(Opened(w))) /\ WF_clusterVars(InServing(ServicerStep(w)))
  /\ \A c \in Callers : WF_clusterVars(InServing(CallerStep(c)))

ClientFairness ==
  /\ \A t \in {"a", "b"} : SF_clusterVars(InClient(Client!Routine(t)))
  /\ \A t \in {"a", "b", "loop"} : SF_clusterVars(InClient(Client!Synchronize(t)))
  /\ SF_clusterVars(InClient(Client!Answered("loop")))
  /\ WF_clusterVars(InClient(Client!SyncLoop))
  /\ \A a \in 1 .. 2 :
        /\ WF_clusterVars(InClient(a \in DOMAIN v7 /\ Client!Pump(a)))
        /\ WF_clusterVars(InClient(a \in DOMAIN v7 /\ Client!Pipeline(a)))
        /\ SF_clusterVars(InClient(a \in DOMAIN v7 /\ v7[a].canceled /\ Client!ReadEnd(a)))

ClusterSpec == ClusterInit /\ [][ClusterNext]_clusterVars /\ ClusterFairness
ClientSpec == ClusterInit /\ [][ClusterNext]_clusterVars /\ ClientFairness

(* A session that Attach has returned can be found through the trie, and   *)
(* whenever no call is under way neither an empty channel nor an empty     *)
(* shard is left (Manager.Attach, Manager.Detach).                         *)
SessionsFound == SessionsReachable /\ NoEmptyChannel

(* A client's sends find a pump that drains them, it holds nothing of an   *)
(* earlier session, nothing outlives its deactivation, and no change its   *)
(* stream announced is forgotten (Client, watch pipelines and sync loop).  *)
ClientHolds ==
  /\ Client!PumpDrains /\ Client!SessionHoldsItsOwn
  /\ Client!NothingOutlives /\ Client!NoChangeForgotten

(* As long as a server is up a leader emerges again and again, whatever    *)
(* crashed before (Manager.run, tryRenewal).                               *)
LeaderComes == part = "membership" => LeaderEmerges

(* Every Attach and Detach of a channel and every Broadcast returns.       *)
CallsComplete == CallsReturn /\ BroadcastReturns

(* Every call of the application on its client returns, and every change   *)
(* announced to a live attachment is pulled.                               *)
ClientCompletes == Client!Returns /\ Client!Pulled
=============================================================================

---------------------------- MODULE WatchAccess ----------------------------
(***************************************************************************)
(* How a Watch stream is admitted, and how a revocation reaches the        *)
(* streams that are already open: server/rpc/yorkie_server.go (admitWatch  *)
(* and the handlers that use it), server/rpc/watch_registry.go,            *)
(* server/rpc/auth, ClusterService.RevalidateAccess and                    *)
(* Backend.BroadcastRevalidateAccess.                                      *)
(*                                                                         *)
(* A question is what the project's auth webhook is asked about: the set   *)
(* of keys a request names (method and token are part of it and are left   *)
(* out).  The webhook belongs to the project: here it is the variable      *)
(* allowed, which its owner changes.  An answer is computed when the       *)
(* webhook is asked and used later.                                        *)
(***************************************************************************)
EXTENDS Naturals, FiniteSets

CONSTANTS
  Requests,        \* streams and unary requests that may be opened
  Calls,           \* reports of AdminService.RevalidateAccess
  AccessSettings,  \* clusters, what each request asks and how often it is opened,
                   \* how the webhook answers
  MaxTurns         \* the bound on how often the owner changes a permission

VARIABLES
  cluster,         \* the setting, chosen at the start
  allowed,         \* question -> what the webhook would answer now
  turns,           \* how often a permission changed
  decisions,       \* node -> question -> the cached decision, or "none"
  cacheGen,        \* node -> the drops of cached decisions
  requests,        \* request -> its handler
  reports,           \* call -> its progress
  revoked          \* the questions whose revocation was reported to all nodes

accessVars == <<cluster, allowed, turns, decisions, cacheGen, requests, reports, revoked>>

Questions == {cluster.asks[r] : r \in Requests}
Nodes == {cluster.node[r] : r \in Requests}
Watches == {r \in Requests : cluster.watch[r]}

NewRequest == [pc |-> "idle", ans |-> "none", gen |-> 0, closed |-> FALSE,
               sawDenial |-> FALSE, opens |-> 0]
NoGroup == [st |-> "no", ans |-> "none", gen |-> 0, streams |-> {}]
NewCall == [pc |-> "idle", keys |-> {}, denied |-> {}, node |-> [n \in Nodes |-> "idle"],
            groups |-> [n \in Nodes |-> [q \in Questions |-> NoGroup]]]

AccessInit ==
  /\ cluster \in AccessSettings
  /\ allowed = [q \in Questions |-> TRUE]
  /\ turns = 0
  /\ decisions = [n \in Nodes |-> [q \in Questions |-> "none"]]
  /\ cacheGen = [n \in Nodes |-> 0]
  /\ requests = [r \in Requests |-> NewRequest]
  /\ reports = [c \in Calls |-> NewCall]
  /\ revoked = {}

(***************************************************************************)
(* The webhook.                                                            *)
(***************************************************************************)

(* What the webhook may answer now; "none" when it does not answer. *)
Answers(q) ==
  (IF allowed[q] THEN {"allow"} ELSE cluster.denials) \cup
  (IF cluster.silent THEN {"none"} ELSE {})

(* An answer that does not conform is a denial, as it is at admission; not *)
(* having an answer is not.                                                *)
isDenial(ans) == ans \in {"forbidden", "unauthorized", "invalid"}
handleWebhookResponse(ans) == ans = "allow"

(* The owner of the project changes a permission. *)
ChangePermission(q) ==
  /\ turns < MaxTurns
  /\ turns' = turns + 1
  /\ allowed' = [allowed EXCEPT ![q] = ~@]
  /\ requests' = [r \in Requests |->
       IF cluster.asks[r] = q THEN [requests[r] EXCEPT !.sawDenial = @ \/ allowed[q]]
       ELSE requests[r]]
  /\ reports' = [c \in Calls |-> [reports[c] EXCEPT !.denied = @ \ {q}]]
  /\ revoked' = revoked \ {q}
  /\ UNCHANGED <<cluster, decisions, cacheGen>>

(***************************************************************************)
(* The cache of decisions (auth.go).                                       *)
(***************************************************************************)

(* Mutant: an answer is cached although the decisions were dropped since   *)
(* the webhook was asked.                                                  *)
cacheDecisionLate(n, q, gen, ans) ==
  IF cluster.cached /\ ans \in {"allow", "forbidden", "invalid"}
  THEN [decisions EXCEPT ![n][q] = ans] ELSE decisions

(* An answer is cached unless the decisions were dropped since gen was     *)
(* read; one of Unauthorized never is.                                     *)
cacheDecision(n, q, gen, ans) ==
  IF cluster.cached /\ ans \in {"allow", "forbidden", "invalid"} /\ cacheGen[n] = gen
  THEN [decisions EXCEPT ![n][q] = ans] ELSE decisions

Covers(keys, q) == keys = {} \/ keys \cap q # {}

DropCachedDecisions(n, keys) ==
  IF cluster.cached
  THEN /\ cacheGen' = [cacheGen EXCEPT ![n] = @ + 1]
       /\ decisions' = [decisions EXCEPT ![n] =
            [q \in Questions |-> IF Covers(keys, q) THEN "none" ELSE @[q]]]
  ELSE UNCHANGED <<cacheGen, decisions>>

(* A cached decision outlives its TTL. *)
Expire(n, q) ==
  /\ cluster.expires /\ decisions[n][q] # "none"
  /\ decisions' = [decisions EXCEPT ![n][q] = "none"]
  /\ UNCHANGED <<cluster, allowed, turns, cacheGen, requests, reports, revoked>>

(***************************************************************************)
(* A handler: Watch, WatchDocument, WatchChannel, or a unary request that  *)
(* only verifies its access.                                               *)
(***************************************************************************)
At(r, pc) == requests[r].pc = pc
Set(r, h) == requests' = [requests EXCEPT ![r] = h]

(* release: the stream leaves the registry and its context ends. *)
Released(h) == [NewRequest EXCEPT !.opens = h.opens]

(* A request opened again is another stream. *)
Stream(r) == <<r, requests[r].opens>>

(* The streams a node serves. *)
Registered(n) == {r \in Watches : cluster.node[r] = n /\ ~At(r, "idle")}

(* The client is active and its resources are resolved: the stream is      *)
(* registered, before its access is verified.                              *)
register(r) ==
  /\ At(r, "idle") /\ requests[r].opens < cluster.opens
  /\ Set(r, [requests[r] EXCEPT !.pc = "lookup", !.opens = @ + 1,
               !.sawDenial = ~allowed[cluster.asks[r]]])
  /\ UNCHANGED <<cluster, allowed, turns, decisions, cacheGen, reports, revoked>>

Passed(r) ==
  IF r \in Watches THEN [requests[r] EXCEPT !.pc = "subscribe", !.ans = "none", !.gen = 0]
  ELSE Released(requests[r])

(* verifyAccess: a cached decision is used as it is. *)
Lookup(r) ==
  LET cached == decisions[cluster.node[r]][cluster.asks[r]]
  IN  /\ At(r, "lookup")
      /\ Set(r, IF cached = "none" THEN [requests[r] EXCEPT !.pc = "gen"]
                ELSE IF handleWebhookResponse(cached) THEN Passed(r)
                ELSE Released(requests[r]))
      /\ UNCHANGED <<cluster, allowed, turns, decisions, cacheGen, reports, revoked>>

(* The generation is read before the webhook is asked. *)
ReadGen(r) ==
  /\ At(r, "gen")
  /\ Set(r, [requests[r] EXCEPT !.pc = "ask", !.gen = cacheGen[cluster.node[r]]])
  /\ UNCHANGED <<cluster, allowed, turns, decisions, cacheGen, reports, revoked>>

Ask(r) ==
  /\ At(r, "ask")
  /\ \E ans \in Answers(cluster.asks[r]) :
       Set(r, [requests[r] EXCEPT !.pc = "answer", !.ans = ans])
  /\ UNCHANGED <<cluster, allowed, turns, decisions, cacheGen, reports, revoked>>

(* The answer arrives: it is cached, and admits the stream or releases it. *)
verifyAccess(r) ==
  LET h == requests[r]
  IN  /\ At(r, "answer")
      /\ decisions' = cacheDecision(cluster.node[r], cluster.asks[r], h.gen, h.ans)
      /\ Set(r, IF handleWebhookResponse(h.ans) THEN Passed(r) ELSE Released(h))
      /\ UNCHANGED <<cluster, allowed, turns, cacheGen, reports, revoked>>

(* subscribeResources fails, and what was subscribed is cleaned up, or     *)
(* succeeds.                                                               *)
subscribeResources(r) ==
  /\ At(r, "subscribe")
  /\ \E ok \in BOOLEAN :
       Set(r, IF ok THEN [requests[r] EXCEPT !.pc = "check"] ELSE Released(requests[r]))
  /\ UNCHANGED <<cluster, allowed, turns, decisions, cacheGen, reports, revoked>>

(* The cause of the stream's context is checked before the first response. *)
SendInitialization(r) ==
  /\ At(r, "check")
  /\ Set(r, IF requests[r].closed THEN Released(requests[r])
            ELSE [requests[r] EXCEPT !.pc = "open"])
  /\ UNCHANGED <<cluster, allowed, turns, decisions, cacheGen, reports, revoked>>

(* The loop ends when the context does: closed by a revalidation, or ended *)
(* by the client.                                                          *)
EndStream(r) ==
  /\ At(r, "open")
  /\ Set(r, Released(requests[r]))
  /\ UNCHANGED <<cluster, allowed, turns, decisions, cacheGen, reports, revoked>>

(***************************************************************************)
(* RevalidateAccess: every node drops its decisions and verifies again the *)
(* streams that are registered by then.                                    *)
(***************************************************************************)
BroadcastRevalidateAccess(c) ==
  /\ reports[c].pc = "idle"
  /\ \E keys \in cluster.keys :
       reports' = [reports EXCEPT ![c] = [NewCall EXCEPT !.pc = "nodes", !.keys = keys,
                   !.denied = {q \in Questions : ~allowed[q] /\ Covers(keys, q)},
                   !.node = [n \in Nodes |-> "drop"]]]
  /\ UNCHANGED <<cluster, allowed, turns, decisions, cacheGen, requests, revoked>>

(* A node cannot be reached, or answers too late. *)
NodeFails(c, n) ==
  /\ cluster.silent
  /\ reports[c].node[n] = "drop"
  /\ reports' = [reports EXCEPT ![c].node[n] = "failed"]
  /\ UNCHANGED <<cluster, allowed, turns, decisions, cacheGen, requests, revoked>>

RevalidateDrop(c, n) ==
  /\ reports[c].node[n] = "drop"
  /\ DropCachedDecisions(n, reports[c].keys)
  /\ reports' = [reports EXCEPT ![c].node[n] = "list"]
  /\ UNCHANGED <<cluster, allowed, turns, requests, revoked>>

(* Streams that ask the same question share one verification. *)
revalidate(c, n) ==
  /\ reports[c].node[n] = "list"
  /\ reports' = [reports EXCEPT ![c].node[n] = "groups",
       ![c].groups[n] = [q \in Questions |->
         LET streams == {Stream(r) : r \in {x \in Registered(n) : cluster.asks[x] = q}}
         IN  IF Covers(reports[c].keys, q) /\ streams # {}
             THEN [NoGroup EXCEPT !.st = "ask", !.streams = streams] ELSE NoGroup]]
  /\ UNCHANGED <<cluster, allowed, turns, decisions, cacheGen, requests, revoked>>

(* RecheckAccess asks the webhook, never the cache. *)
RecheckAccess(c, n, q) ==
  /\ reports[c].node[n] = "groups" /\ reports[c].groups[n][q].st = "ask"
  /\ \E ans \in Answers(q) :
       reports' = [reports EXCEPT ![c].groups[n][q].st = "answer", ![c].groups[n][q].ans = ans,
                              ![c].groups[n][q].gen = cacheGen[n]]
  /\ UNCHANGED <<cluster, allowed, turns, decisions, cacheGen, requests, revoked>>

(* Mutant: not having an answer closes the streams. *)
revalidateGroupStrict(c, n, q) ==
  LET g == reports[c].groups[n][q]
  IN  /\ reports[c].node[n] = "groups" /\ g.st = "answer"
      /\ decisions' = cacheDecision(n, q, g.gen, g.ans)
      /\ requests' = [r \in Requests |->
           IF Stream(r) \in g.streams /\ ~At(r, "idle") /\ g.ans # "allow"
           THEN [requests[r] EXCEPT !.closed = TRUE] ELSE requests[r]]
      /\ reports' = [reports EXCEPT ![c].groups[n][q].st = "done"]
      /\ UNCHANGED <<cluster, allowed, turns, cacheGen, revoked>>

(* Only a definite answer changes a stream: a denial closes every stream   *)
(* of the group, whether it was admitted yet or not.                       *)
revalidateGroup(c, n, q) ==
  LET g == reports[c].groups[n][q]
  IN  /\ reports[c].node[n] = "groups" /\ g.st = "answer"
      /\ decisions' = cacheDecision(n, q, g.gen, g.ans)
      /\ requests' = [r \in Requests |->
           IF Stream(r) \in g.streams /\ ~At(r, "idle") /\ isDenial(g.ans)
           THEN [requests[r] EXCEPT !.closed = TRUE] ELSE requests[r]]
      /\ reports' = [reports EXCEPT ![c].groups[n][q].st =
                     IF g.ans = "none" THEN "unverified" ELSE "done"]
      /\ UNCHANGED <<cluster, allowed, turns, cacheGen, revoked>>

(* The call succeeds when every node verified every stream; otherwise its  *)
(* caller is told to retry.                                                *)
RevalidateAccess(c) ==
  LET finished == \A n \in Nodes :
        reports[c].node[n] = "failed" \/
        (reports[c].node[n] = "groups"
           /\ \A q \in Questions : reports[c].groups[n][q].st \in {"no", "done", "unverified"})
      verified == \A n \in Nodes :
        reports[c].node[n] = "groups" /\ \A q \in Questions : reports[c].groups[n][q].st # "unverified"
  IN  /\ reports[c].pc = "nodes" /\ finished
      /\ revoked' = IF verified THEN revoked \cup reports[c].denied ELSE revoked
      /\ reports' = [reports EXCEPT ![c] = [NewCall EXCEPT !.pc = "done"]]
      /\ UNCHANGED <<cluster, allowed, turns, decisions, cacheGen, requests>>

Handler(r) ==
  \/ register(r) \/ Lookup(r) \/ ReadGen(r) \/ Ask(r) \/ verifyAccess(r)
  \/ subscribeResources(r) \/ SendInitialization(r) \/ EndStream(r)

NodeStep(c, n) ==
  \/ NodeFails(c, n) \/ RevalidateDrop(c, n) \/ revalidate(c, n)
  \/ \E q \in Questions : RecheckAccess(c, n, q) \/ revalidateGroup(c, n, q)

AccessNext ==
  \/ \E q \in Questions : ChangePermission(q) \/ \E n \in Nodes : Expire(n, q)
  \/ \E r \in Requests : Handler(r)
  \/ \E c \in Calls : \/ BroadcastRevalidateAccess(c) \/ RevalidateAccess(c)
                      \/ \E n \in Nodes : NodeStep(c, n)

AccessSpec == AccessInit /\ [][AccessNext]_accessVars

(***************************************************************************)
(* Properties.                                                             *)
(***************************************************************************)

(* Once a revocation was reported and the report succeeded, no node serves *)
(* a stream under the revoked access: every stream past its verification   *)
(* has had its context ended, and no cached decision admits another one.   *)
(* The answers that were in flight while the report ran are the hard case. *)
RevocationReaches ==
  \A q \in revoked :
    /\ \A n \in Nodes : decisions[n][q] # "allow"
    /\ \A r \in Watches :
         (cluster.asks[r] = q /\ requests[r].pc \in {"subscribe", "check", "open"})
           => requests[r].closed

(* A revalidation ends a stream only if its access was denied at some time *)
(* since it was registered: a webhook that does not answer disconnects     *)
(* nobody.                                                                 *)
ClosedOnlyIfDenied ==
  \A r \in Requests : requests[r].closed => requests[r].sawDenial
=============================================================================

------------------------- MODULE MCDocumentHandlers -------------------------
(***************************************************************************)
(* The services of a server, on small instances: the handlers of documents *)
(* and clients, the event webhooks and the administration.  A behaviour is *)
(* one of one part while the others rest; h1 .. h8 are the variables of    *)
(* the webhooks and a1 .. a16 those of the administration.                 *)
(***************************************************************************)
EXTENDS DocumentHandlers, Sequences

CONSTANTS Parts   \* the parts to check
VARIABLES part, h1, h2, h3, h4, h5, h6, h7, h8,
          a1, a2, a3, a4, a5, a6, a7, a8, a9, a10, a11, a12, a13, a14, a15, a16

hookSlots == <<h1, h2, h3, h4, h5, h6, h7, h8>>
adminSlots == <<a1, a2, a3, a4, a5, a6, a7, a8, a9, a10, a11, a12, a13, a14, a15, a16>>
serviceVars == <<part, vars, hookSlots, adminSlots>>

(***************************************************************************)
(* Two clients, the documents of one key and a few projects, each with the *)
(* requests that put one question.                                         *)
(***************************************************************************)
CONSTANTS c1, c2, w1, w2, w3
MCClients == {c1, c2}
MCWorkers == {w1, w2, w3}
TwoWorkers == {w1, w2}
Sym == Permutations(MCClients) \cup Permutations(MCWorkers)

Settings(limit, remove, interval, kinds, schemas, atATime, attached) ==
  [limit |-> limit, removeOnDetach |-> remove, snapshotInterval |-> interval,
   kinds |-> kinds, schemas |-> schemas, atATime |-> atATime, attached |-> attached]

MCProjects == {
  \* attaching up to a limit, while clients leave and are deactivated
  Settings(1, FALSE, 9, {"attach", "detach", "deactivate"}, {0}, 2, FALSE),
  \* attaching and syncing against a compaction
  Settings(0, FALSE, 9, {"attach", "sync", "compact"}, {0}, 2, FALSE),
  \* three handlers, a compaction waiting between two readers
  Settings(0, FALSE, 9, {"detach", "deactivate", "compact"}, {0}, 3, TRUE),
  \* the last client to leave removes the document
  Settings(0, TRUE, 9, {"attach", "detach", "remove", "purge", "adminRemove"}, {0}, 2, TRUE),
  \* the admin, schemas and the attachment lock
  Settings(0, FALSE, 9, {"attach", "adminSchema", "forceRemove"}, {0, 1}, 2, FALSE),
  \* builds beside pushes and snapshots
  Settings(0, FALSE, 2, {"sync", "restore", "revision"}, {0}, 2, TRUE),
  Settings(0, FALSE, 1, {"sync", "adminRoot", "getDocument"}, {0}, 2, TRUE)}

(* Every way to leave a client behind, and the housekeeping that deactivates it. *)
MCProjectsLive == {
  Settings(1, FALSE, 9, {"attach", "deactivate", "forceCompact"}, {0}, 2, FALSE),
  Settings(0, TRUE, 9, {"attach", "remove", "forceRemove", "deactivate"}, {0}, 2, FALSE)}

RestingProject == Settings(0, FALSE, 9, {}, {0}, 0, FALSE)
WithResting == MCProjectsLive \cup {RestingProject}

(***************************************************************************)
(* Two documents with an event webhook.                                    *)
(***************************************************************************)
Hooks == INSTANCE Webhooks WITH Docs <- {"d1", "d2"}, Throttle <- 2, Debounce <- 1, Batch <- 1, MaxRetries <- 1,
           MaxChanges <- 2, made <- h1, asked <- h2, jobs <- h3, entries <- h4, recency <- h5, flushers <- h6,
           sinceGrant <- h7, stage <- h8

(***************************************************************************)
(* Requests of an administrator that meet, each arrangement a question.    *)
(***************************************************************************)
Asking(method, node, scheme, cred, name) ==
  [method |-> method, node |-> node, scheme |-> scheme, cred |-> cred, name |-> name, pid |-> 1,
   who |-> "ann", new |-> "", key |-> "d", keys |-> {}]
AsUser(user, method) == Asking(method, 2, "Bearer", user, "p")
AsOwner(method) == [AsUser("own", method) EXCEPT !.node = 1]
ProjectOf(id, name, owner) == [id |-> id, name |-> name, owner |-> owner, pub |-> 10 + id, sec |-> 10 + id, rev |-> 0]
Start ==
  [users |-> [u \in {"own", "ann", "bob"} |-> [id |-> CASE u = "own" -> 1 [] u = "ann" -> 2 [] OTHER -> 3, pw |-> "x"]],
   projects |-> <<ProjectOf(1, "p", 1)>>, members |-> (<<1, 2>> :> "admin"), invites |-> <<>>,
   schemas |-> {"s"}, docs |-> <<>>, tokens |-> {"own", "ann", "bob"},
   channels |-> [n \in {1, 2} |-> <<>>], sdk |-> {}, fresh |-> 20]
With(base, a, b) == [base EXCEPT !.users = @] @@ [todo |-> (1 :> a) @@ (2 :> b)]

(* The owner changes ann's membership while ann uses it. *)
Demotion == [AsOwner("UpdateMemberRole") EXCEPT !.new = "member"]
WritingMethods == {"UpdateProject", "RotateProjectKeys", "RemoveMember", "UpdateMemberRole", "CreateInvite", "CreateDocument",
           "CreateSchema", "UpdateDocument", "RestoreRevisionByAdmin"}
ShowingMethods == {"ListProjects", "GetProject"}
ReadingMethods == {"ListMembers", "GetDocument", "GetDocuments", "GetSnapshotMeta", "ListDocuments", "SearchDocuments", "ListChanges",
          "GetProjectStats", "GetSchema", "GetSchemas", "ListSchemas", "BroadcastByAdmin", "GetServerVersion",
          "ListRevisionsByAdmin", "GetRevisionByAdmin"}
WithRole(role) == [Start EXCEPT !.members = (<<1, 2>> :> role)]
Meeting(d, m, role) == With(WithRole(role), d, <<[AsUser("ann", m) EXCEPT !.new = "member"]>>)
Demotions ==
  {Meeting(<<d>>, m, "admin") : d \in {Demotion, AsOwner("RemoveMember")}, m \in WritingMethods \cup ShowingMethods}
  \cup {Meeting(<<Demotion, AsOwner("RotateProjectKeys")>>, m, "admin") : m \in ShowingMethods}
  \cup {Meeting(<<[Demotion EXCEPT !.new = "admin"]>>, m, "member") : m \in WritingMethods \cup ShowingMethods}
  \cup {Meeting(<<>>, m, "member") : m \in ReadingMethods}

(* SettingsChange and keys change while other servers use copies of them. *)
ByKey(m) == [Asking(m, 2, "API-Key", 11, "") EXCEPT !.new = "t"]
SettingsChange ==
  {[With(Start, w, <<ByKey(m)>>) EXCEPT !.sdk = {2}] :
      w \in {<<[AsOwner("UpdateProject") EXCEPT !.new = "q"]>>, <<AsOwner("RotateProjectKeys")>>, <<[AsOwner("UpdateProject") EXCEPT !.pid = 9]>>},
      m \in {"CreateSchema", "GetProject"}}

(* Two requests make a document. *)
DocRequest(m, k) == [AsOwner(m) EXCEPT !.new = "r", !.node = k]
SameDocument ==
  {With(Start, <<DocRequest("CreateDocument", 1)>>, <<b>>) :
      b \in {DocRequest("CreateDocument", 2), [DocRequest("CreateDocument", 2) EXCEPT !.new = ""],
             DocRequest("GetSnapshotMeta", 2), DocRequest("ListRevisionsByAdmin", 2), DocRequest("RestoreRevisionByAdmin", 2)}}
  \cup {[With(Start, <<ByKey("CreateSchema")>>, <<[AsUser("ann", "RemoveSchema") EXCEPT !.new = s]>>)
          EXCEPT !.docs = ("d" :> [owner |-> 1, seq |-> 0, schema |-> "s", made |-> 0])] : s \in {"s", "t"}}

WithInvite == [Start EXCEPT !.invites = (19 :> [project |-> 1, role |-> "member", by |-> 1, expired |-> FALSE])]
Invitations ==
  {With(WithInvite, <<a>>, <<AsUser(u, "AcceptInvite"), [AsUser(u, "UpdateMemberRole") EXCEPT !.who = "bob", !.new = "admin"]>>) :
      a \in {[AsOwner("CreateInvite") EXCEPT !.new = "admin"], [AsOwner("RemoveMember") EXCEPT !.who = "bob"], AsOwner("ListMembers")},
      u \in {"own", "ann", "bob"}}
  \cup {With(Start, <<AsUser("bob", "AcceptInvite")>>, <<[AsUser("bob", "CreateProject") EXCEPT !.new = n]>>) : n \in {"p", "q"}}

OfAccount(m, u) == [AsUser("x", m) EXCEPT !.who = u, !.new = "y"]
AccountRaces ==
  {With(Start, <<a>>, <<b, OfAccount("LogIn", "eve"), AsUser("eve", "ListProjects")>>) :
      a \in {OfAccount("DeleteAccount", "ann"), OfAccount("ChangePassword", "ann"), OfAccount("DeleteAccount", "eve")},
      b \in {OfAccount("SignUp", "eve"), OfAccount("ChangePassword", "ann"), AsUser("ann", "ListMembers"), OfAccount("DeleteAccount", "ann")}}

ChannelListings ==
  {[With(Start, <<AsOwner("ListChannels")>>, <<[AsUser("ann", m) EXCEPT !.keys = {11, 12, 21}], [AsUser("ann", m) EXCEPT !.keys = {11, 22}]>>)
     EXCEPT !.channels = l] :
     m \in {"ListChannels", "GetChannels"},
     l \in {<<(11 :> 1) @@ (12 :> 2), (21 :> 1) @@ (22 :> 1)>>, <<(11 :> 1) @@ (12 :> 2), (12 :> 1) @@ (22 :> 1)>>,
            <<(12 :> 1) @@ (21 :> 2) @@ (22 :> 1), (11 :> 1)>>, <<<<>>, <<>>>>}}

AdminArrangements == Demotions \cup SettingsChange \cup SameDocument \cup Invitations \cup AccountRaces \cup ChannelListings
Resting == With(Start, <<>>, <<>>)

Admin == INSTANCE Administration WITH Nodes <- {1, 2}, Slots <- {1, 2}, Limit <- 2, MaxSeq <- 2, ProjectIDs <- {1, 2},
           Arrangements <- AdminArrangements \cup {Resting},
           todo <- a1, users <- a2, projects <- a3, members <- a4, invites <- a5, schemas <- a6, docs <- a7,
           tokens <- a8, projectCache <- a9, fetched <- a10, channels <- a11, sessionCounts <- a12,
           reqs <- a13, fresh <- a14, issued <- a15, held <- a16

(***************************************************************************)
(* One part at a time.                                                     *)
(***************************************************************************)
ServicesInit ==
  /\ part \in Parts
  /\ Init /\ Hooks!HookInit /\ Admin!AdminInit
  /\ part # "handlers" <=> project = RestingProject
  /\ part # "administration" <=> a1 = Resting.todo

InHandlers(A) == part = "handlers" /\ A /\ UNCHANGED <<part, hookSlots, adminSlots>>
InHooks(A) == part = "hooks" /\ A /\ UNCHANGED <<part, vars, adminSlots>>
InAdmin(A) == part = "administration" /\ A /\ UNCHANGED <<part, vars, hookSlots>>

ServicesNext == InHandlers(Next) \/ InHooks(Hooks!HookNext) \/ InAdmin(Admin!AdminNext)

ServicesSpec == ServicesInit /\ [][ServicesNext]_serviceVars

(* The fairness each part has for itself; with as few requests as arrive   *)
(* here, weak fairness of the workers is enough.                           *)
ServicesFairness ==
  /\ \A w \in Workers : WF_serviceVars(InHandlers(Step(w) /\ UNCHANGED project))
  /\ \A c \in Clients :
        WF_serviceVars(InHandlers(\E w \in Workers : DeactivateRequest(w, c) /\ UNCHANGED project))
  /\ WF_serviceVars(InHooks(Hooks!HookTick)) /\ WF_serviceVars(InHooks(Hooks!Send))
  /\ WF_serviceVars(InHooks(Hooks!JobRequest)) /\ WF_serviceVars(InHooks(Hooks!ExpirationTick))
  /\ WF_serviceVars(InHooks(Hooks!FlusherRequest))
  /\ WF_serviceVars(InHooks(Hooks!CloseLimiter \/ Hooks!LoopEnds \/ Hooks!Drain \/ Hooks!CloseEnds))
  /\ \A s \in {1, 2} : WF_serviceVars(InAdmin(Admin!Serve(s)))
  /\ \A n \in {1, 2} : /\ WF_serviceVars(InAdmin(Admin!Store(n)))
                       /\ \A id \in {1, 2} : WF_serviceVars(InAdmin(Admin!Age(n, id)))

ServicesFairSpec == ServicesSpec /\ ServicesFairness

(* No handler waits for ever, the attachment limit is kept, a document is  *)
(* compacted only while nobody has it attached, a deactivated client holds *)
(* no attachment, and a snapshot is one of the document's own history      *)
(* (locks and checks of the document handlers).                            *)
HandlersSafe ==
  /\ TypeOK /\ NotStuck /\ LimitKept /\ CompactedAlone /\ DeactivatedHoldsNothing /\ BasesFit

(* The limiter lets events of a document through at least a window apart,  *)
(* and nothing is left to be sent once the server has shut down.  A secret *)
(* key is shown only to callers who hold the authority it grants, one      *)
(* document or project is created for a key however many requests try, and *)
(* a listing of channels is exact up to its limit, whatever changes        *)
(* between the reads of a request (webhook.Manager, AdminService).         *)
ServicesSafe ==
  /\ Hooks!ThrottledAndFlushed
  /\ Admin!SecretKeyForAdmins /\ Admin!CreatedOnce /\ Admin!ListingExact

(* What a request writes is written for one who held the role it needs at  *)
(* some time while it ran (checkPermission).                               *)
AuthorityHeld == Admin!AuthorityHeld

(* Every pushed change is announced to the webhook in the end, also when   *)
(* the server shuts down; the settings a server has cached for a project   *)
(* become the stored ones; a client that stays silent is deactivated.      *)
ServicesComplete ==
  /\ []<>(Hooks!AllAnnounced /\ (part = "handlers" => AllDeactivated))
  /\ Admin!SettingsReachEveryNode
=============================================================================

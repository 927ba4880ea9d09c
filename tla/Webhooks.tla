------------------------------ MODULE Webhooks ------------------------------
(***************************************************************************)
(* Event webhooks: the goroutine a push of operations starts in the        *)
(* background service (server/backend/background), the webhook manager     *)
(* with its limiter that lets one event of a document through per window   *)
(* and keeps the last of the others for later (server/backend/webhook,     *)
(* pkg/limit), the client that retries (pkg/webhook), and the shutdown of  *)
(* all of them in the order of Backend.Shutdown.                           *)
(*                                                                         *)
(* Time is kept as what is left of every interval.  An event says that a   *)
(* document has changed, so what counts for the receiver is a request made *)
(* after the change: asked is how many changes had been made when the last *)
(* request about the document was made.                                    *)
(***************************************************************************)
EXTENDS Integers, Sequences, FiniteSets, TLC

CONSTANTS
    Docs,           \* documents with an event webhook
    Throttle,       \* throttleWindow, in ticks
    Debounce,       \* debouncingTime, in ticks
    Batch,          \* expireBatchSize
    MaxRetries,     \* webhook.Options.MaxRetries
    MaxChanges      \* bound: pushes per document

VARIABLES
    made,           \* pushes of each document whose goroutine was started
    asked,          \* pushes of each document made before the last request about it
    jobs,           \* goroutines of the background service
    entries,        \* Limiter.entries
    recency,        \* Limiter.evictionList, most recent first
    flushers,       \* goroutines of runDebounce
    sinceGrant,     \* ticks since the limiter let an event of the document through
    stage           \* how far the shutdown is

hookVars == <<made, asked, jobs, entries, recency, flushers, sinceGrant, stage>>

Window == Throttle + Debounce

HookInit ==
    /\ made = [d \in Docs |-> 0]
    /\ asked = [d \in Docs |-> 0]
    /\ jobs = {}
    /\ entries = <<>>
    /\ recency = <<>>
    /\ flushers = {}
    /\ sinceGrant = [d \in Docs |-> Throttle]
    /\ stage = "running"

Down(n) == IF n = 0 THEN 0 ELSE n - 1

(* Time passes. *)
HookTick ==
    /\ entries' = [d \in DOMAIN entries |->
                     [entries[d] EXCEPT !.refill = Down(@), !.ttl = Down(@)]]
    /\ sinceGrant' = [d \in Docs |-> IF sinceGrant[d] = Throttle THEN Throttle ELSE sinceGrant[d] + 1]
    /\ UNCHANGED <<made, asked, jobs, recency, flushers, stage>>

(***************************************************************************)
(* Background.Go for a push of operations: refused once the service is     *)
(* closing.                                                                *)
(***************************************************************************)
Pushed ==
    \E d \in Docs :
      /\ stage = "running" /\ made[d] < MaxChanges
      /\ made' = [made EXCEPT ![d] = @ + 1]
      /\ jobs' = jobs \cup {[doc |-> d, change |-> made[d] + 1, at |-> "send", retries |-> 0]}
      /\ UNCHANGED <<asked, entries, recency, flushers, sinceGrant, stage>>

(* Limiter.Allow and Bucket.Allow: a granted event supersedes the one that waits. *)
Allow(d) ==
    LET known == d \in DOMAIN entries
        ok == ~known \/ entries[d].refill = 0
    IN  [allowed |-> ok,
         entry |-> [refill |-> IF ok THEN Throttle ELSE entries[d].refill, ttl |-> Window,
                    callback |-> ~ok]]

(* Manager.Send in the goroutine of a push. *)
Send ==
    \E j \in jobs :
      /\ j.at = "send"
      /\ LET a == Allow(j.doc) IN
           /\ entries' = (j.doc :> a.entry) @@ entries
           /\ jobs' = (jobs \ {j}) \cup (IF a.allowed THEN {[j EXCEPT !.at = "request"]} ELSE {})
           /\ sinceGrant' = IF a.allowed THEN [sinceGrant EXCEPT ![j.doc] = 0] ELSE sinceGrant
      /\ recency' = <<j.doc>> \o SelectSeq(recency, LAMBDA d : d # j.doc)
      /\ UNCHANGED <<made, asked, flushers, stage>>

(***************************************************************************)
(* One request of Client.Send and what comes of it: answered, refused for  *)
(* good, or to be tried again while retries are left (withExponential-     *)
(* Backoff).  The result is the number of requests already made, or none.  *)
(***************************************************************************)
Retry(retries) == IF retries < MaxRetries THEN {{}, {retries + 1}} ELSE {{}}

Asked(d) == [asked EXCEPT ![d] = made[d]]

JobRequest ==
    \E j \in jobs :
      /\ j.at = "request"
      /\ asked' = Asked(j.doc)
      /\ \E again \in Retry(j.retries) :
           jobs' = (jobs \ {j}) \cup {[j EXCEPT !.retries = r] : r \in again}
      /\ UNCHANGED <<made, entries, recency, flushers, sinceGrant, stage>>

-----------------------------------------------------------------------------
(***************************************************************************)
(* collectEntries: from the least recent entry on, a batch at most; the    *)
(* entries go, and those with a callback are to run.                       *)
(***************************************************************************)
RECURSIVE CollectEntries(_, _, _, _)
CollectEntries(order, onlyExpired, n, run) ==
    IF n = 0 \/ order = <<>> \/ (onlyExpired /\ entries[order[Len(order)]].ttl > 0)
    THEN [order |-> order, run |-> run]
    ELSE LET d == order[Len(order)] IN
           CollectEntries(SubSeq(order, 1, Len(order) - 1), onlyExpired, n - 1,
                          IF entries[d].callback THEN Append(run, d) ELSE run)

(* runDebounce in a goroutine of its own. *)
Collect(onlyExpired) ==
    \E c \in {CollectEntries(recency, onlyExpired, Batch, <<>>)} :
      /\ c.order # recency
      /\ recency' = c.order
      /\ entries' = [d \in {c.order[i] : i \in DOMAIN c.order} |-> entries[d]]
      /\ flushers' = IF c.run = <<>> THEN flushers
                     ELSE flushers \cup {[docs |-> c.run, retries |-> 0, change |-> made[Head(c.run)]]}

(* Mutant: the ticker is not started, entries go only when the limiter closes. *)
ExpirationTickClosing ==
    /\ stage \in {"background", "limiter"}
    /\ Collect(TRUE)
    /\ UNCHANGED <<made, asked, jobs, sinceGrant, stage>>

(* expirationLoop; it may see a tick before it sees that the limiter closes. *)
ExpirationTick ==
    /\ stage \in {"running", "background", "limiter"}
    /\ Collect(TRUE)
    /\ UNCHANGED <<made, asked, jobs, sinceGrant, stage>>

(* The callbacks of a batch run one after another, each with its retries. *)
FlusherRequest ==
    \E f \in flushers :
      /\ asked' = Asked(Head(f.docs))
      /\ \E again \in Retry(f.retries) :
           flushers' = (flushers \ {f}) \cup
             (IF again # {} THEN {[f EXCEPT !.retries = @ + 1]}
              ELSE IF Len(f.docs) > 1 THEN {[f EXCEPT !.docs = Tail(@), !.retries = 0]} ELSE {})
      /\ UNCHANGED <<made, jobs, entries, recency, sinceGrant, stage>>

-----------------------------------------------------------------------------
(* Backend.Shutdown: Background.Close refuses new goroutines and waits for the others. *)
CloseBackground ==
    /\ stage = "running"
    /\ stage' = "background"
    /\ UNCHANGED <<made, asked, jobs, entries, recency, flushers, sinceGrant>>

(* Mutant: the limiter is closed without waiting for the goroutines. *)
CloseLimiterEarly ==
    /\ stage = "background"
    /\ stage' = "limiter"
    /\ UNCHANGED <<made, asked, jobs, entries, recency, flushers, sinceGrant>>

(* Limiter.Close announces that it closes. *)
CloseLimiter ==
    /\ stage = "background" /\ jobs = {}
    /\ stage' = "limiter"
    /\ UNCHANGED <<made, asked, jobs, entries, recency, flushers, sinceGrant>>

(* expirationLoop has returned and its goroutines are done. *)
LoopEnds ==
    /\ stage = "limiter" /\ flushers = {}
    /\ stage' = "drain"
    /\ UNCHANGED <<made, asked, jobs, entries, recency, flushers, sinceGrant>>

(* All that is left runs, batch by batch, whether it has expired or not. *)
Drain ==
    /\ stage = "drain"
    /\ Collect(FALSE)
    /\ UNCHANGED <<made, asked, jobs, sinceGrant, stage>>

CloseEnds ==
    /\ stage = "drain" /\ recency = <<>> /\ flushers = {}
    /\ stage' = "closed"
    /\ UNCHANGED <<made, asked, jobs, entries, recency, flushers, sinceGrant>>

HookNext ==
    \/ HookTick \/ Pushed \/ Send \/ JobRequest \/ ExpirationTick \/ FlusherRequest
    \/ CloseBackground \/ CloseLimiter \/ LoopEnds \/ Drain \/ CloseEnds

(***************************************************************************)
(* Time goes on, the ticker fires, and goroutines run; nobody has to push  *)
(* or to shut the server down.                                             *)
(***************************************************************************)
HookFairness ==
    /\ WF_hookVars(HookTick)
    /\ WF_hookVars(Send)
    /\ WF_hookVars(JobRequest)
    /\ WF_hookVars(ExpirationTick)
    /\ WF_hookVars(FlusherRequest)
    /\ WF_hookVars(CloseLimiter \/ LoopEnds \/ Drain \/ CloseEnds)

-----------------------------------------------------------------------------
(***************************************************************************)
(* The limiter lets events of a document through at least a window apart   *)
(* (Bucket.Allow), although the entry that knows when the last one was may *)
(* have been collected in between, and nothing is left to be sent once the *)
(* manager is closed: no goroutine runs, and the receiver has been asked   *)
(* about every document after its last change (Manager.Close).             *)
(***************************************************************************)
ThrottledAndFlushed ==
    /\ \A d \in Docs : d \in DOMAIN entries => entries[d].refill >= Throttle - sinceGrant[d]
    /\ \A d \in Docs : d \notin DOMAIN entries /\ stage \in {"running", "background"}
                         => sinceGrant[d] = Throttle
    /\ stage = "closed" => jobs = {} /\ entries = <<>> /\ asked = made

(* After every change of a document a request about it is made, now or when its entry expires. *)
AllAnnounced == \A d \in Docs : asked[d] >= made[d]
EveryChangeAnnounced == []<>AllAnnounced
=============================================================================

-------------------------- MODULE ChannelBroadcast --------------------------
(***************************************************************************)
(* Broadcasts of a client on a channel (pkg/channel, Client.WatchChannel). *)
(* Channel.Broadcast hands its request to the servicer goroutine that the   *)
(* watch of the channel started, and waits for its answer.  A watch has a   *)
(* claim, the ServingToken, with a request and a response queue of length   *)
(* one; a claim is retired when its watch is closed, cancelled or fails to  *)
(* open, and a later watch gets a new one.                                  *)
(*                                                                         *)
(* Watches are numbered; 0 is the retired claim a channel starts with.  A   *)
(* request is its caller and the number of the call, and an answer is the   *)
(* request it answers.                                                      *)
(***************************************************************************)
EXTENDS Integers, FiniteSets

CONSTANTS
    Callers,      \* goroutines that call Channel.Broadcast
    Empty,         \* an empty queue
    MaxWatches,   \* bound: the watches opened
    MaxCalls      \* bound: the Broadcasts of one caller

Watches == 0..MaxWatches
Requests == Callers \X (1..MaxCalls)

VARIABLES
    serving,      \* Channel.serving: the current claim
    done,         \* the retired claims
    requests, responses,   \* the queues of each claim
    cancelled,    \* the watches whose context is cancelled
    servicer,     \* where the servicer of each watch is
    taken,        \* the request it is serving
    phase, token,    \* where each caller is, and the claim it uses
    calls,        \* the Broadcasts each caller has begun
    late,         \* the claim was retired when the Broadcast began
    got           \* what its last Broadcast returned

claim == <<serving, done>>
queues == <<requests, responses>>
servicing == <<servicer, taken>>
calling == <<phase, token, calls, late, got>>
servingVars == <<claim, queues, cancelled, servicing, calling>>

ServingInit ==
    /\ serving = 0 /\ done = {0}
    /\ requests = [w \in Watches |-> Empty]
    /\ responses = [w \in Watches |-> Empty]
    /\ cancelled = {}
    /\ servicer = [w \in Watches |-> "off"]
    /\ taken = [w \in Watches |-> Empty]
    /\ phase = [c \in Callers |-> "idle"]
    /\ token = [c \in Callers |-> 0]
    /\ calls = [c \in Callers |-> 0]
    /\ late = [c \in Callers |-> FALSE]
    /\ got = [c \in Callers |-> "nothing"]

(* Mutant: a token that no longer holds the claim retires its successor.   *)
RetireCurrent(w) == done' = done \cup {serving}

(* StopBroadcastServing: only the current claim can be retired.            *)
Retire(w) == done' = IF serving = w THEN done \cup {w} ELSE done

-----------------------------------------------------------------------------
(* The watch.                                                              *)

(* WatchChannel claims the channel, which a second watch may not.  The     *)
(* servicer runs once the stream is open; a stream that cannot be opened   *)
(* gives the claim back.                                                   *)
Watch ==
    /\ serving \in done /\ serving < MaxWatches
    /\ serving' = serving + 1
    /\ servicer' = [servicer EXCEPT ![serving + 1] = "opening"]
    /\ UNCHANGED <<done, queues, cancelled, taken, calling>>

Opened(w) ==
    /\ servicer[w] = "opening"
    /\ servicer' = [servicer EXCEPT ![w] = "select"]
    /\ UNCHANGED <<claim, queues, cancelled, taken, calling>>

OpenFails(w) ==
    /\ servicer[w] = "opening"
    /\ servicer' = [servicer EXCEPT ![w] = "gone"]
    /\ cancelled' = cancelled \cup {w}
    /\ Retire(w)
    /\ UNCHANGED <<serving, queues, taken, calling>>

(* The attachment's watch ends: Detach, Deactivate, or the caller's        *)
(* context.                                                                *)
Cancel(w) ==
    /\ servicer[w] # "off" /\ w \notin cancelled
    /\ cancelled' = cancelled \cup {w}
    /\ UNCHANGED <<claim, queues, servicing, calling>>

(* The second half of closeFunc: a cancelled watch gives its claim back    *)
(* before its servicer has noticed.                                        *)
CloseWatch(w) ==
    /\ w \in cancelled /\ servicer[w] # "opening"
    /\ Retire(w)
    /\ UNCHANGED <<serving, queues, cancelled, servicing, calling>>

-----------------------------------------------------------------------------
(* The servicer.                                                           *)

(* A request whose claim has been retired meanwhile is skipped.            *)
TakeRequest(w) ==
    /\ servicer[w] = "select" /\ requests[w] # Empty
    /\ requests' = [requests EXCEPT ![w] = Empty]
    /\ IF w \in done
       THEN servicer' = [servicer EXCEPT ![w] = "leaving"] /\ UNCHANGED taken
       ELSE /\ servicer' = [servicer EXCEPT ![w] = "broadcasting"]
            /\ taken' = [taken EXCEPT ![w] = requests[w]]
    /\ UNCHANGED <<claim, responses, cancelled, calling>>

Leave(w) ==
    /\ servicer[w] = "select" /\ (w \in done \/ w \in cancelled)
    /\ servicer' = [servicer EXCEPT ![w] = "leaving"]
    /\ UNCHANGED <<claim, queues, cancelled, taken, calling>>

(* Mutant: the answer goes to whoever holds the claim now.                 *)
AnswerCurrent(w) ==
    /\ servicer[w] = "broadcasting"
    /\ responses' = [responses EXCEPT ![serving] = IF @ = Empty THEN taken[w] ELSE @]
    /\ servicer' = [servicer EXCEPT ![w] = IF serving = w /\ responses[w] = Empty
                                           THEN "select" ELSE "leaving"]
    /\ taken' = [taken EXCEPT ![w] = Empty]
    /\ UNCHANGED <<claim, requests, cancelled, calling>>

(* The Broadcast call has returned: SendBroadcastResponse delivers the     *)
(* answer when the claim is still this servicer's and there is room;       *)
(* otherwise the servicer leaves.                                          *)
Answer(w) ==
    /\ servicer[w] = "broadcasting"
    /\ \/ /\ serving = w /\ responses[w] = Empty
          /\ responses' = [responses EXCEPT ![w] = taken[w]]
          /\ servicer' = [servicer EXCEPT ![w] = "select"]
       \/ /\ serving # w \/ responses[w] # Empty
          /\ servicer' = [servicer EXCEPT ![w] = "leaving"]
          /\ UNCHANGED responses
    /\ taken' = [taken EXCEPT ![w] = Empty]
    /\ UNCHANGED <<claim, requests, cancelled, calling>>

(* Mutant: the servicer is gone without a word.                            *)
StopQuietly(w) ==
    /\ servicer[w] = "leaving"
    /\ servicer' = [servicer EXCEPT ![w] = "gone"]
    /\ UNCHANGED <<claim, queues, cancelled, taken, calling>>

(* The deferred StopBroadcastServing.                                      *)
StopServing(w) ==
    /\ servicer[w] = "leaving"
    /\ servicer' = [servicer EXCEPT ![w] = "gone"]
    /\ Retire(w)
    /\ UNCHANGED <<serving, queues, cancelled, taken, calling>>

-----------------------------------------------------------------------------
(* Channel.Broadcast.                                                      *)

Broadcast(c) ==
    /\ phase[c] = "idle" /\ calls[c] < MaxCalls
    /\ phase' = [phase EXCEPT ![c] = "sending"]
    /\ token' = [token EXCEPT ![c] = serving]
    /\ calls' = [calls EXCEPT ![c] = @ + 1]
    /\ late' = [late EXCEPT ![c] = serving \in done]
    /\ UNCHANGED <<claim, queues, cancelled, servicing, got>>

SendRequest(c) ==
    /\ phase[c] = "sending" /\ requests[token[c]] = Empty
    /\ requests' = [requests EXCEPT ![token[c]] = <<c, calls[c]>>]
    /\ phase' = [phase EXCEPT ![c] = "waiting"]
    /\ UNCHANGED <<claim, responses, cancelled, servicing, token, calls, late, got>>

Returns(c, result) ==
    /\ phase' = [phase EXCEPT ![c] = "idle"]
    /\ got' = [got EXCEPT ![c] = result]
    /\ UNCHANGED <<token, calls, late>>

ReceiveAnswer(c) ==
    /\ phase[c] = "waiting" /\ responses[token[c]] # Empty
    /\ responses' = [responses EXCEPT ![token[c]] = Empty]
    /\ Returns(c, IF responses[token[c]] = <<c, calls[c]>> THEN "answer" ELSE "another's answer")
    /\ UNCHANGED <<claim, requests, cancelled, servicing>>

(* ErrBroadcastUnavailable; an answer that is there is preferred.          *)
Unavailable(c) ==
    /\ token[c] \in done
    /\ phase[c] = "sending" \/ (phase[c] = "waiting" /\ responses[token[c]] = Empty)
    /\ Returns(c, "unavailable")
    /\ UNCHANGED <<claim, queues, cancelled, servicing>>

-----------------------------------------------------------------------------
ServicerStep(w) == TakeRequest(w) \/ Leave(w) \/ Answer(w) \/ StopServing(w)
CallerStep(c) == SendRequest(c) \/ ReceiveAnswer(c) \/ Unavailable(c)

ServingNext ==
    \/ Watch
    \/ \E w \in Watches : Opened(w) \/ OpenFails(w) \/ Cancel(w) \/ CloseWatch(w) \/ ServicerStep(w)
    \/ \E c \in Callers : Broadcast(c) \/ CallerStep(c)

ServingSpec == ServingInit /\ [][ServingNext]_servingVars

(* Goroutines that can run do; the unary Broadcast call returns.           *)
ServingFairness ==
    /\ \A w \in Watches : WF_servingVars(Opened(w)) /\ WF_servingVars(ServicerStep(w))
    /\ \A c \in Callers : SF_servingVars(SendRequest(c)) /\ SF_servingVars(ReceiveAnswer(c)) /\ WF_servingVars(Unavailable(c))

ServingFairSpec == ServingSpec /\ ServingFairness

-----------------------------------------------------------------------------
(* Claims up to the current one may be retired, a queue holds one element, *)
(* and a servicer broadcasts for a request.                                *)
ServingTypeOK ==
    /\ serving \in Watches /\ done \subseteq 0..serving
    /\ requests \in [Watches -> Requests \cup {Empty}]
    /\ responses \in [Watches -> Requests \cup {Empty}]
    /\ cancelled \subseteq Watches
    /\ servicer \in [Watches -> {"off", "opening", "select", "broadcasting", "leaving", "gone"}]
    /\ taken \in [Watches -> Requests \cup {Empty}]
    /\ \A w \in Watches : servicer[w] = "broadcasting" <=> taken[w] # Empty
    /\ phase \in [Callers -> {"idle", "sending", "waiting"}]
    /\ token \in [Callers -> Watches]
    /\ calls \in [Callers -> 0..MaxCalls]
    /\ late \in [Callers -> BOOLEAN]
    /\ got \in [Callers -> {"nothing", "answer", "another's answer", "unavailable"}]

(* A Broadcast begun under a claim that held returns the answer to its own *)
(* request or none: never that of an earlier call, whatever watch that one *)
(* was made under ("nor land a late answer on its successor's caller",     *)
(* ServingToken).                                                          *)
OwnAnswer ==
    \A c \in Callers : phase[c] = "idle" /\ got[c] = "another's answer" => late[c]

(* A watch that is not cancelled has its claim: no watch is open whose     *)
(* broadcasts are all unavailable (WatchChannel on why the claim is        *)
(* exclusive).                                                             *)
ServedWhileWatched ==
    \A w \in Watches : servicer[w] # "off" /\ w \notin cancelled => w \notin done

(* The answer has room in the queue of the current claim                   *)
(* (SendBroadcastResponse).                                                *)
ResponseHasRoom ==
    \A w \in Watches : servicer[w] = "broadcasting" /\ serving = w => responses[w] = Empty

(* A Broadcast begun after its claim was retired reports it                *)
(* (StopBroadcastServing: "waiting and subsequent Broadcast calls return   *)
(* ErrBroadcastUnavailable").                                              *)
RetiredIsUnavailable ==
    \A c \in Callers : phase[c] = "idle" /\ late[c] => got[c] = "unavailable"

(* A Broadcast returns: with an answer, or because its claim is retired.   *)
BroadcastReturns == \A c \in Callers : (phase[c] # "idle") ~> (phase[c] = "idle")
=============================================================================

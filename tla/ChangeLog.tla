----------------------------- MODULE ChangeLog ------------------------------
(***************************************************************************)
(* What document synchronisation promises, with nothing said of requests,  *)
(* checkpoints or retries: the changes of each client enter one log, each  *)
(* once and in the order they were made, and a replica takes the log in    *)
(* from front to back, applying every change it does not already have      *)
(* because it made it.                                                     *)
(***************************************************************************)
EXTENDS Integers, Sequences

CONSTANTS Clients, MaxSeq

VARIABLES
    entries,   \* the log
    made,      \* how many changes each client has made
    position,  \* how much of the log each replica has taken in
    counts     \* how often each replica has applied each change

vars == <<entries, made, position, counts>>

Change == Clients \X (1..MaxSeq)

Init ==
    /\ entries = <<>>
    /\ made = [c \in Clients |-> 0]
    /\ position = [c \in Clients |-> 0]
    /\ counts = [c \in Clients |-> [x \in Change |-> 0]]

\* A client edits its replica.
Make(c) ==
    /\ made[c] < MaxSeq
    /\ made' = [made EXCEPT ![c] = @ + 1]
    /\ counts' = [counts EXCEPT ![c][<<c, made[c] + 1>>] = @ + 1]
    /\ UNCHANGED <<entries, position>>

\* How many changes of c are in the log.
Published(c, n) ==
    /\ \A i \in 1..n : \E k \in 1..Len(entries) : entries[k] = <<c, i>>
    /\ \A k \in 1..Len(entries) : entries[k][1] = c => entries[k][2] <= n

\* The next changes of a client enter the log.
Publish(c) ==
    /\ \E n \in 0..made[c] : \E m \in 1..(made[c] - n) :
         /\ Published(c, n)
         /\ entries' = entries \o [i \in 1..m |-> <<c, n + i>>]
    /\ UNCHANGED <<made, position, counts>>

\* A replica takes in the log up to n.
Receive(c) ==
    /\ \E n \in position[c]..Len(entries) :
         LET new == {entries[k] : k \in (position[c] + 1)..n} \ ({c} \X (1..MaxSeq))
         IN  /\ position' = [position EXCEPT ![c] = n]
             /\ counts' = [counts EXCEPT ![c] =
                  [x \in Change |-> IF x \in new THEN @[x] + 1 ELSE @[x]]]
    /\ UNCHANGED <<entries, made>>

Next == \E c \in Clients : Make(c) \/ Publish(c) \/ Receive(c)

Spec == Init /\ [][Next]_vars
=============================================================================

-------------------------- MODULE MembershipProofs --------------------------
(***************************************************************************)
(* At most one leader, for any number of servers and any times for which   *)
(* a renewal reaches the database before the row or the lease runs out.    *)
(*                                                                         *)
(* The flag isLeader alone does not carry the argument.  What does is how   *)
(* old the node's row can be at each point of its loop: no older than the   *)
(* current cycle while an answer is on its way, and no older than one lag,  *)
(* the part of the interval that has passed and the current lag while the   *)
(* leader waits.  So the TTL index never finds a leader's row, and the      *)
(* unique index on is_leader does the rest.                                 *)
(***************************************************************************)
EXTENDS Membership, TLAPS

(* A leaf that names no prover is given to the SMT solver, for 30 s at most. *)
USE SMTT(30)

(* A renewal that starts MaxLag late after an answer that came MaxLag late *)
(* is still in time.                                                       *)
Timely ==
    /\ RenewalInterval + 2 * MaxLag < TTL
    /\ RenewalInterval + 2 * MaxLag < LeaseDuration

Answered(n) == pc[n] \in {"claimed", "renewing"}

OneLeaderRow == \A n, m \in Nodes : Held(n) /\ Held(m) => n = m

RowIsYoung(n) ==
    /\ Answered(n) => row[n].age <= lag[n]
    /\ isLeader[n] /\ ~Answered(n) =>
          row[n].age + wake[n] <= RenewalInterval + MaxLag + lag[n]

LoopOK(n) ==
    /\ isLeader[n] => pc[n] \in {"idle", "renewing"}
    /\ wake[n] > 0 => lag[n] = 0 /\ pc[n] = "idle"

NodeOK(n) ==
    /\ LoopOK(n)
    /\ RowIsYoung(n)
    /\ isLeader[n] \/ Answered(n) =>
          /\ alive[n]
          /\ Held(n)
          /\ row[n].left + row[n].age >= LeaseDuration

IInv == TypeOK /\ OneLeaderRow /\ \A n \in Nodes : NodeOK(n)

(* The three rows the operations write, and the rows they patch.           *)
LEMMA RowsTyped ==
    /\ NoRow \in Row /\ LeaderRow \in Row /\ FollowerRow \in Row
    /\ \A r \in Row, b \in BOOLEAN : [r EXCEPT !.mine = b] \in Row
    /\ \A r \in Row : [r EXCEPT !.age = 0] \in Row
    /\ \A r \in Row : r.exists \in BOOLEAN
<1>1. NoRow \in Row /\ LeaderRow \in Row
  BY TimesArePositive DEF Row, NoRow, LeaderRow, TimesArePositive
<1>2. FollowerRow \in Row
  BY <1>1, ZenonT(40) DEF Row, FollowerRow
<1>3. \A r \in Row, b \in BOOLEAN : [r EXCEPT !.mine = b] \in Row
  BY DEF Row
<1>4. \A r \in Row : [r EXCEPT !.age = 0] \in Row /\ r.exists \in BOOLEAN
  BY TimesArePositive DEF Row, TimesArePositive
<1> QED
  BY <1>1, <1>2, <1>3, <1>4, ZenonT(40)

LEMMA TypeInit == Init => TypeOK
BY RowsTyped, TimesArePositive DEF Init, TypeOK

(* Time keeps every timer within its range.                                *)
LEMMA TickTyped == TypeOK /\ Tick => TypeOK'
<1> SUFFICES ASSUME TypeOK, Tick PROVE TypeOK'
  OBVIOUS
<1>1. \A n \in Nodes : [row[n] EXCEPT !.left = Less(row[n].left),
                                      !.age = IF row[n].exists THEN More(row[n].age, TTL) ELSE 0] \in Row
  <2> SUFFICES ASSUME NEW n \in Nodes
               PROVE  [row[n] EXCEPT !.left = Less(row[n].left),
                                     !.age = IF row[n].exists THEN More(row[n].age, TTL) ELSE 0] \in Row
    BY ZenonT(40)
  <2>1. row[n] \in Row
    BY DEF TypeOK
  <2>2. Less(row[n].left) \in 0..LeaseDuration
    BY <2>1, TimesArePositive DEF Row, Less
  <2>3. (IF row[n].exists THEN More(row[n].age, TTL) ELSE 0) \in 0..TTL
    BY <2>1, TimesArePositive DEF Row, More
  <2> QED
    BY <2>1, <2>2, <2>3, ZenonT(40) DEF Row
<1>2. row' \in [Nodes -> Row]
  BY <1>1, ZenonT(40) DEF Tick
<1>3. wake' \in [Nodes -> 0..RenewalInterval]
  <2>1. \A i \in 0..RenewalInterval : Less(i) \in 0..RenewalInterval
    BY TimesArePositive DEF Less, TimesArePositive
  <2> QED
    BY <2>1, ZenonT(40) DEF Tick, TypeOK
<1>4. lag' \in [Nodes -> 0..MaxLag]
  <2>1. \A i \in 0..MaxLag : More(i, MaxLag) \in 0..MaxLag
    BY TimesArePositive DEF More, TimesArePositive
  <2> QED
    BY <2>1, ZenonT(40) DEF Tick, TypeOK
<1> QED
  BY <1>2, <1>3, <1>4, ZenonT(40) DEF Tick, TypeOK

LEMMA TypeStep == TypeOK /\ [Next]_vars => TypeOK'
<1> SUFFICES ASSUME TypeOK, [Next]_vars PROVE TypeOK'
  OBVIOUS
<1>0. /\ NoRow \in Row /\ LeaderRow \in Row /\ FollowerRow \in Row
      /\ RenewalInterval \in 0..RenewalInterval /\ 0 \in 0..RenewalInterval /\ 0 \in 0..MaxLag
      /\ \A n \in Nodes, b \in BOOLEAN : [row[n] EXCEPT !.mine = b] \in Row
      /\ \A n \in Nodes : [row[n] EXCEPT !.age = 0] \in Row
      /\ \A n \in Nodes : row[n].exists \in BOOLEAN
  BY RowsTyped, TimesArePositive DEF TypeOK
<1>1. CASE Tick
  BY <1>1, TickTyped
<1>2. CASE \E n \in Nodes : Renew(n)
  BY <1>0, <1>2 DEF Renew, After, loop, TypeOK
<1>3. CASE \E n \in Nodes : RenewRefused(n)
  BY <1>0, <1>3 DEF RenewRefused, EndCycle, loop, TypeOK
<1>4. CASE \E n \in Nodes : LeaseArrives(n)
  <2> PICK n \in Nodes : LeaseArrives(n)
    BY <1>4
  <2>1. row' = [row EXCEPT ![n] = [row[n] EXCEPT !.mine = row[n].exists]]
    BY DEF LeaseArrives
  <2>2. row' \in [Nodes -> Row]
    BY <1>0, <2>1 DEF TypeOK
  <2> QED
    BY <1>0, <2>2 DEF LeaseArrives, EndCycle, TypeOK
<1>5. CASE \E n \in Nodes : CheckLeader(n)
  BY <1>0, <1>5 DEF CheckLeader, After, loop, TypeOK
<1>6. CASE \E n \in Nodes : Claim(n)
  BY <1>0, <1>6 DEF Claim, After, loop, TypeOK
<1>7. CASE \E n \in Nodes : DuplicateKey(n)
  BY <1>0, <1>7 DEF DuplicateKey, After, loop, TypeOK
<1>8. CASE \E n \in Nodes : Follow(n)
  BY <1>0, <1>8 DEF Follow, EndCycle, loop, TypeOK
<1>9. CASE \E n \in Nodes : AcquireInMemory(n)
  BY <1>0, <1>9 DEF AcquireInMemory, After, loop, TypeOK
<1>10. CASE \E n \in Nodes : FollowInMemory(n)
  BY <1>0, <1>10 DEF FollowInMemory, EndCycle, loop, TypeOK
<1>11. CASE \E n \in Nodes : ExpireRow(n)
  BY <1>0, <1>11 DEF ExpireRow, loop, TypeOK
<1>12. CASE \E n \in Nodes : CallFails(n)
  <2> PICK n \in Nodes : CallFails(n)
    BY <1>12
  <2>1. row' = [row EXCEPT ![n] = [row[n] EXCEPT !.mine = FALSE]]
    BY DEF CallFails
  <2>2. row' \in [Nodes -> Row]
    BY <1>0, <2>1, ZenonT(40) DEF TypeOK
  <2> QED
    BY <1>0, <2>2 DEF CallFails, EndCycle, TypeOK
<1>13. CASE \E n \in Nodes : Stop(n)
  BY <1>0, <1>13 DEF Stop, Down, loop, TypeOK
<1>14. CASE \E n \in Nodes : Crash(n)
  <2> PICK n \in Nodes : Crash(n)
    BY <1>14
  <2>1. row' = [row EXCEPT ![n] = [row[n] EXCEPT !.mine = FALSE]]
    BY DEF Crash
  <2>2. row' \in [Nodes -> Row]
    BY <1>0, <2>1, ZenonT(40) DEF TypeOK
  <2> QED
    BY <1>0, <2>2 DEF Crash, Down, TypeOK
<1>15. CASE \E n \in Nodes : Start(n)
  BY <1>0, <1>15 DEF Start, loop, TypeOK
<1>16. CASE UNCHANGED vars
  BY <1>16 DEF vars, loop, TypeOK
<1> QED
  BY <1>1, <1>2, <1>3, <1>4, <1>5, <1>6, <1>7, <1>8, <1>9, <1>10, <1>11, <1>12, <1>13, <1>14, <1>15, <1>16 DEF Next, Step, Cycle, Fault

(* The flags, rows and timers stay within their ranges.                    *)
THEOREM TypeCorrect == Spec => []TypeOK
BY TypeInit, TypeStep, PTL DEF Spec

-----------------------------------------------------------------------------
(* A step touches the row and the loop of one node.                        *)
Others(k) ==
    \A n \in Nodes \ {k} :
        /\ row'[n] = row[n] /\ isLeader'[n] = isLeader[n] /\ pc'[n] = pc[n]
        /\ wake'[n] = wake[n] /\ lag'[n] = lag[n] /\ alive'[n] = alive[n]

(* Such a step keeps the invariant when it keeps what it says of that node *)
(* and makes its row a leader's only when no other row is one.             *)
LEMMA StepOfOne ==
    ASSUME NEW k \in Nodes, IInv, TypeOK', Others(k), NodeOK(k)',
           Held(k)' => Held(k) \/ \A m \in Nodes \ {k} : ~Held(m)
    PROVE  IInv'
<1>1. \A n \in Nodes \ {k} : NodeOK(n)'
  BY DEF Others, IInv, NodeOK, LoopOK, RowIsYoung, Answered, Held
<1>2. \A n \in Nodes \ {k} : Held(n)' <=> Held(n)
  BY DEF Others, Held
<1>3. OneLeaderRow'
  BY <1>2 DEF IInv, OneLeaderRow
<1> QED
  BY <1>1, <1>3 DEF IInv

(* Time: a row ages with its loop, and a busy loop ends within MaxLag.     *)
LEMMA TickKeeps ==
    ASSUME Timely, "pause" \notin Faults, IInv, Tick, TypeOK'
    PROVE  IInv'
<1>1. ASSUME NEW n \in Nodes PROVE Held(n)' <=> Held(n)
  <2>1. row[n] \in Row
    BY DEF IInv, TypeOK
  <2>2. row'[n].exists = row[n].exists /\ row'[n].isLeader = row[n].isLeader
    BY <2>1, ZenonT(40) DEF Tick, Row
  <2> QED
    BY <2>2 DEF Held
<1>2. ASSUME NEW n \in Nodes PROVE NodeOK(n)'
  <2>1. /\ row[n] \in Row /\ wake[n] \in 0..RenewalInterval /\ lag[n] \in 0..MaxLag
        /\ NodeOK(n)
    BY DEF IInv, TypeOK
  <2>2. /\ isLeader'[n] = isLeader[n] /\ pc'[n] = pc[n] /\ alive'[n] = alive[n]
        /\ wake'[n] = Less(wake[n])
        /\ lag'[n] = IF Busy(n) THEN More(lag[n], MaxLag) ELSE lag[n]
        /\ Busy(n) => lag[n] < MaxLag
    BY ZenonT(40) DEF Tick
  <2>3. /\ row'[n].left = Less(row[n].left)
        /\ row'[n].age = IF row[n].exists THEN More(row[n].age, TTL) ELSE 0
    BY <2>1, ZenonT(40) DEF Tick, Row
  <2>4. LoopOK(n)'
    BY <2>1, <2>2 DEF NodeOK, LoopOK, Less, Busy, Due, InCycle
  <2>5. CASE ~isLeader[n] /\ ~Answered(n)
    BY <2>2, <2>4, <2>5 DEF NodeOK, RowIsYoung, Answered
  <2>6. CASE Answered(n)
    <3>1. alive[n] /\ Held(n) /\ row[n].age <= lag[n] /\ Busy(n)
          /\ row[n].left + row[n].age >= LeaseDuration
      BY <2>1, <2>6 DEF NodeOK, RowIsYoung, Answered, Busy, InCycle
    <3>2. row'[n].age = row[n].age + 1 /\ lag'[n] = lag[n] + 1
      BY <2>1, <2>2, <2>3, <3>1, TimesArePositive DEF Timely, More, Row, Held, TimesArePositive
    <3>3. row'[n].left + row'[n].age >= LeaseDuration
      BY <2>1, <2>3, <3>1, <3>2, TimesArePositive DEF Less, Row, TimesArePositive
    <3> QED
      BY <1>1, <2>1, <2>2, <2>4, <2>6, <3>1, <3>2, <3>3 DEF NodeOK, RowIsYoung, Answered, Row
  <2>7. CASE isLeader[n] /\ ~Answered(n)
    <3>1. /\ alive[n] /\ Held(n) /\ pc[n] = "idle"
          /\ row[n].age + wake[n] <= RenewalInterval + MaxLag + lag[n]
          /\ row[n].left + row[n].age >= LeaseDuration
          /\ wake[n] > 0 => lag[n] = 0
      BY <2>1, <2>7 DEF NodeOK, LoopOK, RowIsYoung, Answered
    <3>2. wake[n] = 0 <=> Busy(n)
      BY <2>1, <3>1 DEF Busy, Due, InCycle
    <3>3. row[n].age < TTL /\ row'[n].age = row[n].age + 1
      BY <2>1, <2>2, <2>3, <3>1, <3>2, TimesArePositive DEF Timely, More, Row, Held, TimesArePositive
    <3>4. row'[n].left + row'[n].age >= LeaseDuration
      BY <2>1, <2>3, <3>1, <3>3, TimesArePositive DEF Less, Row, TimesArePositive
    <3>5. row'[n].age + wake'[n] <= RenewalInterval + MaxLag + lag'[n]
      BY <2>1, <2>2, <3>1, <3>2, <3>3, TimesArePositive DEF Less, More, Row, TimesArePositive
    <3> QED
      BY <1>1, <2>2, <2>4, <2>7, <3>1, <3>4, <3>5 DEF NodeOK, RowIsYoung, Answered
  <2> QED
    BY <2>5, <2>6, <2>7
<1> QED
  BY <1>1, <1>2 DEF IInv, OneLeaderRow

(* The calls of a cycle.                                                   *)
LEMMA CycleKeeps ==
    ASSUME Timely, IInv, TypeOK', NEW k \in Nodes, Cycle(k)
    PROVE  IInv'
<1> USE DEF IInv
<1>0. /\ row[k] \in Row /\ wake[k] \in 0..RenewalInterval /\ lag[k] \in 0..MaxLag
      /\ NodeOK(k)
      /\ row \in [Nodes -> Row] /\ isLeader \in [Nodes -> BOOLEAN] /\ alive \in [Nodes -> BOOLEAN]
      /\ DOMAIN pc = Nodes /\ DOMAIN wake = Nodes /\ DOMAIN lag = Nodes
  BY DEF TypeOK
<1>1. CASE Renew(k)
  <2>1. Others(k)
    BY <1>0, <1>1 DEF Others, Renew, After
  <2>2. Held(k)' => Held(k) \/ \A m \in Nodes \ {k} : ~Held(m)
    BY <1>0, <1>1 DEF Renew, After, Held, RenewMatches, Active, Row, LeaderRow, FollowerRow, NoRow
  <2>3. NodeOK(k)'
    BY <1>0, <1>1, TimesArePositive DEF NodeOK, LoopOK, RowIsYoung, Answered, Held, Row, LeaderRow, FollowerRow, NoRow, Due, InCycle, TimesArePositive, RenewMatches, Active, Renew, After
  <2> QED
    BY <2>1, <2>2, <2>3, StepOfOne
<1>2. CASE RenewRefused(k)
  <2>1. Others(k)
    BY <1>0, <1>2 DEF Others, RenewRefused, EndCycle
  <2>2. Held(k)' => Held(k) \/ \A m \in Nodes \ {k} : ~Held(m)
    BY <1>0, <1>2 DEF RenewRefused, EndCycle, Held, RenewMatches, Active, Row, LeaderRow, FollowerRow, NoRow
  <2>3. NodeOK(k)'
    BY <1>0, <1>2, TimesArePositive DEF NodeOK, LoopOK, RowIsYoung, Answered, Held, Row, LeaderRow, FollowerRow, NoRow, Due, InCycle, TimesArePositive, RenewMatches, Active, RenewRefused, EndCycle
  <2> QED
    BY <2>1, <2>2, <2>3, StepOfOne
<1>3. CASE LeaseArrives(k)
  <2>1. Others(k)
    BY <1>0, <1>3 DEF Others, LeaseArrives, EndCycle
  <2>2. Held(k)' => Held(k) \/ \A m \in Nodes \ {k} : ~Held(m)
    BY <1>0, <1>3 DEF LeaseArrives, EndCycle, Held, RenewMatches, Active, Row, LeaderRow, FollowerRow, NoRow
  <2>3. NodeOK(k)'
    BY <1>0, <1>3, TimesArePositive DEF NodeOK, LoopOK, RowIsYoung, Answered, Held, Row, LeaderRow, FollowerRow, NoRow, Due, InCycle, TimesArePositive, RenewMatches, Active, LeaseArrives, EndCycle
  <2> QED
    BY <2>1, <2>2, <2>3, StepOfOne
<1>4. CASE CheckLeader(k)
  <2>1. Others(k)
    BY <1>0, <1>4 DEF Others, CheckLeader, After
  <2>2. Held(k)' => Held(k) \/ \A m \in Nodes \ {k} : ~Held(m)
    BY <1>0, <1>4 DEF CheckLeader, After, Held, RenewMatches, Active, Row, LeaderRow, FollowerRow, NoRow
  <2>3. NodeOK(k)'
    BY <1>0, <1>4, TimesArePositive DEF NodeOK, LoopOK, RowIsYoung, Answered, Held, Row, LeaderRow, FollowerRow, NoRow, Due, InCycle, TimesArePositive, RenewMatches, Active, CheckLeader, After
  <2> QED
    BY <2>1, <2>2, <2>3, StepOfOne
<1>5. CASE Claim(k)
  <2>1. Others(k)
    BY <1>0, <1>5 DEF Others, Claim, After
  <2>2. Held(k)' => Held(k) \/ \A m \in Nodes \ {k} : ~Held(m)
    BY <1>0, <1>5 DEF Claim, After, Held, RenewMatches, Active, Row, LeaderRow, FollowerRow, NoRow
  <2>3. NodeOK(k)'
    BY <1>0, <1>5, TimesArePositive DEF NodeOK, LoopOK, RowIsYoung, Answered, Held, Row, LeaderRow, FollowerRow, NoRow, Due, InCycle, TimesArePositive, RenewMatches, Active, Claim, After
  <2> QED
    BY <2>1, <2>2, <2>3, StepOfOne
<1>6. CASE DuplicateKey(k)
  <2>1. Others(k)
    BY <1>0, <1>6 DEF Others, DuplicateKey, After
  <2>2. Held(k)' => Held(k) \/ \A m \in Nodes \ {k} : ~Held(m)
    BY <1>0, <1>6 DEF DuplicateKey, After, Held, RenewMatches, Active, Row, LeaderRow, FollowerRow, NoRow
  <2>3. NodeOK(k)'
    BY <1>0, <1>6, TimesArePositive DEF NodeOK, LoopOK, RowIsYoung, Answered, Held, Row, LeaderRow, FollowerRow, NoRow, Due, InCycle, TimesArePositive, RenewMatches, Active, DuplicateKey, After
  <2> QED
    BY <2>1, <2>2, <2>3, StepOfOne
<1>7. CASE Follow(k)
  <2>1. Others(k)
    BY <1>0, <1>7 DEF Others, Follow, EndCycle
  <2>2. Held(k)' => Held(k) \/ \A m \in Nodes \ {k} : ~Held(m)
    BY <1>0, <1>7 DEF Follow, EndCycle, Held, RenewMatches, Active, Row, LeaderRow, FollowerRow, NoRow
  <2>3. NodeOK(k)'
    BY <1>0, <1>7, TimesArePositive DEF NodeOK, LoopOK, RowIsYoung, Answered, Held, Row, LeaderRow, FollowerRow, NoRow, Due, InCycle, TimesArePositive, RenewMatches, Active, Follow, EndCycle
  <2> QED
    BY <2>1, <2>2, <2>3, StepOfOne
<1>8. CASE AcquireInMemory(k)
  <2>1. Others(k)
    BY <1>0, <1>8 DEF Others, AcquireInMemory, After
  <2>2. Held(k)' => Held(k) \/ \A m \in Nodes \ {k} : ~Held(m)
    BY <1>0, <1>8 DEF AcquireInMemory, After, Held, RenewMatches, Active, Row, LeaderRow, FollowerRow, NoRow
  <2>3. NodeOK(k)'
    BY <1>0, <1>8, TimesArePositive DEF NodeOK, LoopOK, RowIsYoung, Answered, Held, Row, LeaderRow, FollowerRow, NoRow, Due, InCycle, TimesArePositive, RenewMatches, Active, AcquireInMemory, After
  <2> QED
    BY <2>1, <2>2, <2>3, StepOfOne
<1>9. CASE FollowInMemory(k)
  <2>1. Others(k)
    BY <1>0, <1>9 DEF Others, FollowInMemory, EndCycle
  <2>2. Held(k)' => Held(k) \/ \A m \in Nodes \ {k} : ~Held(m)
    BY <1>0, <1>9 DEF FollowInMemory, EndCycle, Held, RenewMatches, Active, Row, LeaderRow, FollowerRow, NoRow
  <2>3. NodeOK(k)'
    BY <1>0, <1>9, TimesArePositive DEF NodeOK, LoopOK, RowIsYoung, Answered, Held, Row, LeaderRow, FollowerRow, NoRow, Due, InCycle, TimesArePositive, RenewMatches, Active, FollowInMemory, EndCycle
  <2> QED
    BY <2>1, <2>2, <2>3, StepOfOne
<1> QED
  BY <1>1, <1>2, <1>3, <1>4, <1>5, <1>6, <1>7, <1>8, <1>9 DEF Cycle

(* The TTL index finds no row a leader relies on; the faults make the node *)
(* a follower.                                                             *)
LEMMA RestKeeps ==
    ASSUME Timely, IInv, TypeOK', NEW k \in Nodes, ExpireRow(k) \/ Fault(k) \/ Start(k)
    PROVE  IInv'
<1> USE DEF IInv
<1>0. /\ row[k] \in Row /\ wake[k] \in 0..RenewalInterval /\ lag[k] \in 0..MaxLag
      /\ NodeOK(k)
      /\ row \in [Nodes -> Row] /\ isLeader \in [Nodes -> BOOLEAN] /\ alive \in [Nodes -> BOOLEAN]
      /\ DOMAIN pc = Nodes /\ DOMAIN wake = Nodes /\ DOMAIN lag = Nodes
  BY DEF TypeOK
<1>1. CASE ExpireRow(k)
  <2>1. Others(k)
    BY <1>0, <1>1 DEF Others, ExpireRow, loop
  <2>2. Held(k)' => Held(k) \/ \A m \in Nodes \ {k} : ~Held(m)
    BY <1>0, <1>1 DEF ExpireRow, loop, Held, Row, NoRow
  <2>3. NodeOK(k)'
    BY <1>0, <1>1, TimesArePositive
       DEF NodeOK, LoopOK, RowIsYoung, Answered, Held, Row, NoRow, Timely, TimesArePositive, ExpireRow, loop
  <2> QED
    BY <2>1, <2>2, <2>3, StepOfOne
<1>2. CASE CallFails(k)
  <2>1. Others(k)
    BY <1>0, <1>2 DEF Others, CallFails, EndCycle
  <2>2. Held(k)' => Held(k) \/ \A m \in Nodes \ {k} : ~Held(m)
    BY <1>0, <1>2 DEF CallFails, EndCycle, Held, Row, NoRow
  <2>3. NodeOK(k)'
    BY <1>0, <1>2, TimesArePositive
       DEF NodeOK, LoopOK, RowIsYoung, Answered, Held, Row, NoRow, Timely, TimesArePositive, CallFails, EndCycle
  <2> QED
    BY <2>1, <2>2, <2>3, StepOfOne
<1>3. CASE Stop(k)
  <2>1. Others(k)
    BY <1>0, <1>3 DEF Others, Stop, Down
  <2>2. Held(k)' => Held(k) \/ \A m \in Nodes \ {k} : ~Held(m)
    BY <1>0, <1>3 DEF Stop, Down, Held, Row, NoRow
  <2>3. NodeOK(k)'
    BY <1>0, <1>3, TimesArePositive
       DEF NodeOK, LoopOK, RowIsYoung, Answered, Held, Row, NoRow, Timely, TimesArePositive, Stop, Down
  <2> QED
    BY <2>1, <2>2, <2>3, StepOfOne
<1>4. CASE Crash(k)
  <2>1. Others(k)
    BY <1>0, <1>4 DEF Others, Crash, Down
  <2>2. Held(k)' => Held(k) \/ \A m \in Nodes \ {k} : ~Held(m)
    BY <1>0, <1>4 DEF Crash, Down, Held, Row, NoRow
  <2>3. NodeOK(k)'
    BY <1>0, <1>4, TimesArePositive
       DEF NodeOK, LoopOK, RowIsYoung, Answered, Held, Row, NoRow, Timely, TimesArePositive, Crash, Down
  <2> QED
    BY <2>1, <2>2, <2>3, StepOfOne
<1>5. CASE Start(k)
  <2>1. Others(k)
    BY <1>0, <1>5 DEF Others, Start, loop
  <2>2. Held(k)' => Held(k) \/ \A m \in Nodes \ {k} : ~Held(m)
    BY <1>0, <1>5 DEF Start, loop, Held, Row, NoRow
  <2>3. NodeOK(k)'
    BY <1>0, <1>5, TimesArePositive
       DEF NodeOK, LoopOK, RowIsYoung, Answered, Held, Row, NoRow, Timely, TimesArePositive, Start, loop
  <2> QED
    BY <2>1, <2>2, <2>3, StepOfOne
<1> QED
  BY <1>1, <1>2, <1>3, <1>4, <1>5 DEF Fault

LEMMA IInvInit == Init => IInv
BY TypeInit DEF Init, IInv, OneLeaderRow, NodeOK, LoopOK, RowIsYoung, Answered, Held, NoRow

LEMMA IInvStep ==
    ASSUME Timely, "pause" \notin Faults
    PROVE  IInv /\ [Next]_vars => IInv'
<1> SUFFICES ASSUME IInv, [Next]_vars PROVE IInv'
  OBVIOUS
<1>1. TypeOK'
  BY TypeStep DEF IInv
<1>2. CASE UNCHANGED vars
  BY <1>1, <1>2 DEF vars, loop, IInv, OneLeaderRow, NodeOK, LoopOK, RowIsYoung, Answered, Held
<1> QED
  BY <1>1, <1>2, TickKeeps, CycleKeeps, RestKeeps DEF Next, Step

LEMMA IInvHolds ==
    ASSUME Timely, "pause" \notin Faults
    PROVE  Spec => []IInv
BY IInvInit, IInvStep, PTL DEF Spec

(* For any cluster whose servers end their cycles in time, a server with   *)
(* isLeader set has the leader's row and an unexpired lease.               *)
THEOREM LeadersHoldLeases ==
    ASSUME Timely, "pause" \notin Faults
    PROVE  Spec => []LeaderHoldsLease
<1>1. IInv => LeaderHoldsLease
  <2> SUFFICES ASSUME IInv, NEW n \in Nodes, isLeader[n] PROVE Active(n)
    BY DEF LeaderHoldsLease
  <2>1. /\ row[n] \in Row /\ wake[n] \in 0..RenewalInterval /\ lag[n] \in 0..MaxLag
        /\ NodeOK(n)
    BY DEF IInv, TypeOK
  <2>2. row[n].age < LeaseDuration
    BY <2>1, TimesArePositive DEF NodeOK, LoopOK, RowIsYoung, Row, Timely, TimesArePositive
  <2> QED
    BY <2>1, <2>2, TimesArePositive DEF NodeOK, Active, Row, TimesArePositive
<1> QED
  BY <1>1, IInvHolds, PTL

(* For any cluster whose servers end their cycles in time, at most one     *)
(* server has isLeader set: the promise of membership.md:15.               *)
THEOREM OneLeader ==
    ASSUME Timely, "pause" \notin Faults
    PROVE  Spec => []AtMostOneLeader
<1>1. IInv => AtMostOneLeader
  BY DEF IInv, NodeOK, OneLeaderRow, AtMostOneLeader
<1> QED
  BY <1>1, IInvHolds, PTL
=============================================================================

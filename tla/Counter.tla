------------------------------ MODULE Counter ------------------------------
(***************************************************************************)
(* Counters: the 32-bit, the 64-bit and the deduplicating one              *)
(* (pkg/document/crdt/counter.go, hll.go), the operation that increases    *)
(* them, with its reverse (operations/increase.go), and the editing        *)
(* interface in front of it (json/counter.go).                             *)
(*                                                                         *)
(* Replicas increase, undo and redo, and exchange their changes through    *)
(* the log of the server.  Clients of other SDKs write to the log too, and *)
(* may send what this SDK would not: a Double, a number that is not finite, *)
(* a value that is no number.                                              *)
(*                                                                         *)
(* The widths are scaled down and keep their order: a 32-bit integer is    *)
(* narrower than the mantissa of a float64, which is narrower than a       *)
(* 64-bit integer.  A Double is counted in halves, so that there are       *)
(* fractions.                                                              *)
(***************************************************************************)
EXTENDS Integers, Sequences, FiniteSets

CONSTANTS
  Sites,           \* replicas
  Kinds,           \* among "IntegerCnt", "LongCnt", "IntegerDedupCnt"
  IntBits,         \* 32 in the code
  LongBits,        \* 64
  Mantissa,        \* 53
  Operands,        \* what a user increases by: a record [float, of]
  Wire,            \* the increases other SDKs send: [delta, actor]
  Deltas,          \* the deltas whose reverse is considered
  Actors,          \* the actors a deduplicating counter counts
  Registers,       \* the registers of the sketch
  HashOf(_),       \* the register and the rank of an actor: <<idx, rho>>
  MaxRegister,     \* hllMaxRegisterValue
  MaxCount,        \* hllMaxCount
  MaxIncreases     \* bounds the log and what is not pushed yet

VARIABLES
  kind,            \* the kind of the counter
  counters,        \* site -> [value, registers]
  log,             \* the changes the server has stored: [by, delta, actor]
  unsent,          \* site -> the changes it has not pushed yet
  seen,            \* site -> the number of changes of the log it has applied
  undo,            \* site -> the reverse operations on its undo stack
  redo             \* site -> those on its redo stack

counterVars == <<kind, counters, log, unsent, seen, undo, redo>>

(***************************************************************************)
(* Numbers.                                                                *)
(***************************************************************************)
Wrap(x, bits) == ((x + 2^(bits - 1)) % 2^bits) - 2^(bits - 1)
Abs(x) == IF x < 0 THEN -x ELSE x
Signed(x, magnitude) == IF x < 0 THEN -magnitude ELSE magnitude

Trunc(halves) == Signed(halves, Abs(halves) \div 2)

(* The float64 nearest to the integer x; of two, the even one. *)
RoundFloat(x) ==
  LET excess == CHOOSE k \in 0..LongBits : /\ Abs(x) < 2^(Mantissa + k)
                                           /\ k > 0 => Abs(x) >= 2^(Mantissa + k - 1)
      unit == 2^excess
      q == Abs(x) \div unit
      r == Abs(x) % unit
      up == 2 * r > unit \/ (2 * r = unit /\ q % 2 = 1)
  IN  Signed(x, unit * (IF up THEN q + 1 ELSE q))

TruncFloatToInt64(x) == Wrap(x, LongBits)
TruncFloatToInt32(x) == Wrap(TruncFloatToInt64(x), IntBits)

castToInt(p) == IF p.type = "Double" THEN TruncFloatToInt32(Trunc(p.of)) ELSE Wrap(p.of, IntBits)
castToLong(p) == IF p.type = "Double" THEN TruncFloatToInt64(Trunc(p.of)) ELSE p.of

(***************************************************************************)
(* Primitives: an Integer, a Long or a Double; a Double that is not finite *)
(* is of type NonFinite here; String stands for the primitives that are no *)
(* numbers, and Element for what is no primitive.                          *)
(***************************************************************************)
Prim(type, of) == [type |-> type, of |-> of]

IsPrimitive(p) == p.type # "Element"
IsNumericType(p) == p.type \in {"Integer", "Long", "Double", "NonFinite"}
isNonFinite(p) == p.type = "NonFinite"

negatePrimitive(p) ==
  CASE p.type = "Integer" -> Prim("Integer", Wrap(-p.of, IntBits))
    [] p.type = "Long" -> Prim("Long", Wrap(-p.of, LongBits))
    [] OTHER -> Prim(p.type, -p.of)

(***************************************************************************)
(* The sketch of the deduplicating counter.                                *)
(***************************************************************************)
NewHLL == [i \in Registers |-> 0]

AddActor(h, a) == IF HashOf(a)[2] > h[HashOf(a)[1]] THEN [h EXCEPT ![HashOf(a)[1]] = HashOf(a)[2]] ELSE h

(* Linear counting, which is what the estimate is while most registers are *)
(* zero: it tells the number of those that are not.                        *)
Count(h) ==
  LET estimate == Cardinality({i \in Registers : h[i] > 0})
  IN  IF estimate >= MaxCount THEN MaxCount ELSE estimate

Restore(data) == [i \in Registers |-> IF data[i] > MaxRegister THEN MaxRegister ELSE data[i]]

(***************************************************************************)
(* The counter.  An operation answers the counter, its reverse as a set of *)
(* at most one delta, and whether it failed.                               *)
(***************************************************************************)
NewCounter == [value |-> 0, registers |-> NewHLL]

(* A delta that is not finite is none.  A Double is added to an Integer    *)
(* counter as a float64, and the sum is wrapped.                           *)
Increase(c, k, p) ==
  IF isNonFinite(p) THEN c
  ELSE IF k = "LongCnt" THEN [c EXCEPT !.value = Wrap(@ + castToLong(p), LongBits)]
  ELSE IF p.type = "Double"
       THEN [c EXCEPT !.value = TruncFloatToInt32(RoundFloat(@ + RoundFloat(Trunc(p.of))))]
  ELSE [c EXCEPT !.value = Wrap(@ + castToInt(p), IntBits)]

IncreaseDedup(c, actor) ==
  LET h == AddActor(c.registers, actor)
  IN  IF h = c.registers THEN c ELSE [value |-> Count(h), registers |-> h]

Done(c, reverse) == [counter |-> c, reverse |-> reverse, err |-> FALSE]

(* What fails for a change that is being made is skipped for one that was  *)
(* stored already.                                                         *)
skipUnlessLocal(c, source) ==
  [counter |-> c, reverse |-> {}, err |-> source \in {"Local", "UndoRedo"}]

NeedsReverse(source) == source \in {"Local", "UndoRedo"}

(* The reverse of a Double on an Integer counter is the change the counter *)
(* made, that of any other delta its negation; a deduplicating counter has *)
(* none.  The negation is made first and fails for what is no number.      *)
Execute(c, k, op, source) ==
  LET p == op.delta
      needsReverse == op.actor = "" /\ NeedsReverse(source)
      reverseFromChange == needsReverse /\ p.type \in {"Double", "NonFinite"} /\ k = "IntegerCnt"
      sum == Increase(c, k, p)
      change == Prim("Integer", Wrap(c.value - sum.value, IntBits))
  IN  IF ~IsPrimitive(p) THEN skipUnlessLocal(c, source)
      ELSE IF needsReverse /\ ~IsNumericType(p) THEN [counter |-> c, reverse |-> {}, err |-> TRUE]
      ELSE IF k = "IntegerDedupCnt"
           THEN IF op.actor = "" \/ p.of # 1 \/ p.type \notin {"Integer", "Long"}
                THEN skipUnlessLocal(c, source)
                ELSE Done(IncreaseDedup(c, op.actor), {})
      ELSE IF ~IsNumericType(p) THEN skipUnlessLocal(c, source)
      ELSE Done(sum, IF reverseFromChange THEN {change}
                     ELSE IF needsReverse THEN {negatePrimitive(p)} ELSE {})

(* The server's replay of a prefix of the log, and what others than the    *)
(* maker do with a change.                                                 *)
Apply(c, op) == Execute(c, kind, op, "Remote").counter

Replay(ops) ==
  LET After[n \in 0..Len(ops)] == IF n = 0 THEN NewCounter ELSE Apply(After[n - 1], ops[n])
  IN  After[Len(ops)]

(***************************************************************************)
(* Editing.                                                                *)
(***************************************************************************)
Room == Len(log) + Cardinality({<<s, i>> \in Sites \X (1..MaxIncreases) : i <= Len(unsent[s])})
          < MaxIncreases

(* The user's operand as a delta of the counter's width. *)
convertAssertableOperand(k, v) ==
  LET n == IF v.float THEN Trunc(v.of) ELSE v.of
  IN  IF k = "LongCnt" THEN Prim("Long", TruncFloatToInt64(n)) ELSE Prim("Integer", TruncFloatToInt32(n))

Push(s, op) == unsent' = [unsent EXCEPT ![s] = Append(@, op)]

IncreaseBy(s, v) ==
  /\ Room /\ kind # "IntegerDedupCnt"
  /\ LET op == [by |-> s, delta |-> convertAssertableOperand(kind, v), actor |-> ""]
         res == Execute(counters[s], kind, op, "Local")
     IN  /\ counters' = [counters EXCEPT ![s] = res.counter]
         /\ undo' = [undo EXCEPT ![s] = Append(@, CHOOSE d \in res.reverse : TRUE)]
         /\ Push(s, op)
  /\ redo' = [redo EXCEPT ![s] = <<>>]
  /\ UNCHANGED <<kind, log, seen>>

AddOnce(s, a) ==
  /\ Room /\ kind = "IntegerDedupCnt"
  /\ LET op == [by |-> s, delta |-> Prim("Integer", 1), actor |-> a]
     IN  /\ counters' = [counters EXCEPT ![s] = Execute(@, kind, op, "Local").counter]
         /\ Push(s, op)
  /\ UNCHANGED <<kind, log, seen, undo, redo>>

(* The reverse is executed as a change of its own; its reverse goes to the *)
(* other stack.                                                            *)
Undo(s) ==
  /\ Room /\ undo[s] # <<>>
  /\ LET op == [by |-> s, delta |-> undo[s][Len(undo[s])], actor |-> ""]
         res == Execute(counters[s], kind, op, "UndoRedo")
     IN  /\ counters' = [counters EXCEPT ![s] = res.counter]
         /\ redo' = [redo EXCEPT ![s] = Append(@, CHOOSE d \in res.reverse : TRUE)]
         /\ Push(s, op)
  /\ undo' = [undo EXCEPT ![s] = SubSeq(@, 1, Len(@) - 1)]
  /\ UNCHANGED <<kind, log, seen>>

Redo(s) ==
  /\ Room /\ redo[s] # <<>>
  /\ LET op == [by |-> s, delta |-> redo[s][Len(redo[s])], actor |-> ""]
         res == Execute(counters[s], kind, op, "UndoRedo")
     IN  /\ counters' = [counters EXCEPT ![s] = res.counter]
         /\ undo' = [undo EXCEPT ![s] = Append(@, CHOOSE d \in res.reverse : TRUE)]
         /\ Push(s, op)
  /\ redo' = [redo EXCEPT ![s] = SubSeq(@, 1, Len(@) - 1)]
  /\ UNCHANGED <<kind, log, seen>>

(***************************************************************************)
(* Exchange.                                                               *)
(***************************************************************************)
PushWire(w) ==
  /\ Room
  /\ log' = Append(log, [by |-> 0, delta |-> w.delta, actor |-> w.actor])
  /\ UNCHANGED <<kind, counters, unsent, seen, undo, redo>>

(* The changes of others since the last time, and then this site's own,    *)
(* which it has applied already.                                           *)
Sync(s) ==
  /\ LET pulled == SubSeq(log, seen[s] + 1, Len(log))
         After[n \in 0..Len(pulled)] ==
           IF n = 0 THEN counters[s]
           ELSE IF pulled[n].by = s THEN After[n - 1] ELSE Apply(After[n - 1], pulled[n])
     IN  counters' = [counters EXCEPT ![s] = After[Len(pulled)]]
  /\ log' = log \o unsent[s]
  /\ seen' = [seen EXCEPT ![s] = Len(log')]
  /\ unsent' = [unsent EXCEPT ![s] = <<>>]
  /\ UNCHANGED <<kind, undo, redo>>

(* A value of four or eight bytes, and the registers. *)
Bytes(c) == [low |-> c.value % 2^(IF kind = "LongCnt" THEN LongBits ELSE IntBits), data |-> c.registers]

(* What a snapshot holds is wrapped again; the count of a deduplicating    *)
(* counter is computed from its registers.                                 *)
CounterValueFromBytes(b) ==
  IF kind = "IntegerDedupCnt" THEN [value |-> Count(Restore(b.data)), registers |-> Restore(b.data)]
  ELSE [value |-> Wrap(b.low, IF kind = "LongCnt" THEN LongBits ELSE IntBits), registers |-> NewHLL]

(* A site with nothing to push attaches again and gets a snapshot, which   *)
(* clears its stacks.                                                      *)
LoadSnapshot(s) ==
  /\ unsent[s] = <<>> /\ seen[s] < Len(log)
  /\ counters' = [counters EXCEPT ![s] = CounterValueFromBytes(Bytes(Replay(log)))]
  /\ seen' = [seen EXCEPT ![s] = Len(log)]
  /\ undo' = [undo EXCEPT ![s] = <<>>]
  /\ redo' = [redo EXCEPT ![s] = <<>>]
  /\ UNCHANGED <<kind, log, unsent>>

CounterInit ==
  /\ kind \in Kinds
  /\ counters = [s \in Sites |-> NewCounter]
  /\ log = <<>>
  /\ unsent = [s \in Sites |-> <<>>]
  /\ seen = [s \in Sites |-> 0]
  /\ undo = [s \in Sites |-> <<>>]
  /\ redo = [s \in Sites |-> <<>>]

CounterNext ==
  \/ \E s \in Sites, v \in Operands : IncreaseBy(s, v)
  \/ \E s \in Sites, a \in Actors : AddOnce(s, a)
  \/ \E s \in Sites : Undo(s) \/ Redo(s) \/ Sync(s) \/ LoadSnapshot(s)
  \/ \E w \in Wire : PushWire(w)

CounterSpec == CounterInit /\ [][CounterNext]_counterVars

(***************************************************************************)
(* Properties.                                                             *)
(***************************************************************************)

(* Sites that have exchanged everything have the counter that the server's *)
(* replay of its log builds, whatever the order in which each applied the  *)
(* changes, and whether it applied them or loaded a snapshot: increases    *)
(* commute (docs/design/counter-dedup.md), wrap alike, and the registers   *)
(* are their maxima.                                                       *)
CountersAgree ==
  \A s \in Sites : (unsent[s] = <<>> /\ seen[s] = Len(log)) => counters[s] = Replay(log)

(* An increase undone at once leaves the value it found, also past the     *)
(* bounds of the width and for a Double that rounds the old value away     *)
(* (Increase.Execute).  An integer is one of the counter's width, as       *)
(* json.Counter makes it.                                                  *)
ReverseInverts ==
  kind # "IntegerDedupCnt" =>
    \A s \in Sites, d \in {x \in Deltas : x.type \in {"Double", IF kind = "LongCnt" THEN "Long" ELSE "Integer"}} :
      LET made == Execute(counters[s], kind, [by |-> s, delta |-> d, actor |-> ""], "Local")
      IN  \A r \in made.reverse :
            Execute(made.counter, kind, [by |-> s, delta |-> r, actor |-> ""], "UndoRedo").counter
              = counters[s]

(* A change that the server has stored can be applied for ever: executing  *)
(* it for a replay never fails, whatever a client sent                     *)
(* (skipUnlessLocal).                                                      *)
StoredChangesApply ==
  \A i \in 1..Len(log) : ~Execute(NewCounter, kind, log[i], "Remote").err
=============================================================================

----------------------------- MODULE Compaction -----------------------------
(***************************************************************************)
(* The round trips of the MongoDB backend when a push stores its changes   *)
(* (CreateChangeInfos) and when a compaction replaces them                 *)
(* (CompactChangeInfos), for one document: server/backend/database/mongo/  *)
(* client.go and server/packs/compaction.go.  No transaction spans the     *)
(* round trips, so a write may fail, fail although it was applied, or be   *)
(* the last one before the server stops.                                   *)
(*                                                                         *)
(* The locks of the handlers (DocumentHandlers) let one call at a time     *)
(* write a document on one server; servers do not share them.  A change    *)
(* record holds the changes a reader replays for it: one for a push, all   *)
(* that the document was for a compacted record.                           *)
(***************************************************************************)
EXTENDS Naturals, Sequences

CONSTANTS
  Settings,     \* the workloads: servers, which steps may fail, kinds of change
  MaxSeq,       \* the bound on the server sequence
  MaxChanges,   \* the bound on the changes pushed
  MaxEpoch      \* the bound on the compactions that claim

VARIABLES
  setting,      \* the workload, chosen at the start
  row,          \* the document's row: server_seq and epoch
  records,      \* the changes collection: server_seq -> changes replayed
  snapshots,    \* the snapshots collection: server_seq -> changes folded
  caches,       \* of each server: docCache, changeCache, OversizedCompaction
  call,         \* of each server: the call that is writing the document
  stored,       \* the changes whose push took effect, in order
  pushed,       \* the changes pushed so far, counted
  failures,     \* the failures so far
  halfway       \* a compaction was left unsettled: an operator is needed

vars == <<setting, row, records, snapshots, caches, call, stored, pushed, failures, halfway>>

Seqs == 1..MaxSeq
Nothing == <<>>
NoRow == [seq |-> 0, epoch |-> 0]
Empty == [n \in Seqs |-> Nothing]
Idle == [kind |-> "none", pc |-> "", seq |-> 0, epoch |-> 0, changes |-> Nothing, force |-> FALSE]
Cold == [doc |-> <<>>, changes |-> Empty, ranges |-> {}, oversized |-> 0]

Init ==
  /\ setting \in Settings
  /\ row = NoRow /\ records = Empty /\ snapshots = Empty
  /\ caches = [s \in setting.servers |-> Cold]
  /\ call = [s \in setting.servers |-> Idle]
  /\ stored = <<>> /\ pushed = 0 /\ failures = 0 /\ halfway = FALSE

(***************************************************************************)
(* What a server reads.                                                    *)
(***************************************************************************)
FindDocInfoByRefKey(s) == IF caches[s].doc = <<>> THEN row ELSE caches[s].doc[1]

(* EnsureChanges fetches the sequences that the cache does not know of. *)
EnsureChanges(c, from, to) ==
  [c EXCEPT !.changes = [n \in Seqs |->
                           IF n \in from..to /\ n \notin c.ranges THEN records[n] ELSE @[n]],
            !.ranges = @ \cup (from..to)]

FindClosestSnapshotInfo(seq) ==
  CHOOSE n \in 0..seq : /\ n = 0 \/ snapshots[n] # Nothing
                        /\ \A k \in (n + 1)..seq : snapshots[k] = Nothing

RECURSIVE Replay(_, _, _)
Replay(changes, from, to) ==
  IF from > to THEN <<>> ELSE changes[from] \o Replay(changes, from + 1, to)

(* BuildInternalDocForServerSeq: the closest snapshot and the changes      *)
(* after it.                                                               *)
Content(s, seq) ==
  LET base == FindClosestSnapshotInfo(seq)
      c == EnsureChanges(caches[s], base + 1, seq)
  IN  (IF base = 0 THEN <<>> ELSE snapshots[base]) \o Replay(c.changes, base + 1, seq)

Build(s, seq) == EnsureChanges(caches[s], FindClosestSnapshotInfo(seq) + 1, seq)

(***************************************************************************)
(* Writes.  A write is applied or not, and reports an error or not.        *)
(***************************************************************************)
MayFail(step) == step \in setting.fails /\ failures < setting.failures
Outcomes(step) ==
  {[applied |-> TRUE, err |-> FALSE]} \cup
  (IF MayFail(step) THEN [applied : BOOLEAN, err : {TRUE}] ELSE {})
Counted(o) == failures' = failures + (IF o.err THEN 1 ELSE 0)

At(s, pc) == call[s].pc = pc
Goto(s, pc) == call' = [call EXCEPT ![s].pc = pc]
Done(s) == call' = [call EXCEPT ![s] = Idle]

(***************************************************************************)
(* CreateChangeInfos.                                                      *)
(***************************************************************************)

(* Steps 01 and 02: sequences are handed out from the row read. *)
PushFind(s, kinds) ==
  /\ call[s] = Idle
  /\ pushed + Len(kinds) <= MaxChanges
  /\ LET info == FindDocInfoByRefKey(s)
         changes == [i \in DOMAIN kinds |-> [id |-> pushed + i, kind |-> kinds[i]]]
     IN  /\ info.seq + Len(kinds) <= MaxSeq
         /\ caches' = [caches EXCEPT ![s].doc = <<info>>]
         /\ call' = [call EXCEPT ![s] = [Idle EXCEPT !.kind = "push", !.pc = "bulk",
                       !.seq = info.seq, !.epoch = info.epoch, !.changes = changes]]
  /\ pushed' = pushed + Len(kinds)
  /\ UNCHANGED <<setting, row, records, snapshots, stored, failures, halfway>>

(* The sequence of the i-th change, and the changes with operations. *)
SeqOf(c, i) == c.seq + i
Operations(c) == {i \in DOMAIN c.changes : c.changes[i].kind # "presence"}
Written(c, old) ==
  [n \in Seqs |-> IF \E i \in Operations(c) : SeqOf(c, i) = n
                  THEN <<c.changes[n - c.seq]>> ELSE old[n]]

(* Step 04: the changes with operations are upserted at their sequences;   *)
(* the writes are unordered, so any of them may have been applied when one *)
(* fails.  The change cache is updated before the row is.                  *)
PushBulkWrite(s) ==
  LET c == call[s]
      partly == {[n \in Seqs |-> IF n \in done THEN Written(c, records)[n] ELSE records[n]] :
                   done \in SUBSET {SeqOf(c, i) : i \in Operations(c)}}
  IN  /\ At(s, "bulk")
      /\ \/ /\ records' = Written(c, records)
            /\ caches' = [caches EXCEPT
                 ![s].changes = Written(c, @),
                 ![s].ranges = @ \cup ((c.seq + 1)..(c.seq + Len(c.changes)))]
            /\ Goto(s, "update")
            /\ UNCHANGED failures
         \/ /\ MayFail("bulk") /\ Operations(c) # {}
            /\ records' \in partly
            /\ failures' = failures + 1
            /\ Done(s)
            /\ UNCHANGED caches
      /\ UNCHANGED <<setting, row, snapshots, stored, pushed, halfway>>

Ops(changes) == SelectSeq(changes, LAMBDA x : x.kind # "presence")

(* Step 05: the row is updated if it still has the sequence read. *)
PushUpdate(s) ==
  LET c == call[s]
      matched == row.seq = c.seq
      next == c.seq + Len(c.changes)
  IN  /\ At(s, "update")
      /\ \E o \in Outcomes("update") :
           LET applied == matched /\ o.applied
               updated == [row EXCEPT !.seq = IF applied THEN next ELSE @]
           IN  /\ Counted(o)
               /\ row' = updated
               /\ stored' = IF applied THEN stored \o Ops(c.changes) ELSE stored
               /\ caches' = [caches EXCEPT ![s].doc =
                    IF matched /\ ~o.err THEN <<[seq |-> next, epoch |-> c.epoch]>> ELSE <<>>]
               /\ Done(s)
      /\ UNCHANGED <<setting, records, snapshots, pushed, halfway>>

(***************************************************************************)
(* packs.Compact and CompactChangeInfos.                                   *)
(***************************************************************************)

(* The compacted change of a document: one that holds all of it. *)
TooLarge(content) == Len(content) > 0 /\ content[Len(content)].kind = "big"

(* Steps 1 to 5 of Compact: a document found too large at this sequence is *)
(* skipped unless forced; otherwise it is rebuilt.                         *)
Compact(s, force) ==
  LET info == FindDocInfoByRefKey(s)
      skipped == caches[s].oversized # 0 /\ caches[s].oversized = info.seq /\ ~force
      content == Content(s, info.seq)
  IN  /\ call[s] = Idle
      /\ setting.compacts /\ row.epoch < MaxEpoch
      /\ info.seq > 0
      /\ ~skipped
      /\ caches' = [caches EXCEPT ![s] = [Build(s, info.seq) EXCEPT !.doc = <<info>>]]
      /\ call' = [call EXCEPT ![s] = [Idle EXCEPT !.kind = "compact", !.pc = "encode",
                    !.seq = info.seq, !.epoch = info.epoch, !.changes = content, !.force = force]]
      /\ UNCHANGED <<setting, row, records, snapshots, stored, pushed, failures, halfway>>

(* Step 1 of CompactChangeInfos: a record too large to store is found      *)
(* before anything is touched, and remembered.                             *)
CompactEncode(s) ==
  LET c == call[s]
      large == TooLarge(c.changes)
  IN  /\ At(s, "encode")
      /\ caches' = [caches EXCEPT ![s].oversized = IF large THEN c.seq ELSE @,
                                  ![s].doc = IF large THEN @ ELSE <<>>]
      /\ IF large THEN Done(s) ELSE Goto(s, "claim")
      /\ UNCHANGED <<setting, row, records, snapshots, stored, pushed, failures, halfway>>

NewServerSeq(c) == IF c.changes = Nothing THEN 0 ELSE 1

(* Step 2: the claim, conditional on the sequence the document was built   *)
(* at.  An error of the claim is reported as it is, applied or not.        *)
CompactClaim(s) ==
  LET c == call[s]
      matched == row.seq = c.seq
  IN  /\ At(s, "claim")
      /\ \E o \in Outcomes("claim") :
           LET applied == matched /\ o.applied
           IN  /\ Counted(o)
               /\ row' = IF applied THEN [seq |-> NewServerSeq(c), epoch |-> row.epoch + 1] ELSE row
               /\ halfway' = (halfway \/ (applied /\ o.err))
               /\ IF matched /\ ~o.err
                  THEN /\ Goto(s, IF c.changes = Nothing THEN "purge" ELSE "replace")
                       /\ caches' = [caches EXCEPT ![s].changes = Empty, ![s].ranges = {}]
                  ELSE Done(s) /\ UNCHANGED caches
      /\ UNCHANGED <<setting, records, snapshots, stored, pushed>>

(* Step 3: the compacted record replaces the first one. *)
CompactReplace(s) ==
  /\ At(s, "replace")
  /\ \E o \in Outcomes("replace") :
       /\ Counted(o)
       /\ records' = IF o.applied THEN [records EXCEPT ![1] = call[s].changes] ELSE records
       /\ Goto(s, IF o.err THEN "settle" ELSE "purge")
  /\ UNCHANGED <<setting, row, snapshots, caches, stored, pushed, halfway>>

(* Mutant: the claim is undone without reading the record back. *)
settleCompactionClaimBlind(s) ==
  /\ At(s, "settle")
  /\ Goto(s, "undo")
  /\ UNCHANGED <<setting, row, records, snapshots, caches, stored, pushed, failures, halfway>>

(* The record is read back: what landed is kept, what did not is undone,   *)
(* and nothing is undone when it cannot be read.                           *)
settleCompactionClaim(s) ==
  /\ At(s, "settle")
  /\ \/ /\ MayFail("verify")
        /\ failures' = failures + 1
        /\ halfway' = TRUE
        /\ Done(s)
     \/ /\ Goto(s, IF records[1] = call[s].changes THEN "purge" ELSE "undo")
        /\ UNCHANGED <<failures, halfway>>
  /\ UNCHANGED <<setting, row, records, snapshots, caches, stored, pushed>>

(* The row gets its sequence back if the claim still stands. *)
undoCompactionClaim(s) ==
  LET c == call[s]
      matched == row.seq = NewServerSeq(c)
  IN  /\ At(s, "undo")
      /\ \E o \in Outcomes("undo") :
           /\ Counted(o)
           /\ row' = IF matched /\ o.applied THEN [row EXCEPT !.seq = c.seq] ELSE row
           /\ halfway' = (halfway \/ ~matched \/ o.err)
      /\ caches' = [caches EXCEPT ![s].doc = <<>>]
      /\ Done(s)
      /\ UNCHANGED <<setting, records, snapshots, stored, pushed>>

(* Step 4, in two round trips: the changes past the compacted one, then    *)
(* the snapshots (the version vectors and the bodies of the snapshots go   *)
(* with them).  Then the document is no longer known to be too large.      *)
purgeDocumentInternals(s) ==
  /\ At(s, "purge")
  /\ \E o \in Outcomes("purge") :
       /\ Counted(o)
       /\ records' = IF o.applied
                     THEN [n \in Seqs |-> IF n > NewServerSeq(call[s]) THEN Nothing ELSE records[n]]
                     ELSE records
       /\ IF o.err THEN Done(s) ELSE Goto(s, "purgeSnapshots")
  /\ caches' = [caches EXCEPT ![s].changes = Empty, ![s].ranges = {}]
  /\ UNCHANGED <<setting, row, snapshots, stored, pushed, halfway>>

purgeSnapshots(s) ==
  /\ At(s, "purgeSnapshots")
  /\ \E o \in Outcomes("purge") :
       /\ Counted(o)
       /\ snapshots' = IF o.applied THEN Empty ELSE snapshots
       /\ caches' = [caches EXCEPT ![s].oversized = IF o.err THEN @ ELSE 0]
  /\ Done(s)
  /\ UNCHANGED <<setting, row, records, stored, pushed, halfway>>

(***************************************************************************)
(* Other calls that meet them: a read fills the caches, a snapshot is      *)
(* stored, a server stops and starts again.                                *)
(***************************************************************************)
Read(s) ==
  LET info == FindDocInfoByRefKey(s)
  IN  /\ call[s] = Idle
      /\ caches' = [caches EXCEPT ![s] = [Build(s, info.seq) EXCEPT !.doc = <<info>>]]
      /\ caches' # caches
      /\ UNCHANGED <<setting, row, records, snapshots, call, stored, pushed, failures, halfway>>

CreateSnapshotInfo(s) ==
  LET info == FindDocInfoByRefKey(s)
  IN  /\ call[s] = Idle
      /\ setting.snapshots
      /\ info.seq > 0 /\ snapshots[info.seq] = Nothing
      /\ snapshots' = [snapshots EXCEPT ![info.seq] = Content(s, info.seq)]
      /\ caches' = [caches EXCEPT ![s] = [Build(s, info.seq) EXCEPT !.doc = <<info>>]]
      /\ UNCHANGED <<setting, row, records, call, stored, pushed, failures, halfway>>

(* Between the claim and the compacted record, nothing takes the document  *)
(* back: the claim stands over the old first change.                       *)
Claimed(s) == call[s].pc \in {"replace", "settle", "undo"}

Restart(s) ==
  /\ MayFail("restart")
  /\ failures' = failures + 1
  /\ caches' = [caches EXCEPT ![s] = Cold]
  /\ halfway' = (halfway \/ Claimed(s) \/ call[s].pc = "purge" \/ call[s].pc = "purgeSnapshots")
  /\ Done(s)
  /\ UNCHANGED <<setting, row, records, snapshots, stored, pushed>>

Push(s) == \E kinds \in setting.kinds : PushFind(s, kinds)

CreateChangeInfos(s) == Push(s) \/ PushBulkWrite(s) \/ PushUpdate(s)

CompactChangeInfos(s) ==
  \/ CompactEncode(s) \/ CompactClaim(s) \/ CompactReplace(s)
  \/ settleCompactionClaim(s) \/ undoCompactionClaim(s)
  \/ purgeDocumentInternals(s) \/ purgeSnapshots(s)

Next ==
  \E s \in setting.servers :
    \/ CreateChangeInfos(s)
    \/ \E force \in BOOLEAN : Compact(s, force)
    \/ CompactChangeInfos(s)
    \/ Read(s) \/ CreateSnapshotInfo(s) \/ Restart(s)

Spec == Init /\ [][Next]_vars

(***************************************************************************)
(* Properties.                                                             *)
(***************************************************************************)

(* Whenever no call is writing the document and no operator is needed, a   *)
(* server reads exactly the changes whose push took effect, each once and  *)
(* in order: a failed push leaves nothing that can be read, and a          *)
(* compaction that fails at any step neither loses the history nor replays *)
(* the document on top of itself.                                          *)
HistoryKept ==
  \A s \in setting.servers :
    (~halfway /\ \A r \in setting.servers : call[r] = Idle)
      => Content(s, FindDocInfoByRefKey(s).seq) = stored

(* A document is passed over as too large only while it is: the memory of  *)
(* a refused compaction does not outlive the history it was about.         *)
SkippedOnlyTooLarge ==
  \A s \in setting.servers :
    (~halfway /\ call[s] = Idle /\ caches[s].oversized # 0
       /\ caches[s].oversized = FindDocInfoByRefKey(s).seq)
      => TooLarge(Content(s, FindDocInfoByRefKey(s).seq))

(* A push that read the row before a compaction claimed it does not take   *)
(* effect (the comment of step 2 of CompactChangeInfos).                   *)
OldReadsFail ==
  [][\A s \in setting.servers :
       (At(s, "update") /\ call[s].epoch < row.epoch) => stored' = stored \/ call'[s] = call[s]]_vars
=============================================================================

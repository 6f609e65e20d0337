----------------------------- MODULE IndexWrite -----------------------------
(***************************************************************************)
(* The write path of the index (index_write) against the rows it keeps in  *)
(* index_storage, with a searcher (index_read) looking on.                 *)
(*                                                                         *)
(* A document is written as                                                *)
(*   - a snapshot row under key "10#doc" with doc_version (dv, the version *)
(*     searches accept), trans_version (tv, the version being written) and *)
(*     the content (ext);                                                  *)
(*   - one row (doc, version) under every key its content is indexed by;   *)
(*   - a row under key "20#doc" listing those keys, so that the next add   *)
(*     or delete knows what to remove.                                     *)
(* Nothing spans these rows: HandleTableContent takes a version by a       *)
(* conditional update of tv, inserts the index rows one by one, publishes  *)
(* them by a conditional update of dv, and on an error deletes what it     *)
(* inserted.  Rows of a replaced version are deleted by a thread,          *)
(* DeleteTask, from a queue in memory.                                     *)
(*                                                                         *)
(* Every DTC request is one step: DTC executes requests for one key one at *)
(* a time.  The cache in front of the helper is taken as transparent here. *)
(***************************************************************************)
EXTENDS Integers

CONSTANTS
  Writers,      \* index_write processes that share a storage
  Docs,         \* document ids, naturals: their order is the RocksDB order
  Words,        \* a word in a field, naturals: their order is the fields'
  DtcKey,       \* DtcKey[w]: the "00" key of w, which fields may share
  UnionFields,  \* the words whose fields a union key combines, {} if none
  UnionKey,     \* the key of that combination, not a member of Words
  Contents,     \* the sets of words a document may have
  Loaded,       \* the documents that are present at the start
  Cmds,         \* commands that are sent, of {"add", "delete"}
  FaultKinds,   \* failures that happen, of {"refused", "lost", "bad_field"}
  Queries,      \* the keys that are searched for
  MaxCmds, MaxFaults, MaxCrashes  \* bounds on commands, failures, crashes

Keys == Words \cup {UnionKey}

ASSUME ConstantsAssumption ==
  /\ Docs \subseteq Nat /\ Words \subseteq Nat /\ UnionKey \notin Words
  /\ UnionFields \subseteq Words /\ Loaded \subseteq Docs
  /\ Contents \subseteq SUBSET Words /\ DtcKey \in [Words -> Nat]
  /\ Cmds \subseteq {"add", "delete"} /\ Queries \subseteq Keys
  /\ FaultKinds \subseteq {"refused", "lost", "bad_field"}
  /\ MaxCmds \in Nat /\ MaxFaults \in Nat /\ MaxCrashes \in Nat

VARIABLES
  snap,    \* snap[d]: the rows [dv, tv, ext] under "10#d"
  idx,     \* idx[w]: the rows [doc, ver] of w, or of the union key
  docid,   \* docid[d]: the rows [ver, ext] under "20#d"
  wr,      \* wr[p]: the request writer p is working on
  list,    \* list[p]: DeleteTask's queue, filled by RegisterInfo
  temp,    \* temp[p]: temp_result, what its thread has taken over
  flush,   \* flush[p]: "no", or how the thread is flushing temp_result
  rd,      \* the searcher
  cmds, faults, crashes   \* used up so far

vars == <<snap, idx, docid, wr, list, temp, flush, rd, cmds, faults, crashes>>
store == <<snap, idx, docid>>
queue == <<list, temp, flush>>

-----------------------------------------------------------------------------
(***************************************************************************)
(* Rows and their order in RocksDB.  The unique index of the table is      *)
(* (key, doc_id, doc_version, trans_version, field): a snapshot row is     *)
(* identified by its two versions, an index row by document and version    *)
(* (the two versions of an index row are equal), a "20" row by its version *)
(* (its trans_version is never set).                                       *)
(***************************************************************************)
SnapRow == [dv : Nat, tv : Nat, ext : SUBSET Words]
IndexRow == [doc : Docs, ver : Nat]
DocidRow == [ver : Nat, ext : SUBSET Words]
Item == [word : Words, doc : Docs, ver : Nat]

SnapKey(r) == <<r.dv, r.tv>>
SnapBefore(r, s) == r.dv < s.dv \/ (r.dv = s.dv /\ r.tv < s.tv)
Snap == INSTANCE RocksTable WITH KeyOf <- SnapKey, Before <- SnapBefore

(* The rows of all fields that have a word are under one DTC key, the      *)
(* field being the last column of the unique index.                        *)
IndexKey(r) == r
IndexBefore(r, s) ==
  \/ r.doc < s.doc
  \/ r.doc = s.doc /\ r.ver < s.ver
  \/ r.doc = s.doc /\ r.ver = s.ver /\ r.word < s.word
Index == INSTANCE RocksTable WITH KeyOf <- IndexKey, Before <- IndexBefore

KeyRows(w) ==
  UNION {{[word |-> x, doc |-> r.doc, ver |-> r.ver] : r \in idx[x]} :
           x \in {y \in Words : DtcKey[y] = DtcKey[w]}}

(* What a delete of one row, by document, version and field, leaves of w.  *)
LeftAfterDelete(item) ==
  LET left == Index!process_delete(KeyRows(item.word), {item})
  IN {r \in idx[item.word] :
        [word |-> item.word, doc |-> r.doc, ver |-> r.ver] \in left}

DocidKey(r) == r.ver
DocidBefore(r, s) == r.ver < s.ver
Docid == INSTANCE RocksTable WITH KeyOf <- DocidKey, Before <- DocidBefore

(***************************************************************************)
(* HandleUnifiedIndex makes one more key when every field it combines has  *)
(* words; IndexKeys(c) are all the keys content c is to be found by.       *)
(***************************************************************************)
UnionOf(c) ==
  IF UnionFields # {} /\ UnionFields \subseteq c THEN {UnionKey} ELSE {}
IndexKeys(c) == c \cup UnionOf(c)

(***************************************************************************)
(* A writer's request: pc is the call it makes next, doc and ext the       *)
(* document and its content, ver the version it took, todo the keys it     *)
(* still has to insert (pc "index") or to delete (pc "undo").              *)
(***************************************************************************)
AddPCs == {"trans", "index", "union", "retire", "commit", "docid",
           "undo", "undosnap"}
PCs == {"idle", "delretire", "delsnap", "deldocid"} \cup AddPCs
Job(pc, d, c, v, ws) ==
  [pc |-> pc, doc |-> d, ext |-> c, ver |-> v, todo |-> ws]
Jobs == [pc : PCs, doc : Nat, ext : SUBSET Words, ver : Nat,
         todo : SUBSET Words]
NoJob == Job("idle", 0, {}, 0, {})

(***************************************************************************)
(* The outcomes of a DTC call: executed and answered, not executed, or     *)
(* executed with the answer lost (the client waits 300 ms).                *)
(***************************************************************************)
Outcomes == {"ok", "refused", "lost"}
Outcome(o) ==
  \/ o = "ok" /\ UNCHANGED faults
  \/ o \in FaultKinds /\ faults < MaxFaults /\ faults' = faults + 1
After(o, new, old) == IF o = "refused" THEN old ELSE new

Least(w, S) == w \in S /\ \A x \in S : w <= x

NoSearch == [pc |-> "idle", word |-> UnionKey, hits |-> {}, found |-> {}]

Init ==
  \E c \in [Loaded -> Contents] :
    /\ snap = [d \in Docs |-> IF d \in Loaded
                              THEN {[dv |-> 1, tv |-> 1, ext |-> c[d]]} ELSE {}]
    /\ idx = [w \in Keys |-> {[doc |-> d, ver |-> 1] :
                              d \in {e \in Loaded : w \in IndexKeys(c[e])}}]
    /\ docid = [d \in Docs |-> IF d \in Loaded
                               THEN {[ver |-> 1, ext |-> c[d]]} ELSE {}]
    /\ wr = [p \in Writers |-> NoJob]
    /\ list = [p \in Writers |-> {}]
    /\ temp = [p \in Writers |-> {}]
    /\ flush = [p \in Writers |-> "no"]
    /\ rd = NoSearch
    /\ cmds = 0 /\ faults = 0 /\ crashes = 0

-----------------------------------------------------------------------------
(***************************************************************************)
(* RT_CMD_ADD.                                                             *)
(***************************************************************************)

(* UpdateTransVersion, first call: get_snapshot_active_doc reads the       *)
(* trans_version of the last snapshot row.  When the read fails the        *)
(* command ends without having changed anything.                           *)
LastRows(rows) == {r \in rows : \A s \in rows : ~SnapBefore(r, s)}

BeginAdd(p, d, c) ==
  /\ "add" \in Cmds /\ wr[p].pc = "idle" /\ cmds < MaxCmds
  /\ \/ /\ snap[d] = {}
        /\ wr' = [wr EXCEPT ![p] = Job("trans", d, c, 1, {})]
     \/ \E r \in LastRows(snap[d]) :
          wr' = [wr EXCEPT ![p] = Job("trans", d, c, r.tv + 1, {})]
  /\ cmds' = cmds + 1
  /\ UNCHANGED <<store, queue, rd, faults, crashes>>

(* The next call after the keys in todo are left to insert.                *)
AfterUnion(v) == IF v = 1 THEN "commit" ELSE "retire"
AfterIndex(c, v, todo) ==
  IF todo # {} THEN "index"
  ELSE IF UnionOf(c) # {} THEN "union" ELSE AfterUnion(v)

(* UpdateTransVersion, second call: take the version, by moving            *)
(* trans_version from ver - 1 to ver or, for a new document, by inserting  *)
(* the row (0, 1).  An error or no affected row ends the command.          *)
TransRows(d, from, to) ==
  [r \in {x \in snap[d] : x.tv = from} |-> [r EXCEPT !.tv = to]]

(* Faulty variant: the affected rows are not looked at.                    *)
AppliedUnseen(o, rows, new) == o = "ok" /\ ~Snap!update_rejected(rows, new)

(* An update took effect: no error and at least one affected row.          *)
Applied(o, rows, new) ==
  o = "ok" /\ DOMAIN new # {} /\ ~Snap!update_rejected(rows, new)

Taken(p, ok) ==
  LET c == wr[p].ext
  IN wr' = IF ok THEN [wr EXCEPT ![p].pc = AfterIndex(c, wr[p].ver, c),
                                 ![p].todo = c]
           ELSE [wr EXCEPT ![p] = NoJob]

UpdateSnapshotVersion(p, o) ==
  LET d == wr[p].doc
      new == TransRows(d, wr[p].ver - 1, wr[p].ver)
  IN /\ wr[p].pc = "trans" /\ wr[p].ver # 1
     /\ Outcome(o)
     /\ snap' = [snap EXCEPT ![d] = After(o, Snap!process_update(@, new), @)]
     /\ Taken(p, Applied(o, snap[d], new))
     /\ UNCHANGED <<idx, docid, queue, rd, cmds, crashes>>

(* Faulty variant: no version is published yet, written as -1.             *)
FirstRowUnset == [dv |-> -1, tv |-> 1, ext |-> {}]

FirstRow == [dv |-> 0, tv |-> 1, ext |-> {}]

InsertSnapshotVersion(p, o) ==
  LET d == wr[p].doc
  IN /\ wr[p].pc = "trans" /\ wr[p].ver = 1
     /\ Outcome(o)
     /\ snap' = [snap EXCEPT ![d] =
                   After(o, Snap!process_insert(@, FirstRow), @)]
     /\ Taken(p, o = "ok" /\ ~Snap!insert_rejected(snap[d], FirstRow))
     /\ UNCHANGED <<idx, docid, queue, rd, cmds, crashes>>

(* RollBackIndex starts with the keys in fieldid_formatkey.                *)
Undo(p, ws) ==
  wr' = [wr EXCEPT ![p].pc = IF ws = {} THEN "undosnap" ELSE "undo",
                   ![p].todo = ws]

(* Faulty variant: rows are written with the version they replace.         *)
RowOfOld(p) == [doc |-> wr[p].doc, ver |-> wr[p].ver - 1]

(* The index row of a request.                                             *)
RowOf(p) == [doc |-> wr[p].doc, ver |-> wr[p].ver]

(* insert_index_dtc: the next key is recorded in fieldid_formatkey, then   *)
(* its row is inserted.                                                    *)
InsertIndex(p, w, o) ==
  LET row == RowOf(p)
      rest == wr[p].todo \ {w}
  IN /\ wr[p].pc = "index" /\ Least(w, wr[p].todo)
     /\ Outcome(o)
     /\ idx' = [idx EXCEPT ![w] = After(o, Index!process_insert(@, row), @)]
     /\ IF o = "ok" /\ ~Index!insert_rejected(idx[w], row)
        THEN wr' = [wr EXCEPT ![p].todo = rest,
                      ![p].pc = AfterIndex(wr[p].ext, wr[p].ver, rest)]
        ELSE Undo(p, wr[p].ext \ rest)
     /\ UNCHANGED <<snap, docid, queue, rd, cmds, crashes>>

(* ConvertFieldValue2Cmd: the next field does not have its declared type.  *)
RejectField(p) ==
  /\ wr[p].pc = "index"
  /\ "bad_field" \in FaultKinds /\ faults < MaxFaults
  /\ faults' = faults + 1
  /\ Undo(p, wr[p].ext \ wr[p].todo)
  /\ UNCHANGED <<store, queue, rd, cmds, crashes>>

(* HandleUnifiedIndex: an error is logged and the key is not recorded.     *)
HandleUnifiedIndex(p, o) ==
  /\ wr[p].pc = "union"
  /\ Outcome(o)
  /\ idx' = [idx EXCEPT ![UnionKey] =
               After(o, Index!process_insert(@, RowOf(p)), @)]
  /\ wr' = [wr EXCEPT ![p].pc = AfterUnion(wr[p].ver)]
  /\ UNCHANGED <<snap, docid, queue, rd, cmds, crashes>>

(* GetIndexData and RegisterInfo: the keys the "20" row lists for version  *)
(* v go to DeleteTask's queue; when the read fails there are none.  The    *)
(* queue's mutex is held by the thread during a flush of kind "locked".    *)
Retired(d, v) ==
  {[word |-> w, doc |-> d, ver |-> v] :
     w \in UNION {r.ext : r \in {x \in docid[d] : x.ver = v}}}

Register(p, d, v, o) ==
  LET items == IF o = "ok" THEN Retired(d, v) ELSE {}
  IN /\ items # {} => flush[p] # "locked"
     /\ list' = [list EXCEPT ![p] = @ \cup items]

(* UpdateDocVersion, before the snapshot update: retire version ver - 1.   *)
RetireOld(p, o) ==
  /\ wr[p].pc = "retire"
  /\ Outcome(o)
  /\ Register(p, wr[p].doc, wr[p].ver - 1, o)
  /\ wr' = [wr EXCEPT ![p].pc = "commit"]
  /\ UNCHANGED <<store, temp, flush, rd, cmds, crashes>>

(* Faulty variants: the commit is not conditional on trans_version; it     *)
(* does not write the content.                                             *)
CommitRowsBlind(d, v, c) ==
  [r \in snap[d] |-> [dv |-> v, tv |-> v, ext |-> c]]
CommitRowsEmpty(d, v, c) ==
  [r \in {x \in snap[d] : x.tv = v} |-> [dv |-> v, tv |-> v, ext |-> r.ext]]

(* UpdateDocVersion, update_sanpshot_dtc: publish doc_version = ver where  *)
(* trans_version is still ver.                                             *)
CommitRows(d, v, c) ==
  [r \in {x \in snap[d] : x.tv = v} |-> [dv |-> v, tv |-> v, ext |-> c]]

Commit(p, o) ==
  LET d == wr[p].doc
      new == CommitRows(d, wr[p].ver, wr[p].ext)
  IN /\ wr[p].pc = "commit"
     /\ Outcome(o)
     /\ snap' = [snap EXCEPT ![d] = After(o, Snap!process_update(@, new), @)]
     /\ IF Applied(o, snap[d], new)
        THEN wr' = [wr EXCEPT ![p].pc = "docid"]
        ELSE Undo(p, wr[p].ext)
     /\ UNCHANGED <<idx, docid, queue, rd, cmds, crashes>>

(* UpdateDocVersion, last call: the "20" row is inserted for version 1,    *)
(* else whatever is there is updated; an error is ignored.                 *)
DocidRows(d, v, c) == [r \in docid[d] |-> [ver |-> v, ext |-> c]]

UpdateDocidIndex(p, o) ==
  LET d == wr[p].doc
      v == wr[p].ver
      c == wr[p].ext
  IN /\ wr[p].pc = "docid"
     /\ Outcome(o)
     /\ docid' = [docid EXCEPT ![d] =
           After(o, IF v = 1
                    THEN Docid!process_insert(@, [ver |-> 1, ext |-> c])
                    ELSE Docid!process_update(@, DocidRows(d, v, c)), @)]
     /\ wr' = [wr EXCEPT ![p] = NoJob]
     /\ UNCHANGED <<snap, idx, queue, rd, cmds, crashes>>

(* RollBackIndex: delete the recorded keys' rows of this version one by    *)
(* one, whatever delete_index returns, ...                                 *)
UndoIndex(p, w, o) ==
  LET item == [word |-> w, doc |-> wr[p].doc, ver |-> wr[p].ver]
  IN /\ wr[p].pc = "undo" /\ Least(w, wr[p].todo)
     /\ Outcome(o)
     /\ idx' = [idx EXCEPT ![w] = After(o, LeftAfterDelete(item), @)]
     /\ Undo(p, wr[p].todo \ {w})
     /\ UNCHANGED <<snap, docid, queue, rd, cmds, crashes>>

(* ... then drop the snapshot of version 1 or give the version back.       *)
UndoSnapshot(p, o) ==
  LET d == wr[p].doc
      v == wr[p].ver
  IN /\ wr[p].pc = "undosnap"
     /\ Outcome(o)
     /\ snap' = [snap EXCEPT ![d] =
           After(o, IF v = 1 THEN Snap!process_delete(@, @)
                    ELSE Snap!process_update(@, TransRows(d, v, v - 1)), @)]
     /\ wr' = [wr EXCEPT ![p] = NoJob]
     /\ UNCHANGED <<idx, docid, queue, rd, cmds, crashes>>

-----------------------------------------------------------------------------
(***************************************************************************)
(* RT_CMD_DELETE: DeleteDtcFields.  ver is the trans_version it reads, 0   *)
(* when there is no row.                                                   *)
(***************************************************************************)
BeginDelete(p, d) ==
  /\ "delete" \in Cmds /\ wr[p].pc = "idle" /\ cmds < MaxCmds
  /\ \/ /\ snap[d] = {}
        /\ wr' = [wr EXCEPT ![p] = Job("delretire", d, {}, 0, {})]
     \/ \E r \in LastRows(snap[d]) :
          wr' = [wr EXCEPT ![p] = Job("delretire", d, {}, r.tv, {})]
  /\ cmds' = cmds + 1
  /\ UNCHANGED <<store, queue, rd, faults, crashes>>

DeleteRetire(p, o) ==
  /\ wr[p].pc = "delretire"
  /\ Outcome(o)
  /\ Register(p, wr[p].doc, wr[p].ver, o)
  /\ wr' = [wr EXCEPT ![p].pc = "delsnap"]
  /\ UNCHANGED <<store, temp, flush, rd, cmds, crashes>>

DeleteSnapshot(p, o) ==
  /\ wr[p].pc = "delsnap"
  /\ Outcome(o)
  /\ snap' = [snap EXCEPT ![wr[p].doc] = After(o, Snap!process_delete(@, @), @)]
  /\ wr' = [wr EXCEPT ![p].pc = "deldocid"]
  /\ UNCHANGED <<idx, docid, queue, rd, cmds, crashes>>

DeleteDocid(p, o) ==
  /\ wr[p].pc = "deldocid"
  /\ Outcome(o)
  /\ docid' = [docid EXCEPT ![wr[p].doc] =
                 After(o, Docid!process_delete(@, @), @)]
  /\ wr' = [wr EXCEPT ![p] = NoJob]
  /\ UNCHANGED <<snap, idx, queue, rd, cmds, crashes>>

-----------------------------------------------------------------------------
(***************************************************************************)
(* DeleteTask's thread (ProcessCycle).  It takes over the whole list,      *)
(* Coalesce dropping duplicates, and flushes temp_result either at once,   *)
(* when five seconds have gone by since the last flush, or, holding the    *)
(* mutex, when it finds the list empty.  The two containers are sets here: *)
(* the items are deleted in any order.                                     *)
(***************************************************************************)
TakeList(p) ==
  /\ flush[p] = "no" /\ list[p] # {}
  /\ temp' = [temp EXCEPT ![p] = @ \cup list[p]]
  /\ list' = [list EXCEPT ![p] = {}]
  /\ \E f \in {"no", "timed"} : flush' = [flush EXCEPT ![p] = f]
  /\ UNCHANGED <<store, wr, rd, cmds, faults, crashes>>

(* Faulty variant: the thread flushes only when a new item is there.       *)
FlushWoken(p) ==
  /\ flush[p] = "no" /\ list[p] # {} /\ temp[p] # {}
  /\ flush' = [flush EXCEPT ![p] = "locked"]
  /\ UNCHANGED <<store, list, temp, wr, rd, cmds, faults, crashes>>

FlushIdle(p) ==
  /\ flush[p] = "no" /\ list[p] = {} /\ temp[p] # {}
  /\ flush' = [flush EXCEPT ![p] = "locked"]
  /\ UNCHANGED <<store, list, temp, wr, rd, cmds, faults, crashes>>

(* Faulty variant: the mutex is not released after a flush.                *)
AfterFlushHeld(rest, f) == f

AfterFlush(rest, f) == IF rest = {} THEN "no" ELSE f

(* DeleteIndex; the item is dropped whatever it returns.                   *)
DeleteIndex(p, item, o) ==
  LET rest == temp[p] \ {item}
  IN /\ flush[p] # "no" /\ item \in temp[p]
     /\ Outcome(o)
     /\ idx' = [idx EXCEPT ![item.word] = After(o, LeftAfterDelete(item), @)]
     /\ temp' = [temp EXCEPT ![p] = rest]
     /\ flush' = [flush EXCEPT ![p] = AfterFlush(rest, @)]
     /\ UNCHANGED <<snap, docid, list, wr, rd, cmds, crashes>>

(***************************************************************************)
(* A writer process dies: the request and the queue are in its memory.     *)
(***************************************************************************)
Crash(p) ==
  /\ crashes < MaxCrashes
  /\ crashes' = crashes + 1
  /\ wr' = [wr EXCEPT ![p] = NoJob]
  /\ list' = [list EXCEPT ![p] = {}]
  /\ temp' = [temp EXCEPT ![p] = {}]
  /\ flush' = [flush EXCEPT ![p] = "no"]
  /\ UNCHANGED <<store, rd, cmds, faults>>

(***************************************************************************)
(* The searcher (index_read): GetDocInfo reads the rows of a key and field *)
(* and keeps the newest version of each document.  (It compares a row with *)
(* the one before it: the rows come in RocksDB's order, which has those of *)
(* a document together.)  Later DocValid keeps the documents whose version *)
(* is the doc_version of a snapshot row.                                   *)
(***************************************************************************)
(* Faulty variant: the first version met is kept.                          *)
OldestRows(rows) ==
  {r \in rows : \A s \in rows : s.doc = r.doc => s.ver >= r.ver}

NewestRows(rows) ==
  {r \in rows : \A s \in rows : s.doc = r.doc => s.ver <= r.ver}

GetDocInfo(w) ==
  /\ rd.pc = "idle"
  /\ rd' = [pc |-> "valid", word |-> w, hits |-> NewestRows(idx[w]),
            found |-> {}]
  /\ UNCHANGED <<store, queue, wr, cmds, faults, crashes>>

(* Faulty variant: any snapshot row makes the document valid.              *)
ValidDocsAnyVersion(hits) == {h.doc : h \in {r \in hits : snap[r.doc] # {}}}

ValidDocs(hits) ==
  {h.doc : h \in {r \in hits : \E s \in snap[r.doc] : s.dv = r.ver}}

DocValid ==
  /\ rd.pc = "valid"
  /\ rd' = [rd EXCEPT !.pc = "idle", !.hits = {}, !.found = ValidDocs(rd.hits)]
  /\ UNCHANGED <<store, queue, wr, cmds, faults, crashes>>

-----------------------------------------------------------------------------
WriterCall(p, o) ==
  \/ UpdateSnapshotVersion(p, o)
  \/ InsertSnapshotVersion(p, o)
  \/ \E w \in Words : InsertIndex(p, w, o)
  \/ HandleUnifiedIndex(p, o)
  \/ RetireOld(p, o)
  \/ Commit(p, o)
  \/ UpdateDocidIndex(p, o)
  \/ \E w \in Words : UndoIndex(p, w, o)
  \/ UndoSnapshot(p, o)
  \/ DeleteRetire(p, o)
  \/ DeleteSnapshot(p, o)
  \/ DeleteDocid(p, o)

WriterStep(p) == RejectField(p) \/ \E o \in Outcomes : WriterCall(p, o)

DeleteTaskStep(p) ==
  \/ TakeList(p)
  \/ FlushIdle(p)
  \/ \E item \in temp[p], o \in Outcomes : DeleteIndex(p, item, o)

ReaderStep == DocValid \/ \E w \in Queries : GetDocInfo(w)

Next ==
  \/ \E p \in Writers :
       \/ \E d \in Docs, c \in Contents : BeginAdd(p, d, c)
       \/ \E d \in Docs : BeginDelete(p, d)
       \/ WriterStep(p)
       \/ DeleteTaskStep(p)
       \/ Crash(p)
  \/ ReaderStep

Spec == Init /\ [][Next]_vars

(***************************************************************************)
(* Fairness: a request in progress and the DeleteTask thread are scheduled *)
(* (every DTC call returns or times out).  Nothing makes a command arrive. *)
(***************************************************************************)
Fairness ==
  \A p \in Writers : WF_vars(WriterStep(p)) /\ WF_vars(DeleteTaskStep(p))

FairSpec == Spec /\ Fairness

-----------------------------------------------------------------------------
(***************************************************************************)
(* Properties.                                                             *)
(***************************************************************************)

(* Type correctness of the storage, the requests, the queue and the        *)
(* searcher.                                                               *)
TypeOK ==
  /\ snap \in [Docs -> SUBSET SnapRow]
  /\ idx \in [Keys -> SUBSET IndexRow]
  /\ docid \in [Docs -> SUBSET DocidRow]
  /\ wr \in [Writers -> Jobs]
  /\ \A p \in Writers : wr[p].pc # "idle" => wr[p].doc \in Docs
  /\ \A p \in Writers : wr[p].pc \in AddPCs => wr[p].ver > 0
  /\ list \in [Writers -> SUBSET Item]
  /\ temp \in [Writers -> SUBSET Item]
  /\ flush \in [Writers -> {"no", "timed", "locked"}]
  /\ rd \in [pc : {"idle", "valid"}, word : Keys, hits : SUBSET IndexRow,
             found : SUBSET Docs]
  /\ cmds \in 0 .. MaxCmds /\ faults \in 0 .. MaxFaults
  /\ crashes \in 0 .. MaxCrashes

(* Building(p): writer p has taken a version and has not published it.     *)
Building(p) == wr[p].pc \in {"index", "union", "retire", "commit"}

(* The conditional update of trans_version (update_snapshot_version) is    *)
(* the only lock there is: two writers never build the same version of the *)
(* same document.                                                          *)
ExclusiveVersion ==
  \A p, q \in Writers :
    p # q /\ Building(p) /\ Building(q) /\ wr[p].doc = wr[q].doc
      => wr[p].ver # wr[q].ver

(* An index row that carries the published version of a document is a row  *)
(* of the published content: neither a crash in the middle of an add nor   *)
(* the loser of a race leaves a row a search would take for a good one.    *)
(* (That the published content has all its rows is SettledSearchable.)     *)
SearchSound ==
  \A w \in Keys : \A row \in idx[w] : \A r \in snap[row.doc] :
    r.dv = row.ver => w \in IndexKeys(r.ext)

(* A search reads the index rows and, later, the snapshot; adds and        *)
(* DeleteTask run in between.  What DocValid lets through has the key that *)
(* was searched for in the content published at that moment.  This is for  *)
(* adds only: a document that is deleted and added again between the two   *)
(* reads starts from version 1 again, and a row read earlier may then have *)
(* the version of a content that lacks the key.                            *)
AnswerSound ==
  [][DocValid => \A d \in rd'.found :
                   \E r \in snap[d] : rd.word \in IndexKeys(r.ext)]_vars

(* A search that runs now, on its own, finds document d by every key of    *)
(* its published content.                                                  *)
Searchable(d) ==
  \A r \in snap[d] : r.dv > 0 =>
    \A w \in IndexKeys(r.ext) : d \in ValidDocs(NewestRows(idx[w]))

(* While no request is at work on a document, a search for any key of its  *)
(* published content finds it: GetDocInfo's newest row is the published    *)
(* one, and DeleteTask has not deleted it, whatever it has left to flush.  *)
SettledSearchable ==
  \A d \in Docs :
    (\A p \in Writers : wr[p].pc = "idle" \/ wr[p].doc # d) => Searchable(d)

(* The same once all is quiet: no request, and nothing left to flush.      *)
QuietSearchable ==
  (\A p \in Writers : wr[p].pc = "idle" /\ list[p] = {} /\ temp[p] = {})
    => \A d \in Docs : Searchable(d)

(* Every add and delete comes to its end: DeleteTask's thread, which keeps *)
(* the queue's mutex during a flush, never keeps RegisterInfo out for good *)
(* and RollBackIndex terminates.                                           *)
RequestsEnd ==
  \A p \in Writers : wr[p].pc # "idle" ~> wr[p].pc = "idle"

(* Whatever RegisterInfo queues is flushed, even when no further item      *)
(* arrives to wake the thread up.                                          *)
RetiredFlushed ==
  \A p \in Writers :
    list[p] \cup temp[p] # {} ~> list[p] \cup temp[p] = {}

(* The published content as DocStore sees it.                              *)
PubOf(rows) ==
  IF rows = {} THEN [ver |-> 0, keys |-> {}]
  ELSE LET r == CHOOSE x \in rows : TRUE
       IN [ver |-> r.dv, keys |-> IndexKeys(r.ext)]

Abs == INSTANCE DocStore WITH
         pub <- [d \in Docs |-> PubOf(snap[d])],
         answer <- [word |-> rd.word, found |-> rd.found]

(* The write path and the searcher together implement DocStore: contents   *)
(* are published whole, in version order, and a search returns only        *)
(* documents that have the key.                                            *)
ImplementsDocStore == Abs!Spec

(* What the comment above the roll back says: after an error the inverted  *)
(* index rows of the failed add are deleted.  (process_delete deletes      *)
(* nothing behind a row that stays.)                                       *)
RollbackRemovesRows ==
  \A p \in Writers : wr[p].pc = "undosnap" =>
    \A w \in Words : RowOf(p) \notin idx[w]

(* What the comment above insert_snapshot_version says: version 1 is taken *)
(* by the first insert of a new key.  (The snapshot was read one call      *)
(* earlier, and the unique index lets (0, 1) in beside (1, 1).)            *)
FirstInsertIsNew ==
  [][\A p \in Writers : InsertSnapshotVersion(p, "ok") /\ wr'[p].pc # "idle"
       => snap[wr[p].doc] = {}]_vars

-----------------------------------------------------------------------------
(***************************************************************************)
(* The inductive invariant behind ExclusiveVersion, SearchSound,           *)
(* AnswerSound and ImplementsDocStore.  It holds where versions are never  *)
(* given back: only adds, no failing call (crashes are allowed), and no    *)
(* two writers racing to make a document's first snapshot row.             *)
(***************************************************************************)
AddOnly ==
  /\ Cmds \subseteq {"add"} /\ FaultKinds = {}
  /\ Loaded = Docs \/ \A p, q \in Writers : p = q

(* A document has at most one snapshot row.                                *)
SnapInv ==
  \A d \in Docs :
    /\ d \in Loaded => snap[d] # {}
    /\ \A r, s \in snap[d] : r = s
    /\ \A r \in snap[d] : r.dv <= r.tv /\ r.tv > 0

(* What a request knows about the snapshot row it works on.                *)
JobInv(p) ==
  /\ wr[p].pc \in AddPCs \cup {"idle"}
  /\ wr[p].pc \in AddPCs /\ wr[p].doc \in Loaded => wr[p].ver > 1
  /\ wr[p].pc = "trans" =>
       IF wr[p].ver = 1 THEN snap[wr[p].doc] = {}
       ELSE \E r \in snap[wr[p].doc] : wr[p].ver <= r.tv + 1
  /\ wr[p].pc = "union" => UnionOf(wr[p].ext) # {}
  /\ Building(p) =>
       /\ wr[p].todo \subseteq wr[p].ext
       /\ \E r \in snap[wr[p].doc] : /\ wr[p].ver <= r.tv /\ wr[p].ver # r.dv
                                     /\ wr[p].ver = 1 => r.tv = 1
  /\ wr[p].pc \in {"undo", "undosnap"} =>
       /\ wr[p].ver > 1
       /\ \E r \in snap[wr[p].doc] : wr[p].ver < r.tv

(* What holds of a row of document d and version v under key w, be it in   *)
(* the storage or in the hands of the searcher.                            *)
RowInv(w, d, v) ==
  /\ v > 0
  /\ \E r \in snap[d] : v <= r.tv /\ (v = r.dv => w \in IndexKeys(r.ext))
  /\ \A p \in Writers : Building(p) /\ wr[p].doc = d /\ wr[p].ver = v =>
       w \in IndexKeys(wr[p].ext) \ wr[p].todo

IInv ==
  /\ TypeOK
  /\ SnapInv
  /\ \A p \in Writers : JobInv(p)
  /\ ExclusiveVersion
  /\ \A w \in Keys : \A row \in idx[w] : RowInv(w, row.doc, row.ver)
  /\ \A h \in rd.hits : RowInv(rd.word, h.doc, h.ver)
=============================================================================

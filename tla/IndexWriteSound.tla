-------------------------- MODULE IndexWriteSound ---------------------------
(***************************************************************************)
(* Every step of IndexWrite keeps IInv, one lemma per action that disturbs *)
(* it, and what follows: no two writers build the same version, and a      *)
(* search returns what was published.                                      *)
(***************************************************************************)
EXTENDS IndexWriteSteps

(* RowInv after a step, for a document and a version named before it.      *)
RowIs(w, d, v) ==
  /\ v > 0
  /\ \E r \in snap'[d] : v <= r.tv /\ (v = r.dv => w \in IndexKeys(r.ext))
  /\ \A q \in Writers : Building(q)' /\ wr'[q].doc = d /\ wr'[q].ver = v =>
       w \in IndexKeys(wr'[q].ext) \ wr'[q].todo

(* A building writer p inserts its row under key k, which its content has  *)
(* and which is no longer to do.                                           *)
LEMMA InsertStep ==
  ASSUME IInv, TypeOK', NEW p \in Writers, Building(p), NEW k \in Keys,
         k \in IndexKeys(wr[p].ext) \ wr'[p].todo,
         idx' = [idx EXCEPT ![k] = Index!process_insert(idx[k], RowOf(p))],
         wr' = [wr EXCEPT ![p] = wr'[p]], JobInv(p)', KeepsBuilding(p),
         wr'[p].ext = wr[p].ext, UNCHANGED <<snap, rd>>
  PROVE  IInv'
<1>1. \A q \in Writers : KeepsBuilding(q) /\ JobInv(q)'
  BY OneJob
<1>2. SnapInv' /\ ExclusiveVersion' /\ HitsInv'
  BY <1>1, ExclusiveKept, RowKept, InvParts DEF SnapInv, HitsInv
<1>3. RowIs(k, wr[p].doc, wr[p].ver)
  <2>1. wr[p].ver > 0
    BY DEF IInv, TypeOK, Building, AddPCs
  <2>2. \E r \in snap[wr[p].doc] : wr[p].ver <= r.tv /\ wr[p].ver # r.dv
    BY DEF IInv, JobInv
  <2>3. \A q \in Writers : Building(q)' /\ wr'[q].doc = wr[p].doc
                           /\ wr'[q].ver = wr[p].ver => q = p
    BY <1>1 DEF IInv, ExclusiveVersion, KeepsBuilding
  <2>4. \E r \in snap'[wr[p].doc] : /\ wr[p].ver <= r.tv
                                    /\ wr[p].ver = r.dv => k \in IndexKeys(r.ext)
    BY <2>2
  <2>5. \A q \in Writers : Building(q)' /\ wr'[q].doc = wr[p].doc
                           /\ wr'[q].ver = wr[p].ver =>
                             k \in IndexKeys(wr'[q].ext) \ wr'[q].todo
    BY <2>3
  <2>6. QED
    BY <2>1, <2>4, <2>5 DEF RowIs
<1>4. RowsInv'
  <2> SUFFICES ASSUME NEW w \in Keys, NEW row \in idx'[w]
               PROVE  RowInv(w, row.doc, row.ver)'
    BY DEF RowsInv
  <2>1. CASE row \in idx[w]
    BY <1>1, <2>1, RowKept DEF IInv
  <2>2. CASE row \notin idx[w]
    <3>1. w = k /\ row = RowOf(p)
      BY <2>2, IndexInsertRows DEF IInv, TypeOK
    <3>2. row.doc = wr[p].doc /\ row.ver = wr[p].ver
      BY <3>1 DEF RowOf
    <3>3. QED
      BY <1>3, <3>1, <3>2 DEF RowIs, RowInv
  <2>3. QED
    BY <2>1, <2>2
<1>5. QED
  BY <1>1, <1>2, <1>4, InvPartsNext

(* insert_index_dtc finds no row of this version under the key: it is      *)
(* never refused.                                                          *)
LEMMA InsertIndexInv ==
  ASSUME AddOnly, IInv, TypeOK', NEW p \in Writers, NEW o, NEW w \in Words,
         InsertIndex(p, w, o)
  PROVE  IInv'
<1> DEFINE c == wr[p].ext
           v == wr[p].ver
           rest == wr[p].todo \ {w}
<1>1. TypeOK /\ JobInv(p) /\ o = "ok" /\ w \in Keys
  BY NoFaults DEF IInv, InsertIndex, Keys
<1>2. Building(p) /\ wr[p].pc = "index" /\ w \in wr[p].todo
  BY DEF InsertIndex, Building, Least
<1>3. wr[p].todo \subseteq c
  BY <1>1, <1>2 DEF JobInv
<1>4. RowOf(p) \notin idx[w]
  <2>1. RowOf(p).doc = wr[p].doc /\ RowOf(p).ver = v
    BY DEF RowOf
  <2>2. QED
    BY <1>1, <1>2, <2>1 DEF IInv, RowInv
<1>5. ~Index!insert_rejected(idx[w], RowOf(p))
  BY <1>4 DEF Index!insert_rejected, IndexKey
<1>6. JobIs(p, AfterIndex(c, v, rest), rest)
  <2>1. wr' = [wr EXCEPT ![p].todo = rest, ![p].pc = AfterIndex(c, v, rest)]
    BY <1>1, <1>5 DEF InsertIndex
  <2>2. wr' = [wr EXCEPT ![p].pc = AfterIndex(c, v, rest), ![p].todo = rest]
    BY <1>1, <2>1, Zenon DEF TypeOK, Jobs
  <2>3. QED
    BY <1>1, <2>2, NextJob, Zenon
<1>7. /\ wr'[p].pc = "union" => UnionOf(c) # {}
      /\ wr'[p].pc \in {"index", "union", "retire", "commit"}
  BY <1>6 DEF AfterIndex, AfterUnion, JobIs
<1>8. JobInv(p)'
  BY <1>1, <1>2, <1>3, <1>6, <1>7
  DEF JobInv, JobIs, AddPCs, Building, InsertIndex
<1>9. KeepsBuilding(p)
  BY <1>2, <1>6 DEF KeepsBuilding, JobIs
<1>10. w \in IndexKeys(c) \ wr'[p].todo
  BY <1>2, <1>3, <1>6 DEF IndexKeys, JobIs
<1>11. idx' = [idx EXCEPT ![w] = Index!process_insert(idx[w], RowOf(p))]
  BY <1>1 DEF InsertIndex, After
<1>12. QED
  BY <1>1, <1>2, <1>6, <1>8, <1>9, <1>10, <1>11, InsertStep, Zenon
  DEF InsertIndex, JobIs

(* HandleUnifiedIndex keeps the invariant.                                 *)
LEMMA UnionIndexInv ==
  ASSUME AddOnly, IInv, TypeOK', NEW p \in Writers, NEW o,
         HandleUnifiedIndex(p, o)
  PROVE  IInv'
<1>1. TypeOK /\ JobInv(p) /\ o = "ok" /\ UnionKey \in Keys
  BY NoFaults DEF IInv, HandleUnifiedIndex, Keys
<1>2. Building(p) /\ wr[p].pc = "union"
  BY DEF HandleUnifiedIndex, Building
<1>3. JobIs(p, AfterUnion(wr[p].ver), wr[p].todo)
  BY <1>1, NextPC, Zenon DEF HandleUnifiedIndex
<1>4. wr'[p].pc \in {"retire", "commit"}
  BY <1>3 DEF AfterUnion, JobIs
<1>5. JobInv(p)'
  BY <1>1, <1>2, <1>3, <1>4
  DEF JobInv, JobIs, AddPCs, Building, HandleUnifiedIndex
<1>6. KeepsBuilding(p)
  BY <1>2, <1>3 DEF KeepsBuilding, JobIs
<1>7. UnionKey \in IndexKeys(wr[p].ext) \ wr'[p].todo
  <2>1. UnionKey \in IndexKeys(wr[p].ext)
    BY <1>1, <1>2 DEF JobInv, UnionOf, IndexKeys
  <2>2. UnionKey \notin wr'[p].todo
    BY <1>1, <1>3, ConstantsAssumption DEF TypeOK, Jobs, JobIs
  <2>3. QED
    BY <2>1, <2>2
<1>8. idx' = [idx EXCEPT ![UnionKey] =
                Index!process_insert(idx[UnionKey], RowOf(p))]
  BY <1>1 DEF HandleUnifiedIndex, After
<1>9. QED
  BY <1>1, <1>2, <1>3, <1>5, <1>6, <1>7, <1>8, InsertStep, Zenon
  DEF HandleUnifiedIndex, JobIs

(* The step in which writer p publishes its version: s is the new row.     *)
LEMMA PublishStep ==
  ASSUME IInv, TypeOK', NEW p \in Writers, wr[p].pc = "commit",
         NEW r \in snap[wr[p].doc], r.tv = wr[p].ver, r.dv # wr[p].ver,
         NEW s \in SnapRow, s.dv = wr[p].ver, s.tv = wr[p].ver,
         s.ext = wr[p].ext,
         snap' = [snap EXCEPT ![wr[p].doc] = {s}],
         JobIs(p, "docid", wr[p].todo), UNCHANGED <<idx, rd>>
  PROVE  IInv'
<1> DEFINE d == wr[p].doc
           v == wr[p].ver
<1>1. /\ d \in Docs /\ v \in Nat /\ snap[d] = {r} /\ r \in SnapRow
      /\ r.dv <= r.tv /\ r.tv > 0 /\ wr[p].ext \in SUBSET Words
  BY DEF IInv, TypeOK, Jobs, SnapInv
<1>2. /\ s \in SnapRow /\ s.tv = v /\ s.dv = v /\ s.ext = wr[p].ext
      /\ snap'[d] = {s} /\ \A e \in Docs : e # d => snap'[e] = snap[e]
  BY <1>1 DEF IInv, TypeOK, SnapRow
<1>3. Building(p) /\ ~Building(p)'
  BY DEF Building, JobIs
<1>4. SnapInv' /\ \A q \in Writers : q # p => wr'[q] = wr[q] /\ JobInv(q)'
  <2>1. s.dv <= s.tv /\ r.tv <= s.tv
    BY <1>1, <1>2 DEF SnapRow
  <2>2. \A q \in Writers : q # p /\ Building(q) /\ wr[q].doc = d =>
          wr[q].ver # s.dv /\ (wr[q].ver = 1 => s.tv = 1)
    <3>1. \A q \in Writers : q # p /\ Building(q) /\ wr[q].doc = d =>
            wr[q].ver # v
      BY <1>3 DEF IInv, ExclusiveVersion
    <3>2. \A q \in Writers : Building(q) /\ wr[q].doc = d =>
            (wr[q].ver = 1 => r.tv = 1)
      BY <1>1 DEF IInv, JobInv
    <3>3. QED
      BY <1>2, <3>1, <3>2
  <2>3. d \in Docs /\ s \in SnapRow /\ snap' = [snap EXCEPT ![d] = {s}]
    BY <1>1, <1>2
  <2>4. wr' = [wr EXCEPT ![p] = wr'[p]]
    BY DEF JobIs
  <2>5. QED
    BY <2>1, <2>2, <2>3, <2>4, MoveSnap, Zenon
<1>5. JobInv(p)'
  BY <1>3 DEF IInv, JobInv, JobIs, AddPCs
<1>6. \A q \in Writers : KeepsBuilding(q)
  BY <1>3, <1>4 DEF KeepsBuilding, Building
<1>7. ASSUME NEW w, NEW e \in Docs, NEW x \in Nat, RowInv(w, e, x)
      PROVE  RowInv(w, e, x)'
  <2>1. CASE e = d
    <3>1. x <= r.tv /\ x > 0
      BY <1>1, <1>7, <2>1 DEF RowInv
    <3>2. x = v => w \in IndexKeys(wr[p].ext)
      BY <1>3, <1>7, <2>1 DEF RowInv
    <3>3. \E t \in snap'[e] : x <= t.tv /\ (x = t.dv => w \in IndexKeys(t.ext))
      BY <1>2, <2>1, <3>1, <3>2
    <3>4. QED
      BY <1>6, <1>7, <3>1, <3>3 DEF RowInv, KeepsBuilding
  <2>2. CASE e # d
    BY <1>2, <1>6, <1>7, <2>2 DEF RowInv, KeepsBuilding
  <2>3. QED
    BY <2>1, <2>2
<1>8. RowsInv'
  BY <1>7 DEF IInv, RowsInv, TypeOK, IndexRow
<1>9. HitsInv'
  BY <1>7 DEF IInv, HitsInv, TypeOK, IndexRow
<1>10. ExclusiveVersion'
  BY <1>6, ExclusiveKept DEF IInv
<1>11. QED
  BY <1>4, <1>5, <1>8, <1>9, <1>10, InvPartsNext

(* The commit keeps the invariant, applied or refused.                     *)
LEMMA CommitInv ==
  ASSUME AddOnly, IInv, TypeOK', NEW p \in Writers, NEW o, Commit(p, o)
  PROVE  IInv'
<1> DEFINE d == wr[p].doc
           v == wr[p].ver
           c == wr[p].ext
<1>1. TypeOK /\ SnapInv /\ JobInv(p) /\ o = "ok"
  BY NoFaults DEF IInv, Commit
<1>2. d \in Docs /\ v \in Nat /\ v > 0 /\ wr[p].pc = "commit" /\ Building(p)
  BY <1>1, Zenon DEF Commit, TypeOK, Jobs, AddPCs, Building
<1>3. PICK r \in snap[d] : v <= r.tv /\ v # r.dv /\ (v = 1 => r.tv = 1)
  BY <1>1, <1>2 DEF JobInv
<1>4. snap' = [snap EXCEPT ![d] =
                 Snap!process_update(snap[d], CommitRows(d, v, c))]
  BY <1>1 DEF Commit, After
<1>5. IF Applied("ok", snap[d], CommitRows(d, v, c))
      THEN wr' = [wr EXCEPT ![p].pc = "docid"] ELSE Undo(p, c)
  BY <1>1 DEF Commit
<1>6. CASE r.tv = v
  <2>1. PICK s : s = [dv |-> v, tv |-> v, ext |-> c]
    BY Zenon
  <2>2. /\ Snap!process_update(snap[d], CommitRows(d, v, c)) = {s}
        /\ Applied("ok", snap[d], CommitRows(d, v, c))
    BY <1>1, <1>2, <1>3, <1>6, <2>1, CommitOne
  <2>3. snap' = [snap EXCEPT ![d] = {s}]
    BY <1>4, <2>2
  <2>4. JobIs(p, "docid", wr[p].todo)
    BY <1>1, <1>5, <2>2, NextPC
  <2>5. /\ s \in SnapRow /\ s.dv = v /\ s.tv = v /\ s.ext = c
    BY <1>1, <2>1 DEF TypeOK, Jobs, SnapRow
  <2>6. QED
    BY <1>2, <1>3, <1>6, <2>3, <2>4, <2>5, PublishStep, Zenon DEF Commit
<1>7. CASE r.tv # v
  <2>1. DOMAIN CommitRows(d, v, c) = {}
    BY <1>1, <1>2, <1>7, CommitNone
  <2>2. UNCHANGED snap
    BY <1>1, <1>2, <1>4, <2>1, MoveNone DEF TypeOK
  <2>3. JobIs(p, IF c = {} THEN "undosnap" ELSE "undo", c)
    <3>1. ~Applied("ok", snap[d], CommitRows(d, v, c))
      BY <2>1 DEF Applied
    <3>2. wr' = [wr EXCEPT ![p].pc = IF c = {} THEN "undosnap" ELSE "undo",
                           ![p].todo = c]
      BY <1>5, <3>1 DEF Undo
    <3>3. QED
      BY <1>1, <3>2, NextJob, Zenon
  <2>4. wr'[p].pc \in {"undo", "undosnap"}
    BY <2>3 DEF JobIs
  <2>5. v > 1 /\ v < r.tv
    <3>1. r.tv \in Nat
      BY <1>1, <1>2 DEF TypeOK, SnapRow
    <3>2. QED
      BY <1>2, <1>3, <1>7, <3>1
  <2>6. JobInv(p)' /\ KeepsBuilding(p)
    BY <1>1, <2>2, <2>3, <2>4, <2>5
    DEF JobInv, KeepsBuilding, JobIs, Building, AddPCs
  <2>7. wr' = [wr EXCEPT ![p] = wr'[p]]
    BY <2>3 DEF JobIs
  <2>8. QED
    BY <2>2, <2>6, <2>7, OneJob, QuietStep DEF Commit
<1>8. QED
  BY <1>6, <1>7

(* A new add knows the last snapshot row, and only that.                   *)
LEMMA BeginAddInv ==
  ASSUME IInv, TypeOK', NEW p \in Writers, NEW d \in Docs, NEW c,
         BeginAdd(p, d, c)
  PROVE  IInv'
<1>1. PICK v : /\ wr' = [wr EXCEPT ![p] = Job("trans", d, c, v, {})]
               /\ \/ v = 1 /\ snap[d] = {}
                  \/ \E r \in snap[d] : v = r.tv + 1
  BY DEF BeginAdd, LastRows
<1>2. wr'[p] = Job("trans", d, c, v, {})
  BY <1>1 DEF IInv, TypeOK
<1>3. wr'[p].pc = "trans" /\ wr'[p].doc = d /\ wr'[p].ver = v
  BY <1>2, JobFields
<1>4. \A r \in snap[d] : r.tv \in Nat /\ r.tv > 0
  BY DEF IInv, TypeOK, SnapInv, SnapRow
<1>5. d \in Loaded => snap[d] # {}
  BY DEF IInv, SnapInv
<1>6. UNCHANGED <<snap, idx, rd>>
  BY Zenon DEF BeginAdd, store
<1>7. JobInv(p)' /\ KeepsBuilding(p)
  BY <1>1, <1>3, <1>4, <1>5, <1>6
  DEF JobInv, KeepsBuilding, Building, AddPCs
<1>8. QED
  BY <1>1, <1>2, <1>6, <1>7, OneJob, QuietStep, Zenon

(* RegisterInfo before the commit keeps the invariant.                     *)
LEMMA RetireInv ==
  ASSUME IInv, TypeOK', NEW p \in Writers, NEW o, RetireOld(p, o)
  PROVE  IInv'
<1>1. TypeOK /\ JobInv(p)
  BY DEF IInv
<1>2. JobIs(p, "commit", wr[p].todo) /\ wr[p].pc = "retire"
  BY <1>1, NextPC, Zenon DEF RetireOld
<1>3. UNCHANGED <<snap, idx, rd>>
  BY DEF RetireOld, store
<1>4. JobInv(p)' /\ KeepsBuilding(p)
  BY <1>1, <1>2, <1>3 DEF JobInv, JobIs, KeepsBuilding, Building, AddPCs
<1>5. QED
  BY <1>2, <1>3, <1>4, OneJob, QuietStep DEF JobIs

(* RollBackIndex works for a writer that has been overtaken: it deletes    *)
(* rows, and finds no snapshot row to give its version back to.            *)
LEMMA UndoIndexInv ==
  ASSUME IInv, TypeOK', NEW p \in Writers, NEW o, NEW w \in Words,
         UndoIndex(p, w, o)
  PROVE  IInv'
<1> DEFINE rest == wr[p].todo \ {w}
<1>1. TypeOK /\ JobInv(p) /\ wr[p].pc = "undo"
  BY DEF IInv, UndoIndex
<1>2. JobIs(p, IF rest = {} THEN "undosnap" ELSE "undo", rest)
  <2>1. wr' = [wr EXCEPT ![p].pc = IF rest = {} THEN "undosnap" ELSE "undo",
                         ![p].todo = rest]
    BY DEF UndoIndex, Undo
  <2>2. QED
    BY <1>1, <2>1, NextJob, Zenon
<1>3. wr'[p].pc \in {"undo", "undosnap"}
  BY <1>2, Zenon DEF JobIs
<1>4. UNCHANGED <<snap, rd>> /\ \A k \in Keys : idx'[k] \subseteq idx[k]
  BY <1>1, IndexDeleteRows DEF UndoIndex, After, TypeOK
<1>5. JobInv(p)' /\ KeepsBuilding(p)
  BY <1>1, <1>2, <1>3, <1>4 DEF JobInv, JobIs, KeepsBuilding, Building, AddPCs
<1>6. QED
  BY <1>2, <1>4, <1>5, OneJob, QuietStep DEF JobIs

(* RollBackIndex leaves the snapshot alone: the writer was overtaken.      *)
LEMMA UndoPub ==
  ASSUME AddOnly, IInv, NEW p \in Writers, NEW o, UndoSnapshot(p, o)
  PROVE  UNCHANGED <<snap, rd>>
<1> DEFINE d == wr[p].doc
           v == wr[p].ver
<1>1. TypeOK /\ SnapInv /\ JobInv(p) /\ o = "ok" /\ wr[p].pc = "undosnap"
  BY NoFaults, Zenon DEF IInv, UndoSnapshot
<1>2. d \in Docs /\ v \in Nat /\ v > 1 /\ v # 1
  <2>1. d \in Docs /\ v \in Nat
    BY <1>1 DEF TypeOK, Jobs
  <2>2. v > 1
    BY <1>1, Zenon DEF JobInv
  <2>3. QED
    BY <2>1, <2>2
<1>3. PICK r \in snap[d] : v < r.tv
  BY <1>1 DEF JobInv
<1>4. r.tv # v
  BY <1>1, <1>2, <1>3 DEF TypeOK, SnapRow, Jobs
<1>5. DOMAIN TransRows(d, v, v - 1) = {}
  BY <1>1, <1>2, <1>4, TransNone
<1>6. snap' = [snap EXCEPT ![d] =
                 Snap!process_update(snap[d], TransRows(d, v, v - 1))]
  BY <1>1, <1>2, Zenon DEF UndoSnapshot, After
<1>7. QED
  BY <1>1, <1>2, <1>5, <1>6, MoveNone DEF TypeOK, UndoSnapshot

(* The end of a roll back keeps the invariant.                             *)
LEMMA UndoSnapshotInv ==
  ASSUME AddOnly, IInv, TypeOK', NEW p \in Writers, NEW o, UndoSnapshot(p, o)
  PROVE  IInv'
  BY UndoPub, EndStep, Zenon DEF UndoSnapshot

(* A step of the searcher keeps the invariant.                             *)
LEMMA ReaderInv ==
  ASSUME IInv, TypeOK', ReaderStep PROVE IInv'
<1>1. UNCHANGED <<snap, idx, wr>>
  BY DEF ReaderStep, GetDocInfo, DocValid, store
<1>2. \A q \in Writers : JobInv(q)' /\ KeepsBuilding(q)
  BY <1>1, SameJob DEF IInv
<1>3. \A w, d, v : RowInv(w, d, v) => RowInv(w, d, v)'
  BY <1>1, <1>2, RowKept
<1>4. HitsInv'
  <2>1. ASSUME NEW w \in Queries, GetDocInfo(w) PROVE HitsInv'
    <3>1. w \in Keys /\ rd'.word = w /\ rd'.hits \subseteq idx[w]
      BY <2>1, ConstantsAssumption DEF GetDocInfo, NewestRows
    <3>2. QED
      BY <1>3, <3>1 DEF HitsInv, IInv
  <2>2. CASE DocValid
    BY <2>2 DEF DocValid, HitsInv, IInv, TypeOK
  <2>3. QED
    BY <2>1, <2>2 DEF ReaderStep
<1>5. SnapInv' /\ ExclusiveVersion'
  BY <1>1, <1>2, ExclusiveKept DEF IInv, SnapInv
<1>6. RowsInv'
  BY <1>1, <1>3 DEF IInv, RowsInv
<1>7. QED
  BY <1>2, <1>4, <1>5, <1>6, InvPartsNext

(* Every step keeps the invariant.                                         *)
LEMMA InvNext == AddOnly /\ IInv /\ [Next]_vars => IInv'
<1> SUFFICES ASSUME AddOnly, IInv, [Next]_vars PROVE IInv'
  OBVIOUS
<1>1. TypeOK /\ TypeOK'
  BY TypeNext DEF IInv
<1>2. ASSUME NEW p \in Writers, NEW o \in Outcomes, WriterCall(p, o)
      PROVE  IInv'
  <2>1. ASSUME UpdateDocidIndex(p, o) PROVE IInv'
    BY <1>1, <2>1, EndStep, Zenon DEF UpdateDocidIndex
  <2>2. wr[p].pc \notin {"delretire", "delsnap", "deldocid"}
    BY DEF IInv, JobInv, AddPCs
  <2>3. QED
    BY <1>1, <1>2, <2>1, <2>2, UpdateVersionInv, InsertVersionInv,
       InsertIndexInv, UnionIndexInv, RetireInv, CommitInv, UndoIndexInv,
       UndoSnapshotInv, Zenon
    DEF WriterCall, DeleteRetire, DeleteSnapshot, DeleteDocid
<1>3. ASSUME NEW p \in Writers, RejectField(p) PROVE IInv'
  BY <1>3 DEF RejectField, AddOnly
<1>4. ASSUME NEW p \in Writers, NEW d \in Docs, BeginDelete(p, d) PROVE IInv'
  BY <1>4 DEF BeginDelete, AddOnly
<1>5. ASSUME NEW p \in Writers, DeleteTaskStep(p) PROVE IInv'
  <2>1. UNCHANGED <<snap, rd, wr>>
    BY <1>5, Zenon DEF DeleteTaskStep, TakeList, FlushIdle, DeleteIndex, store
  <2>2. \A w \in Keys : idx'[w] \subseteq idx[w]
    <3>1. CASE TakeList(p) \/ FlushIdle(p)
      BY <3>1 DEF TakeList, FlushIdle, store
    <3>2. ASSUME NEW item \in temp[p], NEW o \in Outcomes,
                 DeleteIndex(p, item, o)
          PROVE  \A w \in Keys : idx'[w] \subseteq idx[w]
      <4>1. item.word \in Keys
        BY <1>1 DEF TypeOK, Item, Keys
      <4>2. QED
        BY <1>1, <3>2, <4>1, IndexDeleteRows DEF DeleteIndex, After, TypeOK
    <3>3. QED
      BY <1>5, <3>1, <3>2 DEF DeleteTaskStep
  <2>3. \A q \in Writers : JobInv(q)' /\ KeepsBuilding(q)
    BY <2>1, SameJob, Zenon DEF IInv
  <2>4. QED
    BY <1>1, <2>1, <2>2, <2>3, QuietStep
<1>6. ASSUME NEW p \in Writers, Crash(p) PROVE IInv'
  BY <1>1, <1>6, EndStep, Zenon DEF Crash, store
<1>7. CASE UNCHANGED vars
  <2>1. UNCHANGED <<snap, rd, wr, idx>>
    BY <1>7 DEF vars
  <2>2. \A q \in Writers : JobInv(q)' /\ KeepsBuilding(q)
    BY <2>1, SameJob DEF IInv
  <2>3. QED
    BY <1>1, <2>1, <2>2, QuietStep
<1>8. QED
  BY <1>1, <1>2, <1>3, <1>4, <1>5, <1>6, <1>7, BeginAddInv, ReaderInv
  DEF Next, WriterStep

(* IInv is an invariant where versions are never given back.               *)
THEOREM Invariant == ASSUME AddOnly PROVE Spec => []IInv
<1>1. Init => IInv
  BY InvInit
<1>2. IInv /\ [Next]_vars => IInv'
  BY InvNext
<1>3. QED
  BY <1>1, <1>2, PTL DEF Spec

(* The invariant implies that index rows are sound.                        *)
LEMMA InvSound == IInv => SearchSound
<1> SUFFICES ASSUME IInv, NEW w \in Keys, NEW row \in idx[w],
                    NEW r \in snap[row.doc], r.dv = row.ver
             PROVE  w \in IndexKeys(r.ext)
  BY DEF SearchSound
<1>1. row.doc \in Docs
  BY DEF IInv, TypeOK, IndexRow
<1>2. \A s \in snap[row.doc] : s = r
  BY <1>1 DEF IInv, SnapInv
<1>3. QED
  BY <1>2 DEF IInv, RowInv

(* No row a crashed add or the loser of a race leaves behind carries a     *)
(* published version whose content does not have the key.                  *)
THEOREM SoundRows == ASSUME AddOnly PROVE Spec => []SearchSound
  BY Invariant, InvSound, PTL

(* The conditional update of trans_version excludes other writers.         *)
THEOREM Exclusion == ASSUME AddOnly PROVE Spec => []ExclusiveVersion
<1>1. IInv => ExclusiveVersion
  BY DEF IInv
<1>2. QED
  BY <1>1, Invariant, PTL

(* What DocValid lets through has the key that was searched for.           *)
LEMMA ValidHits ==
  ASSUME IInv, NEW d \in ValidDocs(rd.hits)
  PROVE  d \in Docs /\ \E r \in snap[d] : rd.word \in IndexKeys(r.ext)
<1>1. PICK h \in rd.hits : d = h.doc /\ \E s \in snap[d] : s.dv = h.ver
  BY DEF ValidDocs
<1>2. PICK s \in snap[d] : s.dv = h.ver
  BY <1>1
<1>3. d \in Docs
  BY <1>1 DEF IInv, TypeOK, IndexRow
<1>4. \A r \in snap[d] : r = s
  BY <1>2, <1>3 DEF IInv, SnapInv
<1>5. RowInv(rd.word, d, h.ver)
  BY <1>1 DEF IInv
<1>6. QED
  BY <1>2, <1>3, <1>4, <1>5 DEF RowInv

(* What a search returns has the key in the content published when the     *)
(* snapshot is read, whatever happened since the index was read.           *)
THEOREM SoundAnswers == ASSUME AddOnly PROVE Spec => AnswerSound
<1>1. IInv /\ [Next]_vars =>
        [DocValid => \A d \in rd'.found :
                       \E r \in snap[d] : rd.word \in IndexKeys(r.ext)]_vars
  <2> SUFFICES ASSUME IInv, DocValid, NEW d \in rd'.found
               PROVE  \E r \in snap[d] : rd.word \in IndexKeys(r.ext)
    OBVIOUS
  <2>1. rd'.found = ValidDocs(rd.hits)
    BY DEF DocValid, IInv, TypeOK
  <2>2. QED
    BY <2>1, ValidHits
<1>2. QED
  BY <1>1, Invariant, PTL DEF Spec, AnswerSound
=============================================================================

-------------------------- MODULE IndexWriteSteps ---------------------------
(***************************************************************************)
(* The inductive invariant IInv of IndexWrite, where versions are never    *)
(* given back (AddOnly): it holds initially, and what the steps that take  *)
(* a version and hand a row over do to the parts it is made of.            *)
(***************************************************************************)
EXTENDS IndexWriteTypes

(* Without failures every call is answered.                                *)
LEMMA NoFaults ==
  ASSUME AddOnly, NEW o, Outcome(o) PROVE o = "ok"
  BY DEF AddOnly, Outcome

(* KeepsBuilding(q): if writer q is building after a step, it was building *)
(* the same thing before it.                                               *)
KeepsBuilding(q) ==
  Building(q)' => /\ Building(q)
                  /\ wr'[q].doc = wr[q].doc /\ wr'[q].ver = wr[q].ver
                  /\ wr'[q].ext = wr[q].ext /\ wr'[q].todo \subseteq wr[q].todo

(* Such a step keeps what holds of a row, if it leaves the snapshot alone. *)
LEMMA RowKept ==
  ASSUME UNCHANGED snap, \A q \in Writers : KeepsBuilding(q),
         NEW w, NEW d, NEW v, RowInv(w, d, v)
  PROVE  RowInv(w, d, v)'
  BY DEF RowInv, KeepsBuilding

(* Such steps of all writers keep the versions exclusive.                  *)
LEMMA ExclusiveKept ==
  ASSUME ExclusiveVersion, \A q \in Writers : KeepsBuilding(q)
  PROVE  ExclusiveVersion'
  BY DEF ExclusiveVersion, KeepsBuilding

RowsInv == \A w \in Keys : \A row \in idx[w] : RowInv(w, row.doc, row.ver)
HitsInv == \A h \in rd.hits : RowInv(rd.word, h.doc, h.ver)

(* IInv is the conjunction of its parts.                                   *)
LEMMA InvParts ==
  IInv <=> /\ TypeOK /\ SnapInv /\ (\A p \in Writers : JobInv(p))
           /\ ExclusiveVersion /\ RowsInv /\ HitsInv
  BY DEF IInv, RowsInv, HitsInv

(* IInv holds after a step when its parts do.                              *)
LEMMA InvPartsNext ==
  /\ TypeOK' /\ SnapInv' /\ (\A p \in Writers : JobInv(p)')
  /\ ExclusiveVersion' /\ RowsInv' /\ HitsInv'
  => IInv'
  BY DEF IInv, RowsInv, HitsInv

(* A step that leaves the snapshot alone, inserts no index row and starts  *)
(* no building only has to keep JobInv.                                    *)
LEMMA QuietStep ==
  ASSUME IInv, TypeOK', UNCHANGED <<snap, rd>>,
         \A w \in Keys : idx'[w] \subseteq idx[w],
         \A q \in Writers : KeepsBuilding(q) /\ JobInv(q)'
  PROVE  IInv'
<1>1. SnapInv'
  BY DEF IInv, SnapInv
<1>2. RowsInv'
  BY RowKept, InvParts DEF RowsInv
<1>3. HitsInv'
  BY RowKept, InvParts DEF HitsInv
<1>4. QED
  BY <1>1, <1>2, <1>3, ExclusiveKept, InvPartsNext DEF IInv

(* The initial states satisfy the invariant.                               *)
LEMMA InvInit == AddOnly /\ Init => IInv
<1> SUFFICES ASSUME AddOnly, Init PROVE IInv
  OBVIOUS
<1>1. TypeOK
  BY TypeInit
<1>2. \A p \in Writers : wr[p].pc = "idle"
  <2>1. wr = [p \in Writers |-> NoJob]
    BY DEF Init
  <2>2. NoJob.pc = "idle"
    BY DEF NoJob, Job
  <2>3. QED
    BY <2>1, <2>2
<1>3. \A p \in Writers : JobInv(p) /\ ~Building(p)
  BY <1>2 DEF JobInv, Building, AddPCs
<1>4. ExclusiveVersion
  BY <1>3 DEF ExclusiveVersion
<1>5. HitsInv
  BY DEF Init, HitsInv, NoSearch
<1>6. PICK c \in [Loaded -> Contents] :
        /\ snap = [d \in Docs |-> IF d \in Loaded
              THEN {[dv |-> 1, tv |-> 1, ext |-> c[d]]} ELSE {}]
        /\ idx = [w \in Keys |-> {[doc |-> d, ver |-> 1] :
                              d \in {e \in Loaded : w \in IndexKeys(c[e])}}]
  BY Zenon DEF Init
<1>7. SnapInv
  <2> SUFFICES ASSUME NEW d \in Docs
               PROVE  /\ d \in Loaded => snap[d] # {}
                      /\ \A r, s \in snap[d] : r = s
                      /\ \A r \in snap[d] : r.dv <= r.tv /\ r.tv > 0
    BY DEF SnapInv
  <2>1. CASE d \in Loaded
    <3>1. snap[d] = {[dv |-> 1, tv |-> 1, ext |-> c[d]]}
      BY <1>6, <2>1
    <3>2. QED
      BY <3>1
  <2>2. CASE d \notin Loaded
    BY <1>6, <2>2
  <2>3. QED
    BY <2>1, <2>2
<1>8. RowsInv
  <2> SUFFICES ASSUME NEW w \in Keys, NEW row \in idx[w]
               PROVE  RowInv(w, row.doc, row.ver)
    BY DEF RowsInv
  <2>1. PICK d \in Loaded : w \in IndexKeys(c[d]) /\ row = [doc |-> d, ver |-> 1]
    BY <1>6
  <2>2. snap[d] = {[dv |-> 1, tv |-> 1, ext |-> c[d]]}
    BY <1>6, ConstantsAssumption
  <2>3. row.doc = d /\ row.ver = 1
    BY <2>1
  <2>4. \E r \in snap[d] : 1 <= r.tv /\ (1 = r.dv => w \in IndexKeys(r.ext))
    BY <2>1, <2>2
  <2>5. QED
    BY <1>3, <2>3, <2>4 DEF RowInv
<1>9. QED
  BY <1>1, <1>3, <1>4, <1>5, <1>7, <1>8, InvParts

-----------------------------------------------------------------------------
(***************************************************************************)
(* Every step keeps IInv, one lemma per action that disturbs it.           *)
(***************************************************************************)

(* A request nobody touches, over an untouched snapshot.                   *)
LEMMA SameJob ==
  ASSUME NEW q \in Writers, JobInv(q), wr'[q] = wr[q], UNCHANGED snap
  PROVE  JobInv(q)' /\ KeepsBuilding(q)
  BY DEF JobInv, Building, KeepsBuilding

(* The request of the only writer a step touches.                          *)
LEMMA OneJob ==
  ASSUME IInv, NEW p \in Writers, wr' = [wr EXCEPT ![p] = wr'[p]],
         UNCHANGED snap, JobInv(p)', KeepsBuilding(p)
  PROVE  \A q \in Writers : KeepsBuilding(q) /\ JobInv(q)'
<1> SUFFICES ASSUME NEW q \in Writers PROVE KeepsBuilding(q) /\ JobInv(q)'
  OBVIOUS
<1>1. CASE q = p
  BY <1>1
<1>2. CASE q # p
  <2>1. wr'[q] = wr[q] /\ JobInv(q)
    BY <1>2 DEF IInv, TypeOK
  <2>2. QED
    BY <2>1, SameJob
<1>3. QED
  BY <1>1, <1>2

(* A request that ends satisfies JobInv and builds nothing.                *)
LEMMA IdleInv ==
  ASSUME NEW p \in Writers, wr'[p] = NoJob
  PROVE  JobInv(p)' /\ KeepsBuilding(p)
<1>1. wr'[p].pc = "idle"
  BY DEF NoJob, Job
<1>2. QED
  BY <1>1 DEF JobInv, KeepsBuilding, Building, AddPCs

(* The command ends, or the process does.                                  *)
LEMMA EndStep ==
  ASSUME IInv, TypeOK', NEW p \in Writers, wr' = [wr EXCEPT ![p] = NoJob],
         UNCHANGED <<snap, rd>>, \A w \in Keys : idx'[w] \subseteq idx[w]
  PROVE  IInv'
<1>1. wr'[p] = NoJob /\ wr' = [wr EXCEPT ![p] = wr'[p]]
  BY DEF IInv, TypeOK
<1>2. QED
  BY <1>1, IdleInv, OneJob, QuietStep, Zenon

(* An update that meets one row moves it, one that meets none does nothing.*)
LEMMA MoveOne ==
  ASSUME NEW rows, NEW r, NEW s, NEW new, rows = {r}, SnapKey(r) # SnapKey(s),
         new = [x \in {r} |-> s]
  PROVE  Snap!process_update(rows, new) = {s} /\ Applied("ok", rows, new)
  BY DEF Snap!process_update, Snap!update_rejected, Snap!batch_update, Snap!Put,
         Applied

(* An update that meets no row changes nothing.                            *)
LEMMA MoveNone ==
  ASSUME NEW rows, NEW new, DOMAIN new = {}
  PROVE  Snap!process_update(rows, new) = rows
  BY DEF Snap!process_update, Snap!batch_update, Snap!Put

(* The rows a change of trans_version and a commit meet.                   *)
LEMMA TransNone ==
  ASSUME TypeOK, SnapInv, NEW d \in Docs, NEW r \in snap[d], NEW from, NEW to,
         r.tv # from
  PROVE  DOMAIN TransRows(d, from, to) = {}
  BY DEF TransRows, SnapInv

(* The move of trans_version meets the only row and is applied.            *)
LEMMA TransOne ==
  ASSUME TypeOK, SnapInv, NEW d \in Docs, NEW r \in snap[d], NEW from,
         r.tv = from, NEW to \in Nat, from # to,
         NEW s, s = [r EXCEPT !.tv = to]
  PROVE  /\ Snap!process_update(snap[d], TransRows(d, from, to)) = {s}
         /\ Applied("ok", snap[d], TransRows(d, from, to))
<1>1. snap[d] = {r} /\ r \in SnapRow
  BY DEF TypeOK, SnapInv
<1>2. TransRows(d, from, to) = [x \in {r} |-> s]
  BY <1>1 DEF TransRows
<1>3. SnapKey(r) # SnapKey(s)
  BY <1>1 DEF SnapKey, SnapRow
<1>4. QED
  BY <1>1, <1>2, <1>3, MoveOne

(* A commit meets no row once trans_version has moved on.                  *)
LEMMA CommitNone ==
  ASSUME TypeOK, SnapInv, NEW d \in Docs, NEW r \in snap[d], NEW v, NEW c,
         r.tv # v
  PROVE  DOMAIN CommitRows(d, v, c) = {}
  BY DEF CommitRows, SnapInv

(* A commit meets the only row and is applied.                             *)
LEMMA CommitOne ==
  ASSUME TypeOK, SnapInv, NEW d \in Docs, NEW r \in snap[d], NEW v,
         r.tv = v, r.dv # v, NEW c, NEW s, s = [dv |-> v, tv |-> v, ext |-> c]
  PROVE  /\ Snap!process_update(snap[d], CommitRows(d, v, c)) = {s}
         /\ Applied("ok", snap[d], CommitRows(d, v, c))
<1>1. snap[d] = {r} /\ r \in SnapRow
  BY DEF TypeOK, SnapInv
<1>2. CommitRows(d, v, c) = [x \in {r} |-> s]
  BY <1>1 DEF CommitRows
<1>3. SnapKey(r) # SnapKey(s)
  BY <1>1 DEF SnapKey, SnapRow
<1>4. QED
  BY <1>1, <1>2, <1>3, MoveOne

(* A step of writer p that replaces snapshot row r of document d by s: the *)
(* other requests keep what they know if they build no version that s      *)
(* publishes.                                                              *)
LEMMA MoveSnap ==
  ASSUME IInv, NEW p \in Writers, NEW d \in Docs, NEW r \in snap[d],
         NEW s \in SnapRow, s.dv <= s.tv, r.tv <= s.tv,
         snap' = [snap EXCEPT ![d] = {s}],
         wr' = [wr EXCEPT ![p] = wr'[p]],
         \A q \in Writers : q # p /\ Building(q) /\ wr[q].doc = d =>
           wr[q].ver # s.dv /\ (wr[q].ver = 1 => s.tv = 1)
  PROVE  SnapInv' /\ \A q \in Writers : q # p => wr'[q] = wr[q] /\ JobInv(q)'
<1>1. snap[d] = {r} /\ snap'[d] = {s} /\ r \in SnapRow /\ r.tv > 0
  BY DEF IInv, TypeOK, SnapInv
<1>2. \A e \in Docs : e # d => snap'[e] = snap[e]
  BY DEF IInv, TypeOK
<1>3. SnapInv'
  BY <1>1, <1>2 DEF SnapInv, IInv, SnapRow
<1>4. ASSUME NEW q \in Writers, q # p PROVE wr'[q] = wr[q] /\ JobInv(q)'
  <2>1. wr'[q] = wr[q] /\ JobInv(q) /\ wr[q].ver \in Nat
    BY <1>4 DEF IInv, TypeOK, Jobs
  <2>2. wr[q].pc # "idle" => wr[q].doc \in Docs
    BY DEF IInv, TypeOK
  <2>3. CASE wr[q].doc # d
    BY <1>2, <2>1, <2>2, <2>3 DEF JobInv, Building
  <2>4. CASE wr[q].doc = d
    <3>1. wr[q].pc = "trans" => wr[q].ver # 1 /\ wr[q].ver <= s.tv + 1
      BY <1>1, <2>1, <2>4 DEF JobInv, SnapRow
    <3>2. Building(q) => /\ wr[q].todo \subseteq wr[q].ext
                         /\ wr[q].ver <= s.tv /\ wr[q].ver # s.dv
                         /\ wr[q].ver = 1 => s.tv = 1
      BY <1>1, <1>4, <2>1, <2>4 DEF JobInv, SnapRow
    <3>3. wr[q].pc \in {"undo", "undosnap"} =>
            wr[q].ver > 1 /\ wr[q].ver < s.tv
      BY <1>1, <2>1, <2>4 DEF JobInv, SnapRow
    <3>4. Building(q)' = Building(q)
      BY <2>1 DEF Building
    <3>5. QED
      BY <1>1, <2>1, <2>4, <3>1, <3>2, <3>3, <3>4 DEF JobInv
  <2>5. QED
    BY <2>3, <2>4
<1>5. QED
  BY <1>3, <1>4

(* The request after its next call and its keys have been set.             *)
JobIs(p, pc, ws) ==
  /\ wr' = [wr EXCEPT ![p] = wr'[p]]
  /\ wr'[p].doc = wr[p].doc /\ wr'[p].ver = wr[p].ver
  /\ wr'[p].ext = wr[p].ext
  /\ wr'[p].todo = ws /\ wr'[p].pc = pc

(* JobIs follows from the assignment of the call and the keys, ...         *)
LEMMA NextJob ==
  ASSUME TypeOK, NEW p \in Writers, NEW pc, NEW ws,
         wr' = [wr EXCEPT ![p].pc = pc, ![p].todo = ws]
  PROVE  JobIs(p, pc, ws)
<1>1. wr \in [Writers -> Jobs] /\ wr[p] \in Jobs
  BY DEF TypeOK
<1>2. wr'[p] = [wr[p] EXCEPT !.pc = pc, !.todo = ws]
  BY <1>1
<1>3. wr' = [wr EXCEPT ![p] = wr'[p]]
  BY <1>1, <1>2, Zenon
<1>4. QED
  BY <1>1, <1>2, <1>3 DEF Jobs, JobIs

(* ... and from the assignment of the call alone.                          *)
LEMMA NextPC ==
  ASSUME TypeOK, NEW p \in Writers, NEW pc, wr' = [wr EXCEPT ![p].pc = pc]
  PROVE  JobIs(p, pc, wr[p].todo)
<1>1. wr \in [Writers -> Jobs] /\ wr[p] \in Jobs
  BY DEF TypeOK
<1>2. wr'[p] = [wr[p] EXCEPT !.pc = pc]
  BY <1>1
<1>3. wr' = [wr EXCEPT ![p] = wr'[p]]
  BY <1>1, <1>2
<1>4. QED
  BY <1>1, <1>2, <1>3 DEF Jobs, JobIs

(* The step in which writer p takes a version: s is the snapshot row with  *)
(* the new trans_version.                                                  *)
LEMMA TakeStep ==
  ASSUME AddOnly, IInv, TypeOK', NEW p \in Writers, wr[p].pc = "trans",
         NEW r \in snap[wr[p].doc], r.tv = wr[p].ver - 1, wr[p].ver # 1,
         snap' = [snap EXCEPT ![wr[p].doc] = {[r EXCEPT !.tv = wr[p].ver]}],
         Taken(p, TRUE), UNCHANGED <<idx, rd>>
  PROVE  IInv'
<1> DEFINE d == wr[p].doc
           v == wr[p].ver
           c == wr[p].ext
           s == [r EXCEPT !.tv = v]
<1>1. /\ d \in Docs /\ v \in Nat /\ snap[d] = {r} /\ r \in SnapRow
      /\ r.dv <= r.tv /\ r.tv > 0
  BY DEF IInv, TypeOK, Jobs, SnapInv
<1>2. /\ s \in SnapRow /\ s.tv = v /\ s.dv = r.dv /\ s.ext = r.ext
      /\ snap'[d] = {s} /\ \A e \in Docs : e # d => snap'[e] = snap[e]
  BY <1>1 DEF IInv, TypeOK, SnapRow
<1>3. /\ wr' = [wr EXCEPT ![p] = wr'[p]]
      /\ wr'[p].doc = d /\ wr'[p].ver = v /\ wr'[p].ext = c
      /\ wr'[p].todo = c /\ wr'[p].pc = AfterIndex(c, v, c)
  <2>1. TypeOK
    BY DEF IInv
  <2>2. JobIs(p, AfterIndex(c, v, c), c)
    BY <2>1, NextJob, Zenon DEF Taken
  <2>3. QED
    BY <2>2 DEF JobIs
<1>4. \A q \in Writers : Building(q) /\ wr[q].doc = d =>
         wr[q].ver <= r.tv /\ wr[q].ver # r.dv /\ wr[q].ver \in Nat
  BY <1>1 DEF IInv, JobInv, TypeOK, Jobs
<1>5. \A q \in Writers : q # p /\ Building(q) /\ wr[q].doc = d =>
         wr[q].ver # 1
  BY <1>1 DEF AddOnly, IInv, JobInv, Building, AddPCs
<1>6. SnapInv' /\ \A q \in Writers : q # p => wr'[q] = wr[q] /\ JobInv(q)'
  <2>1. s.dv <= s.tv /\ r.tv <= s.tv
    BY <1>1, <1>2 DEF SnapRow
  <2>2. \A q \in Writers : q # p /\ Building(q) /\ wr[q].doc = d =>
          wr[q].ver # s.dv /\ (wr[q].ver = 1 => s.tv = 1)
    BY <1>2, <1>4, <1>5
  <2>3. d \in Docs /\ s \in SnapRow /\ snap' = [snap EXCEPT ![d] = {s}]
    BY <1>1, <1>2
  <2> HIDE DEF s
  <2>4. QED
    BY <1>3, <2>1, <2>2, <2>3, MoveSnap, Zenon
<1>7. Building(p)' /\ ~Building(p)
  BY <1>3 DEF AfterIndex, AfterUnion, Building
<1>8. JobInv(p)'
  <2>1. wr'[p].pc = "union" => UnionOf(c) # {}
    BY <1>3 DEF AfterIndex, AfterUnion
  <2>2. wr'[p].pc \in {"index", "union", "retire", "commit"}
    BY <1>3 DEF AfterIndex, AfterUnion
  <2>3. v <= s.tv /\ v # s.dv /\ v # 1 /\ v > 1
    BY <1>1, <1>2 DEF IInv, TypeOK, AddPCs, SnapRow
  <2>4. QED
    BY <1>2, <1>3, <2>1, <2>2, <2>3, Zenon DEF JobInv, AddPCs
<1>9. ExclusiveVersion'
  <2>1. \A q \in Writers : q # p /\ Building(q) /\ wr[q].doc = d =>
           wr[q].ver # v
    BY <1>1, <1>4 DEF SnapRow
  <2>2. \A q \in Writers : q # p => (Building(q)' <=> Building(q))
    BY <1>6 DEF Building
  <2>3. QED
    BY <1>3, <1>6, <2>1, <2>2 DEF ExclusiveVersion, IInv
<1>10. ASSUME NEW w, NEW e \in Docs, NEW x \in Nat, RowInv(w, e, x)
       PROVE  RowInv(w, e, x)'
  <2>1. \A q \in Writers : q # p => (Building(q)' <=> Building(q))
    BY <1>6 DEF Building
  <2>2. CASE e = d
    <3>1. x <= r.tv /\ (x = r.dv => w \in IndexKeys(r.ext))
      BY <1>1, <1>10, <2>2 DEF RowInv
    <3>2. x <= s.tv /\ x # v
      BY <1>1, <1>2, <3>1 DEF SnapRow
    <3>3. QED
      BY <1>2, <1>3, <1>6, <1>10, <2>1, <2>2, <3>1, <3>2, Zenon DEF RowInv
  <2>3. CASE e # d
    BY <1>2, <1>3, <1>6, <1>10, <2>1, <2>3 DEF RowInv
  <2>4. QED
    BY <2>2, <2>3
<1>11. RowsInv'
  BY <1>10 DEF IInv, RowsInv, TypeOK, IndexRow
<1>12. HitsInv'
  BY <1>10 DEF IInv, HitsInv, TypeOK, IndexRow
<1>13. QED
  BY <1>6, <1>8, <1>9, <1>11, <1>12, InvPartsNext

(* update_snapshot_version takes the version where no other writer has     *)

(* update_snapshot_version takes the version where no other writer has     *)
(* taken it, and leaves the row alone otherwise.                           *)
LEMMA UpdateVersionInv ==
  ASSUME AddOnly, IInv, TypeOK', NEW p \in Writers, NEW o,
         UpdateSnapshotVersion(p, o)
  PROVE  IInv'
<1> DEFINE d == wr[p].doc
           v == wr[p].ver
<1>1. TypeOK /\ SnapInv /\ JobInv(p) /\ o = "ok"
  BY NoFaults DEF IInv, UpdateSnapshotVersion
<1>2. d \in Docs /\ v \in Nat /\ v > 0 /\ wr[p].pc = "trans" /\ v # 1
  BY <1>1 DEF UpdateSnapshotVersion, TypeOK, Jobs, AddPCs
<1>3. PICK r \in snap[d] : v <= r.tv + 1
  BY <1>1, <1>2 DEF JobInv
<1>4. snap' = [snap EXCEPT ![d] =
                 Snap!process_update(snap[d], TransRows(d, v - 1, v))]
  BY <1>1 DEF UpdateSnapshotVersion, After
<1>5. Taken(p, Applied("ok", snap[d], TransRows(d, v - 1, v)))
  BY <1>1 DEF UpdateSnapshotVersion
<1>6. CASE r.tv = v - 1
  <2>1. PICK s : s = [r EXCEPT !.tv = v]
    BY Zenon
  <2>2. v - 1 # v
    BY <1>2
  <2>3. /\ Snap!process_update(snap[d], TransRows(d, v - 1, v)) = {s}
        /\ Applied("ok", snap[d], TransRows(d, v - 1, v))
    BY <1>1, <1>2, <1>6, <2>1, <2>2, TransOne
  <2>4. snap' = [snap EXCEPT ![d] = {s}]
    BY <1>4, <2>3, Zenon
  <2>5. Taken(p, TRUE)
    BY <1>5, <2>3 DEF Taken
  <2>6. QED
    BY <1>2, <1>6, <2>1, <2>4, <2>5, TakeStep, Zenon DEF UpdateSnapshotVersion
<1>7. CASE r.tv # v - 1
  <2>1. DOMAIN TransRows(d, v - 1, v) = {}
    BY <1>1, <1>2, <1>7, TransNone
  <2>2. UNCHANGED snap
    BY <1>1, <1>2, <1>4, <2>1, MoveNone DEF TypeOK
  <2>3. wr' = [wr EXCEPT ![p] = NoJob]
    BY <1>5, <2>1 DEF Taken, Applied
  <2>4. QED
    BY <2>2, <2>3, EndStep, Zenon DEF UpdateSnapshotVersion
<1>8. QED
  BY <1>6, <1>7

(* insert_snapshot_version makes the first row of a document; there is no  *)
(* other writer then.                                                      *)
LEMMA InsertVersionInv ==
  ASSUME AddOnly, IInv, TypeOK', NEW p \in Writers, NEW o,
         InsertSnapshotVersion(p, o)
  PROVE  IInv'
<1> DEFINE d == wr[p].doc
           c == wr[p].ext
<1>1. TypeOK /\ SnapInv /\ JobInv(p) /\ o = "ok"
  BY NoFaults DEF IInv, InsertSnapshotVersion
<1>2. d \in Docs /\ wr[p].pc = "trans" /\ wr[p].ver = 1
  BY <1>1 DEF InsertSnapshotVersion, TypeOK
<1>3. snap[d] = {} /\ d \notin Loaded
  BY <1>1, <1>2 DEF JobInv, SnapInv
<1>4. \A q \in Writers : q = p
  BY <1>2, <1>3, Zenon DEF AddOnly
<1>5. /\ snap'[d] = {FirstRow} /\ \A e \in Docs : e # d => snap'[e] = snap[e]
      /\ FirstRow.dv = 0 /\ FirstRow.tv = 1
  <2>1. snap' = [snap EXCEPT ![d] = Snap!process_insert(snap[d], FirstRow)]
    BY <1>1 DEF InsertSnapshotVersion, After
  <2>2. Snap!process_insert(snap[d], FirstRow) = {FirstRow}
    BY <1>3, FirstInsert
  <2>3. QED
    BY <1>1, <1>2, <2>1, <2>2 DEF FirstRow, TypeOK
<1>6. JobIs(p, AfterIndex(c, 1, c), c)
  <2>1. ("ok" = "ok" /\ ~Snap!insert_rejected(snap[d], FirstRow)) = TRUE
    BY <1>3 DEF Snap!insert_rejected
  <2>2. wr' = [wr EXCEPT ![p].pc = AfterIndex(c, 1, c), ![p].todo = c]
    BY <1>1, <1>2, <2>1 DEF InsertSnapshotVersion, Taken
  <2>3. QED
    BY <1>1, <2>2, NextJob, Zenon
<1>7. SnapInv'
  BY <1>1, <1>3, <1>5 DEF SnapInv
<1>8. JobInv(p)'
  <2>1. wr'[p].pc = "union" => UnionOf(c) # {}
    BY <1>6 DEF AfterIndex, AfterUnion, JobIs
  <2>2. wr'[p].pc \in {"index", "union", "retire", "commit"}
    BY <1>6 DEF AfterIndex, AfterUnion, JobIs
  <2>3. QED
    BY <1>2, <1>3, <1>5, <1>6, <2>1, <2>2 DEF JobInv, JobIs, AddPCs
<1>9. ExclusiveVersion'
  BY <1>4 DEF ExclusiveVersion
<1>10. ASSUME NEW w, NEW e \in Docs, NEW x, RowInv(w, e, x)
       PROVE  RowInv(w, e, x)'
  <2>1. e # d
    BY <1>3, <1>10 DEF RowInv
  <2>2. QED
    BY <1>4, <1>5, <1>6, <1>10, <2>1 DEF RowInv, JobIs
<1>11. RowsInv' /\ HitsInv'
  BY <1>10 DEF IInv, RowsInv, HitsInv, TypeOK, IndexRow, InsertSnapshotVersion
<1>12. QED
  BY <1>4, <1>7, <1>8, <1>9, <1>11, InvPartsNext, Zenon
=============================================================================

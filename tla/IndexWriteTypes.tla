-------------------------- MODULE IndexWriteTypes ---------------------------
(***************************************************************************)
(* Type correctness of IndexWrite, for all values of its constants.        *)
(***************************************************************************)
EXTENDS IndexWrite, TLAPS

-----------------------------------------------------------------------------
(***************************************************************************)
(* What the storage operators return.                                      *)
(***************************************************************************)

(* process_update returns rows that were there and rows of the update.     *)
LEMMA SnapUpdateRows ==
  ASSUME NEW rows, NEW new, NEW x \in Snap!process_update(rows, new)
  PROVE  x \in rows \/ \E r \in DOMAIN new : x = new[r]
  BY DEF Snap!process_update, Snap!batch_update, Snap!Put

(* The same for an update of the "20" rows.                                *)
LEMMA DocidUpdateRows ==
  ASSUME NEW rows, NEW new, NEW x \in Docid!process_update(rows, new)
  PROVE  x \in rows \/ \E r \in DOMAIN new : x = new[r]
  BY DEF Docid!process_update, Docid!batch_update, Docid!Put

(* The first insert under a snapshot key makes its only row.               *)
LEMMA FirstInsert ==
  ASSUME NEW row
  PROVE  Snap!process_insert({}, row) = {row}
  BY DEF Snap!process_insert, Snap!insert_rejected, Snap!process_replace,
         Snap!Put

(* The snapshot updates and inserts keep the rows well typed.              *)
LEMMA TransType ==
  ASSUME TypeOK, NEW d \in Docs, NEW from, NEW to \in Nat
  PROVE  Snap!process_update(snap[d], TransRows(d, from, to)) \subseteq SnapRow
<1>1. DOMAIN TransRows(d, from, to) \subseteq snap[d]
  BY DEF TransRows
<1>2. snap[d] \subseteq SnapRow
  BY DEF TypeOK
<1>3. \A r \in DOMAIN TransRows(d, from, to) : TransRows(d, from, to)[r] \in SnapRow
  BY <1>1, <1>2 DEF TransRows, SnapRow
<1>4. QED
  BY <1>2, <1>3, SnapUpdateRows

(* The commit writes a well typed snapshot row.                            *)
LEMMA CommitType ==
  ASSUME TypeOK, NEW d \in Docs, NEW v \in Nat, NEW c \in SUBSET Words
  PROVE  Snap!process_update(snap[d], CommitRows(d, v, c)) \subseteq SnapRow
<1>1. snap[d] \subseteq SnapRow
  BY DEF TypeOK
<1>2. \A r \in DOMAIN CommitRows(d, v, c) : CommitRows(d, v, c)[r] \in SnapRow
  BY DEF CommitRows, SnapRow
<1>3. QED
  BY <1>1, <1>2, SnapUpdateRows

(* The update of the "20" row writes a well typed row.                     *)
LEMMA DocidType ==
  ASSUME TypeOK, NEW d \in Docs, NEW v \in Nat, NEW c \in SUBSET Words
  PROVE  Docid!process_update(docid[d], DocidRows(d, v, c)) \subseteq DocidRow
<1>1. docid[d] \subseteq DocidRow
  BY DEF TypeOK
<1>2. \A r \in DOMAIN DocidRows(d, v, c) : DocidRows(d, v, c)[r] \in DocidRow
  BY DEF DocidRows, DocidRow
<1>3. QED
  BY <1>1, <1>2, DocidUpdateRows

(* An insert loses no row of an index key and adds at most its own.        *)
LEMMA IndexInsertRows ==
  ASSUME NEW rows, NEW row
  PROVE  rows \subseteq Index!process_insert(rows, row) /\
         Index!process_insert(rows, row) \subseteq rows \cup {row}
  BY DEF Index!process_insert, Index!insert_rejected, Index!process_replace,
         Index!Put

(* A delete leaves no row that was not there.                              *)
LEMMA IndexDeleteRows ==
  ASSUME NEW item
  PROVE  LeftAfterDelete(item) \subseteq idx[item.word]
  BY DEF LeftAfterDelete

(* What a request in progress carries: its next call, its document and the *)
(* version it works with.                                                  *)
LEMMA JobFields ==
  ASSUME NEW pc, NEW d, NEW c, NEW v, NEW ws
  PROVE  /\ Job(pc, d, c, v, ws).pc = pc
         /\ Job(pc, d, c, v, ws).doc = d
         /\ Job(pc, d, c, v, ws).ver = v
  BY DEF Job

-----------------------------------------------------------------------------
(***************************************************************************)
(* Type correctness.                                                       *)
(***************************************************************************)
StoreType ==
  /\ snap \in [Docs -> SUBSET SnapRow]
  /\ idx \in [Keys -> SUBSET IndexRow]
  /\ docid \in [Docs -> SUBSET DocidRow]
JobType ==
  /\ wr \in [Writers -> Jobs]
  /\ \A p \in Writers : wr[p].pc # "idle" => wr[p].doc \in Docs
  /\ \A p \in Writers : wr[p].pc \in AddPCs => wr[p].ver > 0
QueueType ==
  /\ list \in [Writers -> SUBSET Item]
  /\ temp \in [Writers -> SUBSET Item]
  /\ flush \in [Writers -> {"no", "timed", "locked"}]
ReaderType ==
  rd \in [pc : {"idle", "valid"}, word : Keys, hits : SUBSET IndexRow,
          found : SUBSET Docs]
CountType ==
  /\ cmds \in 0 .. MaxCmds /\ faults \in 0 .. MaxFaults
  /\ crashes \in 0 .. MaxCrashes

(* TypeOK is the conjunction of its parts.                                 *)
LEMMA TypeParts ==
  TypeOK <=> StoreType /\ JobType /\ QueueType /\ ReaderType /\ CountType
  BY DEF TypeOK, StoreType, JobType, QueueType, ReaderType, CountType

(* TypeOK holds after a step when its parts do.                            *)
LEMMA TypePartsNext ==
  StoreType' /\ JobType' /\ QueueType' /\ ReaderType' /\ CountType' => TypeOK'
  BY DEF TypeOK, StoreType, JobType, QueueType, ReaderType, CountType

(* The initial states are well typed.                                      *)
LEMMA TypeInit == Init => TypeOK
<1> SUFFICES ASSUME Init PROVE TypeOK
  OBVIOUS
<1> USE ConstantsAssumption
<1>1. PICK c \in [Loaded -> Contents] :
        /\ snap = [d \in Docs |-> IF d \in Loaded
              THEN {[dv |-> 1, tv |-> 1, ext |-> c[d]]} ELSE {}]
        /\ idx = [w \in Keys |-> {[doc |-> d, ver |-> 1] :
                              d \in {e \in Loaded : w \in IndexKeys(c[e])}}]
        /\ docid = [d \in Docs |-> IF d \in Loaded
                               THEN {[ver |-> 1, ext |-> c[d]]} ELSE {}]
  BY Zenon DEF Init
<1>2. \A d \in Loaded : c[d] \in SUBSET Words
  BY Zenon
<1>3. snap \in [Docs -> SUBSET SnapRow]
  BY <1>1, <1>2 DEF SnapRow
<1>4. idx \in [Keys -> SUBSET IndexRow]
  BY <1>1 DEF IndexRow
<1>5. docid \in [Docs -> SUBSET DocidRow]
  BY <1>1, <1>2 DEF DocidRow
<1>6. JobType
  BY DEF Init, JobType, Jobs, NoJob, Job, PCs, AddPCs
<1>7. QueueType
  BY DEF Init, QueueType
<1>8. ReaderType
  BY DEF Init, ReaderType, NoSearch, Keys
<1>9. CountType
  BY DEF Init, CountType
<1> QED
  BY <1>3, <1>4, <1>5, <1>6, <1>7, <1>8, <1>9, TypeParts DEF StoreType

(* A request and the counters after a DTC call.                            *)
LEMMA OutcomeType ==
  ASSUME TypeOK, NEW o, Outcome(o), UNCHANGED <<cmds, crashes>>
  PROVE  CountType'
  BY ConstantsAssumption DEF TypeOK, Outcome, CountType

(* A request that ends leaves the jobs well typed.                         *)
LEMMA IdleJob ==
  ASSUME TypeOK, NEW p \in Writers, wr' = [wr EXCEPT ![p] = NoJob]
  PROVE  JobType'
  BY DEF TypeOK, JobType, Jobs, NoJob, Job, PCs, AddPCs

(* So does a request that goes on with another list of keys, ...           *)
LEMMA NextKeys ==
  ASSUME TypeOK, NEW p \in Writers, NEW pc \in AddPCs, wr[p].pc \in AddPCs,
         NEW ws \in SUBSET Words,
         wr' = [wr EXCEPT ![p].pc = pc, ![p].todo = ws]
  PROVE  JobType'
<1>1. wr \in [Writers -> Jobs]
  BY DEF TypeOK
<1>2. /\ wr' = [q \in Writers |-> IF q = p THEN wr'[p] ELSE wr[q]]
      /\ wr'[p] = [wr[p] EXCEPT !.pc = pc, !.todo = ws]
  BY <1>1, Zenon
<1>3. /\ wr'[p] \in Jobs /\ wr'[p].doc = wr[p].doc /\ wr'[p].ver = wr[p].ver
      /\ wr'[p].pc \in AddPCs
  BY <1>1, <1>2 DEF Jobs, PCs
<1>4. wr' \in [Writers -> Jobs]
  BY <1>1, <1>2, <1>3
<1>5. wr[p].doc \in Docs /\ wr[p].ver > 0
  BY DEF TypeOK, AddPCs
<1>6. QED
  BY <1>2, <1>3, <1>4, <1>5 DEF TypeOK, JobType

(* ... one that goes on with another call, ...                             *)
LEMMA NextCall ==
  ASSUME TypeOK, NEW p \in Writers, NEW pc \in AddPCs, wr[p].pc \in AddPCs,
         wr' = [wr EXCEPT ![p].pc = pc]
  PROVE  JobType'
<1>1. wr \in [Writers -> Jobs]
  BY DEF TypeOK
<1>2. wr[p].todo \in SUBSET Words
  BY <1>1 DEF Jobs
<1>3. wr' = [wr EXCEPT ![p].pc = pc, ![p].todo = wr[p].todo]
  BY <1>1, Zenon DEF Jobs
<1>4. QED
  BY <1>2, <1>3, NextKeys, Zenon

(* ... and one that goes on with its roll back.                            *)
LEMMA UndoJob ==
  ASSUME TypeOK, NEW p \in Writers, wr[p].pc \in AddPCs,
         NEW ws \in SUBSET Words, Undo(p, ws)
  PROVE  JobType'
<1>1. (IF ws = {} THEN "undosnap" ELSE "undo") \in AddPCs
  BY DEF AddPCs
<1>2. QED
  BY <1>1, NextKeys, Zenon DEF Undo

(* The call after an index insert is one of an add.                        *)
LEMMA AfterIndexPC ==
  \A c, v, todo : AfterIndex(c, v, todo) \in AddPCs /\ AfterUnion(v) \in AddPCs
  BY DEF AfterIndex, AfterUnion, AddPCs

(* A request that has, or has not, taken its version is well typed.        *)
LEMMA TakenJob ==
  ASSUME TypeOK, NEW p \in Writers, wr[p].pc = "trans", NEW ok, Taken(p, ok)
  PROVE  JobType'
<1>1. wr[p].ext \in SUBSET Words
  BY DEF TypeOK, Jobs
<1>2. CASE ok
  BY <1>1, <1>2, NextKeys, AfterIndexPC, Zenon DEF Taken, AddPCs
<1>3. CASE ~ok
  BY <1>3, IdleJob, Zenon DEF Taken
<1>4. QED
  BY <1>2, <1>3

(* RegisterInfo queues items of the words a "20" row lists.                *)
LEMMA RegisterType ==
  ASSUME TypeOK, NEW p \in Writers, NEW d \in Docs, NEW v \in Nat, NEW o,
         Register(p, d, v, o), UNCHANGED <<temp, flush>>
  PROVE  QueueType'
<1>1. UNION {r.ext : r \in {x \in docid[d] : x.ver = v}} \subseteq Words
  BY DEF TypeOK, DocidRow
<1>2. Retired(d, v) \subseteq Item
  BY <1>1 DEF Retired, Item
<1>3. list' \in [Writers -> SUBSET Item]
  BY <1>2 DEF TypeOK, Register
<1>4. QED
  BY <1>3 DEF TypeOK, QueueType

(* A delete goes on with another call.                                     *)
LEMMA DeleteCall ==
  ASSUME TypeOK, NEW p \in Writers, NEW pc \in {"delsnap", "deldocid"},
         wr[p].pc # "idle", wr' = [wr EXCEPT ![p].pc = pc]
  PROVE  JobType'
<1>1. wr \in [Writers -> Jobs] /\ wr[p].doc \in Docs
  BY DEF TypeOK
<1>2. /\ wr' = [q \in Writers |-> IF q = p THEN wr'[p] ELSE wr[q]]
      /\ wr'[p] = [wr[p] EXCEPT !.pc = pc]
  BY <1>1, Zenon
<1>3. /\ wr'[p] \in Jobs /\ wr'[p].doc \in Docs
      /\ wr'[p].pc \notin AddPCs
  BY <1>1, <1>2 DEF Jobs, PCs, AddPCs
<1>4. wr' \in [Writers -> Jobs]
  BY <1>1, <1>2, <1>3
<1>5. QED
  BY <1>2, <1>3, <1>4 DEF TypeOK, JobType

(* One step of a writer keeps the types.                                   *)
LEMMA WriterType ==
  ASSUME TypeOK, NEW p \in Writers, NEW o \in Outcomes, WriterCall(p, o)
  PROVE  TypeOK'
<1> DEFINE d == wr[p].doc
           v == wr[p].ver
           c == wr[p].ext
<1>1. /\ wr[p] \in Jobs /\ v \in Nat /\ c \in SUBSET Words
      /\ wr[p].todo \in SUBSET Words
      /\ wr[p].pc # "idle" => d \in Docs
      /\ wr[p].pc \in AddPCs => v > 0
  BY DEF TypeOK, Jobs
<1>2. StoreType /\ QueueType /\ ReaderType
  BY TypeParts
<1>3. CASE UpdateSnapshotVersion(p, o)
  <2>1. d \in Docs /\ wr[p].pc = "trans"
    BY <1>1, <1>3 DEF UpdateSnapshotVersion
  <2>2. StoreType'
    BY <1>2, <1>3, <2>1, <1>1, TransType
    DEF UpdateSnapshotVersion, StoreType, After
  <2>3. JobType'
    BY <1>3, <2>1, TakenJob DEF UpdateSnapshotVersion
  <2>4. QED
    BY <1>2, <1>3, <2>2, <2>3, OutcomeType, TypePartsNext
    DEF UpdateSnapshotVersion, QueueType, ReaderType, queue
<1>4. CASE InsertSnapshotVersion(p, o)
  <2>1. d \in Docs /\ wr[p].pc = "trans"
    BY <1>1, <1>4 DEF InsertSnapshotVersion
  <2>2. FirstRow \in SnapRow
    BY DEF FirstRow, SnapRow
  <2>3. StoreType'
    BY <1>2, <1>4, <2>1, <2>2
    DEF InsertSnapshotVersion, StoreType, After, Snap!process_insert,
        Snap!process_replace, Snap!Put
  <2>4. JobType'
    BY <1>4, <2>1, TakenJob DEF InsertSnapshotVersion
  <2>5. QED
    BY <1>2, <1>4, <2>3, <2>4, OutcomeType, TypePartsNext
    DEF InsertSnapshotVersion, QueueType, ReaderType, queue
<1>5. ASSUME NEW w \in Words, InsertIndex(p, w, o) PROVE TypeOK'
  <2> DEFINE rest == wr[p].todo \ {w}
  <2>1. d \in Docs /\ wr[p].pc \in AddPCs /\ w \in Keys
    BY <1>1, <1>5 DEF InsertIndex, AddPCs, Keys
  <2>2. RowOf(p) \in IndexRow
    BY <1>1, <2>1 DEF RowOf, IndexRow
  <2>3. StoreType'
    BY <1>2, <1>5, <2>1, <2>2, IndexInsertRows
    DEF InsertIndex, StoreType, After
  <2>4. JobType'
    <3>1. rest \in SUBSET Words /\ c \ rest \in SUBSET Words
      BY <1>1
    <3>2. CASE wr' = [wr EXCEPT ![p].todo = rest,
                                ![p].pc = AfterIndex(c, v, rest)]
      <4>1. wr' = [wr EXCEPT ![p].pc = AfterIndex(c, v, rest),
                             ![p].todo = rest]
        BY <3>2, Zenon DEF TypeOK, Jobs
      <4>2. QED
        BY <4>1, <3>1, <2>1, NextKeys, AfterIndexPC, Zenon
    <3>3. CASE Undo(p, c \ rest)
      BY <3>1, <3>3, <2>1, UndoJob
    <3>4. QED
      BY <1>5, <3>2, <3>3 DEF InsertIndex
  <2>5. QED
    BY <1>2, <1>5, <2>3, <2>4, OutcomeType, TypePartsNext
    DEF InsertIndex, QueueType, ReaderType, queue
<1>6. CASE HandleUnifiedIndex(p, o)
  <2>1. d \in Docs /\ wr[p].pc \in AddPCs /\ UnionKey \in Keys
    BY <1>1, <1>6 DEF HandleUnifiedIndex, AddPCs, Keys
  <2>2. RowOf(p) \in IndexRow
    BY <1>1, <2>1 DEF RowOf, IndexRow
  <2>3. StoreType'
    BY <1>2, <1>6, <2>1, <2>2, IndexInsertRows
    DEF HandleUnifiedIndex, StoreType, After
  <2>4. JobType'
    BY <1>6, <2>1, NextCall, AfterIndexPC, Zenon DEF HandleUnifiedIndex
  <2>5. QED
    BY <1>2, <1>6, <2>3, <2>4, OutcomeType, TypePartsNext
    DEF HandleUnifiedIndex, QueueType, ReaderType, queue
<1>7. CASE RetireOld(p, o)
  <2>1. d \in Docs /\ wr[p].pc \in AddPCs /\ v - 1 \in Nat
    BY <1>1, <1>7 DEF RetireOld, AddPCs
  <2>2. JobType'
    BY <1>7, <2>1, NextCall, Zenon DEF RetireOld, AddPCs
  <2>3. QueueType'
    BY <1>7, <2>1, RegisterType DEF RetireOld
  <2>4. QED
    BY <1>2, <1>7, <2>2, <2>3, OutcomeType, TypePartsNext
    DEF RetireOld, StoreType, ReaderType, store
<1>8. CASE Commit(p, o)
  <2>1. d \in Docs /\ wr[p].pc \in AddPCs
    BY <1>1, <1>8 DEF Commit, AddPCs
  <2>2. StoreType'
    BY <1>2, <1>8, <2>1, <1>1, CommitType DEF Commit, StoreType, After
  <2>3. JobType'
    BY <1>1, <1>8, <2>1, NextCall, UndoJob DEF Commit, AddPCs
  <2>4. QED
    BY <1>2, <1>8, <2>2, <2>3, OutcomeType, TypePartsNext
    DEF Commit, QueueType, ReaderType, queue
<1>9. CASE UpdateDocidIndex(p, o)
  <2>1. d \in Docs /\ v > 0
    BY <1>1, <1>9 DEF UpdateDocidIndex, AddPCs
  <2>2. [ver |-> 1, ext |-> c] \in DocidRow
    BY <1>1 DEF DocidRow
  <2>3. StoreType'
    BY <1>2, <1>9, <2>1, <2>2, <1>1, DocidType
    DEF UpdateDocidIndex, StoreType, After, Docid!process_insert,
        Docid!process_replace, Docid!Put
  <2>4. JobType'
    BY <1>9, IdleJob, Zenon DEF UpdateDocidIndex
  <2>5. QED
    BY <1>2, <1>9, <2>3, <2>4, OutcomeType, TypePartsNext
    DEF UpdateDocidIndex, QueueType, ReaderType, queue
<1>10. ASSUME NEW w \in Words, UndoIndex(p, w, o) PROVE TypeOK'
  <2>1. wr[p].pc \in AddPCs /\ w \in Keys
    BY <1>10 DEF UndoIndex, AddPCs, Keys
  <2>2. StoreType'
    BY <1>2, <1>10, <2>1, IndexDeleteRows DEF UndoIndex, StoreType, After
  <2>3. JobType'
    BY <1>1, <1>10, <2>1, UndoJob DEF UndoIndex
  <2>4. QED
    BY <1>2, <1>10, <2>2, <2>3, OutcomeType, TypePartsNext
    DEF UndoIndex, QueueType, ReaderType, queue
<1>11. CASE UndoSnapshot(p, o)
  <2>1. d \in Docs /\ v - 1 \in Nat
    BY <1>1, <1>11 DEF UndoSnapshot, AddPCs
  <2>2. StoreType'
    BY <1>2, <1>11, <2>1, TransType
    DEF UndoSnapshot, StoreType, After, Snap!process_delete
  <2>3. JobType'
    BY <1>11, IdleJob, Zenon DEF UndoSnapshot
  <2>4. QED
    BY <1>2, <1>11, <2>2, <2>3, OutcomeType, TypePartsNext, Zenon
    DEF UndoSnapshot, QueueType, ReaderType, queue
<1>12. CASE DeleteRetire(p, o)
  <2>1. d \in Docs /\ wr[p].pc # "idle"
    BY <1>1, <1>12 DEF DeleteRetire
  <2>2. JobType'
    BY <1>12, <2>1, DeleteCall, Zenon DEF DeleteRetire
  <2>3. QueueType'
    BY <1>1, <1>12, <2>1, RegisterType DEF DeleteRetire
  <2>4. QED
    BY <1>2, <1>12, <2>2, <2>3, OutcomeType, TypePartsNext
    DEF DeleteRetire, StoreType, ReaderType, store
<1>13. CASE DeleteSnapshot(p, o)
  <2>1. d \in Docs /\ wr[p].pc # "idle"
    BY <1>1, <1>13 DEF DeleteSnapshot
  <2>2. StoreType'
    BY <1>2, <1>13, <2>1
    DEF DeleteSnapshot, StoreType, After, Snap!process_delete
  <2>3. JobType'
    BY <1>13, <2>1, DeleteCall, Zenon DEF DeleteSnapshot
  <2>4. QED
    BY <1>2, <1>13, <2>2, <2>3, OutcomeType, TypePartsNext
    DEF DeleteSnapshot, QueueType, ReaderType, queue
<1>14. CASE DeleteDocid(p, o)
  <2>1. d \in Docs
    BY <1>1, <1>14 DEF DeleteDocid
  <2>2. StoreType'
    BY <1>2, <1>14, <2>1
    DEF DeleteDocid, StoreType, After, Docid!process_delete
  <2>3. JobType'
    BY <1>14, IdleJob, Zenon DEF DeleteDocid
  <2>4. QED
    BY <1>2, <1>14, <2>2, <2>3, OutcomeType, TypePartsNext
    DEF DeleteDocid, QueueType, ReaderType, queue
<1>15. QED
  BY <1>3, <1>4, <1>5, <1>6, <1>7, <1>8, <1>9, <1>10, <1>11, <1>12, <1>13,
     <1>14 DEF WriterCall

(* A new request starts with a job of the right type.                      *)
LEMMA BeginType ==
  ASSUME TypeOK, NEW p \in Writers, NEW pc \in {"trans", "delretire"},
         NEW d \in Docs, NEW c \in SUBSET Words, NEW v \in Nat,
         pc = "trans" => v > 0,
         wr' = [wr EXCEPT ![p] = Job(pc, d, c, v, {})]
  PROVE  JobType'
<1>1. Job(pc, d, c, v, {}) \in Jobs
  BY ConstantsAssumption DEF Job, Jobs, PCs, AddPCs
<1>2. QED
  BY <1>1 DEF TypeOK, JobType, Job, AddPCs

(* Every step keeps the types.                                             *)
LEMMA TypeNext == TypeOK /\ [Next]_vars => TypeOK'
<1> SUFFICES ASSUME TypeOK, [Next]_vars PROVE TypeOK'
  OBVIOUS
<1>1. StoreType /\ JobType /\ QueueType /\ ReaderType /\ CountType
  BY TypeParts
<1>2. ASSUME NEW p \in Writers, NEW d \in Docs, NEW c \in Contents,
             BeginAdd(p, d, c)
      PROVE  TypeOK'
  <2>1. c \in SUBSET Words
    BY ConstantsAssumption
  <2>2. \A r \in snap[d] : r.tv + 1 \in Nat /\ r.tv + 1 > 0
    BY DEF TypeOK, SnapRow
  <2>3. JobType'
    <3>1. PICK v \in Nat : v > 0 /\ wr' = [wr EXCEPT ![p] = Job("trans", d, c, v, {})]
      BY <1>2, <2>2 DEF BeginAdd, LastRows
    <3>2. QED
      BY <2>1, <3>1, BeginType, Zenon
  <2>4. CountType'
    BY <1>1, <1>2, ConstantsAssumption DEF BeginAdd, CountType
  <2>5. QED
    BY <1>1, <1>2, <2>3, <2>4, TypePartsNext
    DEF BeginAdd, StoreType, QueueType, ReaderType, store, queue
<1>3. ASSUME NEW p \in Writers, NEW d \in Docs, BeginDelete(p, d)
      PROVE  TypeOK'
  <2>1. \A r \in snap[d] : r.tv \in Nat
    BY DEF TypeOK, SnapRow
  <2>2. JobType'
    BY <1>3, <2>1, BeginType DEF BeginDelete, LastRows
  <2>3. CountType'
    BY <1>1, <1>3, ConstantsAssumption DEF BeginDelete, CountType
  <2>4. QED
    BY <1>1, <1>3, <2>2, <2>3, TypePartsNext
    DEF BeginDelete, StoreType, QueueType, ReaderType, store, queue
<1>4. ASSUME NEW p \in Writers, RejectField(p) PROVE TypeOK'
  <2>1. wr[p].pc \in AddPCs /\ wr[p].ext \ wr[p].todo \in SUBSET Words
    BY <1>4 DEF RejectField, AddPCs, TypeOK, Jobs
  <2>2. JobType'
    BY <1>4, <2>1, UndoJob DEF RejectField
  <2>3. CountType'
    BY <1>1, <1>4, ConstantsAssumption DEF RejectField, CountType
  <2>4. QED
    BY <1>1, <1>4, <2>2, <2>3, TypePartsNext
    DEF RejectField, StoreType, QueueType, ReaderType, store, queue
<1>5. ASSUME NEW p \in Writers, TakeList(p) \/ FlushIdle(p) PROVE TypeOK'
  <2>1. QueueType'
    BY <1>1, <1>5 DEF TakeList, FlushIdle, QueueType
  <2>2. QED
    BY <1>1, <1>5, <2>1, TypePartsNext
    DEF TakeList, FlushIdle, StoreType, JobType, ReaderType, CountType, store
<1>6. ASSUME NEW p \in Writers, NEW item \in temp[p], NEW o \in Outcomes,
             DeleteIndex(p, item, o)
      PROVE  TypeOK'
  <2>1. item.word \in Keys
    BY DEF TypeOK, Item, Keys
  <2>2. StoreType'
    BY <1>1, <1>6, <2>1, IndexDeleteRows DEF DeleteIndex, StoreType, After
  <2>3. QueueType'
    BY <1>1, <1>6 DEF DeleteIndex, QueueType, AfterFlush
  <2>4. QED
    BY <1>1, <1>6, <2>2, <2>3, OutcomeType, TypePartsNext
    DEF DeleteIndex, JobType, ReaderType
<1>7. ASSUME NEW p \in Writers, Crash(p) PROVE TypeOK'
  <2>1. JobType'
    BY <1>7, IdleJob, Zenon DEF Crash
  <2>2. QueueType'
    BY <1>1, <1>7 DEF Crash, QueueType
  <2>3. CountType'
    BY <1>1, <1>7, ConstantsAssumption DEF Crash, CountType
  <2>4. QED
    BY <1>1, <1>7, <2>1, <2>2, <2>3, TypePartsNext
    DEF Crash, StoreType, ReaderType, store
<1>8. ASSUME ReaderStep PROVE TypeOK'
  <2>1. ReaderType'
    <3>1. ASSUME NEW w \in Queries, GetDocInfo(w) PROVE ReaderType'
      <4>1. w \in Keys /\ NewestRows(idx[w]) \in SUBSET IndexRow
        BY ConstantsAssumption DEF NewestRows, TypeOK
      <4>2. QED
        BY <3>1, <4>1 DEF GetDocInfo, ReaderType
    <3>2. CASE DocValid
      <4>1. ValidDocs(rd.hits) \in SUBSET Docs
        BY <1>1 DEF ReaderType, ValidDocs, IndexRow
      <4>2. QED
        BY <1>1, <3>2, <4>1, Zenon DEF DocValid, ReaderType
    <3>3. QED
      BY <1>8, <3>1, <3>2 DEF ReaderStep
  <2>2. QED
    BY <1>1, <1>8, <2>1, TypePartsNext
    DEF ReaderStep, GetDocInfo, DocValid, StoreType, JobType, QueueType,
        CountType, store, queue
<1>9. CASE UNCHANGED vars
  BY <1>9 DEF vars, TypeOK
<1>10. QED
  BY <1>2, <1>3, <1>4, <1>5, <1>6, <1>7, <1>8, <1>9, WriterType
  DEF Next, WriterStep, DeleteTaskStep

(* TypeOK is an invariant of the write path, whatever the commands, the    *)
(* failures and the crashes: in particular no version a request works with *)
(* or gives back in RollBackIndex ever falls below zero.                   *)
THEOREM TypeCorrect == Spec => []TypeOK
  BY TypeInit, TypeNext, PTL DEF Spec
=============================================================================

------------------------- MODULE IndexWriteRefines --------------------------
(***************************************************************************)
(* The write path and the searcher of IndexWrite implement DocStore.       *)
(***************************************************************************)
EXTENDS IndexWriteSound

LEMMA PubOne ==
  ASSUME NEW r
  PROVE  PubOf({r}) = [ver |-> r.dv, keys |-> IndexKeys(r.ext)]
<1>1. (CHOOSE x \in {r} : TRUE) = r
  OBVIOUS
<1>2. {r} # {}
  OBVIOUS
<1>3. QED
  BY <1>1, <1>2 DEF PubOf

(* The published content of at most one row is well typed.                 *)
LEMMA PubRows ==
  ASSUME NEW rows \in SUBSET SnapRow, \A r, s \in rows : r = s
  PROVE  PubOf(rows) \in [ver : Nat, keys : SUBSET Keys]
<1>1. CASE rows = {}
  BY <1>1 DEF PubOf
<1>2. CASE rows # {}
  <2>1. PICK r \in SnapRow : rows = {r}
    BY <1>2
  <2>2. IndexKeys(r.ext) \subseteq Keys
    BY <2>1 DEF SnapRow, IndexKeys, UnionOf, Keys
  <2>3. r.dv \in Nat /\ PubOf({r}) = [ver |-> r.dv, keys |-> IndexKeys(r.ext)]
    BY <2>1, PubOne DEF SnapRow
  <2>4. QED
    BY <2>1, <2>2, <2>3
<1>3. QED
  BY <1>1, <1>2

(* Taking a version publishes nothing.                                     *)
LEMMA TakePub ==
  ASSUME AddOnly, IInv, NEW p \in Writers, NEW o,
         UpdateSnapshotVersion(p, o) \/ InsertSnapshotVersion(p, o)
  PROVE  \A e \in Docs : PubOf(snap'[e]) = PubOf(snap[e])
<1> DEFINE d == wr[p].doc
           v == wr[p].ver
<1>1. TypeOK /\ SnapInv /\ JobInv(p) /\ o = "ok"
  BY NoFaults DEF IInv, UpdateSnapshotVersion, InsertSnapshotVersion
<1>2. d \in Docs /\ v \in Nat /\ v > 0 /\ wr[p].pc = "trans"
  BY <1>1
  DEF UpdateSnapshotVersion, InsertSnapshotVersion, TypeOK, Jobs, AddPCs
<1>3. CASE InsertSnapshotVersion(p, o)
  <2>1. snap[d] = {}
    BY <1>1, <1>2, <1>3 DEF JobInv, InsertSnapshotVersion
  <2>2. snap' = [snap EXCEPT ![d] = {FirstRow}]
    <3>1. snap' = [snap EXCEPT ![d] = Snap!process_insert(snap[d], FirstRow)]
      BY <1>1, <1>3 DEF InsertSnapshotVersion, After
    <3>2. QED
      BY <2>1, <3>1, FirstInsert, Zenon
  <2>3. IndexKeys({}) = {}
    BY DEF IndexKeys, UnionOf
  <2>4. PubOf({FirstRow}) = PubOf({})
    BY <2>3, PubOne DEF PubOf, FirstRow
  <2>5. QED
    BY <1>1, <1>2, <2>1, <2>2, <2>4, Zenon DEF TypeOK
<1>4. CASE UpdateSnapshotVersion(p, o)
  <2>1. PICK r \in snap[d] : TRUE
    BY <1>1, <1>2, <1>4 DEF JobInv, UpdateSnapshotVersion
  <2>2. snap' = [snap EXCEPT ![d] =
                   Snap!process_update(snap[d], TransRows(d, v - 1, v))]
    BY <1>1, <1>4 DEF UpdateSnapshotVersion, After
  <2>3. CASE r.tv = v - 1
    <3>1. PICK s : s = [r EXCEPT !.tv = v]
      BY Zenon
    <3>2. v - 1 # v
      BY <1>2
    <3>3. /\ Snap!process_update(snap[d], TransRows(d, v - 1, v)) = {s}
          /\ Applied("ok", snap[d], TransRows(d, v - 1, v))
      BY <1>1, <1>2, <2>1, <2>3, <3>1, <3>2, TransOne
    <3>4. snap[d] = {r} /\ r \in SnapRow
      BY <1>1, <1>2 DEF TypeOK, SnapInv
    <3>5. s.dv = r.dv /\ s.ext = r.ext
      BY <3>1, <3>4 DEF SnapRow
    <3>6. PubOf({s}) = PubOf({r})
      <4>1. /\ PubOf({s}) = [ver |-> s.dv, keys |-> IndexKeys(s.ext)]
            /\ PubOf({r}) = [ver |-> r.dv, keys |-> IndexKeys(r.ext)]
        BY PubOne, Zenon
      <4>2. QED
        BY <3>5, <4>1
    <3>7. QED
      BY <1>1, <1>2, <2>2, <3>3, <3>4, <3>6, Zenon DEF TypeOK
  <2>4. CASE r.tv # v - 1
    <3>1. DOMAIN TransRows(d, v - 1, v) = {}
      BY <1>1, <1>2, <2>4, TransNone
    <3>2. QED
      BY <1>1, <1>2, <2>2, <3>1, MoveNone DEF TypeOK
  <2>5. QED
    BY <2>3, <2>4
<1>5. QED
  BY <1>3, <1>4

(* update_sanpshot_dtc publishes the new version or changes nothing.       *)
LEMMA CommitPub ==
  ASSUME AddOnly, IInv, IInv', NEW p \in Writers, NEW o, Commit(p, o)
  PROVE  UNCHANGED <<snap, rd>> \/ \E d \in Docs : Abs!Publish(d)
<1> DEFINE d == wr[p].doc
           v == wr[p].ver
           c == wr[p].ext
<1>1. TypeOK /\ SnapInv /\ JobInv(p) /\ o = "ok"
  BY NoFaults DEF IInv, Commit
<1>2. d \in Docs /\ v \in Nat /\ Building(p)
  BY <1>1 DEF Commit, TypeOK, Jobs, AddPCs, Building
<1>3. PICK r \in snap[d] : v <= r.tv /\ v # r.dv
  BY <1>1, <1>2 DEF JobInv
<1>4. snap' = [snap EXCEPT ![d] =
                 Snap!process_update(snap[d], CommitRows(d, v, c))]
      /\ UNCHANGED rd
  BY <1>1 DEF Commit, After
<1>5. CASE r.tv = v
  <2>1. PICK s : s = [dv |-> v, tv |-> v, ext |-> c]
    BY Zenon
  <2>2. /\ Snap!process_update(snap[d], CommitRows(d, v, c)) = {s}
        /\ Applied("ok", snap[d], CommitRows(d, v, c))
    BY <1>1, <1>2, <1>3, <1>5, <2>1, CommitOne
  <2>3. /\ snap'[d] = {s} /\ \A e \in Docs : e # d => snap'[e] = snap[e]
        /\ snap[d] = {r} /\ r \in SnapRow /\ r.dv <= r.tv
    BY <1>1, <1>2, <1>4, <2>2 DEF TypeOK, SnapInv
  <2>4. /\ PubOf({s}) = [ver |-> s.dv, keys |-> IndexKeys(s.ext)]
        /\ PubOf({r}) = [ver |-> r.dv, keys |-> IndexKeys(r.ext)]
    BY PubOne, Zenon
  <2>5. PubOf(snap'[d]).ver > PubOf(snap[d]).ver
    <3>1. s.dv = v
      BY <2>1
    <3>2. v > r.dv
      BY <1>2, <1>3, <1>5, <2>3 DEF SnapRow
    <3>3. QED
      BY <2>3, <2>4, <3>1, <3>2
  <2>6. PubOf(snap'[d]) \in [ver : Nat, keys : SUBSET Keys]
    <3>1. snap'[d] \in SUBSET SnapRow /\ \A x, y \in snap'[d] : x = y
      BY <1>2 DEF IInv, TypeOK, SnapInv
    <3>2. QED
      BY <3>1, PubRows
  <2>7. Abs!Publish(d)
    <3> DEFINE before == [e \in Docs |-> PubOf(snap[e])]
               after == [e \in Docs |-> PubOf(snap'[e])]
    <3>1. after[d] \in Abs!Published /\ after[d].ver > before[d].ver
      BY <1>2, <2>5, <2>6 DEF Abs!Published
    <3>2. after = [before EXCEPT ![d] = after[d]]
      BY <1>2, <2>3, Zenon
    <3>3. QED
      BY <1>4, <3>1, <3>2 DEF Abs!Publish
  <2>8. QED
    BY <1>2, <2>7
<1>6. CASE r.tv # v
  <2>1. DOMAIN CommitRows(d, v, c) = {}
    BY <1>1, <1>2, <1>6, CommitNone
  <2>2. QED
    BY <1>1, <1>2, <1>4, <2>1, MoveNone DEF TypeOK
<1>7. QED
  BY <1>5, <1>6


AbsVars == <<[d \in Docs |-> PubOf(snap[d])], [word |-> rd.word, found |-> rd.found]>>

(* A step that publishes nothing is a stutter of DocStore.                 *)
LEMMA AbsSame ==
  ASSUME UNCHANGED rd, \A e \in Docs : PubOf(snap'[e]) = PubOf(snap[e])
  PROVE  UNCHANGED AbsVars
<1>1. [d \in Docs |-> PubOf(snap'[d])] = [d \in Docs |-> PubOf(snap[d])]
  OBVIOUS
<1>2. QED
  BY <1>1 DEF AbsVars

(* Initial states map to initial states of DocStore.                       *)
LEMMA AbsInit == AddOnly /\ Init => Abs!Init
<1> SUFFICES ASSUME AddOnly, Init PROVE Abs!Init
  OBVIOUS
<1>1. IInv
  BY InvInit
<1>2. ASSUME NEW d \in Docs PROVE PubOf(snap[d]) \in Abs!Published
  <2>1. snap[d] \in SUBSET SnapRow /\ \A r, s \in snap[d] : r = s
    BY <1>1 DEF IInv, TypeOK, SnapInv
  <2>2. QED
    BY <2>1, PubRows DEF Abs!Published
<1>3. rd.found = {}
  BY DEF Init, NoSearch
<1>4. QED
  BY <1>2, <1>3 DEF Abs!Init

(* A search step of the searcher is a search of DocStore.                  *)
LEMMA ReaderAbs ==
  ASSUME IInv, ReaderStep PROVE Abs!Search
<1>1. UNCHANGED snap
  BY DEF ReaderStep, GetDocInfo, DocValid, store
<1>2. \A d \in rd'.found : d \in Docs /\ rd'.word \in PubOf(snap[d]).keys
  <2>1. ASSUME NEW w \in Queries, GetDocInfo(w) PROVE rd'.found = {}
    BY <2>1 DEF GetDocInfo
  <2>2. ASSUME DocValid, NEW d \in rd'.found
        PROVE  d \in Docs /\ rd'.word \in PubOf(snap[d]).keys
    <3>1. rd'.found = ValidDocs(rd.hits) /\ rd'.word = rd.word
      BY <2>2 DEF DocValid, IInv, TypeOK
    <3>2. d \in Docs /\ \E r \in snap[d] : rd.word \in IndexKeys(r.ext)
      BY <2>2, <3>1, ValidHits
    <3>3. PICK r \in snap[d] : rd.word \in IndexKeys(r.ext)
      BY <3>2
    <3>4. snap[d] = {r}
      BY <3>2 DEF IInv, SnapInv
    <3>5. PubOf({r}) = [ver |-> r.dv, keys |-> IndexKeys(r.ext)]
      BY PubOne
    <3>6. QED
      BY <3>1, <3>2, <3>3, <3>4, <3>5
  <2>3. QED
    BY <2>1, <2>2 DEF ReaderStep
<1>3. QED
  BY <1>1, <1>2 DEF Abs!Search

(* Every step maps to a step of DocStore or to a stutter.                  *)
LEMMA AbsNext == AddOnly /\ IInv /\ IInv' /\ [Next]_vars => [Abs!Next]_AbsVars
<1> SUFFICES ASSUME AddOnly, IInv, IInv', [Next]_vars
             PROVE  Abs!Next \/ UNCHANGED AbsVars
  OBVIOUS
<1>1. UNCHANGED <<snap, rd>> => UNCHANGED AbsVars
  BY AbsSame, Zenon
<1>2. ASSUME NEW p \in Writers, NEW o \in Outcomes, WriterCall(p, o)
      PROVE  Abs!Next \/ UNCHANGED AbsVars
  <2>1. CASE UpdateSnapshotVersion(p, o) \/ InsertSnapshotVersion(p, o)
    BY <2>1, TakePub, AbsSame DEF UpdateSnapshotVersion, InsertSnapshotVersion
  <2>2. CASE Commit(p, o)
    BY <1>1, <2>2, CommitPub DEF Abs!Next
  <2>3. CASE UndoSnapshot(p, o)
    BY <1>1, <2>3, UndoPub, Zenon
  <2>4. wr[p].pc # "delsnap"
    BY DEF IInv, JobInv, AddPCs
  <2>5. QED
    BY <1>1, <1>2, <2>1, <2>2, <2>3, <2>4, Zenon
    DEF WriterCall, InsertIndex, HandleUnifiedIndex, RetireOld,
        UpdateDocidIndex, UndoIndex, DeleteRetire, DeleteSnapshot,
        DeleteDocid, store
<1>3. CASE ReaderStep
  BY <1>3, ReaderAbs, Zenon DEF Abs!Next
<1>4. ASSUME NEW p \in Writers,
             \/ \E d \in Docs, c \in Contents : BeginAdd(p, d, c)
             \/ \E d \in Docs : BeginDelete(p, d)
             \/ RejectField(p) \/ DeleteTaskStep(p) \/ Crash(p)
      PROVE  UNCHANGED <<snap, rd>>
  BY <1>4, Zenon DEF BeginAdd, BeginDelete, RejectField, DeleteTaskStep, TakeList,
              FlushIdle, DeleteIndex, Crash, store
<1>5. CASE UNCHANGED vars
  BY <1>1, <1>5 DEF vars
<1>6. QED
  BY <1>1, <1>2, <1>3, <1>4, <1>5 DEF Next, WriterStep

(* Contents are published whole and in version order, and a search returns *)
(* only documents whose published content has the key.                     *)
THEOREM Refinement == ASSUME AddOnly PROVE Spec => ImplementsDocStore
<1>1. Init => Abs!Init
  BY AbsInit
<1>2. IInv /\ IInv' /\ [Next]_vars =>
        [Abs!Next]_<<[d \in Docs |-> PubOf(snap[d])],
                     [word |-> rd.word, found |-> rd.found]>>
  BY AbsNext DEF AbsVars
<1>3. QED
  BY <1>1, <1>2, Invariant, PTL DEF Spec, ImplementsDocStore, Abs!Spec
=============================================================================

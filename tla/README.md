# A TLA+ verification project for isearch

isearch is a search engine in C++: documents are added and deleted by *cmd*
requests, split into words, and kept as an inverted index in a cache (DTC) over
RocksDB; queries are answered from that index. This directory models its
components in TLA+, checks them with TLC on small instances, and proves the
main results with TLAPS for every instance.

Paths below are relative to `src/src/`.

## 1. Inventory

| part | state it keeps | operations | hard behaviour | what makes it correct |
| --- | --- | --- | --- | --- |
| **index_write, adds and deletes** (`search_local/index_write/type_parser_manager.cc`, `index_tbl_op.cc`) | rows in index_storage: snapshot `10#doc`, index rows per key, key list `20#doc` | add: take a version, insert rows, publish, list the keys; roll back; delete | several processes on one storage, no transaction over the rows, a crash anywhere, failed or lost calls, roll back | one writer per version; a published version has exactly its rows; a failed add leaves nothing |
| **DeleteTask** (`index_tbl_op.cc`) | a linked list under a mutex, `temp_result` of the thread | RegisterInfo, take over, flush | queue in memory, mutex held during storage calls | all that is queued is deleted, and nothing else; nobody waits for ever |
| **index_read, lookup** (`search_local/index_read/index_tbl_op.cc`, `valid_doc_filter.cc`) | none (optional caches) | read the rows of a key, later the snapshots | reads at two moments | returns only documents that have the key, and all of them |
| **RocksDB helper** (`search_local/index_storage/rocksdb_helper`) | rows in RocksDB | insert, update, delete, replace, select on the rows of a key | updates of key columns, scans with conditions | unique index; exactly the rows of the condition are touched |
| DTC cache (`index_storage/cache/buffer_*.cc`) | cached rows, LRU, empty-node filter, dirty marks | get, insert, update, replace, delete, flush, purge | miss and reply at two moments, unknown result of the helper, eviction | a cached key has the helper's rows |
| barrier (`cache/fence_unit.cc`) | queue per key | queue, forward front, reply | limits on keys and queue | one request of a key at a time, in order, none forgotten |
| hot backup log (`cache/logger.cc`, `hb_log.cc`, `hb_process.cc`, `task_pendlist.cc`) | numbered files, reader and writer position, waiting readers | append, shift, seek, read, register, wait | restart, deletion of old files, short reads, time outs | a reader gets every record once, or is told that it cannot |
| RocksDB replication (`rocksdb_helper/rocksdb_replication.cc`) | replication state in RocksDB, last keys | register, request, respond, finish | restart, connection loss | the slave ends with the master's rows |
| range index (`index_read/index_sync`) | ordered set in memory, journal position | full and incremental synchronisation, range reads | failing requests, position and rows at two moments | holds the rows of the storage up to its position |
| search_agent (`search_agent`) | connections, queues, table of pending requests | fan out, collect, time out | late answers, reuse of identifiers, partial sends | every request is answered once or timed out |
| hot_backup (`tools/hot_backup`) | state machine, stored position and status | register, full copy, follow the log, switch master | crash between stored facts, lost switch signal | the copy misses no record |
| watchdog, helper group, key guard | processes, connections | restart, dispatch | limits, time outs | every request is answered |
| memory pool, hash, T-tree, row format | shared memory | allocate, insert, split | pointer structures | not in scope |
| query parsing, scoring, word segmentation, `comm`, `3rdlib` | none shared | computation, I/O | - | not in scope |

How they interact: a client sends an add or a delete through `search_agent` to
one `index_write`; it calls index_storage through the DTC client API (300 ms
time out). Inside index_storage a request passes the barrier, the cache and, on
a miss or a write, the RocksDB helper. `index_read` calls the same storage.
`hot_backup` and the range index follow the storage's hot backup log.

`PROJECT.json` lists the components with what is modelled of each, and under
`hazards` the places where the code is hard to test, with the properties that
watch them.

## 2. Plan

1. **RocksTable, RocksProcess** (done): what the helper does to the rows of a
   key, closed forms and scans. Everything above is built on the closed forms.
2. **IndexWrite**, with the searcher, over RocksTable (done); **DocStore**, what
   it promises (done); their proofs, **IndexWriteTypes**, **IndexWriteSteps**,
   **IndexWriteSound** and **IndexWriteRefines** (done).
3. **DtcCache**: barrier, read-through cache and helper for a few keys;
   abstract specification: one map from keys to rows. Properties: a request at a
   time, a cached key has the helper's rows unless a request is in progress, every
   request is answered, purge after an unknown result. Theorem: refinement of the
   map. It justifies IndexWrite's taking the cache as transparent.
4. **HbLog**: binlog files, reader, register, waiting readers; restart and deletion
   of old files. Properties: no record skipped, a reader that lost its place is
   told, waiting readers are woken or timed out. Theorem: positions and files.
5. **RangeIndex** over HbLog: synchronisation of the index in memory.
6. **HotBackup** over HbLog: the state machine with crashes.
7. **SearchAgent**: fan out, time outs, late answers.
8. **RocksReplication**, the helper group, the other services of index_write.

Each module gets its MC module where constants need definitions, runs for its
interleavings and for its failures, and theorems where the argument does not
depend on the bounds. Modules that are proved about declare their constants with
assumptions and have no recursive operator.

## 3. The modules and the code

`PROJECT.json`'s map names the lines behind every definition.

### RocksTable and RocksProcess: requests on the rows of a key

The helper stores a row under *(DTC key, the other columns of the unique
index)* and serves a request by scanning the entries with the DTC key as prefix.
`RocksTable` gives each request's outcome in closed form over a set of rows,
for any `KeyOf` and any order `Before`; it has no variables. A write is `Put`: it
overwrites the row that has the same key, so that an update whose checks let two
rows come to one key loses a row, in the model as in RocksDB. `RocksProcess` has
the scans themselves: `UpdateStep` is the body of `process_update`'s loop over key
columns with its three containers, `UpdateValueScan` the branch for values,
`AfterUpdate` the batch written at the end, `DeleteStep` the body of
`process_delete`'s loop. A row has two key columns and one value, a condition is an
equality on one column or none, and an update sets or adds to one column; `reply`
is the last request with its error and its count of affected rows.
`process_insert` and `process_replace` have no scan and use the closed form
directly. Rows are scanned in the order of their encoded keys (`InOrder`), which is
the order of the columns because `key_format::Encode` keeps it and RocksDB compares
bytes.

### IndexWrite: adds, deletes, DeleteTask and a searcher

| variable | code |
| --- | --- |
| `snap[d]` | rows under `10#d`: `doc_version` (dv), `trans_version` (tv), `extend` |
| `idx[w]` | index rows of a word in a field: document and version |
| `docid[d]` | row under `20#d`: version and the list of keys |
| `wr[p]` | the request process `p` is in: next call, document, content, version, keys left |
| `list`, `temp`, `flush` | `DeleteTask`'s `_InfoHead` list, `temp_result`, and whether a flush is under way, with the mutex (`locked`) or without (`timed`) |
| `rd` | a search between `GetDocInfo` and `DocValid` |

An action is one storage call with all that the code does up to the next one; DTC
executes a key's requests one at a time. An add is `BeginAdd` (read the
snapshot), `UpdateSnapshotVersion` or `InsertSnapshotVersion` (take the version),
`InsertIndex` per word, `HandleUnifiedIndex`, `RetireOld` (read `20#d`, queue the
old rows), `Commit`, `UpdateDocidIndex`; on an error `UndoIndex` per recorded key
and `UndoSnapshot`. A delete is `BeginDelete`, `DeleteRetire`, `DeleteSnapshot`,
`DeleteDocid`. Each call ends as `Outcome` says: executed; refused; or executed with
the answer lost. `Crash` drops what the process has in memory. The update of
several rows, the duplicate key and the delete that stops at a row that does not
match are those of `RocksTable`.

A row of the index table is stored under a DTC key made of the word; the field is
the last column of its unique index. A member of `Words` is a word *in a field*, and
`DtcKey` says which of them have the same word and hence the same DTC key: a
delete of one row scans `KeyRows`, the rows of all fields under that key, and leaves
`LeftAfterDelete`. Searches name the field; a search without one is not modelled.
`NewestRows` is the loop of `GetDocInfo` that compares a row with the one read before
it: the rows of a document come one after the other, because the storage returns
them in RocksDB's order (document first) and the cache is taken as transparent.

Abstractions: a content is the set of words in fields its text gives, one union key
stands for all; the content in the snapshot row is that same set; the two
containers of DeleteTask are sets, so that items are deleted in any order; the
loop of `RegisterInfo` calls is one step (the thread can take over part of it, which
only changes how items are grouped in flushes); first reads that fail change nothing and are left out; one searcher
validates all its documents in one step, where the code reads 32 per call (a
document's verdict depends on its own row only).
Versions are naturals: a 32-bit counter that one add increments by one does not
wrap in use.

The searcher's optional cache of index rows only makes the time between
`GetDocInfo` and `DocValid` longer, which the model leaves unbounded.

### DocStore

One published content per document, replaced in one step by a higher version, and
searches that return only documents that have the key. `IndexWrite` implements it
with `pub[d]` the dv and keys of the snapshot row.

## 4. The runs

| run | instance | result |
| --- | --- | --- |
| `rocks_ops` | key columns 0..2 and 0..1, so up to six rows, values 0..1 | passes, 6899 states |
| `iw_race` | 2 writers, 1 document, contents {1}, {1,2}, union of 1 and 2, one word in two fields (one DTC key), 3 adds, searches for 2 | passes, 0.66 million states |
| `iw_crash` | 1 writer, 1 old and 1 new document, a DTC key per word, 3 adds, 2 crashes, searches | passes, 1.6 million states |
| `iw_live` | 1 writer, 3 adds or deletes, one DTC key, 1 failure of any kind, 1 crash, with fairness | passes, 0.16 million states |
| `rocks_delete` | columns 0..1, so up to four rows | `DeleteExact` is violated |
| `iw_rollback` | 1 add with a malformed field | `RollbackRemovesRows` is violated |
| `iw_refused_commit` | 1 add, 1 refused call | `QuietSearchable` is violated |
| `iw_first_insert` | 2 writers, 1 new document | `FirstInsertIsNew` is violated |
| `iw_readd` | delete, add, add of one document | `QuietSearchable` is violated |

What they show:

* The conditional update of `trans_version` is a lock (`ExclusiveVersion`); rows with
  the published version are rows of the published content (`SearchSound`), also
  after a crash at any point; a search that overlaps adds and flushes returns only
  documents that have the key (`AnswerSound`, for adds only: a delete and a new add
  between the two reads use the same version for another content); a document at rest is found by each
  of its keys while DeleteTask still has work to do (`SettledSearchable`); and the
  whole implements `DocStore`.
* `SettledSearchable` is checked without crashes only: an add that dies leaves rows
  of an unpublished version which `GetDocInfo` prefers, and the document is not
  found by the words the two contents share until the next add. While an add is
  at work the same happens for a moment.
* `RequestsEnd` and `RetiredFlushed` hold with failures, crashes, roll backs and
  deletes.
* From every reachable set of rows, an update that is not refused changes exactly
  the rows of its condition and overwrites none, although its checks are made row by
  row against keys it has moved, will move or leaves alone (`UpdateExact`); and the
  scans come to the closed forms (`ScansAgree`).

The violations are disagreements of the code with its own comments and
documentation, described in `PROJECT.json` under `findings`. The central one is
`process_delete`: its flag `condMatch` is declared before the loop, so one row that
does not match protects all rows behind it. Roll backs and DeleteTask rely on such
deletes and leave rows of failed or replaced versions behind. Those rows are
harmless as long as versions are never used twice, and a roll back and a delete
followed by an add do use a version twice. `iw_readd` shows the latter: the delete
leaves its row of version 1 to DeleteTask; the new add, version 1 again, meets that
row, is refused as a duplicate and rolled back, which removes the row; the add that
is sent again succeeds as version 1; and DeleteTask's late delete takes its row.

An insert of a union key that fails is only logged (`HandleUnifiedIndex`): the
document is then not found by that key. The model has that step, but the code
accepts the loss and no text promises otherwise, so no property states it.

**Bounds.** Three adds by two writers allow a race, its loser's next attempt and the
flush of replaced rows; two contents, one contained in the other, give words that
stay and words that go; two crashes allow a crash in the add that follows a crash.
A key column of three values lets an update move one row onto a row that it moves
later and that one onto a third.
Commands are bounded, so the IndexWrite runs may stop and deadlock is not checked
there; `RequestsEnd` covers requests that get stuck. `iw_race` uses the symmetry of
the writers; the runs that check liveness do not.

**Fairness.** Weak fairness of a writer's request and of the DeleteTask thread: every
DTC call returns or times out after 300 ms, both threads are ordinary threads of a
running process, and the mutex is only held for finite flushes. Nothing is assumed
of commands, of searches, of failures or of crashes.

## 5. Proofs

Checked by TLAPS. Each module extends the one before it: `IndexWriteTypes` (type
correctness), `IndexWriteSteps` (the initial states, and the lemmas on the steps that
take a version), `IndexWriteSound` (one lemma per action, the invariant and what
follows from it), `IndexWriteRefines` (the refinement). They are separate modules
because the prover slows down with the number of obligations of a module.

| theorem | states | assumes |
| --- | --- | --- |
| `TypeCorrect` | `Spec => []TypeOK` | `ConstantsAssumption` |
| `Invariant` | `Spec => []IInv` | and `AddOnly` |
| `Exclusion` | `Spec => []ExclusiveVersion` | and `AddOnly` |
| `SoundRows` | `Spec => []SearchSound` | and `AddOnly` |
| `SoundAnswers` | `Spec => AnswerSound` | and `AddOnly` |
| `Refinement` | `Spec => ImplementsDocStore` | and `AddOnly` |

They hold for any sets of writers, documents, words and contents and any bounds.
`AddOnly` says that only adds are sent, that no call fails, and that no two writers
race to make a document's first snapshot row; crashes are allowed. Outside it a
version can be used twice: a roll back gives its version back, an add after a delete
starts from 1, and a late first insert makes a second snapshot row that starts from
1 (`iw_first_insert`).

`TypeCorrect` needs no strengthening but that the version of an add is positive, so
that giving it back (`trans_version - 1`) stays natural.

`IInv`: `SearchSound` alone is not inductive, because a commit publishes a version
whose rows were inserted by many earlier steps. `IInv` adds
* `SnapInv`: a document has one snapshot row, with dv <= tv;
* `JobInv`: a request that builds version v has v <= tv and v # dv; one that is
  about to take v has v <= tv + 1; one that rolls back has lost v to a later
  version (v < tv), so that its `UndoSnapshot` changes nothing;
* `ExclusiveVersion`;
* `RowInv` for every row in the storage and in the searcher's hands: its version is
  at most tv; if it is dv its key is one of the published content; if someone is
  building it, its key is one they have inserted already.

A commit of v by p then publishes only rows that `RowInv` attributes to p, and by
`ExclusiveVersion` nobody else builds v. The refinement follows: a step changes
`pub` only in `Commit`, to a higher version, and `DocValid`'s answers are sound because
`RowInv` also holds of the rows read earlier.

Only model-checked: liveness (`RequestsEnd`, `RetiredFlushed`), `SettledSearchable`, and
all of `RocksProcess`, whose scans are folds over sorted sequences.

## 6. Not modelled

In the modelled parts: pinyin and geography rows (`insert_intelligent`,
`delete_hanpin_index`, whose failure ends a delete before anything is deleted, and
the parsers' `RollBackSelfIndex`); how text becomes keys; several union keys; scores
and boolean queries; `select`, key and value encodings of the helper; the cache,
which is taken as transparent until step 3 of the plan.

Whole components: see the plan for those to come. The memory pool, hash, T-tree
and row format are pointer structures in shared memory; query parsing, scoring,
segmentation, `comm` and `3rdlib` are computation and I/O without shared state.

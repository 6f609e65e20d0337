----------------------------- MODULE RocksTable -----------------------------
(***************************************************************************)
(* What the RocksDB helper does to the rows stored under ONE DTC key.      *)
(*                                                                         *)
(* The helper stores a table row as one RocksDB entry whose key is the DTC *)
(* key followed by the other columns of the table's unique index, and it   *)
(* serves a request by scanning, in RocksDB order, the entries that have   *)
(* the DTC key as prefix.  The operators below give the outcome of each    *)
(* request in closed form, as sets; RocksProcess has the row-by-row scans  *)
(* and checks that they come to the same.                                  *)
(*                                                                         *)
(* KeyOf(r) is the RocksDB key of row r and Before(r, s) the RocksDB order *)
(* of two rows of one DTC key.                                             *)
(***************************************************************************)
CONSTANTS KeyOf(_), Before(_, _)

(***************************************************************************)
(* RocksDB's Put, and the Puts of a write batch: whatever is stored under  *)
(* the key of a new row is overwritten.                                    *)
(***************************************************************************)
Put(rows, newRows) ==
  {r \in rows : \A n \in newRows : KeyOf(n) # KeyOf(r)} \cup newRows

(***************************************************************************)
(* process_replace: replace_entry is one Put.                              *)
(***************************************************************************)
process_replace(rows, row) == Put(rows, {row})

(***************************************************************************)
(* process_insert: insert_entry refuses a key that is already stored.      *)
(***************************************************************************)
insert_rejected(rows, row) == \E r \in rows : KeyOf(r) = KeyOf(row)

process_insert(rows, row) ==
  IF insert_rejected(rows, row) THEN rows ELSE process_replace(rows, row)

(***************************************************************************)
(* batch_update: one atomic write batch deletes the entries of deletedKeys *)
(* and then Puts the new rows.                                             *)
(***************************************************************************)
batch_update(rows, deletedKeys, newRows) ==
  Put({r \in rows : KeyOf(r) \notin deletedKeys}, newRows)

(***************************************************************************)
(* process_update with at least one unique-key column among the updated    *)
(* ones.  new maps every row that meets the request's condition to the row *)
(* it becomes.  The whole request is refused when a new key is the key of  *)
(* a row under the DTC key (even the row's own), or is made twice;         *)
(* otherwise one batch moves all the rows.                                 *)
(***************************************************************************)
update_rejected(rows, new) ==
  \/ \E r \in DOMAIN new, s \in rows : KeyOf(new[r]) = KeyOf(s)
  \/ \E r, s \in DOMAIN new : r # s /\ KeyOf(new[r]) = KeyOf(new[s])

process_update(rows, new) ==
  IF update_rejected(rows, new)
  THEN rows
  ELSE batch_update(rows, {KeyOf(r) : r \in DOMAIN new},
                    {new[r] : r \in DOMAIN new})

(***************************************************************************)
(* process_delete.  hit is the set of rows that meet the request's         *)
(* condition.  The flag condMatch is set before the scan and never set     *)
(* again once a row has cleared it, so only the rows of hit that precede   *)
(* every other row are deleted.                                            *)
(***************************************************************************)
deleted_rows(rows, hit) ==
  {r \in hit : \A s \in rows : Before(s, r) => s \in hit}

process_delete(rows, hit) == rows \ deleted_rows(rows, hit)
=============================================================================

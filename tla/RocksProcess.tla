---------------------------- MODULE RocksProcess ----------------------------
(***************************************************************************)
(* The requests of the RocksDB helper (RocksdbProcess) on the rows of one  *)
(* DTC key, as the row-by-row scans of the code.                           *)
(*                                                                         *)
(* A row has two columns of the unique index, a and b, and one other, val. *)
(* The DTC layer sends the helper one request for a key at a time, so each *)
(* request is one action.                                                  *)
(***************************************************************************)
EXTENDS Integers, FiniteSets, SequencesExt

CONSTANTS MaxA,     \* column a holds 0 .. MaxA,
          MaxVal    \* the other columns 0 .. MaxVal

ASSUME BoundsAssumption == MaxA \in Nat /\ MaxVal \in Nat

VARIABLES rows,     \* the rows under the key
          reply     \* the last request and its answer: error, affected rows

vars == <<rows, reply>>

Value == 0 .. MaxVal
Row == [a : 0 .. MaxA, b : Value, val : Value]

RowKey(r) == <<r.a, r.b>>
RowBefore(r, s) == r.a < s.a \/ (r.a = s.a /\ r.b < s.b)
T == INSTANCE RocksTable WITH KeyOf <- RowKey, Before <- RowBefore

Ok(req, n) == [req |-> req, err |-> FALSE, affected |-> n]
Dup(req) == [req |-> req, err |-> TRUE, affected |-> 0]

(* The rows in the order of RocksDB's iterator (next_entry).               *)
InOrder(S) ==
  [i \in 1 .. Cardinality(S) |->
     CHOOSE r \in S : Cardinality({s \in S : RowBefore(s, r)}) = i - 1]

(***************************************************************************)
(* The inputs: a condition is EQ on one column, or none (col "any"); an    *)
(* operation sets one column to x or adds x to it.                         *)
(***************************************************************************)
Cond == [col : {"a"}, x : 0 .. MaxA] \cup [col : {"b", "val"}, x : Value]
          \cup {[col |-> "any", x |-> 0]}
Op == [col : {"a"}, add : BOOLEAN, x : 0 .. MaxA]
        \cup [col : {"b", "val"}, add : BOOLEAN, x : Value]

(* condition_filter over the columns of a row.                             *)
Matches(r, cond) == cond.col = "any" \/ r[cond.col] = cond.x

(* update_row: the row after the operation.                                *)
Updated(r, op) == [r EXCEPT ![op.col] = IF op.add THEN @ + op.x ELSE op.x]

(* whether_update_key: is a column of the unique index updated?            *)
UpdatesKey(op) == op.col \in {"a", "b"}

(***************************************************************************)
(* process_update, keys updated: the loop keeps the keys of the rows that  *)
(* stay (originKeys), of the rows that move (deletedKeys) and the new rows *)
(* (newEntries), and gives up on the first key it meets twice.             *)
(***************************************************************************)
(* Faulty variants: the keys of the rows that stay are not looked at; a    *)
(* row is not compared with the rows already made.                         *)
UpdateStepOver(cond, op, s, r) ==
  LET new == Updated(r, op)
      newKeys == {RowKey(n) : n \in s.new}
  IN IF s.err \/ RowKey(r) \in newKeys THEN [s EXCEPT !.err = TRUE]
     ELSE IF ~Matches(r, cond) THEN s
     ELSE IF RowKey(new) = RowKey(r) \/ RowKey(new) \in newKeys \cup s.deleted
          THEN [s EXCEPT !.err = TRUE]
     ELSE [s EXCEPT !.deleted = @ \cup {RowKey(r)}, !.new = T!Put(@, {new})]
UpdateStepLate(cond, op, s, r) ==
  LET new == Updated(r, op)
      newKeys == {RowKey(n) : n \in s.new}
  IN IF s.err THEN s
     ELSE IF ~Matches(r, cond) THEN [s EXCEPT !.origin = @ \cup {RowKey(r)}]
     ELSE IF \/ RowKey(new) = RowKey(r)
             \/ RowKey(new) \in s.origin \cup newKeys \cup s.deleted
          THEN [s EXCEPT !.err = TRUE]
     ELSE [s EXCEPT !.deleted = @ \cup {RowKey(r)}, !.new = T!Put(@, {new})]

UpdateStep(cond, op, s, r) ==
  LET new == Updated(r, op)
      newKeys == {RowKey(n) : n \in s.new}
  IN IF s.err \/ RowKey(r) \in newKeys THEN [s EXCEPT !.err = TRUE]
     ELSE IF ~Matches(r, cond) THEN [s EXCEPT !.origin = @ \cup {RowKey(r)}]
     ELSE IF \/ RowKey(new) = RowKey(r)
             \/ RowKey(new) \in s.origin \cup newKeys \cup s.deleted
          THEN [s EXCEPT !.err = TRUE]
     ELSE [s EXCEPT !.deleted = @ \cup {RowKey(r)}, !.new = T!Put(@, {new})]

UpdateKeyScan(S, cond, op) ==
  FoldLeft(LAMBDA s, r : UpdateStep(cond, op, s, r),
           [err |-> FALSE, origin |-> {}, deleted |-> {}, new |-> {}],
           InOrder(S))

(* process_update, only values updated: every row that matches is Put      *)
(* under its own key.                                                      *)
UpdateValueScan(S, cond, op) ==
  [err |-> FALSE, deleted |-> {},
   new |-> {Updated(r, op) : r \in {q \in S : Matches(q, cond)}}]

(* What the loop comes to, and the batch that follows it.                  *)
UpdateScan(S, cond, op) ==
  IF UpdatesKey(op) THEN UpdateKeyScan(S, cond, op)
  ELSE UpdateValueScan(S, cond, op)

AfterUpdate(S, s) == IF s.err THEN S ELSE T!batch_update(S, s.deleted, s.new)

(***************************************************************************)
(* process_delete: condMatch is declared before the loop and only ever     *)
(* cleared in it.                                                          *)
(***************************************************************************)
DeleteStep(cond, s, r) ==
  LET condMatch == s.condMatch /\ Matches(r, cond)
  IN [condMatch |-> condMatch,
      deleted |-> IF condMatch THEN s.deleted \cup {r} ELSE s.deleted]

DeleteScan(S, cond) ==
  FoldLeft(LAMBDA s, r : DeleteStep(cond, s, r),
           [condMatch |-> TRUE, deleted |-> {}], InOrder(S)).deleted

-----------------------------------------------------------------------------
Init == rows = {} /\ reply = Ok("none", 0)

process_insert(row) ==
  /\ rows' = T!process_insert(rows, row)
  /\ reply' = IF T!insert_rejected(rows, row) THEN Dup("insert")
              ELSE Ok("insert", 1)

process_update(cond, op) ==
  LET s == UpdateScan(rows, cond, op)
      hit == {r \in rows : Matches(r, cond)}
      new == AfterUpdate(rows, s)
  IN /\ new \subseteq Row       \* bound: no column grows past its values
     /\ rows' = new
     /\ reply' = IF s.err THEN Dup("update") ELSE Ok("update", Cardinality(hit))

(* Faulty variant: the affected rows are counted from zero.                *)
process_delete_short(cond) ==
  /\ rows' = rows \ DeleteScan(rows, cond)
  /\ reply' = Ok("delete", Cardinality(DeleteScan(rows, cond)) - 1)

process_delete(cond) ==
  /\ rows' = rows \ DeleteScan(rows, cond)
  /\ reply' = Ok("delete", Cardinality(DeleteScan(rows, cond)))

process_replace(row) ==
  /\ rows' = T!process_replace(rows, row)
  /\ reply' = Ok("replace", 1)

Next ==
  \/ \E row \in Row : process_insert(row)
  \/ \E cond \in Cond, op \in Op : process_update(cond, op)
  \/ \E cond \in Cond : process_delete(cond)
  \/ \E row \in Row : process_replace(row)

Spec == Init /\ [][Next]_vars

-----------------------------------------------------------------------------
(* Rows and replies are of their types.                                    *)
TypeOK ==
  /\ rows \subseteq Row
  /\ reply \in [req : {"none", "insert", "update", "delete", "replace"},
               err : BOOLEAN, affected : Nat]

(* Whatever rows are stored, the scans of process_update and               *)
(* process_delete come to the closed forms of RocksTable, which the other  *)
(* modules use and prove about.                                            *)
ScansAgree ==
  /\ \A cond \in Cond, op \in Op : UpdatesKey(op) =>
       LET new == [r \in {q \in rows : Matches(q, cond)} |-> Updated(r, op)]
           s == UpdateScan(rows, cond, op)
       IN /\ s.err = T!update_rejected(rows, new)
          /\ AfterUpdate(rows, s) = T!process_update(rows, new)
  /\ \A cond \in Cond :
       DeleteScan(rows, cond) =
         T!deleted_rows(rows, {q \in rows : Matches(q, cond)})

(* process_update overwrites no row, though its batch is made of Puts: for *)
(* every update that is not refused, each row of its condition is there as *)
(* it has become, every other row as it was, and there are as many rows as *)
(* before.                                                                 *)
UpdateExact ==
  \A cond \in Cond, op \in Op :
    LET s == UpdateScan(rows, cond, op)
        hit == {r \in rows : Matches(r, cond)}
        new == AfterUpdate(rows, s)
    IN ~s.err => /\ new = (rows \ hit) \cup {Updated(r, op) : r \in hit}
                 /\ Cardinality(new) = Cardinality(rows)

(* A delete removes every row that meets its condition, what the comment   *)
(* above the loop announces.  (It does not: condMatch is not set again.)   *)
DeleteExact ==
  [][\A cond \in Cond : process_delete(cond) =>
       rows' = {r \in rows : ~Matches(r, cond)}]_vars
=============================================================================

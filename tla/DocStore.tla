------------------------------ MODULE DocStore ------------------------------
(***************************************************************************)
(* What the index promises to the outside: each document has one published *)
(* content under a version that only grows, a new content replaces the old *)
(* one in a single step, and a search never returns a document whose       *)
(* published content does not have the key searched for.  (It may miss     *)
(* one: IndexWrite explains when.)                                         *)
(***************************************************************************)
EXTENDS Integers

CONSTANTS Docs, Keys

VARIABLES pub,    \* pub[d]: the published version and keys of document d
          answer  \* the last search: its key and the documents it found

Published == [ver : Nat, keys : SUBSET Keys]

Init ==
  /\ pub \in [Docs -> Published]
  /\ answer.found = {}

Publish(d) ==
  /\ pub'[d] \in Published
  /\ pub'[d].ver > pub[d].ver
  /\ pub' = [pub EXCEPT ![d] = pub'[d]]
  /\ UNCHANGED answer

Search ==
  /\ \A d \in answer'.found : answer'.word \in pub[d].keys
  /\ UNCHANGED pub

Next == Search \/ \E d \in Docs : Publish(d)

Spec == Init /\ [][Next]_<<pub, answer>>
=============================================================================

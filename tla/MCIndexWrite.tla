---------------------------- MODULE MCIndexWrite ----------------------------
(***************************************************************************)
(* Instances of IndexWrite for TLC.                                        *)
(***************************************************************************)
EXTENDS IndexWrite, TLC

TwoWords == {1, 2}
OwnKeys == [w \in TwoWords |-> w]      \* two words
SharedKey == [w \in TwoWords |-> 1]    \* one word in two fields
TwoContents == {{1}, {1, 2}}
DisjointContents == {{1}, {2}}
AnyContent == {{1}, {2}, {1, 2}}

WriterSymmetry == Permutations(Writers)
=============================================================================

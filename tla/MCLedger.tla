------------------------------ MODULE MCLedger ------------------------------
(* One platform lives in the checkout, the other in a repository of its    *)
(* own with one epic; a commit may touch both platforms' directories.      *)
EXTENDS Ledger, TLC

CONSTANTS self, ext, e1, n1

MCOwner  == [e \in Epics |-> ext]
MCNumber == [e \in Epics |-> n1]
Docs == [touches |-> {self, ext}, first |-> self, kind |-> "owned", tag |-> n1]
Code == [touches |-> {}, first |-> self, kind |-> "code", tag |-> NoEpic]
MCChanges == {Docs, Code}
Symmetric == Permutations(Commits) \cup Permutations(Ingesters)
=============================================================================

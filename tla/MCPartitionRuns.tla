--------------------------- MODULE MCPartitionRuns ---------------------------
(* Small instances of PartitionRuns; the documents are their ids. *)
EXTENDS PartitionRuns, TLC

ThreeDocs == 1 .. 3
Same == [d \in Docs |-> d]
OneYear == [d \in Docs |-> 1]
=============================================================================

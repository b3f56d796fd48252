---------------------------- MODULE PartitionSlice ----------------------------
(***************************************************************************)
(* get_partition_slice: the k-th of `total` contiguous parts of a list of  *)
(* documents (--partition k/total).  The first n % total parts are one     *)
(* longer than the others.                                                 *)
(***************************************************************************)
EXTENDS Integers, Sequences

\* How many of n documents part i has.
ShareOffByOne(i, n, total) == n \div total + (IF i < n % total THEN 1 ELSE 0)   \* mutant
Share(i, n, total) == n \div total + (IF i <= n % total THEN 1 ELSE 0)

\* The loop that adds up the parts before part k.
PartitionStart(n, total) ==
    LET start[k \in Nat] == IF k <= 1 THEN 0 ELSE start[k - 1] + Share(k - 1, n, total)
    IN  start

\* The positions part k has of n.
Positions(k, n, total) ==
    LET start == PartitionStart(n, total)[k]
    IN  start + 1 .. start + Share(k, n, total)

PartitionSlice(docs, k, total) ==
    LET start == PartitionStart(Len(docs), total)[k]
    IN  SubSeq(docs, start + 1, start + Share(k, Len(docs), total))
=============================================================================

---------------------------- MODULE MCScannerSync ----------------------------
(* Small instances of ScannerSync. *)
EXTENDS ScannerSync, TLC

CONSTANTS m1, m2, s1, s2, e1, u1

TwoFiles == 1 .. 2
ThreeFiles == 1 .. 3
SecondFile == {2}
NoFile == {}
Urls == [i \in Files |-> u1]
OneMeta == {m1}
TwoMetas == {m1, m2}
TwoSums == {s1, s2}
OneErr == {e1}
NoErr == {}

On(m, c) == [meta |-> m, content |-> c]
\* The metadata of the first document changes, and the file of the second,
\* which may have failed to arrive.
Changing == <<{On(m1, s1), On(m2, s1)}, {On(m1, s1), On(m1, s2), On(m1, e1)}>>
AnySum == [i \in Files |-> {On(m1, s) : s \in TwoSums}]
=============================================================================

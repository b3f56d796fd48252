---------------------------- MODULE PartitionRuns ----------------------------
(***************************************************************************)
(* A batch job: `Total` tasks, each an orchestrator run with --partition   *)
(* k/Total, on `Nodes` machines.  Every task collects documents by status  *)
(* for itself when it starts, and takes its slice of what it then finds.   *)
(***************************************************************************)
EXTENDS PartitionSlice, FiniteSets

CONSTANTS
    Docs,         \* documents
    Total,        \* --jobs: partitions, one task each
    Nodes,        \* --nodes: tasks that run at a time
    RecentFirst,  \* --recent-first
    Year,         \* [Docs -> Nat] year of publication, 0 if none is recorded
    Id            \* [Docs -> Nat] where the document's id sorts

ASSUME JobAssumption ==
    /\ IsFiniteSet(Docs)
    /\ Total \in Nat \ {0}
    /\ Nodes \in Nat \ {0}
    /\ RecentFirst \in BOOLEAN
    /\ Year \in [Docs -> Nat]
    /\ Id \in [Docs -> Nat]
    /\ \A d, e \in Docs : Id[d] = Id[e] => d = e

Tasks == 1 .. Total

VARIABLES
    status,    \* [Docs -> ...] sys_status; "parsed" is any status between stages
    pc,        \* [Tasks -> ...] where a task is
    advanced,  \* [Tasks -> SUBSET Docs] the "parsed" documents it collected
    fresh,     \* [Tasks -> SUBSET Docs] the "downloaded" ones
    list,      \* [Tasks -> Seq(Docs)] what it collected, in order
    next       \* [Tasks -> Nat] position in its slice of that list

vars == <<status, pc, advanced, fresh, list, next>>

Mine(k)  == PartitionSlice(list[k], k, Total)
DocAt(k) == Mine(k)[next[k]]

Init ==
    /\ status \in [Docs -> {"downloaded", "parsed"}]
    /\ pc = [k \in Tasks |-> "queued"]
    /\ advanced = [k \in Tasks |-> {}]
    /\ fresh = [k \in Tasks |-> {}]
    /\ list = [k \in Tasks |-> <<>>]
    /\ next = [k \in Tasks |-> 1]

Moves(k, from, to) == pc[k] = from /\ pc' = [pc EXCEPT ![k] = to]

-----------------------------------------------------------------------------
(* Collection.                                                             *)

Start(k) ==
    /\ Cardinality({j \in Tasks : pc[j] \notin {"queued", "done", "died"}}) < Nodes
    /\ Moves(k, "queued", "start")
    /\ UNCHANGED <<status, advanced, fresh, list, next>>

\* With --recent-first documents are fetched year by year; those without a
\* year are fetched only when no document of that status has one.
Fetched(s) ==
    LET found == {d \in Docs : status[d] = s}
        dated == {d \in found : Year[d] > 0}
    IN  IF RecentFirst /\ dated # {} THEN dated ELSE found

\* Every task fetches the advanced documents first ...
CollectAdvanced(k) ==
    /\ Moves(k, "start", "half")
    /\ advanced' = [advanced EXCEPT ![k] = Fetched("parsed")]
    /\ UNCHANGED <<status, fresh, list, next>>

\* ... so they come first among documents of one year.  The documents of a
\* year are sorted by id; any other fetch has the order the database likes.
UnsortedYears(A, d, e) ==   \* mutant: a year's documents are not sorted
    \/ RecentFirst /\ Year[d] > Year[e]
    \/ (RecentFirst => Year[d] = Year[e]) /\ d \in A /\ e \notin A
Before(A, d, e) ==
    \/ RecentFirst /\ Year[d] > Year[e]
    \/ /\ RecentFirst => Year[d] = Year[e]
       /\ \/ d \in A /\ e \notin A
          \/ /\ RecentFirst /\ Year[d] > 0
             /\ d \in A <=> e \in A
             /\ Id[d] < Id[e]

Lists(A, F) ==
    {s \in [1 .. Cardinality(A \union F) -> A \union F] :
        \A i, j \in DOMAIN s : i < j => s[i] # s[j] /\ ~Before(A, s[j], s[i])}

\* dedupe_docs_by_id, sort_recent_first and get_partition_slice.
CollectFresh(k) ==
    /\ Moves(k, "half", "running")
    /\ fresh' = [fresh EXCEPT ![k] = Fetched("downloaded")]
    /\ \E s \in Lists(advanced[k], Fetched("downloaded")) :
          list' = [list EXCEPT ![k] = s]
    /\ UNCHANGED <<status, advanced, next>>

-----------------------------------------------------------------------------
(* Processing: the slice is worked through whatever has happened since.    *)

Write(k, s) == status' = [status EXCEPT ![DocAt(k)] = s]

Begin(k) ==
    /\ next[k] <= Len(Mine(k))
    /\ Moves(k, "running", "parsing")
    /\ Write(k, "busy")
    /\ UNCHANGED <<advanced, fresh, list, next>>

Parsed(k) ==
    /\ Moves(k, "parsing", "between")
    /\ Write(k, "parsed")
    /\ UNCHANGED <<advanced, fresh, list, next>>

BeginIndex(k) ==
    /\ Moves(k, "between", "indexing")
    /\ Write(k, "busy")
    /\ UNCHANGED <<advanced, fresh, list, next>>

Indexed(k) ==
    /\ Moves(k, "indexing", "running")
    /\ Write(k, "indexed")
    /\ next' = [next EXCEPT ![k] = @ + 1]
    /\ UNCHANGED <<advanced, fresh, list>>

Fail(k) ==
    /\ Moves(k, "parsing", "running") \/ Moves(k, "indexing", "running")
    /\ Write(k, "failed")
    /\ next' = [next EXCEPT ![k] = @ + 1]
    /\ UNCHANGED <<advanced, fresh, list>>

Finish(k) ==
    /\ next[k] > Len(Mine(k))
    /\ Moves(k, "running", "done")
    /\ UNCHANGED <<status, advanced, fresh, list, next>>

Die(k) ==
    /\ pc[k] \notin {"queued", "done"}
    /\ Moves(k, pc[k], "died")
    /\ UNCHANGED <<status, advanced, fresh, list, next>>

Next ==
    \E k \in Tasks :
        \/ Start(k) \/ CollectAdvanced(k) \/ CollectFresh(k)
        \/ Begin(k) \/ Parsed(k) \/ BeginIndex(k) \/ Indexed(k) \/ Fail(k)
        \/ Finish(k) \/ Die(k)

Spec == Init /\ [][Next]_vars

-----------------------------------------------------------------------------
DocStatus == {"downloaded", "parsed", "busy", "indexed", "failed"}
Places == {"queued", "start", "half", "running", "parsing", "between", "indexing",
           "done", "died"}

TypeOK ==
    /\ status \in [Docs -> DocStatus]
    /\ pc \in [Tasks -> Places]
    /\ advanced \in [Tasks -> SUBSET Docs]
    /\ fresh \in [Tasks -> SUBSET Docs]
    /\ list \in [Tasks -> Seq(Docs)]
    /\ next \in [Tasks -> Nat]

Slice(k) == {Mine(k)[i] : i \in 1 .. Len(Mine(k))}
Listed(k) == {list[k][i] : i \in 1 .. Len(list[k])}
Drawn(k) == pc[k] \in {"running", "parsing", "between", "indexing", "done"}

\* Tasks that collected the same list share no document, and if all of them
\* did, every document of it is in a slice (get_partition_slice).
SameListSplit ==
    /\ \A j, k \in Tasks : j # k /\ list[j] = list[k] => Slice(j) \intersect Slice(k) = {}
    /\ \A j \in Tasks : (\A k \in Tasks : list[k] = list[j]) =>
          UNION {Slice(k) : k \in Tasks} = Listed(j)

\* With --recent-first, tasks that found every document in the same stage share
\* none of those that have a year: the order does not depend on the database.
SnapshotSplit ==
    \A j, k \in Tasks :
        /\ RecentFirst /\ j # k /\ Drawn(j) /\ Drawn(k)
        /\ advanced[j] = advanced[k] /\ fresh[j] = fresh[k]
        /\ \A d \in Listed(j) : Year[d] > 0
        => Slice(j) \intersect Slice(k) = {}

\* "Each partition is independent with no overlap."
NoOverlap ==
    \A j, k \in Tasks : j # k /\ Drawn(j) /\ Drawn(k) => Slice(j) \intersect Slice(k) = {}
=============================================================================

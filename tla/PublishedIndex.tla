---------------------------- MODULE PublishedIndex ----------------------------
(***************************************************************************)
(* What the pipeline promises to search: a document is published whole,    *)
(* text rows and vector points together, or it is not published at all.    *)
(* Documents are published and withdrawn one at a time.                    *)
(***************************************************************************)
CONSTANTS Docs, PartsOf

VARIABLES published, text, vectors

Init ==
    /\ published = [d \in Docs |-> FALSE]
    /\ text      = [d \in Docs |-> {}]
    /\ vectors   = [d \in Docs |-> {}]

Publish(d) ==
    /\ ~published[d]
    /\ published' = [published EXCEPT ![d] = TRUE]
    /\ text'      = [text EXCEPT ![d] = PartsOf[d]]
    /\ vectors'   = [vectors EXCEPT ![d] = PartsOf[d]]

Withdraw(d) ==
    /\ published[d]
    /\ published' = [published EXCEPT ![d] = FALSE]
    /\ text'      = [text EXCEPT ![d] = {}]
    /\ vectors'   = [vectors EXCEPT ![d] = {}]

Next == \E d \in Docs : Publish(d) \/ Withdraw(d)

Spec == Init /\ [][Next]_<<published, text, vectors>>
=============================================================================

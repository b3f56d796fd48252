------------------------------ MODULE ParseParts ------------------------------
(***************************************************************************)
(* A long PDF is parsed in parts (parse_with_chunking): split into files   *)
(* of ChunkSize pages, each parsed under an alarm of its own, and what was *)
(* parsed merged into one markdown file, one JSON document for the indexer *)
(* and one table of contents.  A part may fail or run out of time: the     *)
(* merge goes on without it.  The folder of the document is kept from one  *)
(* parse to the next.                                                      *)
(***************************************************************************)
EXTENDS Integers, Sequences, FiniteSets, SequencesExt

CONSTANTS
    Lengths,    \* page counts of the files
    ChunkSize,
    MaxTries    \* bound: the parses of one file

ASSUME PartsAssumption ==
    /\ Lengths \subseteq Nat \ {0}
    /\ ChunkSize \in Nat \ {0}
    /\ MaxTries \in Nat

VARIABLES
    pages,      \* of the file
    doing,      \* "none", "next", what is being done to the present part, or "leave"
    alarm,      \* of the process: "off" or the number of the part it was set for
    results,    \* the parts parsed so far: whether with success
    temporary,  \* the parts that lie in the temporary directory
    verdict,    \* what the last parse returned: "none", "parsed" or "failed"
    jsonPages,       \* the JSON file: for each of its pages the page of the file it holds
    jsonIsNew,      \* it was written by the present parse
    contents,   \* toc.txt: pairs of the page it gives and the page of the file;
                \* the page headings of the markdown are the same
    tries       \* how often the file was parsed

partsVars == <<pages, doing, alarm, results, temporary, verdict, jsonPages, jsonIsNew,
               contents, tries>>

PartsInit ==
    /\ pages \in Lengths
    /\ doing = "none"
    /\ alarm = 0
    /\ results = <<>>
    /\ temporary = {}
    /\ verdict = "none"
    /\ jsonPages = <<>>
    /\ jsonIsNew = FALSE
    /\ contents = {}
    /\ tries = 0

-----------------------------------------------------------------------------
\* split_pdf: the first and the last page of a part
PartCount == (pages + ChunkSize - 1) \div ChunkSize
StartPage(k) == (k - 1) * ChunkSize + 1
EndPage(k) == Min({k * ChunkSize, pages})
PagesOf(k) == StartPage(k) .. EndPage(k)
Present == Len(results) + 1

SplitFile ==
    /\ doing \in {"none", "leave"}
    /\ temporary = {}
    /\ tries < MaxTries
    /\ tries' = tries + 1
    /\ temporary' = 1 .. PartCount
    /\ results' = <<>>
    /\ jsonIsNew' = FALSE
    /\ verdict' = "none"
    /\ doing' = "next"
    /\ UNCHANGED <<pages, alarm, jsonPages, contents>>

\* before the `try`: the parts written so far stay in a directory nothing removes
SplitFails ==
    /\ doing \in {"none", "leave"}
    /\ temporary = {}
    /\ tries < MaxTries
    /\ tries' = tries + 1
    /\ verdict' = "failed"
    /\ doing' = "leave"
    /\ UNCHANGED <<pages, alarm, results, temporary, jsonPages, jsonIsNew, contents>>

SetAlarm ==
    /\ doing = "next"
    /\ Present \in temporary
    /\ alarm' = Present
    /\ doing' = "convert"
    /\ UNCHANGED <<pages, results, temporary, verdict, jsonPages, jsonIsNew, contents, tries>>

\* The work of parse_chunk in its order; superscripts and headings are looked
\* for by helpers that swallow whatever is raised in them.
Following == [convert |-> "superscripts", superscripts |-> "postprocess",
              postprocess |-> "headings", headings |-> "contents", contents |-> "parsed"]
Swallowing == {"superscripts", "headings"}

Proceed ==
    /\ doing \in DOMAIN Following
    /\ doing' = Following[doing]
    /\ UNCHANGED <<pages, alarm, results, temporary, verdict, jsonPages, jsonIsNew, contents, tries>>

\* what is raised elsewhere ends the part
Raise ==
    /\ doing \in DOMAIN Following \ Swallowing
    /\ doing' = "unparsed"
    /\ UNCHANGED <<pages, alarm, results, temporary, verdict, jsonPages, jsonIsNew, contents, tries>>

\* The alarm raises in whatever runs, once.  In a helper that swallows it the part
\* goes on with no limit; on the way out of parse_chunk it costs a parsed part.
AlarmRings ==
    /\ alarm # 0
    /\ alarm' = 0
    /\ doing' = IF doing \in Swallowing THEN Following[doing] ELSE "unparsed"
    /\ UNCHANGED <<pages, results, temporary, verdict, jsonPages, jsonIsNew, contents, tries>>

\* the alarm is only cleared for a part that was parsed
ClearWhenParsed ==
    /\ doing \in {"parsed", "unparsed"}
    /\ alarm' = IF doing = "parsed" THEN 0 ELSE alarm
    /\ results' = Append(results, doing = "parsed")
    /\ doing' = "next"
    /\ UNCHANGED <<pages, temporary, verdict, jsonPages, jsonIsNew, contents, tries>>
ClearAlarm ==
    /\ doing \in {"parsed", "unparsed"}
    /\ alarm' = 0
    /\ results' = Append(results, doing = "parsed")
    /\ doing' = "next"
    /\ UNCHANGED <<pages, temporary, verdict, jsonPages, jsonIsNew, contents, tries>>

-----------------------------------------------------------------------------
Succeeded == {k \in DOMAIN results : results[k]}

\* The pages of the file that a part holds, in their order.
PartPages(k) == [i \in 1 .. Cardinality(PagesOf(k)) |-> StartPage(k) + i - 1]

\* DoclingDocument.concatenate numbers the pages of each document after those
\* before it, so a part that is missing leaves no gap.
Concatenated ==
    LET joined[n \in 0 .. Len(results)] ==
            IF n = 0 THEN <<>>
            ELSE IF n \in Succeeded THEN joined[n - 1] \o PartPages(n) ELSE joined[n - 1]
    IN  joined[Len(results)]

\* _get_heading_page, _write_chunk_parts
AtPage(k, i) == StartPage(k) + i - 1
Numbered ==
    UNION {{<<AtPage(k, i), StartPage(k) + i - 1>> : i \in DOMAIN PartPages(k)} : k \in Succeeded}

AllTried == doing = "next" /\ Present \notin temporary

Leave(result) ==
    /\ verdict' = result
    /\ doing' = "leave"
    /\ UNCHANGED <<pages, alarm, results, temporary, tries>>

NoneParsed ==
    /\ AllTried
    /\ Succeeded = {}
    /\ Leave("failed")
    /\ UNCHANGED <<jsonPages, jsonIsNew, contents>>

\* merge_chunks writes the markdown, then the JSON, then the contents.  A JSON
\* that cannot be merged or saved is only logged: the one of an earlier parse stays.
MergeParts(merges) ==
    /\ AllTried
    /\ Succeeded # {}
    /\ jsonPages' = IF merges THEN Concatenated ELSE jsonPages
    /\ jsonIsNew' = merges
    /\ contents' = Numbered
    /\ Leave("parsed")

\* The markdown of a part or the contents cannot be written; in the second case
\* the JSON is already there.
MergeFails(merged) ==
    /\ AllTried
    /\ Succeeded # {}
    /\ jsonPages' = IF merged THEN Concatenated ELSE jsonPages
    /\ jsonIsNew' = merged
    /\ Leave("failed")
    /\ UNCHANGED contents

CleanUp ==
    /\ doing = "leave"
    /\ temporary # {}
    /\ temporary' = {}
    /\ UNCHANGED <<pages, doing, alarm, results, verdict, jsonPages, jsonIsNew, contents, tries>>

PartsNext ==
    \/ SplitFile
    \/ SplitFails
    \/ SetAlarm
    \/ Proceed
    \/ Raise
    \/ AlarmRings
    \/ ClearAlarm
    \/ NoneParsed
    \/ \E merges \in BOOLEAN : MergeParts(merges)
    \/ \E merged \in BOOLEAN : MergeFails(merged)
    \/ CleanUp

PartsSpec == PartsInit /\ [][PartsNext]_partsVars

-----------------------------------------------------------------------------
\* An alarm rings in the part it was set for, however the one before it ended:
\* never in another, in the merge or after the parse.
OwnAlarm == alarm # 0 => alarm = Present /\ doing \notin {"none", "next", "leave"}

\* What is parsed is all of the parts that succeeded, page by page in their
\* order; the contents give the page of the file whatever failed; the JSON, from
\* which chunks and their pages are made, does so up to the first part that failed.
PagesAgree ==
    verdict = "parsed" =>
      LET missing == {k \in DOMAIN results : ~results[k]}
          before == {p \in 1 .. pages : \A k \in missing : p < StartPage(k)}
      IN  /\ Len(results) = PartCount
          /\ {c[2] : c \in contents} = UNION {PagesOf(k) : k \in Succeeded}
          /\ \A c \in contents : c[1] = c[2]
          /\ jsonIsNew => /\ ToSet(jsonPages) = {c[2] : c \in contents}
                      /\ \A p \in before : jsonPages[p] = p

PartsAreRight == OwnAlarm /\ PagesAgree
=============================================================================

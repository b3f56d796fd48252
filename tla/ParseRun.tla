------------------------------- MODULE ParseRun -------------------------------
(***************************************************************************)
(* The parser of one worker process over the documents it is given: in its *)
(* own process, with a second attempt by OCR when too few words come out,  *)
(* or in a child process that may be killed or run out of time             *)
(* (PARSE_USE_SUBPROCESS).  The converter is built once and kept, so what  *)
(* an attempt changes in it lasts for the next documents.                  *)
(***************************************************************************)
EXTENDS Sequences

CONSTANTS
    NoOcr,      \* as configured
    Fallback,   \* ocr_fallback
    Isolated    \* use_subprocess: PARSE_USE_SUBPROCESS

ASSUME ParseAssumption == NoOcr \in BOOLEAN /\ Fallback \in BOOLEAN /\ Isolated \in BOOLEAN

\* parser_config, the keywords with which a child builds its parser, and the
\* parameters of ParseProcessor.__init__
Handed == {"output_dir", "table_mode", "no_ocr", "images_scale", "enable_chunking",
           "chunk_size", "chunk_threshold", "chunk_timeout", "use_subprocess",
           "enable_superscripts", "superscript_mode", "ocr_fallback"}
Accepted == {"output_dir", "table_mode", "no_ocr", "images_scale", "enable_chunking",
             "chunk_size", "chunk_threshold", "chunk_timeout", "use_subprocess",
             "subprocess_timeout", "_chunk_overlap", "enable_superscripts",
             "superscript_mode"}

VARIABLES
    parser,     \* "idle", "parsing", "retrying", "joining", "stopping" or "joined"
    noOcr,      \* self.no_ocr
    built,      \* the mode self._converter was built for, "plain" or "ocr"; "none" before
                \* the set-up, "lost" where it could not be built anew
    child,      \* "none", "running", "told" (to stop), "exited" or "killed"
    handedIn,   \* what is in result_queue: "nothing", "parsed" or "error"
    sound,      \* the present document is one that parses
    outcome,    \* what was returned for the document
    tried       \* history: the modes in which the document has been parsed, in order

parseVars == <<parser, noOcr, built, child, handedIn, sound, outcome, tried>>

Mode(plain) == IF plain THEN "plain" ELSE "ocr"

ParseInit ==
    /\ parser = "idle"
    /\ noOcr = NoOcr
    /\ built = "none"
    /\ child = "none"
    /\ handedIn = "nothing"
    /\ sound = FALSE
    /\ outcome = "none"
    /\ tried = <<>>

Returns(result) == parser' = "idle" /\ outcome' = result

-----------------------------------------------------------------------------
(* In the worker's own process (_parse_direct).                            *)

\* ensure_setup builds the converter, once; a set-up that raises changes nothing
SetUp == IF built = "none" THEN Mode(noOcr) ELSE built

\* also with Isolated, once CUDA is in use
ParseHere ==
    /\ parser = "idle"
    /\ parser' = "parsing"
    /\ built' = SetUp
    /\ tried' = IF built = "lost" THEN <<>> ELSE <<SetUp>>
    /\ sound' \in BOOLEAN
    /\ child' = "none"
    /\ outcome' = "none"
    /\ UNCHANGED <<noOcr, handedIn>>

\* _needs_ocr_retry
Retries(found) == Fallback /\ noOcr /\ found = "few words"

\* without a converter the parse raises
Gives(found) ==
    IF built = "lost" THEN found = "error" ELSE sound => found \in {"words", "few words"}

\* _retry_with_ocr builds the other converter first
ParsedHere(found) ==
    /\ parser = "parsing"
    /\ Gives(found)
    /\ IF Retries(found)
       THEN /\ parser' = "retrying"
            /\ noOcr' = FALSE
            /\ built' = "ocr"
            /\ tried' = Append(tried, "ocr")
            /\ UNCHANGED outcome
       ELSE /\ Returns(IF found \in {"words", "few words"} THEN "parsed" ELSE "failed")
            /\ UNCHANGED <<noOcr, built, tried>>
    /\ UNCHANGED <<child, handedIn, sound>>

\* that raises, before the `try` that restores the mode and the converter
RetryUnbuilt(found) ==
    /\ parser = "parsing"
    /\ Gives(found) /\ Retries(found)
    /\ noOcr' = FALSE
    /\ built' = "lost"
    /\ Returns("failed")
    /\ UNCHANGED <<child, handedIn, sound, tried>>

\* the converter is built anew only after a retry that went well
RetriedQuietly(found) ==
    /\ parser = "retrying"
    /\ noOcr' = IF found = "error" THEN noOcr ELSE TRUE
    /\ built' = IF found = "error" THEN built ELSE "plain"
    /\ Returns(IF found = "error" THEN "failed" ELSE "parsed")
    /\ UNCHANGED <<child, handedIn, sound, tried>>

\* `finally` restores the converter, if it can be built; what the first attempt gave
\* stands if the second gave nothing, and an error here is an error of the document
RetriedHere(found) ==
    /\ parser = "retrying"
    /\ noOcr' = TRUE
    /\ built' \in {"plain", "lost"}
    /\ Returns(IF found = "error" \/ built' = "lost" THEN "failed" ELSE "parsed")
    /\ UNCHANGED <<child, handedIn, sound, tried>>

-----------------------------------------------------------------------------
(* In a child (_parse_in_subprocess, _parse_pdf_worker).                   *)

StartChild ==
    /\ Isolated
    /\ parser = "idle"
    /\ parser' = "joining"
    /\ child' = "running"
    /\ handedIn' = "nothing"
    /\ sound' \in BOOLEAN
    /\ outcome' = "none"
    /\ tried' = <<>>
    /\ built' = SetUp
    /\ UNCHANGED noOcr

\* The child builds its parser and parses; any exception is handed in.
ChildEnds ==
    /\ child = "running"
    /\ handedIn' = IF Handed \subseteq Accepted /\ sound THEN "parsed" ELSE "error"
    /\ child' = "exited"
    /\ UNCHANGED <<parser, noOcr, built, sound, outcome, tried>>

\* by the operating system, or because it was told to stop
ChildKilled ==
    /\ child \in {"running", "told"}
    /\ child' = "killed"
    /\ UNCHANGED <<parser, noOcr, built, handedIn, sound, outcome, tried>>

\* join returns
Joined ==
    /\ parser = "joining"
    /\ child # "running"
    /\ Returns(IF child = "killed" THEN "failed"
               ELSE IF handedIn = "parsed" THEN "parsed" ELSE "failed")
    /\ UNCHANGED <<noOcr, built, child, handedIn, sound, tried>>

\* subprocess_timeout, terminate, and a second join
TimesOut ==
    /\ parser = "joining"
    /\ child = "running"
    /\ parser' = "stopping"
    /\ child' = "told"
    /\ UNCHANGED <<noOcr, built, handedIn, sound, outcome, tried>>

\* the child has stopped by then, or is killed
GivesUp ==
    /\ parser = "stopping"
    /\ Returns("failed")
    /\ child' = "killed"
    /\ UNCHANGED <<noOcr, built, handedIn, sound, tried>>

ParseNext ==
    \/ ParseHere
    \/ \E found \in {"words", "few words", "nothing", "error"} :
          ParsedHere(found) \/ RetryUnbuilt(found) \/ RetriedHere(found)
    \/ StartChild
    \/ ChildEnds
    \/ ChildKilled
    \/ Joined
    \/ TimesOut
    \/ GivesUp

ParseSpec == ParseInit /\ [][ParseNext]_parseVars

-----------------------------------------------------------------------------
\* Whatever became of the documents before, one is first parsed in the mode the
\* parser is configured for, and by OCR only in a second attempt; or not at all,
\* where a converter could not be built.
FirstAsConfigured == tried \in {<<>>, <<Mode(NoOcr)>>, <<"plain", "ocr">>}

\* When a document has been given up, nothing of it runs on: no child outlives
\* the call that started it, not even one that ignores being asked to stop.
NoChildLeft == parser = "idle" => child \notin {"running", "told"}

\* A document's parse leaves nothing behind: neither another mode nor a child
\* (_retry_with_ocr, _parse_in_subprocess).
ParsesAreApart == FirstAsConfigured /\ NoChildLeft

\* "use_subprocess: Run parsing in subprocess for OOM protection": a document
\* that parses is parsed there, unless the child was killed or told to stop.
IsolatedParses == sound /\ child = "exited" /\ parser = "idle" /\ tried = <<>> => outcome = "parsed"
=============================================================================

---------------------------- MODULE MCDocPipeline ----------------------------
(* Small instances of DocPipeline. *)
EXTENDS DocPipeline, TLC

CONSTANTS d1, d2, o1, w1, w2

OneDoc == {d1}
TwoDocs == {d1, d2}
None == {}

OneOrch == {o1}
OneWorker == {w1}
TwoWorkers == {w1, w2}
OnePool == w1 :> o1
SharedPool == w1 :> o1 @@ w2 :> o1

TwoParts == d1 :> {1, 2}
OnePartEach == d1 :> {1} @@ d2 :> {1}
EmptySecond == d1 :> {1} @@ d2 :> {}

\* no indexing; no tagging; no summarizer configured; only indexing; OCR retry
NoIndex  == [FullPlan EXCEPT !.index = FALSE]
NoTag    == [FullPlan EXCEPT !.tag = FALSE]
Unsummed == [FullPlan EXCEPT !.sumOn = FALSE]
IndexOnly == [FullPlan EXCEPT !.parse = FALSE, !.summarize = FALSE, !.tag = FALSE]
OcrRetry == [FullPlan EXCEPT !.ocr = TRUE]
StagePlans == {FullPlan, NoIndex, NoTag, Unsummed, IndexOnly}
JustOcr == {OcrRetry}
JustFull == {FullPlan}
\* --skip-summarize --skip-tag
ParseIndex == {[FullPlan EXCEPT !.summarize = FALSE, !.tag = FALSE]}

SecondDoc == {d2}

Symmetric == Permutations(TwoDocs) \union Permutations(TwoWorkers)
=============================================================================

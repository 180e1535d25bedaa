-------------------------- MODULE MCArticleUsecase --------------------------
(* Instances of ArticleUsecase: an Ingest and a client calling Reprocess.   *)
EXTENDS ArticleUsecase

CONSTANTS i1, r1, bbca, tlkm, ihsg

\* The article being ingested is neither the oldest nor the newest.
Second(i) == 2

First(i) == 1

\* The articles have different URLs.
Distinct(a) == a

\* The LLM names nobody, or an index, which is blacklisted, before a company.
IndexFirst == {<<>>, <<ihsg, bbca>>}

\* A company named twice.
Repeated == {<<bbca, bbca>>, <<tlkm>>}
=============================================================================

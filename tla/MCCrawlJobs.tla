----------------------------- MODULE MCCrawlJobs -----------------------------
(* A task and the crawl of a city that find the same restaurants in         *)
(* opposite orders, one of them without an address, and a request for an    *)
(* unknown source.                                                          *)
EXTENDS CrawlJobs, TLC

CONSTANTS j1, j2, j3, r1, r2, r3

MCKind    == j1 :> "celery" @@ j2 :> "city" @@ j3 :> "inline"
MCSources == j1 :> <<<<r1, r2, r3>>>> @@ j2 :> <<<<r2, r1>>, <<r3>>>> @@ j3 :> <<>>
============================================================================

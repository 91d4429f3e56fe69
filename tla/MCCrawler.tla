----------------------------- MODULE MCCrawler -----------------------------
(* The workers of the crawler on small sets.  The modules model them with  *)
(* no variable in common (rows of the database that one writes and another *)
(* reads are written by the environment in each), so a behaviour runs one  *)
(* of them, and "worker" says which.                                       *)
EXTENDS HashCrawl, MetadataFetch, Announcer

CONSTANTS h1, h2, n1, n2, s1, s2, u, w

MCTrackers == [h \in {h1, h2} |-> IF h = h1 THEN {u} ELSE {}]

\* n1 answers with hashes and nodes, n2 with an error.
MCReply ==
  [n \in {n1, n2} |->
     IF n = n1 THEN [usable |-> TRUE, samples |-> <<s1, s2>>, nodes |-> <<n2, n1>>]
     ELSE [usable |-> FALSE, samples |-> <<>>, nodes |-> <<>>]]

VARIABLE worker

MCInit ==
  /\ worker \in {"crawl", "fetch", "announce"}
  /\ CrawlInit /\ FetchInit /\ AnnInit
  /\ udpClient => worker = "announce"

Crawls(A) == worker = "crawl" /\ A /\ UNCHANGED <<fetchVars, annVars, worker>>
Fetches(A) == worker = "fetch" /\ A /\ UNCHANGED <<crawlVars, annVars, worker>>
Announces(A) == worker = "announce" /\ A /\ UNCHANGED <<crawlVars, fetchVars, worker>>

MCNext == Crawls(CrawlNext) \/ Fetches(FetchNext) \/ Announces(AnnNext)

\* The fairness of FairCrawlSpec, FairFetchSpec and FairAnnSpec.
MCSpec ==
  /\ MCInit /\ [][MCNext]_<<crawlVars, fetchVars, annVars, worker>>
  /\ WF_crawlVars(Crawls(IngestStep))
  /\ WF_crawlVars(Crawls(Ask \/ AskFailed \/ Receive \/ QueryTimeout))
  /\ WF_fetchVars(Fetches(\E i \in DOMAIN fetch : FetchTimeout(i)))
  /\ WF_annVars(Announces(AnnounceStep))

\* The types of all workers: queues, caches and pools within their bounds,
\* whatever the others answer and whatever fails.
WorkersTypeOK == CrawlTypeOK /\ FetchTypeOK /\ AnnTypeOK
=============================================================================

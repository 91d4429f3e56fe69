------------------------------ MODULE HashCrawl ------------------------------
(***************************************************************************)
(* How info hashes reach the index: the BEP 51 sampler                     *)
(* (bep51_sampler.rs), the queue of DhtSharedState (lib.rs) and the ingest *)
(* worker (ingest.rs) of indexarr-dht.                                     *)
(*                                                                         *)
(* The sampler has one query under way.  Answers travel by UDP: they may   *)
(* be lost or late, and wait in the socket until the sampler receives.     *)
(* What a node answers is a constant of the instance; one that is not      *)
(* usable is an error message or does not validate.  In place of           *)
(* transaction ids a packet has its age, the number of queries since its   *)
(* own: two ids are equal when the ages differ by a multiple of TxnIds.    *)
(*                                                                         *)
(* MaxLate bounds the age of a packet on the way, CrawlFaults the failed   *)
(* statements and sends.                                                   *)
(***************************************************************************)
EXTENDS Naturals, Sequences, SequencesExt, FiniteSets

CONSTANTS Node,
          Sampled,     \* hashes
          Reply,       \* what a node answers: [usable, samples, nodes]
          Bootstrap,   \* BOOTSTRAP
          MaxNodes,    \* MAX_QUEUE
          QueueSize,   \* max_queue_size
          BatchSize,   \* BATCH_SIZE
          TxnIds,      \* 2^16, the values of txn_counter
          MaxLate,     \* bound: queries sent before one under way is lost
          CrawlFaults  \* bound on failed statements and sends

ASSUME HashCrawlAssumption ==
  /\ IsFiniteSet(Node) /\ Bootstrap \subseteq Node
  /\ MaxNodes \in Nat /\ QueueSize \in Nat /\ BatchSize \in Nat \ {0} /\ TxnIds \in Nat \ {0}
  /\ MaxLate \in Nat /\ CrawlFaults \in Nat
  /\ Reply \in [Node -> [usable : BOOLEAN, samples : Seq(Sampled), nodes : Seq(Node)]]

VARIABLES
  nodeQueue,   \* node_queue
  query,       \* the node whose answer is awaited, if any, as a set
  onTheWay,    \* queries a node has not answered yet
  inbox,       \* the socket: answers received, in order
  hashQueue,   \* hash_queue
  pending,     \* pending of the ingest worker
  ingestPc,    \* "drain", "flush", "final" or "stopped"
  stored,      \* rows of torrents
  cancelled,
  unlucky,     \* history: hashes that were dropped
  crawlFaults

sampling == <<nodeQueue, query, onTheWay, inbox>>
ingesting == <<pending, ingestPc, stored, crawlFaults>>
crawlVars == <<sampling, hashQueue, ingesting, cancelled, unlucky>>

Packet == [age : Nat, node : Node]
Entries(s) == {s[i] : i \in DOMAIN s}
Older(a) == [a EXCEPT !.age = @ + 1]

---------------------------------------------------------------------------
(* The sampler *)

\* Pushed in turn while there is room, as nodes of an answer are.
PushNodes(q, s) ==
  q \o SubSeq(s, 1, IF MaxNodes <= Len(q) THEN 0
                    ELSE IF MaxNodes - Len(q) < Len(s) THEN MaxNodes - Len(q) ELSE Len(s))

\* seed_queue: the nodes of the routing tables and then the bootstrap nodes
\* whose names resolve, but no node twice.  The queue is empty before.
Seeds(routing, found) == PushNodes(<<>>, SetToSeq(routing) \o SetToSeq(found \ routing))

\* Reseed the queue that is used up; without a node found, sleep.
Reseed(routing, found) ==
  /\ ~cancelled /\ query = {} /\ nodeQueue = <<>>
  /\ nodeQueue' = Seeds(routing, found)
  /\ UNCHANGED <<query, onTheWay, inbox, hashQueue, ingesting, cancelled, unlucky>>

\* The next transaction id: the packets there are get older; new ones come.
NextTxn(new) ==
  /\ onTheWay' = {Older(p) : p \in {x \in onTheWay : x.age < MaxLate}} \cup new
  /\ inbox' = [i \in DOMAIN inbox |-> Older(inbox[i])]

Send(n) == query' = {n} /\ NextTxn({[age |-> 0, node |-> n]})

\* Ask the first node of the queue under the next transaction id.
Ask ==
  /\ ~cancelled /\ query = {} /\ nodeQueue # <<>>
  /\ nodeQueue' = Tail(nodeQueue)
  /\ Send(Head(nodeQueue))
  /\ UNCHANGED <<hashQueue, ingesting, cancelled, unlucky>>

\* The send fails: the node is skipped.
AskFailed ==
  /\ ~cancelled /\ query = {} /\ nodeQueue # <<>>
  /\ nodeQueue' = Tail(nodeQueue)
  /\ NextTxn({})
  /\ crawlFaults < CrawlFaults /\ crawlFaults' = crawlFaults + 1
  /\ UNCHANGED <<query, hashQueue, pending, ingestPc, stored, cancelled, unlucky>>

\* Mutant of Room: no bound.
RoomAlways == Cardinality(Sampled)

\* push_hash for each sample: what finds the queue full is dropped.
Room == IF Len(hashQueue) < QueueSize THEN QueueSize - Len(hashQueue) ELSE 0

PushHashes(s) ==
  LET fit == IF Len(s) < Room THEN Len(s) ELSE Room
  IN  /\ hashQueue' = hashQueue \o SubSeq(s, 1, fit)
      /\ unlucky' = unlucky \cup {s[i] : i \in fit + 1 .. Len(s)}

\* Mutant of Matches: whichever valid answer the node sent.
MatchesNode(a, q) == a.node = q /\ Reply[a.node].usable

\* An answer is the one awaited: from the node asked (else it is ignored
\* before it is decoded), under the transaction of the query, and valid.
Matches(a, q) == a.node = q /\ a.age % TxnIds = 0 /\ Reply[a.node].usable

\* recv_from returns the oldest answer in the socket.  It is used or not;
\* the query is over either way.
Receive ==
  /\ inbox # <<>>
  /\ \E q \in query :
       IF Matches(Head(inbox), q)
       THEN /\ PushHashes(Reply[q].samples)
            /\ nodeQueue' = PushNodes(nodeQueue, Reply[q].nodes)
       ELSE UNCHANGED <<hashQueue, nodeQueue, unlucky>>
  /\ inbox' = Tail(inbox)
  /\ query' = {}
  /\ UNCHANGED <<onTheWay, ingesting, cancelled>>

\* QUERY_TIMEOUT passes without an answer.
QueryTimeout ==
  /\ query # {} /\ inbox = <<>>
  /\ query' = {}
  /\ UNCHANGED <<nodeQueue, onTheWay, inbox, hashQueue, ingesting, cancelled, unlucky>>

\* The network, late or not.
Deliver(p) ==
  /\ p \in onTheWay
  /\ onTheWay' = onTheWay \ {p}
  /\ inbox' = Append(inbox, p)
  /\ UNCHANGED <<nodeQueue, query, hashQueue, ingesting, cancelled, unlucky>>

LosePacket(p) ==
  /\ p \in onTheWay
  /\ onTheWay' = onTheWay \ {p}
  /\ UNCHANGED <<nodeQueue, query, inbox, hashQueue, ingesting, cancelled, unlucky>>

---------------------------------------------------------------------------
(* The ingest worker *)

\* drain_hashes(BATCH_SIZE), the oldest first.
Drained == IF Len(hashQueue) < BatchSize THEN Len(hashQueue) ELSE BatchSize

\* A turn of the loop drains the queue; a full batch is flushed.
Drain ==
  /\ ingestPc = "drain" /\ ~cancelled
  /\ pending' = pending \o SubSeq(hashQueue, 1, Drained)
  /\ hashQueue' = SubSeq(hashQueue, Drained + 1, Len(hashQueue))
  /\ ingestPc' = IF Len(pending') >= BatchSize THEN "flush" ELSE "drain"
  /\ UNCHANGED <<sampling, stored, crawlFaults, cancelled, unlucky>>

\* Mutant of IntervalOver: only a full batch is flushed.
IntervalNever ==
  /\ ingestPc = "drain" /\ ~cancelled /\ Len(pending) >= BatchSize
  /\ ingestPc' = "flush"
  /\ UNCHANGED <<sampling, hashQueue, pending, stored, crawlFaults, cancelled, unlucky>>

\* A turn at which the interval is over, with something to flush.
IntervalOver ==
  /\ ingestPc = "drain" /\ ~cancelled /\ pending # <<>>
  /\ ingestPc' = "flush"
  /\ UNCHANGED <<sampling, hashQueue, pending, stored, crawlFaults, cancelled, unlucky>>

\* upsert_hash of the next hash of the batch.
Upsert ==
  /\ ingestPc \in {"flush", "final"} /\ pending # <<>>
  /\ stored' = stored \cup {Head(pending)}
  /\ pending' = Tail(pending)
  /\ UNCHANGED <<sampling, hashQueue, ingestPc, crawlFaults, cancelled, unlucky>>

\* It fails: the error is logged, and the hash goes with the batch.
UpsertFailed ==
  /\ ingestPc \in {"flush", "final"} /\ pending # <<>> /\ crawlFaults < CrawlFaults
  /\ unlucky' = unlucky \cup {Head(pending)}
  /\ pending' = Tail(pending)
  /\ crawlFaults' = crawlFaults + 1
  /\ UNCHANGED <<sampling, hashQueue, ingestPc, stored, cancelled>>

FlushEnd ==
  /\ ingestPc \in {"flush", "final"} /\ pending = <<>>
  /\ ingestPc' = IF ingestPc = "flush" THEN "drain" ELSE "stopped"
  /\ UNCHANGED <<sampling, hashQueue, pending, stored, crawlFaults, cancelled, unlucky>>

\* Seen at the head of the loop: the last flush, of what is drained already.
IngestStop ==
  /\ ingestPc = "drain" /\ cancelled
  /\ ingestPc' = "final"
  /\ UNCHANGED <<sampling, hashQueue, pending, stored, crawlFaults, cancelled, unlucky>>

Cancel ==
  /\ ~cancelled
  /\ cancelled' = TRUE
  /\ UNCHANGED <<sampling, hashQueue, ingesting, unlucky>>

---------------------------------------------------------------------------

CrawlInit ==
  /\ nodeQueue = <<>> /\ query = {} /\ onTheWay = {} /\ inbox = <<>>
  /\ hashQueue = <<>> /\ pending = <<>> /\ ingestPc = "drain" /\ stored = {}
  /\ cancelled = FALSE /\ unlucky = {} /\ crawlFaults = 0

SampleStep ==
  \/ \E routing \in SUBSET Node, found \in SUBSET Bootstrap : Reseed(routing, found)
  \/ Ask \/ AskFailed \/ Receive \/ QueryTimeout

IngestStep == Drain \/ IntervalOver \/ Upsert \/ UpsertFailed \/ FlushEnd \/ IngestStop

CrawlNext ==
  \/ SampleStep
  \/ \E p \in onTheWay : Deliver(p) \/ LosePacket(p)
  \/ IngestStep
  \/ Cancel

CrawlSpec == CrawlInit /\ [][CrawlNext]_crawlVars

\* The ingest worker runs on, and FLUSH_INTERVAL_SECS passes; the sampler's
\* receive returns or times out, and it asks on.
FairCrawlSpec ==
  /\ CrawlSpec
  /\ WF_crawlVars(IngestStep)
  /\ WF_crawlVars(Ask \/ AskFailed \/ Receive \/ QueryTimeout)

---------------------------------------------------------------------------
(* Properties *)

CrawlTypeOK ==
  /\ nodeQueue \in Seq(Node) /\ Len(nodeQueue) <= MaxNodes
  /\ query \subseteq Node /\ Cardinality(query) <= 1
  /\ onTheWay \subseteq Packet
  /\ inbox \in Seq(Packet)
  /\ hashQueue \in Seq(Sampled) /\ Len(hashQueue) <= QueueSize
  /\ pending \in Seq(Sampled)
  /\ ingestPc \in {"drain", "flush", "final", "stopped"}
  /\ stored \cup unlucky \subseteq Sampled
  /\ cancelled \in BOOLEAN
  /\ crawlFaults \in 0..CrawlFaults

\* Hashes and nodes are taken from the answer to the query under way only,
\* never from a late answer to an earlier query of the same node.
OnlyAnswersAreUsed ==
  [][\A q \in query :
       (query' = {} /\ inbox # <<>> /\ <<hashQueue, nodeQueue>>' # <<hashQueue, nodeQueue>>)
         => Head(inbox) = [age |-> 0, node |-> q]]_<<query, inbox, hashQueue, nodeQueue>>

\* A sampled hash is stored in the end, unless the queue was full, its
\* statement failed, or the node stops before the worker drained it.
SampledIsStored ==
  \A h \in Sampled :
    (h \in Entries(hashQueue) \cup Entries(pending))
      ~> (h \in stored \cup unlucky \/ (cancelled /\ h \in Entries(hashQueue) \ Entries(pending)))

\* Every node of the queue is asked in its turn, or its query fails,
\* whatever the nodes before it answer, or do not.
QueuedNodeIsAsked ==
  \A n \in Node :
    (n \in Entries(nodeQueue)) ~> (cancelled \/ n \in query \/ n \notin Entries(nodeQueue))

\* The crawl goes on, and what it finds is stored.
CrawlProgresses == QueuedNodeIsAsked /\ SampledIsStored
=============================================================================

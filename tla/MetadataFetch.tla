---------------------------- MODULE MetadataFetch ----------------------------
(***************************************************************************)
(* How the metadata of one torrent is fetched: a job of the resolver       *)
(* (indexarr-dht/src/resolver.rs) collects candidate peers, and            *)
(* indexarr-resolver-v2/src/lib.rs races a few of them at a time over the  *)
(* peer wire protocol.  The first that serves metadata with the right hash *)
(* wins; the others are dropped.  Peers the winner told of are cached for  *)
(* the next attempt.                                                       *)
(*                                                                         *)
(* Sizes are counted in units of half a piece or so: Info units are the    *)
(* true info dictionary, PieceSize units a piece.  Of the assembled buffer *)
(* the model keeps which units equal the true ones; the SHA-1 matches when *)
(* all do and none is added.  An honest peer follows the protocol, but may *)
(* refuse to connect or be slow; of any other every answer is possible.    *)
(***************************************************************************)
EXTENDS Naturals, Sequences, SequencesExt, FiniteSets

CONSTANTS Peer,
          Honest,     \* peers that follow the protocol
          Info,       \* the size of the info dictionary
          PieceSize,  \* METADATA_PIECE_SIZE
          MaxSize,    \* MAX_METADATA_SIZE
          Concurrent, \* DEFAULT_MAX_CONCURRENT_PEERS
          FoundLimit, \* peers taken from the DHT for a hash: 15
          CacheLimit  \* peers cached for a hash: 20

ASSUME MetadataFetchAssumption ==
  /\ IsFiniteSet(Peer) /\ Honest \subseteq Peer
  /\ Info \in Nat \ {0} /\ PieceSize \in Nat \ {0} /\ MaxSize \in Nat /\ Info <= MaxSize
  /\ Concurrent \in Nat /\ FoundLimit \in Nat /\ CacheLimit \in Nat

VARIABLES
  phase,     \* of the job: "idle", "race", or how it ended: "served", "failed"
  candidates,\* peers
  found,     \* how many of them the DHT named
  started,   \* next_idx: the candidates tried so far
  fetch,     \* of each candidate tried: its stage, or how it ended
  summary,   \* PeerFailureSummary
  harvest,   \* harvested_peers of the winner
  cache      \* peer_cache of the hash

fetchVars == <<phase, candidates, found, started, fetch, summary, harvest, cache>>

Categories == {"unreachable", "no_bep10", "timeout", "other"}
Stages == {"connect", "handshake", "extended", "pieces"}
Least2(a, b) == IF a < b THEN a ELSE b

\* A fetch: its stage, the size the peer named, the next piece, and the
\* units received that are right.
NewFetch == [stage |-> "connect", size |-> 0, piece |-> 0, right |-> {}]

InFlight2 == {i \in DOMAIN fetch : fetch[i].stage \in Stages}

---------------------------------------------------------------------------
(* Candidates *)

PeersOf(s) == {s[i] : i \in DOMAIN s}

\* cache_peers: those not cached yet, while there is room.
Cached(new) ==
  LET fresh == SetToSeq(new \ PeersOf(cache))
      room == IF Len(cache) < CacheLimit THEN CacheLimit - Len(cache) ELSE 0
  IN  cache \o SubSeq(fresh, 1, Least2(room, Len(fresh)))

\* What the DHT named, else what is cached, and then the trackers' peers
\* that are not among them.
Collect(named, tracked) ==
  LET known == IF named # <<>> THEN named ELSE cache
  IN  known \o SetToSeq(tracked \ PeersOf(known))

---------------------------------------------------------------------------
(* The race *)

NoFailures == [c \in Categories |-> 0]
Failures == summary["unreachable"] + summary["no_bep10"] + summary["timeout"] + summary["other"]

\* cap: at least one, at most as many as there are.
AtOnce(n) == Least2(IF Concurrent = 0 THEN 1 ELSE Concurrent, n)

\* A job begins: the DHT is asked, then the trackers; without candidates it
\* fails at once, else the first are started.
Begin(named, tracked) ==
  LET all == Collect(named, tracked)
  IN  /\ phase = "idle"
      /\ candidates' = all
      /\ found' = Len(named)
      /\ phase' = IF all = <<>> THEN "failed" ELSE "race"
      /\ started' = AtOnce(Len(all))
      /\ fetch' = [i \in 1..AtOnce(Len(all)) |-> NewFetch]
      /\ summary' = NoFailures
      /\ harvest' = {}
      /\ UNCHANGED cache

\* The next candidate, if there is one, is started in place of i.
TopUp(i, end) ==
  LET kept == [fetch EXCEPT ![i] = [NewFetch EXCEPT !.stage = end]]
  IN  IF started < Len(candidates)
      THEN fetch' = Append(kept, NewFetch) /\ started' = started + 1
      ELSE fetch' = kept /\ UNCHANGED started

\* Candidate i fails; the last failure ends the race.
Fails(i, category) ==
  /\ summary' = [summary EXCEPT ![category] = @ + 1]
  /\ TopUp(i, category)
  /\ phase' = IF \E j \in DOMAIN fetch' : fetch'[j].stage \in Stages THEN "race" ELSE "failed"
  /\ UNCHANGED <<candidates, found, harvest, cache>>

Moves(i, f) ==
  /\ fetch' = [fetch EXCEPT ![i] = f]
  /\ UNCHANGED <<phase, candidates, found, started, summary, harvest, cache>>

At(i, stage) == phase = "race" /\ i \in InFlight2 /\ fetch[i].stage = stage
IsHonest(i) == candidates[i] \in Honest

\* TCP connect.
Connect(i) ==
  /\ At(i, "connect")
  /\ Moves(i, [fetch[i] EXCEPT !.stage = "handshake"]) \/ Fails(i, "unreachable")

\* The handshake: for another hash, without BEP 10, cut off or malformed.
Handshake(i) ==
  /\ At(i, "handshake")
  /\ \/ Moves(i, [fetch[i] EXCEPT !.stage = "extended"])
     \/ ~IsHonest(i) /\ \E c \in {"other", "no_bep10"} : Fails(i, c)

\* The extended handshake, with a size or without what is needed; other
\* messages before it are passed over.
Extended(i) ==
  /\ At(i, "extended")
  /\ \E size \in IF IsHonest(i) THEN {Info} ELSE 0..MaxSize + 1 :
       IF size = 0 \/ size > MaxSize
       THEN Fails(i, "other")
       ELSE Moves(i, [fetch[i] EXCEPT !.stage = "pieces", !.size = size])

ExtendedRefused(i) ==
  /\ At(i, "extended") /\ ~IsHonest(i)
  /\ \E c \in {"other", "no_bep10"} : Fails(i, c)

\* total_size.div_ceil(METADATA_PIECE_SIZE)
Pieces(size) == (size + PieceSize - 1) \div PieceSize

\* Mutant of Verified: the size alone.
VerifiedSize(f) == f.size <= MaxSize

\* verify_size and verify_hash
Verified(f) == f.size <= MaxSize /\ f.size = Info /\ f.right = 0..Info - 1

\* What the peer of fetch f sends for its next piece: so many units, right
\* or not.  An honest one sends its piece.
Chunks(i) ==
  IF IsHonest(i)
  THEN {[units |-> Least2(PieceSize, Info - fetch[i].piece * PieceSize), right |-> TRUE]}
  ELSE [units : 0..PieceSize + 1, right : BOOLEAN]

\* The units the chunk is copied to.
Filled(i, chunk) == {fetch[i].piece * PieceSize + k : k \in 0..chunk.units - 1}

Received(i, chunk) ==
  [fetch[i] EXCEPT
     !.piece = @ + 1,
     !.right = (@ \ Filled(i, chunk)) \cup
               (IF chunk.right THEN Filled(i, chunk) \cap 0..Info - 1 ELSE {})]

\* A piece arrives: beyond the size it is refused; the last one completes
\* the metadata, which is verified; the race is won, or this peer failed.
Piece(i) ==
  /\ At(i, "pieces")
  /\ \E chunk \in Chunks(i) :
       LET f == Received(i, chunk)
       IN  IF fetch[i].piece * PieceSize + chunk.units > fetch[i].size
           THEN Fails(i, "other")
           ELSE IF f.piece < Pieces(f.size) THEN Moves(i, f)
           ELSE IF ~Verified(f) THEN Fails(i, "other")
           ELSE /\ phase' = "served"
                /\ fetch' = [fetch EXCEPT ![i] = [f EXCEPT !.stage = "served"]]
                /\ harvest' \in SUBSET Peer
                /\ UNCHANGED <<candidates, found, started, summary, cache>>

\* Another piece than the one requested, a reject, or the end.
PieceRefused(i) == At(i, "pieces") /\ ~IsHonest(i) /\ Fails(i, "other")

\* Mutant of FetchTimeout: only the connect has one.
FetchTimeoutConnect(i) == At(i, "connect") /\ Fails(i, "timeout")

\* The timeout of a fetch runs from its start.
FetchTimeout(i) == (\E s \in Stages : At(i, s)) /\ Fails(i, "timeout")

\* The job is over: the winner's peers are cached, if the dictionary can be
\* parsed; the row may be fetched again at another time.
Finish ==
  /\ phase \in {"served", "failed"}
  /\ cache' = cache \/ (phase = "served" /\ cache' = Cached(harvest))
  /\ phase' = "idle"
  /\ candidates' = <<>> /\ found' = 0 /\ started' = 0 /\ fetch' = <<>>
  /\ summary' = NoFailures /\ harvest' = {}

---------------------------------------------------------------------------

FetchInit ==
  /\ phase = "idle" /\ candidates = <<>> /\ found = 0 /\ started = 0 /\ fetch = <<>>
  /\ summary = NoFailures /\ harvest = {} /\ cache = <<>>

FetchNext ==
  \/ \E n \in 0..FoundLimit, tracked \in SUBSET Peer :
       \E named \in [1..n -> Peer] : Begin(named, tracked)
  \/ \E i \in DOMAIN fetch :
       \/ Connect(i) \/ Handshake(i) \/ Extended(i) \/ ExtendedRefused(i)
       \/ Piece(i) \/ PieceRefused(i) \/ FetchTimeout(i)
  \/ Finish

FetchSpec == FetchInit /\ [][FetchNext]_fetchVars

\* Nothing is assumed of the peers; every fetch has its timeout.
FairFetchSpec == FetchSpec /\ WF_fetchVars(\E i \in DOMAIN fetch : FetchTimeout(i))

---------------------------------------------------------------------------
(* Properties *)

FetchTypeOK ==
  /\ phase \in {"idle", "race", "served", "failed"}
  /\ candidates \in Seq(Peer) /\ found \in 0..FoundLimit
  /\ started = Len(fetch) /\ started <= Len(candidates)
  /\ \A i \in DOMAIN fetch :
       /\ fetch[i].stage \in Stages \cup Categories \cup {"served"}
       /\ fetch[i].size \in 0..MaxSize /\ fetch[i].piece \in Nat
       /\ fetch[i].right \subseteq 0..Info - 1
  /\ summary \in [Categories -> Nat]
  /\ harvest \subseteq Peer
  /\ cache \in Seq(Peer) /\ Len(cache) <= CacheLimit

\* At most "Concurrent" peers are tried at a time, and none twice in a race
\* but one that the DHT itself named twice, whatever the cache holds and the
\* trackers name.
RaceIsFair ==
  /\ Cardinality(InFlight2) <= AtOnce(Len(candidates))
  /\ \A i, j \in DOMAIN candidates : (candidates[i] = candidates[j] /\ i < j) => j <= found

\* A job fails only after every candidate failed; each is counted once.
FailedMeansAllFailed ==
  phase = "failed" => started = Len(candidates) /\ Failures = Len(candidates)

\* What is served is the info dictionary, whole and unchanged, whatever the
\* peers sent.
ServedIsAuthentic ==
  \A i \in DOMAIN fetch :
    fetch[i].stage = "served" => fetch[i].size = Info /\ fetch[i].right = 0..Info - 1

\* A peer that follows the protocol fails only by not connecting or by its
\* timeout, whatever the sizes of the dictionary and of the pieces.
HonestPeerServes ==
  \A i \in DOMAIN fetch :
    IsHonest(i) => fetch[i].stage \notin {"no_bep10", "other"}

\* A race is fair, and its outcome is the one its peers made possible.
FetchIsSound == RaceIsFair /\ FailedMeansAllFailed /\ ServedIsAuthentic /\ HonestPeerServes

\* Every race ends, though peers may send other messages for ever.
RaceEnds == (phase = "race") ~> (phase # "race")
=============================================================================

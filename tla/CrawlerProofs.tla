---------------------------- MODULE CrawlerProofs ----------------------------
(***************************************************************************)
(* Theorems about the workers of the crawler: the fetch of metadata, the   *)
(* announcer and the path of info hashes, and their composition.           *)
(***************************************************************************)
EXTENDS MCCrawler, FiniteSetTheorems, SequenceTheorems, TLAPS

---------------------------------------------------------------------------
(* Sets made into sequences *)

\* SetToSeq lists each element once.
LEMMA SetToSeqFacts ==
  ASSUME NEW S, IsFiniteSet(S)
  PROVE  /\ SetToSeq(S) \in Seq(S)
         /\ \A i, j \in DOMAIN SetToSeq(S) : SetToSeq(S)[i] = SetToSeq(S)[j] => i = j
<1> DEFINE n == Cardinality(S)
<1>1. n \in Nat /\ ExistsBijection(1..n, S)
  BY FS_CardinalityType
<1>2. PICK f \in [1..n -> S] : IsInjective(f)
  BY <1>1 DEF ExistsBijection, Bijection, Injection
<1>3. SetToSeq(S) \in [1..n -> S] /\ IsInjective(SetToSeq(S))
  BY <1>2 DEF SetToSeq
<1> QED BY <1>1, <1>3, SeqDef DEF IsInjective

\* One sequence after another, in a form the steps below use.
LEMMA ConcatFacts ==
  ASSUME NEW S, NEW s \in Seq(S), NEW t \in Seq(S)
  PROVE  /\ s \o t \in Seq(S) /\ Len(s \o t) = Len(s) + Len(t)
         /\ DOMAIN (s \o t) = 1..Len(s) + Len(t) /\ DOMAIN s = 1..Len(s) /\ DOMAIN t = 1..Len(t)
         /\ \A i \in DOMAIN s : (s \o t)[i] = s[i]
         /\ \A i \in DOMAIN (s \o t) \ DOMAIN s : i - Len(s) \in DOMAIN t /\ (s \o t)[i] = t[i - Len(s)]
<1>1. /\ s \o t \in Seq(S) /\ Len(s \o t) = Len(s) + Len(t)
      /\ \A i \in 1..Len(s) + Len(t) : (s \o t)[i] = IF i <= Len(s) THEN s[i] ELSE t[i - Len(s)]
  BY ConcatProperties
<1>2. /\ DOMAIN (s \o t) = 1..Len(s) + Len(t) /\ DOMAIN s = 1..Len(s) /\ DOMAIN t = 1..Len(t)
      /\ Len(s) \in Nat /\ Len(t) \in Nat
  BY <1>1, LenProperties
<1> QED BY <1>1, <1>2

---------------------------------------------------------------------------
(* The fetch of metadata *)

FetchType == [stage : Stages \cup Categories \cup {"served"}, size : 0..MaxSize,
              piece : Nat, right : SUBSET (0..Info - 1)]

Flying(fs) == {i \in DOMAIN fs : fs[i].stage \in Stages}

FetchTypes ==
  /\ phase \in {"idle", "race", "served", "failed"}
  /\ candidates \in Seq(Peer) /\ found \in 0..FoundLimit
  /\ fetch \in Seq(FetchType) /\ started = Len(fetch) /\ started <= Len(candidates)
  /\ summary \in [Categories -> Nat]
  /\ harvest \subseteq Peer
  /\ cache \in Seq(Peer) /\ Len(cache) <= CacheLimit

\* The cache holds no peer twice, and so the candidates only those the DHT did.
SingleInv ==
  /\ \A i, j \in DOMAIN cache : cache[i] = cache[j] => i = j
  /\ \A i, j \in DOMAIN candidates : (candidates[i] = candidates[j] /\ i < j) => j <= found

\* Every fetch started is under way or was counted.
CountInv ==
  /\ Cardinality(Flying(fetch)) <= AtOnce(Len(candidates))
  /\ phase \in {"race", "failed"} => Failures + Cardinality(Flying(fetch)) = Len(fetch)
  /\ phase = "failed" => Flying(fetch) = {} /\ started = Len(candidates)

\* How far a peer that follows the protocol has come.
HonestFetch(f) ==
  /\ f.stage \notin {"no_bep10", "other"}
  /\ f.stage \in {"connect", "handshake", "extended"} => f.piece = 0 /\ f.right = {}
  /\ f.stage = "pieces" =>
       /\ f.size = Info /\ f.piece * PieceSize < Info
       /\ f.right = 0..f.piece * PieceSize - 1

FetchInv ==
  /\ FetchTypes /\ SingleInv /\ CountInv /\ ServedIsAuthentic
  /\ \A i \in DOMAIN fetch : IsHonest(i) => HonestFetch(fetch[i])

\* The last piece is the one that ends at the size or beyond it.
LEMMA PiecesFacts ==
  ASSUME NEW q \in Nat
  PROVE  q < Pieces(Info) <=> q * PieceSize < Info
<1>1. Info \in Nat \ {0} /\ PieceSize \in Nat \ {0}
  BY MetadataFetchAssumption
<1> DEFINE n == Info + PieceSize - 1
           d == n \div PieceSize
           r == n % PieceSize
<1>2. n \in Nat /\ d \in Nat /\ r \in 0..PieceSize - 1 /\ n = d * PieceSize + r
  BY <1>1
<1>3. Pieces(Info) = d
  BY DEF Pieces
<1> HIDE DEF d, r
<1>4. ASSUME q < d PROVE q * PieceSize < Info
  <2>1. q + 1 <= d
    BY <1>2, <1>4
  <2>2. (q + 1) * PieceSize <= d * PieceSize
    BY <1>1, <1>2, <2>1
  <2>3. (q + 1) * PieceSize = q * PieceSize + PieceSize /\ q * PieceSize \in Nat /\ d * PieceSize \in Nat
    BY <1>1, <1>2
  <2> QED BY <1>1, <1>2, <2>2, <2>3
<1>5. ASSUME d <= q PROVE Info <= q * PieceSize
  <2>1. d * PieceSize <= q * PieceSize /\ q * PieceSize \in Nat /\ d * PieceSize \in Nat
    BY <1>1, <1>2, <1>5
  <2> QED BY <1>1, <1>2, <2>1
<1>6. q * PieceSize \in Nat
  BY <1>1
<1> QED BY <1>1, <1>2, <1>3, <1>4, <1>5, <1>6

LEMMA FetchInvInit == FetchInit => FetchInv
<1> SUFFICES ASSUME FetchInit PROVE FetchInv
  OBVIOUS
<1>1. /\ phase = "idle" /\ candidates = <<>> /\ found = 0 /\ started = 0 /\ fetch = <<>>
      /\ summary = NoFailures /\ harvest = {} /\ cache = <<>> /\ DOMAIN fetch = {} /\ Len(<<>>) = 0
  BY DEF FetchInit
<1>2. FetchTypes
  BY <1>1, MetadataFetchAssumption, EmptySeq DEF FetchTypes, NoFailures
<1>3. CountInv
  <2>1. Flying(fetch) = {} /\ Cardinality({}) = 0
    BY <1>1, FS_EmptySet DEF Flying
  <2>2. AtOnce(0) \in Nat
    BY MetadataFetchAssumption DEF AtOnce, Least2
  <2> QED BY <1>1, <2>1, <2>2 DEF CountInv
<1> QED BY <1>1, <1>2, <1>3 DEF FetchInv, SingleInv, ServedIsAuthentic

\* What is in flight is some of the fetches.
LEMMA FlyingFacts ==
  ASSUME FetchTypes
  PROVE  /\ IsFiniteSet(Flying(fetch)) /\ Cardinality(Flying(fetch)) \in Nat
         /\ Len(fetch) \in Nat /\ DOMAIN fetch = 1..Len(fetch) /\ Flying(fetch) \subseteq 1..Len(fetch)
         /\ \A i \in DOMAIN fetch : fetch[i] \in FetchType
<1>1. Len(fetch) \in Nat /\ DOMAIN fetch = 1..Len(fetch) /\ \A i \in DOMAIN fetch : fetch[i] \in FetchType
  BY LenProperties DEF FetchTypes
<1>2. IsFiniteSet(1..Len(fetch)) /\ Flying(fetch) \subseteq 1..Len(fetch)
  BY <1>1, FS_Interval DEF Flying
<1> QED BY <1>1, <1>2, FS_Subset, FS_CardinalityType

\* Few enough are started, and none without a candidate.
LEMMA AtOnceFacts ==
  ASSUME NEW n \in Nat
  PROVE  AtOnce(n) \in 0..n /\ (n > 0 => AtOnce(n) > 0)
BY MetadataFetchAssumption DEF AtOnce, Least2

\* The candidates: what the DHT named comes first, and what follows is no
\* repetition.
LEMMA CollectFacts ==
  ASSUME FetchTypes, SingleInv, NEW named \in Seq(Peer), NEW tracked \in SUBSET Peer
  PROVE  LET all == Collect(named, tracked)
         IN  /\ all \in Seq(Peer)
             /\ \A i, j \in DOMAIN all : (all[i] = all[j] /\ i < j) => j <= Len(named)
<1> DEFINE known == IF named # <<>> THEN named ELSE cache
           others == SetToSeq(tracked \ PeersOf(known))
           all == known \o others
<1>1. known \in Seq(Peer)
  BY DEF FetchTypes
<1>2. \A i, j \in DOMAIN known : (known[i] = known[j] /\ i < j) => j <= Len(named)
  <2>1. CASE named # <<>>
    BY <2>1, LenProperties
  <2>2. CASE named = <<>>
    BY <2>2, LenProperties DEF SingleInv, FetchTypes
  <2> QED BY <2>1, <2>2
<1>3. \A i \in DOMAIN known : i \in Nat /\ i <= Len(known) /\ known[i] \in PeersOf(known)
  BY <1>1, LenProperties DEF PeersOf
<1>4. Len(known) \in Nat /\ Len(named) \in Nat
  BY <1>1, LenProperties
<1> HIDE DEF known
<1>5. /\ others \in Seq(tracked \ PeersOf(known)) /\ others \in Seq(Peer)
      /\ \A i, j \in DOMAIN others : others[i] = others[j] => i = j
  <2>1. tracked \ PeersOf(known) \subseteq Peer /\ IsFiniteSet(tracked \ PeersOf(known))
    BY MetadataFetchAssumption, FS_Subset
  <2> QED BY <2>1, SetToSeqFacts, SeqMonotonic
<1>6. \A i \in DOMAIN others : others[i] \notin PeersOf(known)
  BY <1>5, LenProperties, ElementOfSeq
<1> HIDE DEF others
<1>7. /\ all \in Seq(Peer) /\ DOMAIN all = 1..Len(known) + Len(others) /\ Len(others) \in Nat
      /\ DOMAIN known = 1..Len(known)
      /\ \A i \in DOMAIN known : all[i] = known[i]
      /\ \A i \in DOMAIN all \ DOMAIN known : i - Len(known) \in DOMAIN others /\ all[i] = others[i - Len(known)]
  BY <1>1, <1>5, ConcatFacts, LenProperties
<1> HIDE DEF all
<1>8. ASSUME NEW i \in DOMAIN all, NEW j \in DOMAIN all, all[i] = all[j], i < j PROVE j <= Len(named)
  <2>1. CASE j \in DOMAIN known
    <3>1. i \in DOMAIN known
      BY <1>4, <1>7, <1>8, <2>1
    <3> QED BY <1>2, <1>7, <1>8, <2>1, <3>1
  <2>2. CASE j \notin DOMAIN known
    <3>1. i \notin DOMAIN known
      BY <1>3, <1>6, <1>7, <1>8, <2>2
    <3>2. i - Len(known) = j - Len(known)
      BY <1>5, <1>7, <1>8, <2>2, <3>1
    <3>3. i = j
      BY <1>4, <1>7, <3>2
    <3> QED BY <1>7, <1>8, <3>3
  <2> QED BY <2>1, <2>2
<1> QED BY <1>7, <1>8 DEF Collect, known, others, all

LEMMA BeginRaceKeeps ==
  ASSUME FetchInv, NEW n \in 0..FoundLimit, NEW tracked \in SUBSET Peer, NEW named \in [1..n -> Peer],
         Begin(named, tracked)
  PROVE  FetchInv'
<1> DEFINE all == Collect(named, tracked)
           k == AtOnce(Len(all))
<1>1. named \in Seq(Peer) /\ Len(named) = n /\ Len(named) \in 0..FoundLimit
  BY MetadataFetchAssumption, SeqDef
<1>2. /\ all \in Seq(Peer)
      /\ \A i, j \in DOMAIN all : (all[i] = all[j] /\ i < j) => j <= Len(named)
  BY <1>1, CollectFacts DEF FetchInv
<1>3. /\ candidates' = all /\ found' = Len(named) /\ started' = k
      /\ phase' = IF all = <<>> THEN "failed" ELSE "race"
      /\ fetch' = [i \in 1..k |-> NewFetch]
      /\ summary' = NoFailures /\ harvest' = {} /\ cache' = cache
  BY DEF Begin
<1> HIDE DEF all
<1>4. Len(all) \in Nat /\ k \in 0..Len(all) /\ (all # <<>> => k > 0) /\ (all = <<>> => Len(all) = 0)
  <2>1. Len(all) \in Nat /\ (all # <<>> => Len(all) > 0) /\ (all = <<>> => Len(all) = 0)
    BY <1>2, EmptySeq, LenProperties
  <2> QED BY <2>1, AtOnceFacts
<1> HIDE DEF k
<1>5. NewFetch \in FetchType /\ NewFetch.stage = "connect" /\ HonestFetch(NewFetch)
  <2>1. 0 \in 0..MaxSize
    BY MetadataFetchAssumption
  <2> QED BY <2>1 DEF NewFetch, FetchType, HonestFetch, Stages
<1>6. fetch' \in Seq(FetchType) /\ Len(fetch') = k /\ DOMAIN fetch' = 1..k /\ \A i \in 1..k : fetch'[i] = NewFetch
  BY <1>3, <1>4, <1>5, SeqDef
<1>7. FetchTypes'
  <2>1. summary' \in [Categories -> Nat]
    BY <1>3 DEF NoFailures
  <2> QED BY <1>1, <1>2, <1>3, <1>4, <1>6, <2>1 DEF FetchInv, FetchTypes
<1>8. Flying(fetch') = 1..k /\ Cardinality(1..k) = k
  <2>1. Flying(fetch') = 1..k
    BY <1>5, <1>6 DEF Flying, Stages
  <2>2. Cardinality(1..k) = IF 1 > k THEN 0 ELSE k - 1 + 1
    BY <1>4, FS_Interval
  <2> QED BY <1>4, <2>1, <2>2
<1>9. Failures' = 0
  BY <1>3 DEF Failures, NoFailures, Categories
<1>10. CountInv'
  <2>1. k = AtOnce(Len(all))
    BY DEF k
  <2>2. phase' = "failed" => k = 0 /\ Len(all) = 0
    BY <1>3, <1>4
  <2> QED BY <1>3, <1>4, <1>6, <1>8, <1>9, <2>1, <2>2 DEF CountInv
<1>11. SingleInv'
  BY <1>2, <1>3 DEF FetchInv, SingleInv
<1>12. ServedIsAuthentic'
  BY <1>5, <1>6 DEF ServedIsAuthentic
<1> QED BY <1>5, <1>6, <1>7, <1>10, <1>11, <1>12 DEF FetchInv

\* A fetch goes on.
LEMMA MovesKeeps ==
  ASSUME FetchInv, NEW i \in Flying(fetch), NEW f \in FetchType, f.stage \in Stages,
         IsHonest(i) => HonestFetch(f), Moves(i, f)
  PROVE  FetchInv'
<1>1. /\ fetch' = [fetch EXCEPT ![i] = f]
      /\ UNCHANGED <<phase, candidates, found, started, summary, harvest, cache>>
  BY DEF Moves
<1>2. /\ Len(fetch) \in Nat /\ DOMAIN fetch = 1..Len(fetch) /\ i \in 1..Len(fetch)
  BY FlyingFacts DEF FetchInv
<1>3. /\ fetch' \in Seq(FetchType) /\ Len(fetch') = Len(fetch) /\ DOMAIN fetch' = DOMAIN fetch
      /\ \A j \in DOMAIN fetch : fetch'[j] = IF j = i THEN f ELSE fetch[j]
  <2>1. /\ fetch' \in Seq(FetchType) /\ Len(fetch') = Len(fetch)
        /\ \A j \in 1..Len(fetch) : fetch'[j] = IF j = i THEN f ELSE fetch[j]
    BY <1>1, <1>2, ExceptSeq DEF FetchInv, FetchTypes
  <2> QED BY <1>2, <2>1, LenProperties
<1>4. Flying(fetch') = Flying(fetch)
  BY <1>3 DEF Flying
<1>5. FetchTypes'
  BY <1>1, <1>3 DEF FetchInv, FetchTypes
<1>6. Failures' = Failures
  BY <1>1 DEF Failures
<1>7. CountInv' /\ SingleInv'
  BY <1>1, <1>3, <1>4, <1>6 DEF FetchInv, CountInv, SingleInv
<1>8. ServedIsAuthentic'
  BY <1>3 DEF FetchInv, ServedIsAuthentic, Stages
<1>9. \A j \in DOMAIN fetch' : IsHonest(j)' => HonestFetch(fetch'[j])
  BY <1>1, <1>3 DEF FetchInv, IsHonest
<1> QED BY <1>5, <1>7, <1>8, <1>9 DEF FetchInv

\* A fetch fails: it is counted, and the next is started in its place.
LEMMA FailsKeeps ==
  ASSUME FetchInv, NEW i \in Flying(fetch), NEW c \in Categories, phase = "race",
         IsHonest(i) => c \in {"unreachable", "timeout"}, Fails(i, c)
  PROVE  FetchInv'
<1> DEFINE ended == [NewFetch EXCEPT !.stage = c]
           kept == [fetch EXCEPT ![i] = ended]
           n == Len(fetch)
<1>1. /\ summary' = [summary EXCEPT ![c] = @ + 1] /\ TopUp(i, c)
      /\ phase' = IF \E j \in DOMAIN fetch' : fetch'[j].stage \in Stages THEN "race" ELSE "failed"
      /\ UNCHANGED <<candidates, found, harvest, cache>>
  BY DEF Fails
<1>2. /\ n \in Nat /\ DOMAIN fetch = 1..n /\ i \in 1..n /\ Cardinality(Flying(fetch)) \in Nat
      /\ IsFiniteSet(Flying(fetch)) /\ Flying(fetch) \subseteq 1..n
  BY FlyingFacts DEF FetchInv
<1>3. /\ NewFetch \in FetchType /\ NewFetch.stage = "connect" /\ HonestFetch(NewFetch)
      /\ ended \in FetchType /\ ended.stage = c /\ c \notin Stages \cup {"served"}
      /\ (IsHonest(i) => HonestFetch(ended))
  <2>1. 0 \in 0..MaxSize /\ c \notin Stages \cup {"served"}
    BY MetadataFetchAssumption DEF Categories, Stages
  <2>2. NewFetch = [stage |-> "connect", size |-> 0, piece |-> 0, right |-> {}]
    BY DEF NewFetch
  <2>3. ended = [stage |-> c, size |-> 0, piece |-> 0, right |-> {}]
    BY <2>2
  <2>4. NewFetch \in FetchType /\ ended \in FetchType
    BY <2>1, <2>2, <2>3 DEF FetchType, Stages
  <2>5. HonestFetch(NewFetch)
    BY <2>2 DEF HonestFetch
  <2>6. IsHonest(i) => HonestFetch(ended)
    BY <2>3 DEF HonestFetch
  <2> QED BY <2>1, <2>2, <2>3, <2>4, <2>5, <2>6
<1> HIDE DEF ended, n
<1>4. /\ kept \in Seq(FetchType) /\ Len(kept) = n /\ DOMAIN kept = 1..n
      /\ \A j \in 1..n : kept[j] = IF j = i THEN ended ELSE fetch[j]
  BY <1>2, <1>3, ExceptSeq, LenProperties DEF FetchInv, FetchTypes, n
<1>5. Flying(kept) = Flying(fetch) \ {i} /\ Cardinality(Flying(kept)) = Cardinality(Flying(fetch)) - 1
  <2>1. Flying(kept) = Flying(fetch) \ {i}
    BY <1>2, <1>3, <1>4 DEF Flying
  <2> QED BY <1>2, <2>1, FS_RemoveElement
<1>6. Failures' = Failures + 1 /\ Failures \in Nat /\ summary' \in [Categories -> Nat]
  <2>1. summary \in [Categories -> Nat]
    BY DEF FetchInv, FetchTypes
  <2> QED BY <1>1, <2>1 DEF Failures, Categories
<1>7. /\ Failures + Cardinality(Flying(fetch)) = n /\ Cardinality(Flying(fetch)) <= AtOnce(Len(candidates))
      /\ started = n /\ started <= Len(candidates) /\ Len(candidates) \in Nat /\ AtOnce(Len(candidates)) \in Nat
  <2>1. Len(candidates) \in Nat
    BY LenProperties DEF FetchInv, FetchTypes
  <2> QED BY <2>1, AtOnceFacts DEF FetchInv, FetchTypes, CountInv, n
<1> HIDE DEF kept
<1>8. CASE started < Len(candidates)
  <2>1. fetch' = Append(kept, NewFetch) /\ started' = started + 1
    BY <1>1, <1>8 DEF TopUp, kept, ended
  <2>2. /\ fetch' \in Seq(FetchType) /\ Len(fetch') = n + 1 /\ DOMAIN fetch' = 1..n + 1
        /\ \A j \in 1..n : fetch'[j] = kept[j]
        /\ fetch'[n + 1] = NewFetch
    BY <1>3, <1>4, <2>1, AppendProperties, LenProperties
  <2>3. Flying(fetch') = Flying(kept) \cup {n + 1}
    BY <1>2, <1>3, <1>4, <2>2 DEF Flying, Stages
  <2>4. Cardinality(Flying(fetch')) = Cardinality(Flying(fetch))
    <3>1. IsFiniteSet(Flying(kept)) /\ n + 1 \notin Flying(kept)
      BY <1>2, <1>5, FS_Subset
    <3>2. Cardinality(Flying(kept) \cup {n + 1}) = Cardinality(Flying(kept)) + 1
      BY <3>1, FS_AddElement
    <3> QED BY <1>2, <1>5, <2>3, <3>2
  <2>5. phase' = "race"
    BY <1>1, <1>2, <1>3, <2>2 DEF Stages
  <2>6. FetchTypes'
    <3>1. started' = Len(fetch') /\ started' <= Len(candidates)
      BY <1>2, <1>7, <1>8, <2>1, <2>2
    <3> QED BY <1>1, <1>6, <2>2, <2>5, <3>1 DEF FetchInv, FetchTypes
  <2>7. CountInv'
    <3>1. Failures' + Cardinality(Flying(fetch')) = Len(fetch')
      <4> DEFINE a == Cardinality(Flying(fetch))
                 b == Failures
      <4>1. a \in Nat /\ b \in Nat /\ b + a = n
        BY <1>2, <1>6, <1>7
      <4>2. Failures' = b + 1 /\ Cardinality(Flying(fetch')) = a /\ Len(fetch') = n + 1
        BY <1>6, <2>2, <2>4
      <4> HIDE DEF a, b
      <4> QED BY <4>1, <4>2
    <3>2. Cardinality(Flying(fetch')) <= AtOnce(Len(candidates))
      BY <1>7, <2>4
    <3> QED BY <1>1, <2>5, <3>1, <3>2 DEF CountInv
  <2>8. SingleInv'
    BY <1>1 DEF FetchInv, SingleInv
  <2>9. ServedIsAuthentic'
    BY <1>2, <1>3, <1>4, <2>2 DEF FetchInv, ServedIsAuthentic
  <2>10. \A j \in DOMAIN fetch' : IsHonest(j)' => HonestFetch(fetch'[j])
    <3> SUFFICES ASSUME NEW j \in 1..n + 1, IsHonest(j) PROVE HonestFetch(fetch'[j])
      BY <1>1, <2>2 DEF IsHonest
    <3>1. j \in 1..n \/ j = n + 1
      BY <1>2
    <3>2. j \in 1..n => HonestFetch(fetch[j])
      BY <1>2 DEF FetchInv
    <3>3. CASE j = n + 1
      BY <1>3, <2>2, <3>3
    <3>4. CASE j \in 1..n
      BY <1>3, <1>4, <2>2, <3>2, <3>4
    <3> QED BY <3>1, <3>3, <3>4
  <2> QED BY <2>6, <2>7, <2>8, <2>9, <2>10 DEF FetchInv
<1>9. CASE ~(started < Len(candidates))
  <2>1. fetch' = kept /\ started' = started
    BY <1>1, <1>9 DEF TopUp, kept, ended
  <2>2. phase' \in {"race", "failed"} /\ (phase' = "failed" => Flying(fetch') = {})
    BY <1>1 DEF Flying
  <2>3. FetchTypes'
    BY <1>1, <1>4, <1>6, <1>7, <2>1, <2>2 DEF FetchInv, FetchTypes
  <2>4. CountInv'
    <3> DEFINE a == Cardinality(Flying(fetch))
               b == Failures
               m == AtOnce(Len(candidates))
    <3>a. a \in Nat /\ b \in Nat /\ m \in Nat /\ a <= m /\ b + a = n
      BY <1>2, <1>6, <1>7
    <3>b. Failures' = b + 1 /\ Cardinality(Flying(fetch')) = a - 1 /\ Len(fetch') = n
      BY <1>4, <1>5, <1>6, <2>1
    <3> HIDE DEF a, b, m
    <3>c. Cardinality(Flying(fetch')) <= m /\ Failures' + Cardinality(Flying(fetch')) = Len(fetch')
      BY <3>a, <3>b
    <3>1. Cardinality(Flying(fetch')) <= AtOnce(Len(candidates))
      BY <3>c DEF m
    <3>2. Failures' + Cardinality(Flying(fetch')) = Len(fetch')
      BY <3>c
    <3>3. started' = Len(candidates)
      BY <1>2, <1>7, <1>9, <2>1
    <3> QED BY <1>1, <2>2, <3>1, <3>2, <3>3 DEF CountInv
  <2>5. SingleInv'
    BY <1>1 DEF FetchInv, SingleInv
  <2>6. ServedIsAuthentic'
    BY <1>2, <1>3, <1>4, <2>1 DEF FetchInv, ServedIsAuthentic
  <2>7. \A j \in DOMAIN fetch' : IsHonest(j)' => HonestFetch(fetch'[j])
    BY <1>1, <1>2, <1>3, <1>4, <2>1 DEF FetchInv, IsHonest
  <2> QED BY <2>3, <2>4, <2>5, <2>6, <2>7 DEF FetchInv
<1> QED BY <1>8, <1>9

LEMMA FinishKeeps == FetchInv /\ Finish => FetchInv'
<1> SUFFICES ASSUME FetchInv, Finish PROVE FetchInv'
  OBVIOUS
<1>1. /\ phase' = "idle" /\ candidates' = <<>> /\ found' = 0 /\ started' = 0 /\ fetch' = <<>>
      /\ summary' = NoFailures /\ harvest' = {} /\ cache' \in {cache, Cached(harvest)}
      /\ DOMAIN fetch' = {} /\ Len(<<>>) = 0
  BY DEF Finish
<1>2. harvest \in SUBSET Peer /\ cache \in Seq(Peer) /\ Len(cache) <= CacheLimit
      /\ \A i, j \in DOMAIN cache : cache[i] = cache[j] => i = j
  BY DEF FetchInv, FetchTypes, SingleInv
<1>3. /\ Cached(harvest) \in Seq(Peer) /\ Len(Cached(harvest)) <= CacheLimit
      /\ \A i, j \in DOMAIN Cached(harvest) : Cached(harvest)[i] = Cached(harvest)[j] => i = j
  <2> DEFINE new == harvest \ PeersOf(cache)
             fresh == SetToSeq(new)
             room == IF Len(cache) < CacheLimit THEN CacheLimit - Len(cache) ELSE 0
             m == Least2(room, Len(fresh))
             more == SubSeq(fresh, 1, m)
             all == cache \o more
  <2>1. /\ fresh \in Seq(new) /\ fresh \in Seq(Peer)
        /\ \A i, j \in DOMAIN fresh : fresh[i] = fresh[j] => i = j
    <3>1. new \subseteq Peer /\ IsFiniteSet(new)
      BY <1>2, MetadataFetchAssumption, FS_Subset
    <3> QED BY <3>1, SetToSeqFacts, SeqMonotonic
  <2>2. Len(cache) \in Nat /\ Len(fresh) \in Nat /\ DOMAIN fresh = 1..Len(fresh) /\ DOMAIN cache = 1..Len(cache)
    BY <1>2, <2>1, LenProperties
  <2>3. \A i \in DOMAIN fresh : fresh[i] \in Peer /\ fresh[i] \notin PeersOf(cache)
    BY <2>1, <2>2, ElementOfSeq
  <2> HIDE DEF fresh, new
  <2>4. m \in 0..Len(fresh) /\ Len(cache) + m <= CacheLimit
    BY <1>2, <2>2, MetadataFetchAssumption DEF Least2
  <2> HIDE DEF m
  <2>5. /\ more \in Seq(Peer) /\ Len(more) = m
        /\ \A i \in 1..m : more[i] = fresh[i] /\ i \in DOMAIN fresh
    <3>1. \A i \in 1..m : fresh[i] \in Peer /\ i \in DOMAIN fresh
      BY <2>2, <2>3, <2>4
    <3>2. m \in Int /\ 1 \in Int /\ m - 1 + 1 = m /\ (~(1 <= m) => m = 0)
      BY <2>2, <2>4
    <3>3. /\ SubSeq(fresh, 1, m) \in Seq(Peer)
          /\ Len(SubSeq(fresh, 1, m)) = IF 1 <= m THEN m - 1 + 1 ELSE 0
          /\ \A i \in 1..m - 1 + 1 : SubSeq(fresh, 1, m)[i] = fresh[1 + i - 1]
      BY <3>1, <3>2, SubSeqProperties
    <3>4. \A i \in 1..m : 1 + i - 1 = i
      BY <2>2, <2>4
    <3> QED BY <3>1, <3>2, <3>3, <3>4
  <2> HIDE DEF more
  <2>6. /\ all \in Seq(Peer) /\ Len(all) = Len(cache) + m /\ DOMAIN all = 1..Len(cache) + m
        /\ \A i \in DOMAIN cache : all[i] = cache[i]
        /\ \A i \in DOMAIN all \ DOMAIN cache : i - Len(cache) \in 1..m /\ all[i] = fresh[i - Len(cache)]
    BY <1>2, <2>5, ConcatFacts
  <2> HIDE DEF all
  <2>7. ASSUME NEW i \in DOMAIN all, NEW j \in DOMAIN all, all[i] = all[j] PROVE i = j
    <3>1. CASE i \in DOMAIN cache /\ j \in DOMAIN cache
      BY <1>2, <2>6, <2>7, <3>1
    <3>2. CASE i \notin DOMAIN cache /\ j \notin DOMAIN cache
      <4>1. i - Len(cache) = j - Len(cache)
        BY <2>1, <2>5, <2>6, <2>7, <3>2
      <4> QED BY <2>2, <2>4, <2>6, <4>1
    <3>3. CASE (i \in DOMAIN cache) # (j \in DOMAIN cache)
      BY <2>3, <2>5, <2>6, <2>7, <3>3 DEF PeersOf
    <3> QED BY <3>1, <3>2, <3>3
  <2> QED BY <2>4, <2>6, <2>7 DEF Cached, all, more, m, fresh, new
<1>4. FetchTypes'
  BY <1>1, <1>2, <1>3, MetadataFetchAssumption, EmptySeq DEF FetchTypes, NoFailures
<1>5. CountInv'
  <2>1. Flying(fetch') = {} /\ Cardinality({}) = 0
    BY <1>1, FS_EmptySet DEF Flying
  <2>2. AtOnce(0) \in Nat
    BY AtOnceFacts
  <2> QED BY <1>1, <2>1, <2>2 DEF CountInv
<1>6. SingleInv'
  <2>1. DOMAIN candidates' = {}
    BY <1>1
  <2> QED BY <1>1, <1>2, <1>3, <2>1 DEF SingleInv
<1> QED BY <1>1, <1>4, <1>5, <1>6 DEF FetchInv, ServedIsAuthentic

\* The units of a piece follow those before it.
LEMMA FilledFacts ==
  ASSUME FetchInv, NEW i \in Flying(fetch), NEW chunk, chunk.units \in Nat
  PROVE  LET p == fetch[i].piece * PieceSize
         IN  p \in Nat /\ Filled(i, chunk) = p..p + chunk.units - 1
<1> DEFINE p == fetch[i].piece * PieceSize
           u0 == chunk.units
<1>1. p \in Nat
  <2>1. fetch[i].piece \in Nat
    BY FlyingFacts DEF FetchInv, Flying, FetchType
  <2> QED BY <2>1, MetadataFetchAssumption
<1>2. Filled(i, chunk) = {p + k : k \in 0..u0 - 1}
  BY DEF Filled
<1>3. u0 \in Nat
  OBVIOUS
<1> HIDE DEF p, u0
<1>4. {p + k : k \in 0..u0 - 1} = p..p + u0 - 1
  <2>1. \A x \in {p + k : k \in 0..u0 - 1} : x \in p..p + u0 - 1
    BY <1>1, <1>3
  <2>2. \A x \in p..p + u0 - 1 : x - p \in 0..u0 - 1 /\ x = p + (x - p)
    BY <1>1, <1>3
  <2> QED BY <2>1, <2>2
<1> QED BY <1>1, <1>2, <1>4 DEF p, u0

\* What is received of a piece, and that an honest peer's is right.
LEMMA ReceivedFacts ==
  ASSUME FetchInv, NEW i \in Flying(fetch), fetch[i].stage = "pieces", NEW chunk \in Chunks(i)
  PROVE  LET f == Received(i, chunk)
         IN  /\ f \in FetchType /\ f.stage = "pieces"
             /\ IsHonest(i) =>
                  /\ fetch[i].piece * PieceSize + chunk.units <= fetch[i].size
                  /\ f.piece < Pieces(f.size) => HonestFetch(f)
                  /\ ~(f.piece < Pieces(f.size)) => Verified(f)
<1> DEFINE f == Received(i, chunk)
           g == fetch[i]
           p == g.piece * PieceSize
<1>1. /\ g \in FetchType /\ g.piece \in Nat /\ g.right \subseteq 0..Info - 1 /\ g.stage = "pieces" /\ i \in DOMAIN fetch
      /\ Info \in Nat /\ PieceSize \in Nat \ {0} /\ MaxSize \in Nat /\ Info <= MaxSize
  BY FlyingFacts, MetadataFetchAssumption DEF FetchInv, Flying, FetchType
<1>2. IsHonest(i) => HonestFetch(g)
  BY <1>1 DEF FetchInv
<1>3. IsHonest(i) => g.size = Info /\ p < Info /\ g.right = 0..p - 1
  BY <1>1, <1>2 DEF HonestFetch
<1>4. p \in Nat
  BY <1>1
<1>5. chunk.units \in Nat /\ (IsHonest(i) => chunk.right /\ chunk.units = Least2(PieceSize, Info - p))
  <2>1. CASE IsHonest(i)
    <3>1. Least2(PieceSize, Info - p) \in Nat
      BY <1>1, <1>3, <1>4, <2>1 DEF Least2
    <3> QED BY <2>1, <3>1 DEF Chunks
  <2>2. CASE ~IsHonest(i)
    BY <2>2, <1>1 DEF Chunks
  <2> QED BY <2>1, <2>2
<1>6. Filled(i, chunk) = p..p + chunk.units - 1
  BY <1>5, FilledFacts
<1> DEFINE right == (g.right \ Filled(i, chunk)) \cup
                    (IF chunk.right THEN Filled(i, chunk) \cap 0..Info - 1 ELSE {})
<1>7. /\ f = [g EXCEPT !.piece = @ + 1, !.right = right]
      /\ right \subseteq 0..Info - 1
  BY <1>1 DEF Received
<1>8. f \in FetchType /\ f.stage = "pieces" /\ f.size = g.size /\ f.piece = g.piece + 1 /\ f.right = right
  <2> HIDE DEF right, g, f
  <2>1. /\ g.stage \in Stages \cup Categories \cup {"served"} /\ g.size \in 0..MaxSize
        /\ g = [stage |-> g.stage, size |-> g.size, piece |-> g.piece, right |-> g.right]
    BY <1>1 DEF FetchType
  <2>2. f = [stage |-> g.stage, size |-> g.size, piece |-> g.piece + 1, right |-> right]
    BY <1>7, <2>1
  <2> QED BY <1>1, <1>7, <2>1, <2>2 DEF FetchType
<1>9. f.piece * PieceSize = p + PieceSize
  <2>1. (g.piece + 1) * PieceSize = g.piece * PieceSize + PieceSize
    BY <1>1
  <2> QED BY <1>8, <2>1
<1> DEFINE n == chunk.units
<1>10. ASSUME IsHonest(i)
       PROVE  /\ p + n <= Info /\ n \in Nat /\ n = (IF PieceSize < Info - p THEN PieceSize ELSE Info - p)
              /\ right = 0..p + n - 1
  <2>1. n \in Nat /\ n = (IF PieceSize < Info - p THEN PieceSize ELSE Info - p)
    BY <1>5, <1>10 DEF Least2
  <2>2. p < Info /\ g.right = 0..p - 1 /\ chunk.right
    BY <1>3, <1>5, <1>10
  <2>3. right = ((0..p - 1) \ (p..p + n - 1)) \cup ((p..p + n - 1) \cap 0..Info - 1)
    BY <1>6, <2>2
  <2> HIDE DEF p, n, right, g
  <2>4. p + n <= Info
    BY <1>1, <1>4, <2>1, <2>2
  <2>5. ((0..p - 1) \ (p..p + n - 1)) \cup ((p..p + n - 1) \cap 0..Info - 1) = 0..p + n - 1
    BY <1>1, <1>4, <2>1, <2>4
  <2> QED BY <2>1, <2>3, <2>4, <2>5
<1>11. f.piece < Pieces(Info) <=> p + PieceSize < Info
  <2>1. f.piece \in Nat
    BY <1>1, <1>8
  <2> QED BY <1>9, <2>1, PiecesFacts
<1> HIDE DEF p, n, right, f, g
<1>12. ASSUME IsHonest(i) PROVE p + n <= g.size
  BY <1>3, <1>10, <1>12
<1>13. ASSUME IsHonest(i), f.piece < Pieces(f.size) PROVE HonestFetch(f)
  <2>1. f.size = Info /\ p + PieceSize < Info
    BY <1>3, <1>8, <1>11, <1>13
  <2>2. n = PieceSize
    BY <1>1, <1>4, <1>10, <1>13, <2>1
  <2>3. f.right = 0..f.piece * PieceSize - 1 /\ f.piece * PieceSize < Info
    <3>1. f.piece * PieceSize = p + n /\ f.right = 0..p + n - 1
      BY <1>8, <1>9, <1>10, <1>13, <2>2
    <3>2. \A e : e = p + n => f.right = 0..e - 1
      <4>1. p \in Nat /\ n \in Nat
        BY <1>4, <1>10, <1>13
      <4>2. p + n - 1 = (p + n) - 1
        BY <4>1
      <4> QED BY <3>1, <4>2
    <3> QED BY <1>9, <2>1, <3>1, <3>2
  <2> QED BY <1>8, <2>1, <2>3 DEF HonestFetch
<1>14. ASSUME IsHonest(i), ~(f.piece < Pieces(f.size)) PROVE Verified(f)
  <2>1. f.size = Info /\ ~(p + PieceSize < Info)
    BY <1>3, <1>8, <1>11, <1>14
  <2>2. p + n = Info
    BY <1>1, <1>4, <1>10, <1>14, <2>1
  <2>3. f.right = 0..Info - 1
    <3>1. f.right = 0..p + n - 1
      BY <1>8, <1>10, <1>14
    <3>2. \A e : e = p + n => f.right = 0..e - 1
      <4>1. p \in Nat /\ n \in Nat
        BY <1>4, <1>10, <1>14
      <4>2. p + n - 1 = (p + n) - 1
        BY <4>1
      <4> QED BY <3>1, <4>2
    <3> QED BY <2>2, <3>2
  <2> QED BY <1>1, <2>1, <2>3 DEF Verified
<1> QED BY <1>8, <1>12, <1>13, <1>14 DEF f, g, p, n

\* The first peer that serves wins the race.
LEMMA ServedKeeps ==
  ASSUME FetchInv, NEW i \in Flying(fetch), NEW f \in FetchType, Verified(f), phase' = "served",
         fetch' = [fetch EXCEPT ![i] = [f EXCEPT !.stage = "served"]],
         harvest' \in SUBSET Peer, UNCHANGED <<candidates, found, started, summary, cache>>
  PROVE  FetchInv'
<1> DEFINE g == [f EXCEPT !.stage = "served"]
<1>1. /\ Len(fetch) \in Nat /\ DOMAIN fetch = 1..Len(fetch) /\ i \in 1..Len(fetch)
      /\ IsFiniteSet(Flying(fetch)) /\ Cardinality(Flying(fetch)) \in Nat
  BY FlyingFacts DEF FetchInv
<1>2. /\ g \in FetchType /\ g.stage = "served" /\ g.size = Info /\ g.right = 0..Info - 1
  BY DEF FetchType, Verified
<1> HIDE DEF g
<1>3. /\ fetch' \in Seq(FetchType) /\ Len(fetch') = Len(fetch) /\ DOMAIN fetch' = 1..Len(fetch)
      /\ \A j \in 1..Len(fetch) : fetch'[j] = IF j = i THEN g ELSE fetch[j]
  <2>1. fetch' = [fetch EXCEPT ![i] = g] /\ fetch \in Seq(FetchType)
    BY DEF g, FetchInv, FetchTypes
  <2>2. /\ fetch' \in Seq(FetchType) /\ Len(fetch') = Len(fetch)
        /\ \A j \in 1..Len(fetch) : fetch'[j] = IF j = i THEN g ELSE fetch[j]
    BY <1>1, <1>2, <2>1, ExceptSeq
  <2> QED BY <2>2, LenProperties
<1>4. FetchTypes'
  BY <1>3 DEF FetchInv, FetchTypes
<1>5. CountInv'
  <2>1. Flying(fetch') = Flying(fetch) \ {i}
    BY <1>1, <1>2, <1>3 DEF Flying, Stages
  <2>2. Cardinality(Flying(fetch')) = Cardinality(Flying(fetch)) - 1
    BY <1>1, <2>1, FS_RemoveElement
  <2>3. AtOnce(Len(candidates)) \in Nat /\ Cardinality(Flying(fetch)) <= AtOnce(Len(candidates))
    BY LenProperties, AtOnceFacts DEF FetchInv, FetchTypes, CountInv
  <2> QED BY <1>1, <2>2, <2>3 DEF CountInv
<1>6. SingleInv' /\ ServedIsAuthentic'
  BY <1>1, <1>2, <1>3 DEF FetchInv, SingleInv, ServedIsAuthentic
<1>7. \A j \in DOMAIN fetch' : IsHonest(j)' => HonestFetch(fetch'[j])
  BY <1>1, <1>2, <1>3 DEF FetchInv, IsHonest, HonestFetch
<1> QED BY <1>4, <1>5, <1>6, <1>7 DEF FetchInv

LEMMA PieceKeeps ==
  ASSUME FetchInv, NEW i \in DOMAIN fetch, Piece(i)
  PROVE  FetchInv'
<1>1. i \in Flying(fetch) /\ fetch[i].stage = "pieces" /\ phase = "race"
  BY DEF Piece, At, InFlight2, Flying
<1>2. PICK chunk \in Chunks(i) :
        LET f == Received(i, chunk)
        IN  IF fetch[i].piece * PieceSize + chunk.units > fetch[i].size
            THEN Fails(i, "other")
            ELSE IF f.piece < Pieces(f.size) THEN Moves(i, f)
            ELSE IF ~Verified(f) THEN Fails(i, "other")
            ELSE /\ phase' = "served"
                 /\ fetch' = [fetch EXCEPT ![i] = [f EXCEPT !.stage = "served"]]
                 /\ harvest' \in SUBSET Peer
                 /\ UNCHANGED <<candidates, found, started, summary, cache>>
  BY DEF Piece
<1> DEFINE f == Received(i, chunk)
           end == fetch[i].piece * PieceSize + chunk.units
<1>3. /\ f \in FetchType /\ f.stage = "pieces"
      /\ IsHonest(i) => /\ end <= fetch[i].size
                        /\ f.piece < Pieces(f.size) => HonestFetch(f)
                        /\ ~(f.piece < Pieces(f.size)) => Verified(f)
  BY <1>1, ReceivedFacts
<1>4. end \in Int /\ fetch[i].size \in Int
  <2>1. fetch[i].piece \in Nat /\ fetch[i].size \in 0..MaxSize
    BY <1>1, FlyingFacts DEF FetchInv, FetchType, Flying
  <2>2. chunk.units \in Int
    <3>1. CASE IsHonest(i)
      BY <2>1, <3>1, MetadataFetchAssumption DEF Chunks, Least2
    <3>2. CASE ~IsHonest(i)
      BY <3>2, MetadataFetchAssumption DEF Chunks
    <3> QED BY <3>1, <3>2
  <2> QED BY <2>1, <2>2, MetadataFetchAssumption
<1> HIDE DEF f, end
<1>5. CASE Fails(i, "other") /\ ~IsHonest(i)
  BY <1>1, <1>5, FailsKeeps DEF Categories
<1>6. CASE Moves(i, f) /\ (IsHonest(i) => HonestFetch(f))
  BY <1>1, <1>3, <1>6, MovesKeeps DEF Stages
<1>7. CASE /\ Verified(f) /\ phase' = "served"
           /\ fetch' = [fetch EXCEPT ![i] = [f EXCEPT !.stage = "served"]]
           /\ harvest' \in SUBSET Peer
           /\ UNCHANGED <<candidates, found, started, summary, cache>>
  BY <1>1, <1>3, <1>7, ServedKeeps
<1>8. end > fetch[i].size => Fails(i, "other") /\ ~IsHonest(i)
  BY <1>2, <1>3, <1>4 DEF f, end
<1>9. ~(end > fetch[i].size) /\ f.piece < Pieces(f.size) => Moves(i, f) /\ (IsHonest(i) => HonestFetch(f))
  BY <1>2, <1>3 DEF f, end
<1>10. ~(end > fetch[i].size) /\ ~(f.piece < Pieces(f.size)) /\ ~Verified(f) => Fails(i, "other") /\ ~IsHonest(i)
  BY <1>2, <1>3 DEF f, end
<1>11. ~(end > fetch[i].size) /\ ~(f.piece < Pieces(f.size)) /\ Verified(f) =>
           /\ Verified(f) /\ phase' = "served"
           /\ fetch' = [fetch EXCEPT ![i] = [f EXCEPT !.stage = "served"]]
           /\ harvest' \in SUBSET Peer
           /\ UNCHANGED <<candidates, found, started, summary, cache>>
  BY <1>2, <1>3 DEF f, end
<1> QED BY <1>5, <1>6, <1>7, <1>8, <1>9, <1>10, <1>11

\* The other steps of a fetch.
LEMMA StagesKeep ==
  ASSUME FetchInv, NEW i \in DOMAIN fetch,
         \/ Connect(i) \/ Handshake(i) \/ Extended(i) \/ ExtendedRefused(i)
         \/ PieceRefused(i) \/ FetchTimeout(i)
  PROVE  FetchInv'
<1>1. i \in Flying(fetch) /\ phase = "race" /\ fetch[i].stage \in Stages
  BY DEF Connect, Handshake, Extended, ExtendedRefused, PieceRefused, FetchTimeout, At, InFlight2, Flying
<1>2. fetch[i] \in FetchType /\ (IsHonest(i) => HonestFetch(fetch[i]))
  BY <1>1, FlyingFacts DEF FetchInv, Flying
<1>3. ASSUME NEW c \in Categories, Fails(i, c), IsHonest(i) => c \in {"unreachable", "timeout"} PROVE FetchInv'
  BY <1>1, <1>3, FailsKeeps
<1>4. ASSUME NEW f \in FetchType, Moves(i, f), f.stage \in Stages, IsHonest(i) => HonestFetch(f) PROVE FetchInv'
  BY <1>1, <1>4, MovesKeeps
<1>5. CASE Connect(i)
  <2> DEFINE f == [fetch[i] EXCEPT !.stage = "handshake"]
  <2>1. f \in FetchType /\ f.stage \in Stages
    BY <1>2 DEF FetchType, Stages
  <2>2. IsHonest(i) => HonestFetch(f)
    BY <1>2, <1>5 DEF Connect, At, HonestFetch, FetchType
  <2> HIDE DEF f
  <2>3. Moves(i, f) \/ Fails(i, "unreachable")
    BY <1>5 DEF Connect, f
  <2> QED BY <1>3, <1>4, <2>1, <2>2, <2>3 DEF Categories
<1>6. CASE Handshake(i)
  <2> DEFINE f == [fetch[i] EXCEPT !.stage = "extended"]
  <2>1. f \in FetchType /\ f.stage \in Stages
    BY <1>2 DEF FetchType, Stages
  <2>2. IsHonest(i) => HonestFetch(f)
    BY <1>2, <1>6 DEF Handshake, At, HonestFetch, FetchType
  <2> HIDE DEF f
  <2>3. Moves(i, f) \/ (~IsHonest(i) /\ \E c \in {"other", "no_bep10"} : Fails(i, c))
    BY <1>6 DEF Handshake, f
  <2> QED BY <1>3, <1>4, <2>1, <2>2, <2>3 DEF Categories
<1>7. CASE Extended(i)
  <2>1. PICK size \in IF IsHonest(i) THEN {Info} ELSE 0..MaxSize + 1 :
          IF size = 0 \/ size > MaxSize
          THEN Fails(i, "other")
          ELSE Moves(i, [fetch[i] EXCEPT !.stage = "pieces", !.size = size])
    BY <1>7 DEF Extended
  <2> DEFINE f == [fetch[i] EXCEPT !.stage = "pieces", !.size = size]
  <2>2. Info \in 1..MaxSize /\ MaxSize \in Nat /\ PieceSize \in Nat
    BY MetadataFetchAssumption
  <2>3. size \in Nat /\ (IsHonest(i) => size = Info)
    BY <2>2
  <2>4. CASE size = 0 \/ size > MaxSize
    <3>1. ~IsHonest(i) /\ Fails(i, "other")
      BY <2>1, <2>2, <2>3, <2>4
    <3> QED BY <1>3, <3>1 DEF Categories
  <2>5. CASE ~(size = 0 \/ size > MaxSize)
    <3>1. size \in 0..MaxSize /\ Moves(i, f)
      BY <2>1, <2>2, <2>3, <2>5
    <3>2. f \in FetchType /\ f.stage \in Stages
      BY <1>2, <3>1 DEF FetchType, Stages
    <3>3. IsHonest(i) => HonestFetch(f)
      <4> SUFFICES ASSUME IsHonest(i) PROVE HonestFetch(f)
        OBVIOUS
      <4>1. fetch[i].piece = 0 /\ fetch[i].right = {}
        BY <1>2, <1>7 DEF Extended, At, HonestFetch
      <4>2. f.stage = "pieces" /\ f.size = Info /\ f.piece = 0 /\ f.right = {}
        BY <1>2, <2>3, <4>1 DEF FetchType
      <4>3. 0 * PieceSize = 0 /\ 0..0 - 1 = {} /\ 0 < Info
        BY <2>2
      <4> HIDE DEF f
      <4> QED BY <4>2, <4>3 DEF HonestFetch
    <3> HIDE DEF f
    <3> QED BY <1>4, <3>1, <3>2, <3>3
  <2> QED BY <2>4, <2>5
<1>8. CASE ExtendedRefused(i)
  BY <1>3, <1>8 DEF ExtendedRefused, Categories
<1>9. CASE PieceRefused(i)
  BY <1>3, <1>9 DEF PieceRefused, Categories
<1>10. CASE FetchTimeout(i)
  BY <1>3, <1>10 DEF FetchTimeout, Categories
<1> QED BY <1>5, <1>6, <1>7, <1>8, <1>9, <1>10

LEMMA FetchStep == FetchInv /\ [FetchNext]_fetchVars => FetchInv'
<1> SUFFICES ASSUME FetchInv, [FetchNext]_fetchVars PROVE FetchInv'
  OBVIOUS
<1>1. ASSUME NEW n \in 0..FoundLimit, NEW tracked \in SUBSET Peer, NEW named \in [1..n -> Peer],
             Begin(named, tracked)
      PROVE  FetchInv'
  BY <1>1, BeginRaceKeeps
<1>2. ASSUME NEW i \in DOMAIN fetch,
             \/ Connect(i) \/ Handshake(i) \/ Extended(i) \/ ExtendedRefused(i)
             \/ PieceRefused(i) \/ FetchTimeout(i)
      PROVE  FetchInv'
  BY <1>2, StagesKeep
<1>3. ASSUME NEW i \in DOMAIN fetch, Piece(i) PROVE FetchInv'
  BY <1>3, PieceKeeps
<1>4. CASE Finish
  BY <1>4, FinishKeeps
<1>5. CASE UNCHANGED fetchVars
  BY <1>5 DEF fetchVars, FetchInv, FetchTypes, SingleInv, CountInv, ServedIsAuthentic, Failures,
              Flying, IsHonest, HonestFetch
<1> QED BY <1>1, <1>2, <1>3, <1>4, <1>5 DEF FetchNext

LEMMA FetchInvImplies == FetchInv => FetchTypeOK /\ FetchIsSound
<1> SUFFICES ASSUME FetchInv PROVE FetchTypeOK /\ FetchIsSound
  OBVIOUS
<1>1. FetchTypeOK
  BY FlyingFacts DEF FetchInv, FetchTypes, FetchType, FetchTypeOK
<1>2. RaceIsFair
  BY DEF FetchInv, CountInv, SingleInv, RaceIsFair, InFlight2, Flying
<1>3. FailedMeansAllFailed
  <2> SUFFICES ASSUME phase = "failed" PROVE started = Len(candidates) /\ Failures = Len(candidates)
    BY DEF FailedMeansAllFailed
  <2>1. /\ Failures + Cardinality(Flying(fetch)) = Len(fetch) /\ Flying(fetch) = {}
        /\ started = Len(candidates) /\ started = Len(fetch)
    BY DEF FetchInv, FetchTypes, CountInv
  <2>2. Failures \in Nat
    BY DEF FetchInv, FetchTypes, Failures, Categories
  <2>3. Cardinality(Flying(fetch)) = 0
    BY <2>1, FS_EmptySet
  <2> QED BY <2>1, <2>2, <2>3
<1>4. HonestPeerServes
  BY DEF FetchInv, HonestFetch, HonestPeerServes
<1> QED BY <1>1, <1>2, <1>3, <1>4 DEF FetchInv, FetchIsSound

\* A race is fair, a job fails only after all its candidates failed, what is
\* served is the dictionary whose hash is the torrent's, and a peer that
\* follows the protocol fails only by not connecting or by its timeout: for
\* every size of the dictionary and of the pieces.
THEOREM FetchStaysSound == FetchSpec => []FetchIsSound
<1>1. FetchInit => FetchInv
  BY FetchInvInit
<1>2. FetchInv /\ [FetchNext]_fetchVars => FetchInv'
  BY FetchStep
<1>3. FetchInv => FetchIsSound
  BY FetchInvImplies
<1> QED BY <1>1, <1>2, <1>3, PTL DEF FetchSpec

---------------------------------------------------------------------------
(* The announcer *)

Single(s) == \A i, j \in DOMAIN s : s[i] = s[j] => i = j

\* An element removed from a sequence that lists each of its elements once.
LEMMA RemoveFirstFacts ==
  ASSUME NEW S, NEW s \in Seq(S), NEW h, Single(s)
  PROVE  /\ RemoveFirst(s, h) \in Seq(S) /\ Single(RemoveFirst(s, h))
         /\ Entries(RemoveFirst(s, h)) = Entries(s) \ {h}
<1> USE DEF Single, Entries
<1>1. Len(s) \in Nat /\ DOMAIN s = 1..Len(s)
  BY LenProperties
<1>2. CASE \A i \in 1..Len(s) : s[i] # h
  <2>1. RemoveFirst(s, h) = s
    BY <1>2 DEF RemoveFirst
  <2> QED BY <1>1, <1>2, <2>1
<1>3. ASSUME NEW k \in 1..Len(s), s[k] = h
      PROVE  /\ RemoveFirst(s, h) \in Seq(S) /\ Single(RemoveFirst(s, h))
             /\ Entries(RemoveFirst(s, h)) = Entries(s) \ {h}
  <2> DEFINE a == SubSeq(s, 1, k - 1)
             b == SubSeq(s, k + 1, Len(s))
             n == Len(s)
  <2>1. RemoveFirst(s, h) = a \o b
    <3>1. {i \in 1..Len(s) : s[i] = h} = {k}
      BY <1>1, <1>3
    <3>2. SelectInSeq(s, LAMBDA v : v = h) = k
      BY <1>3, <3>1 DEF SelectInSeq, Min
    <3> QED BY <1>3, <3>2 DEF RemoveFirst, RemoveAt
  <2>2. /\ a \in Seq(S) /\ Len(a) = k - 1 /\ b \in Seq(S) /\ Len(b) = n - k /\ k \in 1..n /\ n \in Nat
        /\ \A i \in 1..k - 1 : a[i] = s[i]
        /\ \A i \in 1..n - k : b[i] = s[k + i]
    <3>1. \A i \in 1..n : s[i] \in S
      BY <1>1, ElementOfSeq
    <3>2. /\ a \in Seq(S) /\ Len(a) = k - 1 /\ \A i \in 1..k - 1 : a[i] = s[i]
      <4>1. 1 \in Int /\ k - 1 \in Int /\ \A i \in 1..k - 1 : s[i] \in S
        BY <1>1, <3>1
      <4>2. /\ a \in Seq(S) /\ Len(a) = (IF 1 <= k - 1 THEN k - 1 - 1 + 1 ELSE 0)
            /\ \A i \in 1..k - 1 - 1 + 1 : a[i] = s[1 + i - 1]
        BY <4>1, SubSeqProperties
      <4> HIDE DEF a
      <4> QED BY <1>1, <4>2
    <3>3. /\ b \in Seq(S) /\ Len(b) = n - k /\ \A i \in 1..n - k : b[i] = s[k + i]
      <4>1. k + 1 \in Int /\ n \in Int /\ \A i \in k + 1..n : s[i] \in S
        BY <1>1, <3>1
      <4>2. /\ b \in Seq(S) /\ Len(b) = (IF k + 1 <= n THEN n - (k + 1) + 1 ELSE 0)
            /\ \A i \in 1..n - (k + 1) + 1 : b[i] = s[k + 1 + i - 1]
        BY <4>1, SubSeqProperties
      <4> HIDE DEF b
      <4>3. n - (k + 1) + 1 = n - k /\ \A i \in 1..n - k : k + 1 + i - 1 = k + i
        BY <1>1
      <4>4. Len(b) = n - k
        BY <1>1, <4>2
      <4> QED BY <4>2, <4>3, <4>4
    <3> QED BY <1>1, <3>2, <3>3
  <2> DEFINE r == a \o b
  <2> HIDE DEF a, b, n
  <2>3. /\ r \in Seq(S) /\ DOMAIN r = 1..(k - 1) + (n - k)
        /\ \A i \in DOMAIN a : r[i] = a[i]
        /\ \A i \in DOMAIN r \ DOMAIN a : i - Len(a) \in DOMAIN b /\ r[i] = b[i - Len(a)]
        /\ DOMAIN a = 1..k - 1 /\ DOMAIN b = 1..n - k
    <3>1. /\ a \o b \in Seq(S) /\ DOMAIN (a \o b) = 1..Len(a) + Len(b) /\ DOMAIN a = 1..Len(a) /\ DOMAIN b = 1..Len(b)
          /\ \A i \in DOMAIN a : (a \o b)[i] = a[i]
          /\ \A i \in DOMAIN (a \o b) \ DOMAIN a : i - Len(a) \in DOMAIN b /\ (a \o b)[i] = b[i - Len(a)]
      <4>1. a \in Seq(S) /\ b \in Seq(S)
        BY <2>2
      <4> QED BY <4>1, ConcatFacts
    <3> QED BY <2>2, <3>1
  <2> HIDE DEF r
  <2>4. DOMAIN r = 1..n - 1
    BY <2>2, <2>3
  <2>5. \A i \in 1..n - 1 : r[i] = IF i < k THEN s[i] ELSE s[i + 1]
    <3> TAKE i \in 1..n - 1
    <3>1. CASE i < k
      BY <2>2, <2>3, <3>1
    <3>2. CASE ~(i < k)
      <4>1. i \in DOMAIN r \ DOMAIN a /\ i - (k - 1) \in 1..n - k
        BY <2>2, <2>3, <2>4, <3>2
      <4>2. k + (i - (k - 1)) = i + 1
        BY <2>2
      <4>3. r[i] = b[i - (k - 1)]
        BY <2>2, <2>3, <4>1
      <4>4. b[i - (k - 1)] = s[k + (i - (k - 1))]
        BY <2>2, <4>1
      <4> QED BY <3>2, <4>2, <4>3, <4>4
    <3> QED BY <3>1, <3>2
  <2>6. DOMAIN s = 1..n
    BY <1>1 DEF n
  <2>7. \A i, j \in DOMAIN r : r[i] = r[j] => i = j
    <3> SUFFICES ASSUME NEW i \in 1..n - 1, NEW j \in 1..n - 1, r[i] = r[j] PROVE i = j
      BY <2>4
    <3> DEFINE x == IF i < k THEN i ELSE i + 1
               y == IF j < k THEN j ELSE j + 1
    <3>1. x \in 1..n /\ y \in 1..n /\ (x = y => i = j)
      BY <2>2
    <3>2. r[i] = s[x] /\ r[j] = s[y]
      BY <2>5
    <3> HIDE DEF x, y
    <3> QED BY <2>6, <3>1, <3>2
  <2>8. {r[i] : i \in DOMAIN r} = {s[i] : i \in DOMAIN s} \ {h}
    <3>1. ASSUME NEW i \in 1..n - 1 PROVE \E x \in 1..n : r[i] = s[x] /\ s[x] # h
      <4> DEFINE x == IF i < k THEN i ELSE i + 1
      <4>1. x \in 1..n /\ x # k
        BY <2>2
      <4>2. r[i] = s[x]
        BY <2>5
      <4> HIDE DEF x
      <4>3. s[x] # h
        BY <1>3, <2>2, <2>6, <4>1
      <4> QED BY <4>1, <4>2, <4>3
    <3>2. ASSUME NEW x \in 1..n, s[x] # h PROVE \E i \in 1..n - 1 : r[i] = s[x]
      <4>1. x # k
        BY <1>3, <3>2
      <4>2. CASE x < k
        <5>1. x \in 1..n - 1
          BY <2>2, <4>2
        <5> QED BY <2>5, <4>2, <5>1
      <4>3. CASE x > k
        <5>1. x - 1 \in 1..n - 1 /\ ~(x - 1 < k) /\ x - 1 + 1 = x
          BY <2>2, <4>3
        <5> QED BY <2>5, <5>1
      <4> QED BY <2>2, <4>1, <4>2, <4>3
    <3>3. {r[i] : i \in DOMAIN r} \subseteq {s[i] : i \in DOMAIN s} \ {h}
      BY <2>4, <2>6, <3>1
    <3>4. {s[i] : i \in DOMAIN s} \ {h} \subseteq {r[i] : i \in DOMAIN r}
      BY <2>4, <2>6, <3>2
    <3> QED BY <3>3, <3>4
  <2>9. RemoveFirst(s, h) = r
    BY <2>1 DEF r
  <2> DEFINE q == RemoveFirst(s, h)
  <2>10. q = r
    BY <2>9
  <2> HIDE DEF q
  <2>11. q \in Seq(S) /\ \A i, j \in DOMAIN q : q[i] = q[j] => i = j
    BY <2>3, <2>7, <2>10
  <2>12. {q[i] : i \in DOMAIN q} = {s[i] : i \in DOMAIN s} \ {h}
    BY <2>8, <2>10
  <2> QED BY <2>11, <2>12 DEF q
<1> QED BY <1>1, <1>2, <1>3

Row == [miss : Nat, noPeers : BOOLEAN]

StampInv ==
  /\ stamped \in Seq(Hash) /\ Single(stamped)
  /\ Stamped \subseteq DOMAIN listing

AnnTypes ==
  /\ DOMAIN listing \subseteq Hash /\ listing \in [DOMAIN listing -> Row]
  /\ DOMAIN pool \subseteq Hash /\ pool \in [DOMAIN pool -> 0..Rotate]
  /\ Cardinality(DOMAIN pool) <= PoolSize
  /\ active \cup leaving \subseteq DOMAIN pool
  /\ harvested \cup struck \subseteq leaving
  /\ annPc \in {"load", "poll", "persist"}
  /\ annPc # "persist" => leaving = {}
  /\ udpClient \in BOOLEAN /\ batch \subseteq Hash
  /\ quiet \in [Hash -> 0..Strikes] /\ annFaults \in 0..MaxFaults

\* A row counts no more misses than its torrent had quiet stays.  One that
\* is marked leaves the pool and does not come back; the harvest that is
\* not recorded yet is one stay ahead.
StrikeInv ==
  annFaults = 0 =>
    /\ DOMAIN pool \subseteq DOMAIN listing
    /\ \A h \in DOMAIN listing :
         /\ listing[h].noPeers => quiet[h] >= Strikes
         /\ listing[h].noPeers /\ h \in DOMAIN pool => h \in leaving \ harvested
         /\ h \notin harvested => quiet[h] >= Strikes \/ listing[h].miss <= quiet[h]
         /\ h \in harvested \ active => quiet[h] >= Strikes \/ listing[h].miss < quiet[h]
    /\ \A h \in struck : quiet[h] >= Strikes /\ h \notin harvested

AnnInv == StampInv /\ AnnTypes /\ StrikeInv

LEMMA AnnInvInit == AnnInit => AnnInv
<1> SUFFICES ASSUME AnnInit PROVE AnnInv
  OBVIOUS
<1> USE DEF AnnInit
<1>1. DOMAIN listing = {} /\ DOMAIN stamped = {} /\ DOMAIN pool = {} /\ Stamped = {}
  BY DEF Stamped
<1>2. StampInv
  BY <1>1 DEF StampInv, Single
<1>3. Cardinality({}) = 0
  BY FS_EmptySet
<1>4. AnnTypes
  BY <1>1, <1>3, AnnouncerAssumption DEF AnnTypes, Strikes
<1> QED BY <1>1, <1>2, <1>4 DEF AnnInv, StrikeInv

\* A stamp puts a row that is there last.
LEMMA StampKeeps ==
  ASSUME StampInv, NEW h \in Hash, h \in DOMAIN listing, Stamp(h), DOMAIN listing \subseteq DOMAIN listing'
  PROVE  StampInv'
<1> DEFINE r == RemoveFirst(stamped, h)
<1>1. r \in Seq(Hash) /\ Single(r) /\ Entries(r) = Entries(stamped) \ {h}
  BY RemoveFirstFacts DEF StampInv
<1> HIDE DEF r
<1>2. stamped' = Append(r, h)
  BY DEF Stamp, r
<1>3. /\ stamped' \in Seq(Hash) /\ Len(stamped') = Len(r) + 1 /\ Len(r) \in Nat /\ DOMAIN r = 1..Len(r)
      /\ DOMAIN stamped' = 1..Len(r) + 1 /\ stamped'[Len(r) + 1] = h
      /\ \A i \in 1..Len(r) : stamped'[i] = r[i]
  BY <1>1, <1>2, AppendProperties, LenProperties
<1>4. \A i \in 1..Len(r) : r[i] # h /\ r[i] \in Stamped
  BY <1>1, <1>3 DEF Stamped, Entries
<1>5. \A i \in 1..Len(r) + 1 : i \in 1..Len(r) \/ i = Len(r) + 1
  BY <1>3
<1>6. Single(stamped')
  BY <1>1, <1>3, <1>4, <1>5 DEF Single
<1>7. Stamped' \subseteq Stamped \cup {h}
  BY <1>3, <1>4, <1>5 DEF Stamped
<1> QED BY <1>3, <1>6, <1>7 DEF StampInv

\* The candidates fit into the free slots.
LEMMA LoadKeeps == AnnInv /\ LoadCandidates => AnnInv'
<1> SUFFICES ASSUME AnnInv, LoadCandidates PROVE AnnInv'
  OBVIOUS
<1>1. PICK c \in SUBSET Candidates :
        /\ IsLoad(c)
        /\ pool' = [h \in DOMAIN pool \cup c |-> IF h \in c THEN 0 ELSE pool[h]]
  BY DEF LoadCandidates
<1>2. /\ annPc = "load" /\ annPc' = "poll" /\ UNCHANGED <<listing, stamped, batch, quiet>>
      /\ UNCHANGED <<active, harvested, leaving, struck, udpClient, annFaults>>
  BY DEF LoadCandidates, RowsSame
<1>3. /\ c \subseteq DOMAIN listing \ DOMAIN pool /\ \A h \in c : ~listing[h].noPeers
      /\ DOMAIN listing \subseteq Hash /\ DOMAIN pool \subseteq Hash
  BY DEF Candidates, AnnInv, AnnTypes
<1>4. Cardinality(DOMAIN pool \cup c) <= PoolSize
  <2>1. /\ IsFiniteSet(DOMAIN pool) /\ IsFiniteSet(c) /\ IsFiniteSet(Candidates)
        /\ DOMAIN pool \cap c = {} /\ Cardinality({}) = 0
    BY <1>3, AnnouncerAssumption, FS_Subset, FS_EmptySet DEF Candidates
  <2>2. Cardinality(DOMAIN pool \cup c) = Cardinality(DOMAIN pool) + Cardinality(c) - Cardinality(DOMAIN pool \cap c)
    BY <2>1, FS_Union
  <2>3. Cardinality(c) <= PoolSize - Cardinality(DOMAIN pool) \/ Cardinality(c) = PoolSize - Cardinality(DOMAIN pool)
    <3>1. Cardinality(Candidates) \in Nat /\ Cardinality(DOMAIN pool) \in Nat /\ PoolSize \in Nat
      BY <2>1, AnnouncerAssumption, FS_CardinalityType
    <3> QED BY <1>1, <3>1 DEF IsLoad, FreeSlots
  <2>4. Cardinality(DOMAIN pool) \in Nat /\ Cardinality(c) \in Nat /\ PoolSize \in Nat
    BY <2>1, AnnouncerAssumption, FS_CardinalityType
  <2> DEFINE x == Cardinality(DOMAIN pool)
             y == Cardinality(c)
  <2>5. Cardinality(DOMAIN pool \cup c) = x + y - 0
    BY <2>1, <2>2
  <2>6. x \in Nat /\ y \in Nat /\ y <= PoolSize - x
    BY <2>3, <2>4
  <2> HIDE DEF x, y
  <2> QED BY <2>4, <2>5, <2>6
<1>5. DOMAIN pool' = DOMAIN pool \cup c /\ pool' \in [DOMAIN pool' -> 0..Rotate]
  BY <1>1, AnnouncerAssumption DEF AnnInv, AnnTypes
<1>6. AnnTypes'
  BY <1>2, <1>3, <1>4, <1>5 DEF AnnInv, AnnTypes
<1>7. StrikeInv'
  BY <1>2, <1>3, <1>5 DEF AnnInv, StrikeInv
<1> QED BY <1>2, <1>6, <1>7 DEF AnnInv, StampInv, Stamped

LEMMA PollKeeps == AnnInv /\ PollAndHarvest => AnnInv'
<1> SUFFICES ASSUME AnnInv, PollAndHarvest PROVE AnnInv'
  OBVIOUS
<1>1. /\ annPc = "poll" /\ annPc' = "persist" /\ leaving = {}
      /\ UNCHANGED <<listing, stamped, batch, pool, struck, udpClient, annFaults>>
      /\ active' \subseteq DOMAIN pool /\ leaving' \subseteq DOMAIN pool /\ harvested' = leaving'
      /\ quiet' = [h \in Hash |-> IF h \notin leaving' THEN quiet[h]
                              ELSE IF h \in active' THEN 0
                              ELSE IF quiet[h] < Strikes THEN quiet[h] + 1 ELSE Strikes]
  BY DEF PollAndHarvest, AnnInv, AnnTypes
<1>2. struck = {} /\ harvested = {} /\ quiet \in [Hash -> 0..Strikes] /\ Strikes \in Nat
  BY <1>1 DEF AnnInv, AnnTypes, Strikes
<1>3. quiet' \in [Hash -> 0..Strikes]
  BY <1>1, <1>2 DEF Strikes
<1>4. AnnTypes'
  BY <1>1, <1>2, <1>3 DEF AnnInv, AnnTypes
<1>5. ASSUME annFaults = 0 PROVE StrikeInv'
  <2>1. DOMAIN listing \subseteq Hash /\ listing \in [DOMAIN listing -> Row]
    BY DEF AnnInv, AnnTypes
  <2>2. ASSUME NEW h \in DOMAIN listing
        PROVE  /\ listing[h].noPeers => h \notin DOMAIN pool /\ quiet[h] >= Strikes
               /\ quiet[h] >= Strikes \/ listing[h].miss <= quiet[h]
               /\ listing[h].miss \in Nat /\ quiet[h] \in 0..Strikes
    BY <1>1, <1>2, <1>5, <2>1 DEF AnnInv, StrikeInv, Row
  <2>3. ASSUME NEW h \in DOMAIN listing
        PROVE  /\ listing[h].noPeers => quiet'[h] >= Strikes
               /\ listing[h].noPeers /\ h \in DOMAIN pool => h \in leaving' \ harvested'
               /\ h \notin harvested' => quiet'[h] >= Strikes \/ listing[h].miss <= quiet'[h]
               /\ h \in harvested' \ active' => quiet'[h] >= Strikes \/ listing[h].miss < quiet'[h]
    <3>1. /\ h \notin leaving' => quiet'[h] = quiet[h]
          /\ h \in leaving' \ active' => quiet'[h] = IF quiet[h] < Strikes THEN quiet[h] + 1 ELSE Strikes
      BY <1>1, <2>1
    <3> QED BY <1>1, <1>2, <2>2, <3>1
  <2> QED BY <1>1, <1>2, <1>5, <2>3 DEF AnnInv, StrikeInv
<1> QED BY <1>1, <1>4, <1>5 DEF AnnInv, StampInv, Stamped, StrikeInv

\* A result is recorded, with activity or without.
LEMMA RecordKeeps ==
  ASSUME AnnInv, NEW h \in harvested, RecordActive(h) \/ RecordMiss(h)
  PROVE  AnnInv'
<1>1. /\ annPc = "persist" /\ struck = {} /\ harvested' = harvested \ {h}
      /\ UNCHANGED <<pool, active, annPc, leaving, udpClient, batch, quiet, annFaults>>
  BY DEF RecordActive, RecordMiss
<1>2. h \in Hash /\ h \in leaving /\ h \in DOMAIN pool
  BY DEF AnnInv, AnnTypes
<1>3. listing \in [DOMAIN listing -> Row] /\ DOMAIN listing \subseteq Hash /\ quiet \in [Hash -> 0..Strikes]
      /\ Strikes = 3
  BY DEF AnnInv, AnnTypes, Strikes
<1>4. CASE h \notin DOMAIN listing
  <2>1. UNCHANGED <<listing, stamped, struck>>
    BY <1>1, <1>4 DEF RecordActive, RecordMiss
  <2>2. StampInv' /\ AnnTypes'
    BY <1>1, <2>1 DEF AnnInv, StampInv, Stamped, AnnTypes
  <2>3. StrikeInv'
    BY <1>1, <1>4, <2>1 DEF AnnInv, StrikeInv
  <2> QED BY <2>2, <2>3 DEF AnnInv
<1>5. CASE h \in DOMAIN listing
  <2>1. /\ Stamp(h) /\ struck' \subseteq {h}
        /\ \/ h \in active /\ listing' = [listing EXCEPT ![h].miss = 0] /\ struck' = {}
           \/ h \notin active /\ listing' = [listing EXCEPT ![h].miss = @ + 1]
              /\ (struck' # {} => listing[h].miss + 1 >= Strikes)
    BY <1>1, <1>5 DEF RecordActive, RecordMiss
  <2>2. /\ listing' \in [DOMAIN listing -> Row] /\ DOMAIN listing' = DOMAIN listing
        /\ \A x \in DOMAIN listing : /\ listing'[x].noPeers = listing[x].noPeers
                                     /\ x # h => listing'[x] = listing[x]
        /\ \/ h \in active /\ listing'[h].miss = 0 /\ struck' = {}
           \/ h \notin active /\ listing'[h].miss = listing[h].miss + 1
              /\ (struck' # {} => listing'[h].miss >= Strikes)
    BY <1>3, <1>5, <2>1 DEF Row
  <2>3. StampInv'
    BY <1>2, <1>5, <2>1, <2>2, StampKeeps DEF AnnInv
  <2>4. AnnTypes'
    BY <1>1, <1>2, <2>1, <2>2 DEF AnnInv, AnnTypes
  <2>5. ASSUME annFaults = 0 PROVE StrikeInv'
    <3>1. ASSUME NEW x \in DOMAIN listing
          PROVE  /\ listing[x].noPeers => quiet[x] >= Strikes
                 /\ listing[x].noPeers /\ x \in DOMAIN pool => x \in leaving \ harvested
                 /\ x \notin harvested => quiet[x] >= Strikes \/ listing[x].miss <= quiet[x]
                 /\ x \in harvested \ active => quiet[x] >= Strikes \/ listing[x].miss < quiet[x]
                 /\ listing[x].miss \in Nat /\ quiet[x] \in 0..3
      BY <1>3, <2>5 DEF AnnInv, StrikeInv, Row
    <3>2. quiet[h] >= Strikes \/ listing'[h].miss <= quiet[h]
      BY <1>3, <1>5, <2>2, <3>1
    <3>3. ASSUME NEW x \in DOMAIN listing
          PROVE  /\ listing'[x].noPeers => quiet[x] >= Strikes
                 /\ listing'[x].noPeers /\ x \in DOMAIN pool => x \in leaving \ harvested'
                 /\ x \notin harvested' => quiet[x] >= Strikes \/ listing'[x].miss <= quiet[x]
                 /\ x \in harvested' \ active => quiet[x] >= Strikes \/ listing'[x].miss < quiet[x]
      BY <1>1, <2>2, <3>1, <3>2
    <3>4. \A x \in struck' : quiet[x] >= Strikes /\ x \notin harvested'
      <4>1. struck' # {} => quiet[h] >= Strikes
        BY <1>3, <1>5, <2>2, <3>1, <3>2
      <4> QED BY <1>1, <2>1, <4>1
    <3> QED BY <1>1, <2>2, <2>5, <3>3, <3>4 DEF AnnInv, StrikeInv
  <2> QED BY <1>1, <2>3, <2>4, <2>5 DEF AnnInv, StrikeInv
<1> QED BY <1>4, <1>5

LEMMA MarkKeeps == AnnInv /\ MarkNoPeers => AnnInv'
<1> SUFFICES ASSUME AnnInv, MarkNoPeers PROVE AnnInv'
  OBVIOUS
<1>1. /\ annPc = "persist" /\ struck' = {}
      /\ UNCHANGED <<stamped, pool, active, annPc, harvested, leaving, udpClient, batch, quiet, annFaults>>
  BY DEF MarkNoPeers
<1>2. PICK h \in struck :
        listing' = IF h \in DOMAIN listing THEN [listing EXCEPT ![h].noPeers = TRUE] ELSE listing
  BY DEF MarkNoPeers
<1>3. h \in leaving /\ listing \in [DOMAIN listing -> Row]
  BY DEF AnnInv, AnnTypes
<1>4. /\ listing' \in [DOMAIN listing -> Row] /\ DOMAIN listing' = DOMAIN listing
      /\ \A x \in DOMAIN listing : /\ listing'[x].miss = listing[x].miss
                                   /\ x # h => listing'[x] = listing[x]
  BY <1>2, <1>3 DEF Row
<1>5. AnnTypes' /\ StampInv'
  BY <1>1, <1>4 DEF AnnInv, AnnTypes, StampInv, Stamped
<1>6. StrikeInv'
  BY <1>1, <1>3, <1>4 DEF AnnInv, StrikeInv
<1> QED BY <1>5, <1>6 DEF AnnInv

LEMMA RemoveKeeps == AnnInv /\ RemoveHarvested => AnnInv'
<1> SUFFICES ASSUME AnnInv, RemoveHarvested PROVE AnnInv'
  OBVIOUS
<1>1. /\ annPc' = "load" /\ harvested = {} /\ struck = {} /\ leaving' = {} /\ active' = active \ leaving
      /\ pool' = [h \in DOMAIN pool \ leaving |-> IF pool[h] < Rotate THEN pool[h] + 1 ELSE pool[h]]
      /\ UNCHANGED <<listing, stamped, batch, quiet, harvested, struck, udpClient, annFaults>>
  BY DEF RemoveHarvested, RowsSame
<1>2. DOMAIN pool' = DOMAIN pool \ leaving /\ pool' \in [DOMAIN pool' -> 0..Rotate]
  BY <1>1, AnnouncerAssumption DEF AnnInv, AnnTypes
<1>3. Cardinality(DOMAIN pool') <= PoolSize
  <2>1. IsFiniteSet(DOMAIN pool) /\ DOMAIN pool' \subseteq DOMAIN pool
    BY <1>2, AnnouncerAssumption, FS_Subset DEF AnnInv, AnnTypes
  <2>2. /\ Cardinality(DOMAIN pool') <= Cardinality(DOMAIN pool) /\ Cardinality(DOMAIN pool') \in Nat
        /\ Cardinality(DOMAIN pool) \in Nat
    BY <2>1, FS_Subset, FS_CardinalityType
  <2> QED BY <2>2, AnnouncerAssumption DEF AnnInv, AnnTypes
<1>4. AnnTypes' /\ StampInv'
  BY <1>1, <1>2, <1>3 DEF AnnInv, AnnTypes, StampInv, Stamped
<1>5. StrikeInv'
  BY <1>1, <1>2 DEF AnnInv, StrikeInv
<1> QED BY <1>4, <1>5 DEF AnnInv

\* A failed statement: from then on strikes may be lost or come late.
LEMMA AnnFaultFacts ==
  AnnInv /\ AnnFault => annFaults' \in 0..MaxFaults /\ annFaults' # 0
<1> SUFFICES ASSUME AnnInv, AnnFault PROVE annFaults' \in 0..MaxFaults /\ annFaults' # 0
  OBVIOUS
<1>1. annFaults \in 0..MaxFaults /\ MaxFaults \in Nat
  BY AnnouncerAssumption DEF AnnInv, AnnTypes
<1> QED BY <1>1 DEF AnnFault

LEMMA FaultsKeep == AnnInv /\ (LoadFailed \/ PersistFailed) => AnnInv'
<1> SUFFICES ASSUME AnnInv, LoadFailed \/ PersistFailed PROVE AnnInv'
  OBVIOUS
<1>1. annFaults' \in 0..MaxFaults /\ annFaults' # 0
  BY AnnFaultFacts DEF LoadFailed, PersistFailed
<1>2. /\ UNCHANGED <<listing, stamped, batch, quiet, pool, active, leaving, udpClient>>
      /\ \/ annPc = "load" /\ annPc' = "poll" /\ UNCHANGED <<harvested, struck>>
         \/ annPc = "persist" /\ annPc' = annPc /\ harvested' = {} /\ struck' = {}
  BY DEF LoadFailed, PersistFailed, RowsSame
<1>3. AnnTypes' /\ StampInv'
  BY <1>1, <1>2 DEF AnnInv, AnnTypes, StampInv, Stamped
<1> QED BY <1>1, <1>3 DEF AnnInv, StrikeInv

\* The refresher stamps rows and nothing else.
LEMMA RefresherKeeps ==
  AnnInv /\ (SelectBatch \/ \E h \in Hash : Refresh(h) \/ RefreshNothing(h)) => AnnInv'
<1> SUFFICES ASSUME AnnInv, SelectBatch \/ \E h \in Hash : Refresh(h) \/ RefreshNothing(h)
             PROVE  AnnInv'
  OBVIOUS
<1>1. /\ UNCHANGED <<listing, pool, active, annPc, harvested, leaving, struck, udpClient, quiet, annFaults>>
      /\ batch' \subseteq batch \cup DOMAIN listing
  BY DEF SelectBatch, Refresh, RefreshNothing, pooled
<1>2. AnnTypes' /\ StrikeInv'
  BY <1>1 DEF AnnInv, AnnTypes, StrikeInv
<1>3. StampInv'
  <2>1. CASE UNCHANGED stamped
    BY <1>1, <2>1 DEF AnnInv, StampInv, Stamped
  <2>2. ASSUME NEW h \in Hash, h \in DOMAIN listing, Stamp(h) PROVE StampInv'
    BY <1>1, <2>2, StampKeeps DEF AnnInv
  <2> QED BY <2>1, <2>2 DEF SelectBatch, Refresh, RefreshNothing
<1> QED BY <1>2, <1>3 DEF AnnInv

\* Rows come, are renewed and go.
LEMMA WritersKeep ==
  ASSUME AnnInv, NEW h \in Hash, AddListing(h) \/ RenewListing(h) \/ Unlist(h)
  PROVE  AnnInv'
<1>1. UNCHANGED <<pool, active, annPc, harvested, leaving, struck, udpClient, batch>>
  BY DEF AddListing, RenewListing, Unlist, pooled
<1>2. listing \in [DOMAIN listing -> Row] /\ quiet \in [Hash -> 0..Strikes] /\ Strikes = 3
  BY DEF AnnInv, AnnTypes, Strikes
<1>3. CASE AddListing(h)
  <2>1. /\ h \notin DOMAIN listing /\ UNCHANGED <<stamped, annFaults>>
        /\ listing' = [x \in DOMAIN listing \cup {h} |-> IF x = h THEN NewListing ELSE listing[x]]
        /\ quiet' = [quiet EXCEPT ![h] = 0]
    BY <1>3 DEF AddListing, AnnWith
  <2>2. NewListing \in Row /\ NewListing.miss = 0 /\ NewListing.noPeers = FALSE
    BY DEF NewListing, Row
  <2>3. /\ DOMAIN listing' = DOMAIN listing \cup {h} /\ listing' \in [DOMAIN listing' -> Row]
        /\ listing'[h] = NewListing /\ \A x \in DOMAIN listing : listing'[x] = listing[x] /\ quiet'[x] = quiet[x]
        /\ quiet' \in [Hash -> 0..Strikes] /\ quiet'[h] = 0
        /\ \A x \in Hash \ {h} : quiet'[x] = quiet[x]
    BY <1>2, <2>1, <2>2 DEF AnnInv, AnnTypes
  <2>4. AnnTypes' /\ StampInv'
    BY <1>1, <2>1, <2>3 DEF AnnInv, AnnTypes, StampInv, Stamped
  <2>5. ASSUME annFaults = 0 PROVE StrikeInv'
    <3>1. h \notin DOMAIN pool /\ h \notin harvested /\ h \notin struck /\ struck \subseteq Hash
      BY <2>1, <2>5 DEF AnnInv, AnnTypes, StrikeInv
    <3> QED BY <1>1, <1>2, <2>1, <2>2, <2>3, <2>5, <3>1 DEF AnnInv, StrikeInv
  <2> QED BY <2>1, <2>4, <2>5 DEF AnnInv, StrikeInv
<1>4. CASE RenewListing(h)
  <2>1. /\ UNCHANGED <<stamped, quiet>> /\ AnnFault /\ h \in DOMAIN listing
        /\ listing' = [listing EXCEPT ![h].noPeers = FALSE]
    BY <1>4 DEF RenewListing
  <2>2. annFaults' \in 0..MaxFaults /\ annFaults' # 0
    BY <2>1, AnnFaultFacts
  <2>3. listing' \in [DOMAIN listing -> Row] /\ DOMAIN listing' = DOMAIN listing
    BY <1>2, <2>1 DEF Row
  <2>4. AnnTypes' /\ StampInv'
    BY <1>1, <2>1, <2>2, <2>3 DEF AnnInv, AnnTypes, StampInv, Stamped
  <2> QED BY <2>2, <2>4 DEF AnnInv, StrikeInv
<1>5. CASE Unlist(h)
  <2>1. /\ UNCHANGED quiet /\ AnnFault
        /\ listing' = [x \in DOMAIN listing \ {h} |-> listing[x]]
        /\ stamped' = RemoveFirst(stamped, h)
    BY <1>5 DEF Unlist
  <2>2. annFaults' \in 0..MaxFaults /\ annFaults' # 0
    BY <2>1, AnnFaultFacts
  <2>3. listing' \in [DOMAIN listing' -> Row] /\ DOMAIN listing' = DOMAIN listing \ {h}
    BY <1>2, <2>1
  <2>4. AnnTypes'
    BY <1>1, <2>1, <2>2, <2>3 DEF AnnInv, AnnTypes
  <2>5. StampInv'
    <3>1. stamped' \in Seq(Hash) /\ Single(stamped') /\ Entries(stamped') = Entries(stamped) \ {h}
      BY <2>1, RemoveFirstFacts DEF AnnInv, StampInv
    <3> QED BY <2>3, <3>1 DEF AnnInv, StampInv, Stamped, Entries
  <2> QED BY <2>2, <2>4, <2>5 DEF AnnInv, StrikeInv
<1> QED BY <1>3, <1>4, <1>5

LEMMA AnnStep == AnnInv /\ [AnnNext]_annVars => AnnInv'
<1> SUFFICES ASSUME AnnInv, [AnnNext]_annVars PROVE AnnInv'
  OBVIOUS
<1>1. CASE AnnounceStep
  BY <1>1, LoadKeeps, PollKeeps, RecordKeeps, MarkKeeps, RemoveKeeps, FaultsKeep DEF AnnounceStep
<1>2. CASE SelectBatch \/ \E h \in Hash : Refresh(h) \/ RefreshNothing(h)
  BY <1>2, RefresherKeeps
<1>3. ASSUME NEW h \in Hash, AddListing(h) \/ RenewListing(h) \/ Unlist(h) PROVE AnnInv'
  BY <1>3, WritersKeep
<1>4. CASE UNCHANGED annVars
  BY <1>4 DEF annVars, pooled, AnnInv, StampInv, Stamped, AnnTypes, StrikeInv
<1> QED BY <1>1, <1>2, <1>3, <1>4 DEF AnnNext

LEMMA AnnInvImplies == AnnInv => AnnTypeOK /\ ThreeStrikes
<1>1. AnnInv => AnnTypeOK
  BY DEF AnnInv, AnnTypes, StampInv, AnnTypeOK, Row
<1>2. AnnInv => ThreeStrikes
  BY DEF AnnInv, StrikeInv, ThreeStrikes
<1> QED BY <1>1, <1>2

\* A torrent is marked as without peers only after three stays in a row
\* without activity, for any pool and table, while no statement failed.
THEOREM StrikesAreThree == AnnSpec => []ThreeStrikes
<1>1. AnnInit => AnnInv
  BY AnnInvInit
<1>2. AnnInv /\ [AnnNext]_annVars => AnnInv'
  BY AnnStep
<1>3. AnnInv => ThreeStrikes
  BY AnnInvImplies
<1> QED BY <1>1, <1>2, <1>3, PTL DEF AnnSpec

---------------------------------------------------------------------------
(* The path of info hashes *)

Free == IF query = {} THEN 1 ELSE 0

CrawlTypes ==
  /\ nodeQueue \in Seq(Node) /\ Len(nodeQueue) <= MaxNodes
  /\ query = {} \/ \E n \in Node : query = {n}
  /\ inbox \in Seq(Packet)
  /\ hashQueue \in Seq(Sampled) /\ Len(hashQueue) <= QueueSize
  /\ pending \in Seq(Sampled)
  /\ ingestPc \in {"drain", "flush", "final", "stopped"}
  /\ stored \subseteq Sampled /\ unlucky \subseteq Sampled
  /\ cancelled \in BOOLEAN
  /\ crawlFaults \in 0..CrawlFaults

\* The queries under way have ages of their own.
WayInv ==
  /\ onTheWay \subseteq Packet
  /\ \A p \in onTheWay : p.age <= MaxLate
  /\ \A p, q \in onTheWay : p.age = q.age => p = q

\* The socket empties as queries are sent: one that starts with answers in
\* it ends with one fewer, and only such as come late or whose query never
\* went out are older than their place says.
InboxInv ==
  /\ Len(inbox) + Cardinality(onTheWay) + Free <= MaxLate + 2
  /\ \A i \in DOMAIN inbox : inbox[i].age + i + Free <= 2 * MaxLate + 2 + crawlFaults

CrawlInv == CrawlTypes /\ WayInv /\ InboxInv

LEMMA CrawlNumbers ==
  /\ MaxNodes \in Nat /\ QueueSize \in Nat /\ BatchSize \in Nat /\ BatchSize > 0
  /\ TxnIds \in Nat /\ TxnIds > 0 /\ MaxLate \in Nat /\ CrawlFaults \in Nat
BY HashCrawlAssumption

\* There are no more of them than ages.
LEMMA WayFacts ==
  WayInv => /\ IsFiniteSet(onTheWay) /\ Cardinality(onTheWay) \in Nat
            /\ Cardinality(onTheWay) <= MaxLate + 1
<1> SUFFICES ASSUME WayInv
             PROVE  /\ IsFiniteSet(onTheWay) /\ Cardinality(onTheWay) \in Nat
                    /\ Cardinality(onTheWay) <= MaxLate + 1
  OBVIOUS
<1> DEFINE f == [p \in onTheWay |-> p.age]
<1>1. f \in Injection(onTheWay, 0..MaxLate)
  BY CrawlNumbers DEF WayInv, Packet, Injection, IsInjective
<1>2. IsFiniteSet(0..MaxLate) /\ Cardinality(0..MaxLate) = MaxLate + 1
  BY FS_Interval, CrawlNumbers
<1> HIDE DEF f
<1>3. IsFiniteSet(onTheWay) /\ Cardinality(onTheWay) <= MaxLate + 1
  BY <1>1, <1>2, FS_Injection
<1> QED BY <1>3, FS_CardinalityType

LEMMA OlderFacts ==
  ASSUME NEW p \in Packet
  PROVE  Older(p) \in Packet /\ Older(p).age = p.age + 1 /\ Older(p).node = p.node
BY DEF Older, Packet

LEMMA InboxFacts ==
  CrawlTypes => /\ Len(inbox) \in Nat /\ DOMAIN inbox = 1..Len(inbox)
                /\ \A i \in DOMAIN inbox : i \in Nat /\ inbox[i] \in Packet /\ inbox[i].age \in Nat
                /\ crawlFaults \in Nat /\ crawlFaults <= CrawlFaults /\ Free \in {0, 1}
<1> SUFFICES ASSUME CrawlTypes
             PROVE  /\ Len(inbox) \in Nat /\ DOMAIN inbox = 1..Len(inbox)
                    /\ \A i \in DOMAIN inbox : i \in Nat /\ inbox[i] \in Packet /\ inbox[i].age \in Nat
                    /\ crawlFaults \in Nat /\ crawlFaults <= CrawlFaults /\ Free \in {0, 1}
  OBVIOUS
<1>1. inbox \in Seq(Packet) /\ crawlFaults \in 0..CrawlFaults
  BY DEF CrawlTypes
<1>2. Len(inbox) \in Nat /\ DOMAIN inbox = 1..Len(inbox) /\ \A i \in DOMAIN inbox : inbox[i] \in Packet
  BY <1>1, LenProperties
<1>3. \A p \in Packet : p.age \in Nat
  BY DEF Packet
<1>4. \A i \in 1..Len(inbox) : i \in Nat
  OBVIOUS
<1>5. Free \in {0, 1}
  BY DEF Free
<1> QED BY <1>1, <1>2, <1>3, <1>4, <1>5, CrawlNumbers

\* A new query: every packet there is gets older by one.
LEMMA NextTxnFacts ==
  ASSUME WayInv, inbox \in Seq(Packet), NEW n \in Node,
         NEW new \in {{}, {[age |-> 0, node |-> n]}}, NextTxn(new)
  PROVE  /\ WayInv'
         /\ Cardinality(onTheWay') <= Cardinality(onTheWay) + (IF new = {} THEN 0 ELSE 1)
         /\ Cardinality(onTheWay') \in Nat
         /\ inbox' \in Seq(Packet) /\ Len(inbox') = Len(inbox)
         /\ \A i \in DOMAIN inbox' : i \in DOMAIN inbox /\ inbox'[i].age = inbox[i].age + 1
<1> DEFINE young == {x \in onTheWay : x.age < MaxLate}
           aged == {Older(p) : p \in young}
           zero == [age |-> 0, node |-> n]
<1>1. onTheWay' = aged \cup new
  BY DEF NextTxn
<1>2. \A p \in young : /\ p \in Packet /\ p.age \in Nat /\ p.age < MaxLate
                       /\ Older(p) \in Packet /\ Older(p).age = p.age + 1
  BY OlderFacts DEF WayInv, Packet
<1>3. zero \in Packet /\ zero.age = 0
  BY DEF Packet
<1>4. WayInv'
  <2>1. \A x \in aged : x \in Packet /\ x.age <= MaxLate /\ x.age > 0
    BY <1>2, CrawlNumbers
  <2>2. \A x, y \in aged : x.age = y.age => x = y
    <3> SUFFICES ASSUME NEW p \in young, NEW q \in young, Older(p).age = Older(q).age
                 PROVE  Older(p) = Older(q)
      OBVIOUS
    <3>1. p.age = q.age
      BY <1>2
    <3> QED BY <3>1 DEF WayInv
  <2> HIDE DEF aged, zero
  <2>3. new = {} \/ new = {zero}
    BY DEF zero
  <2> QED BY <1>1, <1>3, <2>1, <2>2, <2>3, CrawlNumbers DEF WayInv
<1>5. IsFiniteSet(onTheWay) /\ Cardinality(onTheWay) \in Nat
  BY WayFacts
<1>6. IsFiniteSet(young) /\ Cardinality(young) \in Nat /\ Cardinality(young) <= Cardinality(onTheWay)
  BY <1>5, FS_Subset, FS_CardinalityType
<1>7. IsFiniteSet(aged) /\ Cardinality(aged) \in Nat /\ Cardinality(aged) <= Cardinality(young)
  <2> DEFINE f == [p \in young |-> Older(p)]
  <2>1. f \in Surjection(young, aged)
    BY DEF Surjection
  <2> HIDE DEF f, young, aged
  <2>2. IsFiniteSet(aged) /\ Cardinality(aged) <= Cardinality(young)
    BY <2>1, <1>6, FS_Surjection
  <2> QED BY <2>2, FS_CardinalityType
<1>8. /\ Cardinality(onTheWay') <= Cardinality(onTheWay) + (IF new = {} THEN 0 ELSE 1)
      /\ Cardinality(onTheWay') \in Nat
  <2> HIDE DEF young, aged
  <2>1. CASE new = {}
    <3>1. onTheWay' = aged
      BY <1>1, <2>1
    <3>2. (IF new = {} THEN 0 ELSE 1) = 0
      BY <2>1
    <3> QED BY <3>1, <3>2, <1>5, <1>6, <1>7
  <2>2. CASE new # {}
    <3>1. new = {zero}
      BY <2>2
    <3> HIDE DEF zero
    <3>2. Cardinality(aged \cup {zero}) = IF zero \in aged THEN Cardinality(aged) ELSE Cardinality(aged) + 1
      BY <1>7, FS_AddElement
    <3>3. (IF new = {} THEN 0 ELSE 1) = 1
      BY <2>2
    <3>4. onTheWay' = aged \cup {zero}
      BY <3>1, <1>1
    <3> QED BY <3>2, <3>3, <3>4, <1>5, <1>6, <1>7
  <2> QED BY <2>1, <2>2
<1>9. /\ inbox' \in Seq(Packet) /\ Len(inbox') = Len(inbox)
      /\ \A i \in DOMAIN inbox' : i \in DOMAIN inbox /\ inbox'[i].age = inbox[i].age + 1
  <2>1. /\ Len(inbox) \in Nat /\ DOMAIN inbox = 1..Len(inbox) /\ \A i \in DOMAIN inbox : inbox[i] \in Packet
        /\ inbox' = [i \in DOMAIN inbox |-> Older(inbox[i])]
    BY LenProperties DEF NextTxn
  <2>2. \A i \in DOMAIN inbox : Older(inbox[i]) \in Packet /\ Older(inbox[i]).age = inbox[i].age + 1
    BY <2>1, OlderFacts
  <2>3. inbox' \in [1..Len(inbox) -> Packet]
    BY <2>1, <2>2
  <2>4. inbox' \in Seq(Packet) /\ Len(inbox') = Len(inbox)
    <3>1. inbox' \in Seq(Packet) /\ DOMAIN inbox' = 1..Len(inbox)
      BY <2>1, <2>3, SeqDef
    <3>2. DOMAIN inbox' = 1..Len(inbox') /\ Len(inbox') \in Nat
      BY <3>1, LenProperties
    <3> QED BY <2>1, <3>1, <3>2
  <2> QED BY <2>1, <2>2, <2>4
<1> QED BY <1>4, <1>8, <1>9

\* Nodes are pushed while there is room.
LEMMA PushNodesFacts ==
  ASSUME NEW q \in Seq(Node), Len(q) <= MaxNodes, NEW s \in Seq(Node)
  PROVE  PushNodes(q, s) \in Seq(Node) /\ Len(PushNodes(q, s)) <= MaxNodes
<1> DEFINE k == IF MaxNodes <= Len(q) THEN 0 ELSE IF MaxNodes - Len(q) < Len(s) THEN MaxNodes - Len(q) ELSE Len(s)
<1>1. /\ Len(q) \in Nat /\ Len(s) \in Nat /\ \A i \in 1..Len(s) : s[i] \in Node
      /\ k \in Int /\ 0 <= k /\ k <= Len(s) /\ Len(q) + k <= MaxNodes
  BY CrawlNumbers, LenProperties
<1>2. PushNodes(q, s) = q \o SubSeq(s, 1, k)
  BY DEF PushNodes
<1> HIDE DEF k
<1>3. \A i \in 1..k : s[i] \in Node
  BY <1>1
<1>4. SubSeq(s, 1, k) \in Seq(Node) /\ Len(SubSeq(s, 1, k)) = k
  BY <1>1, <1>3, SubSeqProperties
<1> QED BY <1>1, <1>2, <1>4, ConcatProperties

\* Hashes are pushed while there is room, and dropped then.
LEMMA PushHashesFacts ==
  ASSUME CrawlTypes, NEW s \in Seq(Sampled), PushHashes(s)
  PROVE  /\ hashQueue' \in Seq(Sampled) /\ Len(hashQueue') <= QueueSize
         /\ unlucky' \subseteq Sampled
<1> DEFINE fit == IF Len(s) < Room THEN Len(s) ELSE Room
<1>1. /\ Len(hashQueue) \in Nat /\ Len(s) \in Nat /\ \A i \in 1..Len(s) : s[i] \in Sampled
      /\ Room = QueueSize - Len(hashQueue) /\ Room \in Nat
  BY CrawlNumbers, LenProperties DEF CrawlTypes, Room
<1>2. fit \in Nat /\ fit <= Len(s) /\ Len(hashQueue) + fit <= QueueSize
  BY <1>1, CrawlNumbers
<1>3. /\ hashQueue' = hashQueue \o SubSeq(s, 1, fit)
      /\ unlucky' = unlucky \cup {s[i] : i \in fit + 1 .. Len(s)}
  BY DEF PushHashes
<1> HIDE DEF fit
<1>4. \A i \in 1..fit : s[i] \in Sampled
  BY <1>1, <1>2
<1>5. SubSeq(s, 1, fit) \in Seq(Sampled) /\ Len(SubSeq(s, 1, fit)) = fit
  BY <1>2, <1>4, SubSeqProperties
<1>6. hashQueue' \in Seq(Sampled) /\ Len(hashQueue') = Len(hashQueue) + fit
  BY <1>3, <1>5, ConcatProperties DEF CrawlTypes
<1>7. unlucky' \subseteq Sampled
  BY <1>1, <1>2, <1>3 DEF CrawlTypes
<1> QED BY <1>1, <1>2, <1>6, <1>7

LEMMA CrawlInvInit == CrawlInit => CrawlInv
<1> SUFFICES ASSUME CrawlInit PROVE CrawlInv
  OBVIOUS
<1>1. CrawlTypes
  <2>1. /\ \A S : <<>> \in Seq(S)
        /\ Len(<<>>) = 0
    OBVIOUS
  <2>2. nodeQueue \in Seq(Node) /\ inbox \in Seq(Packet) /\ hashQueue \in Seq(Sampled) /\ pending \in Seq(Sampled)
    BY <2>1 DEF CrawlInit
  <2>3. Len(nodeQueue) <= MaxNodes /\ Len(hashQueue) <= QueueSize
    BY <2>1, CrawlNumbers DEF CrawlInit
  <2>4. /\ query = {} /\ ingestPc = "drain" /\ stored = {} /\ unlucky = {} /\ cancelled = FALSE
        /\ crawlFaults \in 0..CrawlFaults
    BY CrawlNumbers DEF CrawlInit
  <2> QED BY <2>2, <2>3, <2>4 DEF CrawlTypes
<1>2. WayInv
  BY DEF CrawlInit, WayInv
<1>3. Len(inbox) = 0 /\ Cardinality(onTheWay) = 0 /\ DOMAIN inbox = {} /\ Free = 1
  BY FS_EmptySet DEF CrawlInit, Free
<1> QED BY <1>1, <1>2, <1>3, CrawlNumbers DEF CrawlInv, InboxInv

LEMMA ReseedKeeps ==
  ASSUME CrawlInv, NEW routing \in SUBSET Node, NEW boot \in SUBSET Bootstrap, Reseed(routing, boot)
  PROVE  CrawlInv'
<1>1. IsFiniteSet(routing) /\ IsFiniteSet(boot \ routing) /\ boot \subseteq Node
  BY HashCrawlAssumption, FS_Subset
<1>2. SetToSeq(routing) \in Seq(Node) /\ SetToSeq(boot \ routing) \in Seq(Node)
  BY <1>1, SetToSeqFacts, SeqMonotonic
<1>3. SetToSeq(routing) \o SetToSeq(boot \ routing) \in Seq(Node)
  BY <1>2, ConcatProperties
<1>4. <<>> \in Seq(Node) /\ Len(<<>>) <= MaxNodes
  BY CrawlNumbers
<1>5. nodeQueue' \in Seq(Node) /\ Len(nodeQueue') <= MaxNodes
  BY <1>3, <1>4, PushNodesFacts DEF Reseed, Seeds
<1>6. UNCHANGED <<query, onTheWay, inbox, hashQueue, pending, ingestPc, stored, crawlFaults, cancelled, unlucky>>
  BY DEF Reseed, ingesting
<1> QED BY <1>5, <1>6 DEF CrawlInv, CrawlTypes, WayInv, InboxInv, Free

LEMMA AskKeeps == CrawlInv /\ (Ask \/ AskFailed) => CrawlInv'
<1> SUFFICES ASSUME CrawlInv, Ask \/ AskFailed PROVE CrawlInv'
  OBVIOUS
<1>1. PICK n \in Node : /\ n = Head(nodeQueue)
                        /\ nodeQueue' \in Seq(Node) /\ Len(nodeQueue') = Len(nodeQueue) - 1
  BY HeadTailProperties DEF CrawlInv, CrawlTypes, Ask, AskFailed
<1>2. /\ UNCHANGED <<hashQueue, pending, ingestPc, stored, cancelled, unlucky>> /\ query = {}
      /\ \/ /\ query' = {n} /\ NextTxn({[age |-> 0, node |-> n]}) /\ UNCHANGED crawlFaults
         \/ /\ query' = {} /\ NextTxn({}) /\ crawlFaults < CrawlFaults /\ crawlFaults' = crawlFaults + 1
  BY <1>1 DEF Ask, AskFailed, Send, ingesting
<1>3. /\ Len(inbox) \in Nat /\ DOMAIN inbox = 1..Len(inbox) /\ \A i \in DOMAIN inbox : inbox[i].age \in Nat
      /\ crawlFaults \in 0..CrawlFaults /\ Len(nodeQueue) \in Nat /\ Len(nodeQueue) <= MaxNodes
  BY InboxFacts, LenProperties DEF CrawlInv, CrawlTypes
<1>4. IsFiniteSet(onTheWay) /\ Cardinality(onTheWay) \in Nat
  BY WayFacts DEF CrawlInv
<1>5. CASE query' = {n} /\ NextTxn({[age |-> 0, node |-> n]}) /\ UNCHANGED crawlFaults
  <2> DEFINE zero == [age |-> 0, node |-> n]
  <2>1. /\ WayInv' /\ Cardinality(onTheWay') <= Cardinality(onTheWay) + 1 /\ Cardinality(onTheWay') \in Nat
        /\ inbox' \in Seq(Packet) /\ Len(inbox') = Len(inbox)
        /\ \A i \in DOMAIN inbox' : i \in DOMAIN inbox /\ inbox'[i].age = inbox[i].age + 1
    <3>1. {zero} # {} /\ {zero} \in {{}, {[age |-> 0, node |-> n]}} /\ NextTxn({zero})
      BY <1>5
    <3> HIDE DEF zero
    <3> QED BY <1>4, <3>1, NextTxnFacts DEF CrawlInv, CrawlTypes
  <2>3. Free = 1 /\ Free' = 0
    BY <1>2, <1>5 DEF Free
  <2>4. InboxInv'
    <3>1. Len(inbox') + Cardinality(onTheWay') + Free' <= MaxLate + 2
      BY <1>3, <1>4, <2>1, <2>3, CrawlNumbers DEF CrawlInv, InboxInv
    <3>2. ASSUME NEW i \in DOMAIN inbox' PROVE inbox'[i].age + i + Free' <= 2 * MaxLate + 2 + crawlFaults'
      <4>1. /\ i \in DOMAIN inbox /\ inbox'[i].age = inbox[i].age + 1
            /\ i \in Nat /\ inbox[i].age \in Nat
        BY <1>3, <2>1
      <4>2. inbox[i].age + i + 1 <= 2 * MaxLate + 2 + crawlFaults
        BY <2>3, <4>1 DEF CrawlInv, InboxInv
      <4>3. crawlFaults \in Nat /\ crawlFaults' = crawlFaults + 0
        BY <1>3, <1>5, CrawlNumbers
      <4> QED BY <2>3, <4>1, <4>2, <4>3, CrawlNumbers
    <3> QED BY <3>1, <3>2 DEF InboxInv
  <2>5. CrawlTypes'
    <3>1. Len(nodeQueue') <= MaxNodes
      BY <1>1, <1>3, CrawlNumbers
    <3> QED BY <1>1, <1>2, <1>5, <2>1, <3>1 DEF CrawlInv, CrawlTypes
  <2> QED BY <2>1, <2>4, <2>5 DEF CrawlInv
<1>6. CASE query' = {} /\ NextTxn({}) /\ crawlFaults < CrawlFaults /\ crawlFaults' = crawlFaults + 1
  <2>1. /\ WayInv' /\ Cardinality(onTheWay') <= Cardinality(onTheWay) /\ Cardinality(onTheWay') \in Nat
        /\ inbox' \in Seq(Packet) /\ Len(inbox') = Len(inbox)
        /\ \A i \in DOMAIN inbox' : i \in DOMAIN inbox /\ inbox'[i].age = inbox[i].age + 1
    <3>1. WayInv /\ inbox \in Seq(Packet) /\ NextTxn({})
      BY <1>6 DEF CrawlInv, CrawlTypes
    <3>2. {} \in {{}, {[age |-> 0, node |-> n]}}
      OBVIOUS
    <3>3. Cardinality(onTheWay') <= Cardinality(onTheWay) + (IF {} = {} THEN 0 ELSE 1)
      BY <3>1, <3>2, NextTxnFacts
    <3>4. Cardinality(onTheWay') <= Cardinality(onTheWay)
      BY <3>3, <1>4
    <3> QED BY <3>1, <3>2, <3>4, NextTxnFacts
  <2>3. Free = 1 /\ Free' = 1
    BY <1>2, <1>6 DEF Free
  <2>4. InboxInv'
    <3>1. Len(inbox') + Cardinality(onTheWay') + Free' <= MaxLate + 2
      BY <1>3, <1>4, <2>1, <2>3, CrawlNumbers DEF CrawlInv, InboxInv
    <3>2. ASSUME NEW i \in DOMAIN inbox' PROVE inbox'[i].age + i + Free' <= 2 * MaxLate + 2 + crawlFaults'
      <4>1. /\ i \in DOMAIN inbox /\ inbox'[i].age = inbox[i].age + 1
            /\ i \in Nat /\ inbox[i].age \in Nat
        BY <1>3, <2>1
      <4>2. inbox[i].age + i + 1 <= 2 * MaxLate + 2 + crawlFaults
        BY <2>3, <4>1 DEF CrawlInv, InboxInv
      <4>3. crawlFaults \in Nat /\ crawlFaults' = crawlFaults + 1
        BY <1>3, <1>6, CrawlNumbers
      <4> QED BY <2>3, <4>1, <4>2, <4>3, CrawlNumbers
    <3> QED BY <3>1, <3>2 DEF InboxInv
  <2>5. CrawlTypes'
    BY <1>1, <1>2, <1>3, <1>6, <2>1, CrawlNumbers DEF CrawlInv, CrawlTypes
  <2> QED BY <2>1, <2>4, <2>5 DEF CrawlInv
<1> QED BY <1>2, <1>5, <1>6

LEMMA ReceiveKeeps == CrawlInv /\ Receive => CrawlInv'
<1> SUFFICES ASSUME CrawlInv, Receive PROVE CrawlInv'
  OBVIOUS
<1>1. PICK q \in query :
        IF Matches(Head(inbox), q)
        THEN PushHashes(Reply[q].samples) /\ nodeQueue' = PushNodes(nodeQueue, Reply[q].nodes)
        ELSE UNCHANGED <<hashQueue, nodeQueue, unlucky>>
  BY DEF Receive
<1>2. /\ inbox # <<>> /\ inbox' = Tail(inbox) /\ query' = {}
      /\ UNCHANGED <<onTheWay, pending, ingestPc, stored, crawlFaults, cancelled>>
  BY DEF Receive, ingesting
<1>3. q \in Node /\ Reply[q].samples \in Seq(Sampled) /\ Reply[q].nodes \in Seq(Node)
  BY HashCrawlAssumption DEF CrawlInv, CrawlTypes
<1>4. /\ nodeQueue' \in Seq(Node) /\ Len(nodeQueue') <= MaxNodes
      /\ hashQueue' \in Seq(Sampled) /\ Len(hashQueue') <= QueueSize /\ unlucky' \subseteq Sampled
  BY <1>1, <1>3, PushNodesFacts, PushHashesFacts DEF CrawlInv, CrawlTypes
<1>5. /\ inbox' \in Seq(Packet) /\ Len(inbox') = Len(inbox) - 1 /\ Len(inbox) \in Nat /\ Len(inbox') \in Nat
      /\ \A i \in 1..Len(inbox') : inbox'[i] = inbox[i + 1]
      /\ DOMAIN inbox = 1..Len(inbox) /\ DOMAIN inbox' = 1..Len(inbox')
      /\ \A i \in DOMAIN inbox : inbox[i].age \in Nat
  <2>1. inbox \in Seq(Packet) /\ inbox # <<>>
    BY <1>2 DEF CrawlInv, CrawlTypes
  <2>2. /\ Tail(inbox) \in Seq(Packet) /\ Len(Tail(inbox)) = Len(inbox) - 1
        /\ \A i \in 1..Len(Tail(inbox)) : Tail(inbox)[i] = inbox[i + 1]
    BY <2>1, HeadTailProperties
  <2>3. DOMAIN inbox' = 1..Len(inbox') /\ Len(inbox') \in Nat
    BY <1>2, <2>2, LenProperties
  <2> QED BY <1>2, <2>1, <2>2, <2>3, InboxFacts DEF CrawlInv
<1>6. CrawlTypes' /\ WayInv'
  BY <1>2, <1>4, <1>5 DEF CrawlInv, CrawlTypes, WayInv
<1>7. Cardinality(onTheWay) \in Nat /\ Cardinality(onTheWay') = Cardinality(onTheWay)
  BY <1>2, WayFacts DEF CrawlInv
<1>8. Free = 0 /\ Free' = 1 /\ crawlFaults \in Nat
  BY <1>2, CrawlNumbers DEF Free, CrawlInv, CrawlTypes
<1>9. Len(inbox') + Cardinality(onTheWay') + Free' <= MaxLate + 2
  BY <1>5, <1>7, <1>8, CrawlNumbers DEF CrawlInv, InboxInv
<1>10. ASSUME NEW i \in DOMAIN inbox' PROVE inbox'[i].age + i + Free' <= 2 * MaxLate + 2 + crawlFaults'
  <2>1. i \in Nat /\ i + 1 \in DOMAIN inbox /\ inbox'[i] = inbox[i + 1]
    BY <1>5
  <2>2. inbox[i + 1].age + (i + 1) + Free <= 2 * MaxLate + 2 + crawlFaults
    BY <2>1 DEF CrawlInv, InboxInv
  <2> QED BY <1>2, <1>5, <1>8, <2>1, <2>2, CrawlNumbers
<1> QED BY <1>6, <1>9, <1>10 DEF CrawlInv, InboxInv

LEMMA QueryTimeoutKeeps == CrawlInv /\ QueryTimeout => CrawlInv'
<1> SUFFICES ASSUME CrawlInv, QueryTimeout PROVE CrawlInv'
  OBVIOUS
<1>1. /\ inbox = <<>> /\ query' = {}
      /\ UNCHANGED <<nodeQueue, onTheWay, inbox, hashQueue, pending, ingestPc, stored, crawlFaults, cancelled, unlucky>>
  BY DEF QueryTimeout, ingesting
<1>2. CrawlTypes' /\ WayInv'
  BY <1>1 DEF CrawlInv, CrawlTypes, WayInv
<1>3. Cardinality(onTheWay) \in Nat /\ Cardinality(onTheWay) <= MaxLate + 1
  BY WayFacts DEF CrawlInv
<1>4. Len(inbox') = 0 /\ DOMAIN inbox' = {} /\ Free' = 1 /\ onTheWay' = onTheWay
  BY <1>1 DEF Free
<1> QED BY <1>2, <1>3, <1>4, CrawlNumbers DEF CrawlInv, InboxInv

LEMMA NetworkKeeps ==
  ASSUME CrawlInv, NEW p \in onTheWay, Deliver(p) \/ LosePacket(p)
  PROVE  CrawlInv'
<1>1. /\ UNCHANGED <<nodeQueue, query, hashQueue, pending, ingestPc, stored, crawlFaults, cancelled, unlucky>>
      /\ onTheWay' = onTheWay \ {p} /\ (inbox' = inbox \/ inbox' = Append(inbox, p))
  BY DEF Deliver, LosePacket, ingesting
<1>2. p \in Packet /\ p.age \in Nat /\ p.age <= MaxLate
  BY DEF CrawlInv, WayInv, Packet
<1>3. IsFiniteSet(onTheWay) /\ Cardinality(onTheWay) \in Nat
  BY WayFacts DEF CrawlInv
<1>4. Cardinality(onTheWay') = Cardinality(onTheWay) - 1
  BY <1>1, <1>3, FS_RemoveElement
<1>5. WayInv'
  BY <1>1 DEF CrawlInv, WayInv
<1>6. /\ inbox \in Seq(Packet) /\ Len(inbox) \in Nat /\ DOMAIN inbox = 1..Len(inbox)
      /\ \A i \in DOMAIN inbox : inbox[i].age \in Nat
  BY InboxFacts DEF CrawlInv, CrawlTypes
<1>7. Free' = Free /\ Free \in {0, 1} /\ crawlFaults' = crawlFaults /\ crawlFaults \in Nat
  BY <1>1, CrawlNumbers DEF Free, CrawlInv, CrawlTypes
<1>8. CASE inbox' = inbox
  <2>1. CrawlTypes'
    BY <1>1, <1>8 DEF CrawlInv, CrawlTypes
  <2>2. InboxInv'
    BY <1>3, <1>4, <1>6, <1>7, <1>8, CrawlNumbers DEF CrawlInv, InboxInv
  <2> QED BY <1>5, <2>1, <2>2 DEF CrawlInv
<1>9. CASE inbox' = Append(inbox, p)
  <2>1. /\ inbox' \in Seq(Packet) /\ Len(inbox') = Len(inbox) + 1
        /\ \A i \in 1..Len(inbox) : inbox'[i] = inbox[i]
        /\ inbox'[Len(inbox) + 1] = p
    BY <1>2, <1>6, <1>9, AppendProperties
  <2>2. DOMAIN inbox' = 1..(Len(inbox) + 1)
    BY <2>1, <1>6, LenProperties
  <2>3. CrawlTypes'
    BY <1>1, <2>1 DEF CrawlInv, CrawlTypes
  <2>4. Len(inbox') + Cardinality(onTheWay') + Free' <= MaxLate + 2
    BY <1>3, <1>4, <1>6, <1>7, <2>1, CrawlNumbers DEF CrawlInv, InboxInv
  <2>5. ASSUME NEW i \in DOMAIN inbox'
        PROVE  inbox'[i].age + i + Free' <= 2 * MaxLate + 2 + crawlFaults'
    <3>1. CASE i = Len(inbox) + 1
      <4>1. inbox'[i].age <= MaxLate /\ inbox'[i].age \in Nat
        BY <1>2, <2>1, <3>1
      <4>2. i + Free' <= MaxLate + 2
        <5>1. Len(inbox') + Cardinality(onTheWay) - 1 + Free' <= MaxLate + 2
          BY <1>3, <1>4, <1>6, <1>7, <2>1, <2>4, CrawlNumbers
        <5>2. Cardinality(onTheWay) >= 1
          BY <1>3, FS_EmptySet
        <5> QED BY <5>1, <5>2, <1>3, <1>6, <1>7, <2>1, <3>1, CrawlNumbers
      <4> QED BY <4>1, <4>2, <1>6, <1>7, <3>1, CrawlNumbers
    <3>2. CASE i # Len(inbox) + 1
      <4>1. i \in DOMAIN inbox /\ inbox'[i] = inbox[i]
        BY <1>6, <2>1, <2>2, <3>2
      <4> QED BY <4>1, <1>7 DEF CrawlInv, InboxInv
    <3> QED BY <3>1, <3>2
  <2> QED BY <1>5, <2>3, <2>4, <2>5 DEF CrawlInv, InboxInv
<1> QED BY <1>1, <1>8, <1>9

LEMMA IngestKeeps == CrawlInv /\ (IngestStep \/ Cancel) => CrawlInv'
<1> SUFFICES ASSUME CrawlInv, IngestStep \/ Cancel PROVE CrawlInv'
  OBVIOUS
<1> USE DEF CrawlInv
<1>1. UNCHANGED <<nodeQueue, query, onTheWay, inbox>>
  BY DEF IngestStep, Drain, IntervalOver, Upsert, UpsertFailed, FlushEnd, IngestStop, Cancel, sampling
<1>2. crawlFaults' \in 0..CrawlFaults /\ crawlFaults <= crawlFaults' /\ crawlFaults \in Nat
  BY CrawlNumbers DEF IngestStep, Drain, IntervalOver, Upsert, UpsertFailed, FlushEnd, IngestStop, Cancel, ingesting, CrawlTypes
<1>3. /\ hashQueue' \in Seq(Sampled) /\ Len(hashQueue') <= QueueSize /\ pending' \in Seq(Sampled)
      /\ ingestPc' \in {"drain", "flush", "final", "stopped"}
      /\ stored' \subseteq Sampled /\ unlucky' \subseteq Sampled /\ cancelled' \in BOOLEAN
  <2>1. CASE Drain
    <3>1. /\ Len(hashQueue) \in Nat /\ Drained \in Nat /\ Drained <= Len(hashQueue)
          /\ \A i \in 1..Len(hashQueue) : hashQueue[i] \in Sampled
      BY CrawlNumbers, LenProperties DEF CrawlTypes, Drained
    <3>2. /\ \A i \in 1..Drained : hashQueue[i] \in Sampled
          /\ \A i \in (Drained + 1)..Len(hashQueue) : hashQueue[i] \in Sampled
      BY <3>1
    <3>3. SubSeq(hashQueue, 1, Drained) \in Seq(Sampled)
      BY <3>1, <3>2, SubSeqProperties
    <3>4. /\ SubSeq(hashQueue, Drained + 1, Len(hashQueue)) \in Seq(Sampled)
          /\ Len(SubSeq(hashQueue, Drained + 1, Len(hashQueue))) =
               IF Drained + 1 <= Len(hashQueue) THEN Len(hashQueue) - (Drained + 1) + 1 ELSE 0
      BY <3>1, <3>2, SubSeqProperties
    <3>5. pending \o SubSeq(hashQueue, 1, Drained) \in Seq(Sampled)
      BY <3>3, ConcatProperties DEF CrawlTypes
    <3> QED BY <2>1, <3>1, <3>4, <3>5, CrawlNumbers DEF Drain, CrawlTypes
  <2>2. CASE Upsert \/ UpsertFailed
    <3>1. Head(pending) \in Sampled /\ Tail(pending) \in Seq(Sampled)
      BY <2>2, HeadTailProperties DEF Upsert, UpsertFailed, CrawlTypes
    <3> QED BY <2>2, <3>1 DEF Upsert, UpsertFailed, CrawlTypes
  <2>3. CASE IntervalOver \/ FlushEnd \/ IngestStop \/ Cancel
    BY <2>3 DEF IntervalOver, FlushEnd, IngestStop, Cancel, CrawlTypes, ingesting
  <2> QED BY <2>1, <2>2, <2>3 DEF IngestStep
<1>4. CrawlTypes' /\ WayInv'
  BY <1>1, <1>2, <1>3 DEF CrawlTypes, WayInv
<1>5. InboxInv'
  <2>1. Free' = Free /\ Free \in {0, 1}
    BY <1>1 DEF Free
  <2>2. /\ Len(inbox') + Cardinality(onTheWay') + Free' <= MaxLate + 2
    BY <1>1, <2>1 DEF InboxInv
  <2>3. ASSUME NEW i \in DOMAIN inbox' PROVE inbox'[i].age + i + Free' <= 2 * MaxLate + 2 + crawlFaults'
    <3>1. i \in DOMAIN inbox /\ inbox'[i] = inbox[i] /\ i \in Nat /\ inbox[i].age \in Nat
      BY <1>1, InboxFacts
    <3>2. inbox[i].age + i + Free <= 2 * MaxLate + 2 + crawlFaults
      BY <3>1 DEF InboxInv
    <3>3. crawlFaults' \in Nat
      BY <1>2, CrawlNumbers
    <3> QED BY <1>2, <2>1, <3>1, <3>2, <3>3, CrawlNumbers
  <2> QED BY <2>2, <2>3 DEF InboxInv
<1> QED BY <1>4, <1>5

LEMMA CrawlStep == CrawlInv /\ [CrawlNext]_crawlVars => CrawlInv'
<1> SUFFICES ASSUME CrawlInv, [CrawlNext]_crawlVars PROVE CrawlInv'
  OBVIOUS
<1>1. CASE SampleStep
  BY <1>1, ReseedKeeps, AskKeeps, ReceiveKeeps, QueryTimeoutKeeps DEF SampleStep
<1>2. CASE \E p \in onTheWay : Deliver(p) \/ LosePacket(p)
  BY <1>2, NetworkKeeps
<1>3. CASE IngestStep \/ Cancel
  BY <1>3, IngestKeeps
<1>4. CASE UNCHANGED crawlVars
  BY <1>4 DEF crawlVars, sampling, ingesting, CrawlInv, CrawlTypes, WayInv, InboxInv, Free
<1> QED BY <1>1, <1>2, <1>3, <1>4 DEF CrawlNext

LEMMA CrawlInvImplies == CrawlInv => CrawlTypeOK
<1> SUFFICES ASSUME CrawlInv PROVE CrawlTypeOK
  OBVIOUS
<1>1. query \subseteq Node /\ Cardinality(query) <= 1
  <2>1. CASE query = {}
    <3>1. Cardinality(query) = 0
      BY <2>1, FS_EmptySet
    <3> QED BY <2>1, <3>1
  <2>2. ASSUME NEW n \in Node, query = {n} PROVE query \subseteq Node /\ Cardinality(query) <= 1
    <3>1. Cardinality(query) = 1
      BY <2>2, FS_Singleton
    <3> QED BY <2>2, <3>1
  <2> QED BY <2>1, <2>2 DEF CrawlInv, CrawlTypes
<1> QED BY <1>1 DEF CrawlInv, CrawlTypes, WayInv, CrawlTypeOK

\* An answer that is used is of the age that only the last query has.
LEMMA UsedAnswers ==
  ASSUME 2 * MaxLate + CrawlFaults + 1 < TxnIds, CrawlInv, [CrawlNext]_crawlVars,
         NEW q \in query, query' = {}, inbox # <<>>, <<hashQueue, nodeQueue>>' # <<hashQueue, nodeQueue>>
  PROVE  Head(inbox) = [age |-> 0, node |-> q]
<1>1. Receive
  <2>1. ~Reseed({}, {}) /\ ~Ask /\ ~AskFailed /\ ~QueryTimeout /\ \A r, b : ~Reseed(r, b)
    BY DEF Reseed, Ask, AskFailed, QueryTimeout
  <2>2. \A p : ~Deliver(p) /\ ~LosePacket(p)
    BY DEF Deliver, LosePacket
  <2>3. ~IngestStep /\ ~Cancel
    BY DEF IngestStep, Drain, IntervalOver, Upsert, UpsertFailed, FlushEnd, IngestStop, Cancel, sampling
  <2>4. ~UNCHANGED crawlVars
    BY DEF crawlVars, sampling
  <2> QED BY <2>1, <2>2, <2>3, <2>4 DEF CrawlNext, SampleStep
<1>2. Matches(Head(inbox), q)
  BY <1>1 DEF Receive, CrawlInv, CrawlTypes
<1>3. Head(inbox) = inbox[1] /\ 1 \in DOMAIN inbox /\ inbox[1] \in Packet
  BY LenProperties, EmptySeq DEF CrawlInv, CrawlTypes
<1>4. inbox[1].age + 1 + Free <= 2 * MaxLate + 2 + crawlFaults
  BY <1>3 DEF CrawlInv, InboxInv
<1>5. Free = 0 /\ crawlFaults \in Nat /\ crawlFaults <= CrawlFaults /\ inbox[1].age \in Nat
  BY <1>3, InboxFacts DEF Free, CrawlInv
<1>6. inbox[1].age < TxnIds
  BY <1>4, <1>5, CrawlNumbers
<1>7. inbox[1].age = 0 /\ inbox[1].node = q
  BY <1>2, <1>3, <1>5, <1>6, CrawlNumbers DEF Matches
<1> QED BY <1>3, <1>7 DEF Packet

\* Only the answer to the query under way is used, never a late one to an
\* earlier query: the oldest packet that is read is at most 2 * MaxLate + 1
\* queries old, and as many more as sends failed, so with more transaction
\* ids than that none of them is in use again.
THEOREM AnswersAreCurrent ==
  ASSUME 2 * MaxLate + CrawlFaults + 1 < TxnIds
  PROVE  CrawlSpec => OnlyAnswersAreUsed
<1> DEFINE Used ==
      \A q \in query :
        (query' = {} /\ inbox # <<>> /\ <<hashQueue, nodeQueue>>' # <<hashQueue, nodeQueue>>)
          => Head(inbox) = [age |-> 0, node |-> q]
<1>1. CrawlInit => CrawlInv
  BY CrawlInvInit
<1>2. CrawlInv /\ [CrawlNext]_crawlVars => CrawlInv'
  BY CrawlStep
<1>3. CrawlInv /\ [CrawlNext]_crawlVars => [Used]_<<query, inbox, hashQueue, nodeQueue>>
  BY UsedAnswers
<1> HIDE DEF Used
<1>4. CrawlSpec => [][Used]_<<query, inbox, hashQueue, nodeQueue>>
  BY <1>1, <1>2, <1>3, PTL DEF CrawlSpec
<1> QED BY <1>4 DEF OnlyAnswersAreUsed, Used

---------------------------------------------------------------------------
(* The workers together *)

\* The queues of nodes and of hashes, the cache of seeders, the fetches under
\* way and the pool stay within their bounds in every worker, for all nodes,
\* peers, hashes, answers and bounds.
THEOREM WorkersStayTyped == MCSpec => []WorkersTypeOK
<1> DEFINE Inv == CrawlInv /\ FetchInv /\ AnnInv
           workerVars == <<crawlVars, fetchVars, annVars, worker>>
<1>1. MCInit => Inv
  BY CrawlInvInit, FetchInvInit, AnnInvInit DEF MCInit
<1>2. Inv /\ [MCNext]_workerVars => Inv'
  <2> SUFFICES ASSUME Inv, [MCNext]_workerVars PROVE Inv'
    OBVIOUS
  <2>1. [CrawlNext]_crawlVars /\ [FetchNext]_fetchVars /\ [AnnNext]_annVars
    BY DEF MCNext, Crawls, Fetches, Announces
  <2> QED BY <2>1, CrawlStep, FetchStep, AnnStep
<1>3. Inv => WorkersTypeOK
  BY CrawlInvImplies, FetchInvImplies, AnnInvImplies DEF WorkersTypeOK
<1> HIDE DEF Inv
<1> QED BY <1>1, <1>2, <1>3, PTL DEF MCSpec
=============================================================================

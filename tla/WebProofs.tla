----------------------------- MODULE WebProofs -----------------------------
(***************************************************************************)
(* Theorems about what the web API and the sync port keep: the address     *)
(* records, what users say of a torrent, the log and the connections; for  *)
(* every set of keys, users, threads and requests and any number of them.  *)
(***************************************************************************)
EXTENDS PeerRecords, Social, LogCapture, IdleTimeout, FiniteSetTheorems, SequenceTheorems, TLAPS

---------------------------------------------------------------------------
(* The address records *)

Body == [signer : DeviceKey, expiry : 1..Horizon + 1, found : BOOLEAN]
Row == [key : DeviceKey, signer : DeviceKey, expiry : 1..Horizon + 1]

\* The two empty values are no rows and no bodies: nothing expires at 0.
LEMMA EmptyFacts == NoPut \notin Body /\ NoRecord \notin Row
<1>1. NoPut.expiry = 0 /\ NoRecord.expiry = 0
  BY DEF NoPut, NoRecord
<1>2. \A b \in Body : b.expiry # 0
  BY PeerRecordsAssumption DEF Body
<1>3. \A r \in Row : r.expiry # 0
  BY PeerRecordsAssumption DEF Row
<1> QED BY <1>1, <1>2, <1>3

\* A request that found a record was let through only with its key, and the
\* key never changes; one that found none and writes over a record crosses.
RecordsInv ==
  /\ stored \in Row \cup {NoRecord}
  /\ put \in [Putter -> Body \cup {NoPut}]
  /\ now \in 0..Horizon /\ puts \in 0..MaxPuts /\ crossed \in BOOLEAN
  /\ UncrossedIsSigned
  /\ \A c \in Puts : put[c].found => Stored /\ put[c].signer = stored.key

\* What a GET answers has not expired.
LEMMA AnsweredFacts == Answered # NoRecord => Answered.expiry > now
BY DEF Answered

LEMMA RecordsInvImplies == RecordsInv => RecordsTypeOK /\ UncrossedIsSigned
BY AnsweredFacts DEF RecordsInv, RecordsTypeOK, Body, Row

LEMMA RecordsInvInit == RecordsInit => RecordsInv
<1> SUFFICES ASSUME RecordsInit PROVE RecordsInv
  OBVIOUS
<1>1. Puts = {}
  BY DEF RecordsInit, Puts
<1>2. 0 \in 0..Horizon /\ 0 \in 0..MaxPuts
  BY PeerRecordsAssumption
<1> QED BY <1>1, <1>2 DEF RecordsInit, RecordsInv, UncrossedIsSigned, NoRecord

LEMMA RecordsStep == RecordsInv /\ [RecordsNext]_recordVars => RecordsInv'
<1> SUFFICES ASSUME RecordsInv, [RecordsNext]_recordVars PROVE RecordsInv'
  OBVIOUS
<1> USE EmptyFacts DEF RecordsInv
<1>1. CASE RecordTick
  <2>1. now' \in 0..Horizon
    BY <1>1, PeerRecordsAssumption DEF RecordTick
  <2> QED BY <1>1, <2>1 DEF RecordTick, UncrossedIsSigned, Puts, Stored
<1>2. ASSUME NEW c \in Putter, NEW k \in DeviceKey, NEW e \in 1..Horizon + 1, PutRecord(c, k, e)
      PROVE  RecordsInv'
  <2> DEFINE b == [signer |-> k, expiry |-> e, found |-> Stored]
  <2>1. b \in Body
    BY DEF Body, Stored
  <2>2. put' = [put EXCEPT ![c] = b] /\ UNCHANGED <<stored, now, crossed>>
    BY <1>2 DEF PutRecord
  <2>3. puts' \in 0..MaxPuts
    BY <1>2, PeerRecordsAssumption DEF PutRecord
  <2>4. b.found => Stored /\ b.signer = stored.key
    BY <1>2 DEF PutRecord
  <2> HIDE DEF b
  <2>5. put' \in [Putter -> Body \cup {NoPut}]
    BY <2>1, <2>2
  <2>6. \A d \in Puts' : put'[d].found => Stored /\ put'[d].signer = stored.key
    BY <2>2, <2>4 DEF Puts
  <2> QED BY <2>2, <2>3, <2>5, <2>6 DEF UncrossedIsSigned, Stored
<1>3. ASSUME NEW c \in Putter, WriteRecord(c) PROVE RecordsInv'
  <2> DEFINE b == put[c]
  <2>1. b \in Body /\ c \in Puts
    BY <1>3 DEF WriteRecord, Puts
  <2>2. /\ put' = [put EXCEPT ![c] = NoPut] /\ UNCHANGED <<now, puts>>
        /\ stored' = [key |-> IF Stored THEN stored.key ELSE b.signer,
                      signer |-> b.signer, expiry |-> b.expiry]
        /\ crossed' = (crossed \/ (Stored /\ ~b.found))
    BY <1>3 DEF WriteRecord, Upserted
  <2>3. Stored => stored \in Row
    BY DEF Stored
  <2>4. stored' \in Row /\ Stored'
    <3>1. b.signer \in DeviceKey /\ b.expiry \in 1..Horizon + 1 /\ (Stored => stored.key \in DeviceKey)
      BY <2>1, <2>3 DEF Body, Row
    <3>2. stored' \in Row
      BY <2>2, <3>1 DEF Row
    <3> QED BY <3>2 DEF Stored
  <2>5. put' \in [Putter -> Body \cup {NoPut}]
    BY <2>2
  <2>6. Stored => stored'.key = stored.key
    BY <2>2
  <2>7. \A d \in Puts' : d \in Puts /\ put'[d] = put[d]
    BY <2>2 DEF Puts
  <2>8. \A d \in Puts' : put'[d].found => Stored' /\ put'[d].signer = stored'.key
    BY <2>4, <2>6, <2>7
  <2>9. UncrossedIsSigned'
    <3>1. CASE ~Stored
      BY <2>2, <3>1 DEF UncrossedIsSigned
    <3>2. CASE Stored /\ ~b.found
      BY <2>2, <3>2 DEF UncrossedIsSigned
    <3>3. CASE Stored /\ b.found
      BY <2>1, <2>2, <3>3 DEF UncrossedIsSigned
    <3> QED BY <3>1, <3>2, <3>3
  <2>10. crossed' \in BOOLEAN
    BY <2>2
  <2> QED BY <2>2, <2>4, <2>5, <2>8, <2>9, <2>10
<1>4. ASSUME NEW c \in Putter, WriteRecordFailed(c) PROVE RecordsInv'
  <2>1. put' = [put EXCEPT ![c] = NoPut] /\ UNCHANGED <<stored, now, puts, crossed>>
    BY <1>4 DEF WriteRecordFailed
  <2>2. \A d \in Puts' : d \in Puts /\ put'[d] = put[d]
    BY <2>1 DEF Puts
  <2>3. put' \in [Putter -> Body \cup {NoPut}]
    BY <2>1
  <2> QED BY <2>1, <2>2, <2>3 DEF UncrossedIsSigned, Stored
<1>5. CASE UNCHANGED recordVars
  BY <1>5 DEF recordVars, UncrossedIsSigned, Puts, Stored
<1> QED BY <1>1, <1>2, <1>3, <1>4, <1>5 DEF RecordsNext

\* Types, and what a GET of a record answers has not expired.
THEOREM RecordTypes == RecordsSpec => []RecordsTypeOK
<1>1. RecordsSpec => []RecordsInv
  BY RecordsInvInit, RecordsStep, PTL DEF RecordsSpec
<1> QED BY <1>1, RecordsInvImplies, PTL

\* Who reads a record can check its signature with the key beside it, as
\* long as no two requests for the device's first record crossed.
THEOREM UncrossedSigned == RecordsSpec => []UncrossedIsSigned
<1>1. RecordsSpec => []RecordsInv
  BY RecordsInvInit, RecordsStep, PTL DEF RecordsSpec
<1> QED BY <1>1, RecordsInvImplies, PTL

\* The key of a device is that of its first record, whatever requests cross,
\* fail or expire.
THEOREM FirstKey == RecordsSpec => FirstKeyStays
<1>1. [RecordsNext]_recordVars => [Stored => stored'.key = stored.key]_recordVars
  BY DEF RecordsNext, recordVars, RecordTick, PutRecord, WriteRecord, WriteRecordFailed, Upserted
<1> QED BY <1>1, PTL DEF RecordsSpec, FirstKeyStays

---------------------------------------------------------------------------
(* Votes, comments and suggestions *)

TalkType == [kind : {"none", "vote", "comment", "select", "delete"}, value : {-1, 0, 1},
         read : {-1, 0, 1}, id : Nat, alone : BOOLEAN]
Reviewing(t) == t.kind \in {"select", "delete"}

SocialTypes ==
  /\ listed \in {"absent", "unresolved", "resolved"} /\ vote \in {-1, 0, 1}
  /\ suggestion \in [id : Nat, outcome : {"none", "nuked", "dismissed"}]
  /\ ids \in Nat /\ contested \in BOOLEAN /\ relists \in Nat
  /\ comments \in [DOMAIN comments -> [parent : Nat, deleted : BOOLEAN]]
  /\ talk \in [User -> TalkType]
  /\ \A u \in User : talk[u].kind = "vote" => talk[u].value # 0

\* What is said belongs to the torrent and replies to what is there.
SaidInv ==
  /\ DOMAIN comments \subseteq 1..MaxComments
  /\ \A i \in DOMAIN comments : comments[i].parent \in DOMAIN comments \cup {0}
  /\ listed = "absent" => vote = 0 /\ suggestion = NoSuggestion /\ DOMAIN comments = {}
  /\ suggestion.id = 0 => suggestion.outcome = "none"

\* The vote that a lone one has read is there still, unless the torrent went.
LoneInv == \A u \in User :
  talk[u].kind = "vote" /\ talk[u].alone => vote \in {talk[u].read, 0}

\* A review that goes on was "nuked", unless it was crossed.
ReviewInv == \A u \in User :
  Reviewing(talk[u]) => suggestion.outcome = "nuked" \/ contested

SocialInv == SocialTypes /\ SaidInv /\ LoneInv /\ ReviewInv

LEMMA SilentFacts ==
  /\ Silent \in TalkType /\ Silent.kind = "none" /\ Silent.alone /\ ~Reviewing(Silent)
  /\ NoSuggestion.id = 0 /\ NoSuggestion.outcome = "none"
  /\ NoSuggestion \in [id : Nat, outcome : {"none", "nuked", "dismissed"}]
BY DEF Silent, TalkType, Reviewing, NoSuggestion

\* What a user's turn becomes; the others' stay.
LEMMA TurnFacts ==
  ASSUME NEW u \in User, talk \in [User -> TalkType], NEW t \in TalkType, talk' = [talk EXCEPT ![u] = t]
  PROVE  /\ talk' \in [User -> TalkType] /\ talk'[u] = t
         /\ \A w \in User \ {u} : talk'[w] = talk[w]
  OBVIOUS

LEMMA SocialInvInit == SocialInit => SocialInv
<1> SUFFICES ASSUME SocialInit PROVE SocialInv
  OBVIOUS
<1>1. /\ listed = "unresolved" /\ vote = 0 /\ comments = [i \in {} |-> 0]
      /\ suggestion = NoSuggestion /\ ids = 0 /\ relists = 0 /\ contested = FALSE
      /\ talk = [u \in User |-> Silent]
  BY DEF SocialInit
<1>2. DOMAIN comments = {} /\ comments \in [DOMAIN comments -> [parent : Nat, deleted : BOOLEAN]]
  BY <1>1
<1>3. talk \in [User -> TalkType] /\ \A u \in User : talk[u] = Silent
  BY <1>1, SilentFacts
<1> QED BY <1>1, <1>2, <1>3, SilentFacts DEF SocialInv, SocialTypes, SaidInv, LoneInv, ReviewInv

\* A vote that is written.
LEMMA WriteVoteKeeps ==
  ASSUME SocialInv, NEW u \in User, WriteVote(u)
  PROVE  SocialInv'
<1>1. /\ talk[u].kind = "vote" /\ Insertable(talk[u]) /\ vote' = Voted(talk[u])
      /\ talk' = [w \in User |-> IF w = u THEN Silent ELSE [talk[w] EXCEPT !.alone = FALSE]]
      /\ UNCHANGED <<listed, comments, suggestion, ids, relists, contested>>
  BY DEF WriteVote
<1>2. /\ \A w \in User : talk[w] \in TalkType
      /\ talk[u].value \in {1, -1} /\ talk[u].read \in {-1, 0, 1}
  BY <1>1 DEF SocialInv, SocialTypes, TalkType
<1>3. talk' \in [User -> TalkType] /\ talk'[u] = Silent
  <2>1. \A x \in TalkType : [x EXCEPT !.alone = FALSE] \in TalkType
    BY DEF TalkType
  <2>2. \A w \in User : (IF w = u THEN Silent ELSE [talk[w] EXCEPT !.alone = FALSE]) \in TalkType
    BY <1>2, <2>1, SilentFacts
  <2> QED BY <1>1, <2>2
<1>4. \A w \in User \ {u} : /\ talk'[w].kind = talk[w].kind /\ talk'[w].value = talk[w].value
                            /\ ~talk'[w].alone
  BY <1>1, <1>2 DEF TalkType
<1>5. vote' \in {-1, 0, 1}
  BY <1>1, <1>2 DEF Voted
<1>6. listed = "absent" => vote' = 0
  BY <1>1 DEF Insertable, Voted, SocialInv, SaidInv
<1>7. SocialTypes'
  BY <1>1, <1>3, <1>4, <1>5, SilentFacts DEF SocialInv, SocialTypes
<1>8. SaidInv'
  BY <1>1, <1>6 DEF SocialInv, SaidInv
<1>9. LoneInv' /\ ReviewInv'
  BY <1>1, <1>3, <1>4, SilentFacts DEF SocialInv, LoneInv, ReviewInv, Reviewing
<1> QED BY <1>7, <1>8, <1>9 DEF SocialInv

\* Turns that leave what is said alone.
LEMMA TurnKeeps ==
  ASSUME SocialInv, NEW u \in User, NEW t \in TalkType, talk' = [talk EXCEPT ![u] = t],
         t.kind = "vote" => t.value # 0 /\ t.read = vote,
         Reviewing(t) => suggestion.outcome = "nuked" \/ contested,
         UNCHANGED <<listed, vote, comments, suggestion, ids, relists, contested>>
  PROVE  SocialInv'
<1>1. /\ talk' \in [User -> TalkType] /\ talk'[u] = t
      /\ \A w \in User \ {u} : talk'[w] = talk[w]
  BY TurnFacts DEF SocialInv, SocialTypes
<1>2. SocialTypes'
  BY <1>1 DEF SocialInv, SocialTypes
<1>3. LoneInv'
  BY <1>1 DEF SocialInv, LoneInv
<1>4. ReviewInv'
  BY <1>1 DEF SocialInv, ReviewInv
<1> QED BY <1>2, <1>3, <1>4 DEF SocialInv, SaidInv

LEMMA RequestsKeep ==
  ASSUME SocialInv, NEW u \in User, ReadVote(u) \/ CheckComment(u) \/ FindNuked(u) \/ TalkFailed(u)
  PROVE  SocialInv'
<1>1. UNCHANGED <<listed, vote, comments, suggestion, ids, relists, contested>>
  BY DEF ReadVote, CheckComment, FindNuked, TalkFailed
<1>2. talk[u] \in TalkType /\ vote \in {-1, 0, 1}
  BY DEF SocialInv, SocialTypes
<1>3. CASE ReadVote(u)
  <2>1. PICK v \in {1, -1}, lone \in BOOLEAN :
          talk' = [talk EXCEPT ![u] = [Silent EXCEPT !.kind = "vote", !.value = v, !.read = vote, !.alone = lone]]
    <3>1. PICK v \in {1, -1} : talk' = [talk EXCEPT ![u] =
            [Silent EXCEPT !.kind = "vote", !.value = v, !.read = vote, !.alone = (Talking("vote") = {})]]
      BY <1>3 DEF ReadVote, Speaks
    <3>2. (Talking("vote") = {}) \in BOOLEAN
      OBVIOUS
    <3> QED BY <3>1, <3>2
  <2> DEFINE t == [Silent EXCEPT !.kind = "vote", !.value = v, !.read = vote, !.alone = lone]
  <2>3. talk' = [talk EXCEPT ![u] = t]
    BY <2>1
  <2>2. t \in TalkType /\ t.kind = "vote" /\ t.value # 0 /\ t.read = vote /\ ~Reviewing(t)
    <3>1. v \in {-1, 0, 1} /\ v # 0 /\ vote \in {-1, 0, 1} /\ lone \in BOOLEAN
      BY <1>2
    <3>2. ASSUME NEW x \in TalkType
          PROVE  LET y == [x EXCEPT !.kind = "vote", !.value = v, !.read = vote, !.alone = lone]
                 IN  y \in TalkType /\ y.kind = "vote" /\ y.value = v /\ y.read = vote
      BY <3>1 DEF TalkType
    <3>3. t \in TalkType /\ t.kind = "vote" /\ t.value = v /\ t.read = vote
      BY <3>2, SilentFacts
    <3> HIDE DEF t
    <3> QED BY <3>1, <3>3 DEF Reviewing
  <2> HIDE DEF t
  <2> QED BY <1>1, <2>3, <2>2, TurnKeeps
<1>4. CASE CheckComment(u)
  <2>1. PICK p \in DOMAIN comments \cup {0} :
          talk' = [talk EXCEPT ![u] = [Silent EXCEPT !.kind = "comment", !.id = p]]
    BY <1>4 DEF CheckComment, Speaks
  <2> DEFINE t == [Silent EXCEPT !.kind = "comment", !.id = p]
  <2>4. talk' = [talk EXCEPT ![u] = t]
    BY <2>1
  <2>2. p \in Nat
    BY SocialAssumption DEF SocialInv, SaidInv
  <2>3. t \in TalkType /\ t.kind # "vote" /\ ~Reviewing(t)
    BY <2>2 DEF Silent, TalkType, Reviewing
  <2> HIDE DEF t
  <2> QED BY <1>1, <2>4, <2>3, TurnKeeps
<1>5. CASE FindNuked(u)
  <2> DEFINE t == [talk[u] EXCEPT !.kind = "delete"]
  <2>1. talk[u].kind = "select" /\ (talk' = [talk EXCEPT ![u] = t] \/ talk' = [talk EXCEPT ![u] = Silent])
    BY <1>5 DEF FindNuked, Ends, SocialInv, SocialTypes
  <2>2. t \in TalkType /\ t.kind # "vote"
    BY <1>2 DEF TalkType
  <2>3. suggestion.outcome = "nuked" \/ contested
    BY <2>1 DEF SocialInv, ReviewInv, Reviewing
  <2> HIDE DEF t
  <2> QED BY <1>1, <2>1, <2>2, <2>3, SilentFacts, TurnKeeps
<1>6. CASE TalkFailed(u)
  BY <1>1, <1>6, SilentFacts, TurnKeeps DEF TalkFailed, Ends
<1> QED BY <1>3, <1>4, <1>5, <1>6

LEMMA WriteCommentKeeps ==
  ASSUME SocialInv, NEW u \in User, WriteComment(u)
  PROVE  SocialInv'
<1> DEFINE id == ids + 1
           parent == talk[u].id
<1>1. /\ listed # "absent" /\ parent \in DOMAIN comments \cup {0} /\ id <= MaxComments
      /\ comments' = [i \in DOMAIN comments \cup {id} |->
                        IF i = id THEN [parent |-> parent, deleted |-> FALSE] ELSE comments[i]]
      /\ ids' = id /\ talk' = [talk EXCEPT ![u] = Silent]
      /\ UNCHANGED <<listed, vote, suggestion, relists, contested>>
  BY DEF WriteComment, Ends
<1>2. id \in Nat /\ id \in 1..MaxComments /\ parent \in Nat
  BY <1>1, SocialAssumption DEF SocialInv, SocialTypes, TalkType
<1>3. /\ talk' \in [User -> TalkType] /\ talk'[u] = Silent
      /\ \A w \in User \ {u} : talk'[w] = talk[w]
  BY <1>1, TurnFacts, SilentFacts DEF SocialInv, SocialTypes
<1> HIDE DEF id, parent
<1>4. /\ DOMAIN comments' = DOMAIN comments \cup {id}
      /\ comments' \in [DOMAIN comments' -> [parent : Nat, deleted : BOOLEAN]]
      /\ comments'[id].parent = parent
      /\ \A i \in DOMAIN comments \ {id} : comments'[i] = comments[i]
  BY <1>1, <1>2 DEF SocialInv, SocialTypes
<1>5. SocialTypes'
  BY <1>1, <1>2, <1>3, <1>4, SilentFacts DEF SocialInv, SocialTypes
<1>6. SaidInv'
  BY <1>1, <1>2, <1>4 DEF SocialInv, SaidInv
<1>7. LoneInv' /\ ReviewInv'
  BY <1>1, <1>3, SilentFacts DEF SocialInv, LoneInv, ReviewInv
<1> QED BY <1>5, <1>6, <1>7 DEF SocialInv

LEMMA ReviewKeeps ==
  ASSUME SocialInv, NEW u \in User, Review(u)
  PROVE  SocialInv'
<1>1. PICK outcome \in {"nuked", "dismissed"} :
        /\ suggestion' = [suggestion EXCEPT !.outcome = outcome]
        /\ \/ outcome = "dismissed" /\ UNCHANGED talk
           \/ outcome = "nuked" /\ talk' = [talk EXCEPT ![u] = [Silent EXCEPT !.kind = "select", !.id = suggestion.id]]
  BY DEF Review, NextOfReview, Speaks
<1>2. /\ suggestion.id # 0 /\ UNCHANGED <<listed, vote, comments, ids, relists>>
      /\ contested' = (contested \/ Talking("select") \cup Talking("delete") # {})
  BY DEF Review
<1>3. /\ suggestion' \in [id : Nat, outcome : {"none", "nuked", "dismissed"}]
      /\ suggestion'.id = suggestion.id /\ suggestion'.outcome = outcome
      /\ suggestion.id \in Nat
  BY <1>1 DEF SocialInv, SocialTypes
<1> DEFINE t == [Silent EXCEPT !.kind = "select", !.id = suggestion.id]
<1>4. t \in TalkType /\ t.kind # "vote"
  BY <1>3 DEF Silent, TalkType
<1>5. \A w \in User : Reviewing(talk[w]) => contested'
  BY <1>2 DEF Reviewing, Talking
<1> HIDE DEF t
<1>6. CASE UNCHANGED talk
  <2>1. SocialTypes' /\ LoneInv'
    BY <1>2, <1>3, <1>6 DEF SocialInv, SocialTypes, LoneInv
  <2>2. ReviewInv'
    BY <1>5, <1>6 DEF ReviewInv
  <2> QED BY <1>2, <1>3, <2>1, <2>2, SilentFacts DEF SocialInv, SaidInv
<1>7. CASE outcome = "nuked" /\ talk' = [talk EXCEPT ![u] = t]
  <2>1. talk' \in [User -> TalkType] /\ talk'[u] = t /\ \A w \in User \ {u} : talk'[w] = talk[w]
    BY <1>4, <1>7, TurnFacts DEF SocialInv, SocialTypes
  <2>2. SocialTypes' /\ LoneInv'
    BY <1>2, <1>3, <1>4, <2>1 DEF SocialInv, SocialTypes, LoneInv
  <2>3. ReviewInv'
    BY <1>3, <1>7 DEF ReviewInv
  <2> QED BY <1>2, <1>3, <2>2, <2>3, SilentFacts DEF SocialInv, SaidInv
<1> QED BY <1>1, <1>6, <1>7 DEF t

\* The torrent goes, and with it what was said.
LEMMA GoneKeeps ==
  ASSUME SocialInv, Gone, UNCHANGED <<ids, relists>>, talk' \in [User -> TalkType], contested' \in BOOLEAN,
         \A w \in User : \/ talk'[w] = Silent
                         \/ /\ talk'[w].kind = talk[w].kind /\ talk'[w].value = talk[w].value
                            /\ Reviewing(talk[w]) => contested'
  PROVE  SocialInv'
<1>1. /\ listed' = "absent" /\ vote' = 0 /\ suggestion' = NoSuggestion
      /\ DOMAIN comments' = {} /\ comments' \in [DOMAIN comments' -> [parent : Nat, deleted : BOOLEAN]]
  BY DEF Gone
<1>2. SocialTypes' /\ SaidInv' /\ LoneInv'
  BY <1>1, SilentFacts DEF SocialInv, SocialTypes, SaidInv, LoneInv
<1>3. ReviewInv'
  BY <1>1, SilentFacts DEF ReviewInv, Reviewing
<1> QED BY <1>2, <1>3 DEF SocialInv

LEMMA DeletionsKeep == SocialInv /\ (Withdraw \/ \E u \in User : Nuke(u)) => SocialInv'
<1>1. ASSUME SocialInv, Withdraw PROVE SocialInv'
  <2>1. /\ Gone /\ UNCHANGED <<ids, relists>>
        /\ contested' = (contested \/ Talking("select") \cup Talking("delete") # {})
        /\ talk' = [w \in User |-> [talk[w] EXCEPT !.alone = talk[w] = Silent]]
    BY <1>1 DEF Withdraw
  <2>2. \A w \in User : talk[w] \in TalkType
    BY <1>1 DEF SocialInv, SocialTypes
  <2>3. talk' \in [User -> TalkType] /\ contested' \in BOOLEAN
    BY <1>1, <2>1, <2>2 DEF TalkType, SocialInv, SocialTypes
  <2>4. \A w \in User : talk'[w].kind = talk[w].kind /\ talk'[w].value = talk[w].value
    BY <2>1, <2>2 DEF TalkType
  <2>5. \A w \in User : Reviewing(talk[w]) => contested'
    BY <2>1 DEF Reviewing, Talking
  <2> QED BY <1>1, <2>1, <2>3, <2>4, <2>5, GoneKeeps
<1>2. ASSUME SocialInv, NEW u \in User, Nuke(u) PROVE SocialInv'
  <2>1. /\ Gone /\ UNCHANGED <<ids, relists>> /\ talk' = [talk EXCEPT ![u] = Silent]
        /\ contested' = (contested \/ Talking("select") \cup Talking("delete") # {u})
    BY <1>2 DEF Nuke, Ends
  <2>2. /\ talk' \in [User -> TalkType] /\ talk'[u] = Silent
        /\ \A w \in User \ {u} : talk'[w] = talk[w]
    BY <1>2, <2>1, TurnFacts, SilentFacts DEF SocialInv, SocialTypes
  <2>3. contested' \in BOOLEAN /\ \A w \in User \ {u} : Reviewing(talk[w]) => contested'
    BY <1>2, <2>1 DEF Reviewing, Talking, SocialInv, SocialTypes
  <2> QED BY <1>2, <2>1, <2>2, <2>3, GoneKeeps
<1> QED BY <1>1, <1>2

LEMMA RowsKeep ==
  SocialInv /\ (SuggestNuke \/ Relist \/ ResolveListed \/ \E id \in DOMAIN comments : DeleteComment(id))
    => SocialInv'
<1>1. ASSUME SocialInv, SuggestNuke PROVE SocialInv'
  <2>1. /\ listed # "absent" /\ suggestion.id = 0 /\ ids' = ids + 1
        /\ suggestion' = [id |-> ids + 1, outcome |-> "none"]
        /\ UNCHANGED <<listed, vote, comments, talk, relists, contested>>
    BY <1>1 DEF SuggestNuke
  <2>2. ids \in Nat
    BY <1>1 DEF SocialInv, SocialTypes
  <2>3. SocialTypes' /\ SaidInv' /\ LoneInv'
    BY <1>1, <2>1, <2>2 DEF SocialInv, SocialTypes, SaidInv, LoneInv
  <2>4. ReviewInv'
    BY <1>1, <2>1 DEF SocialInv, SaidInv, ReviewInv
  <2> QED BY <2>3, <2>4 DEF SocialInv
<1>2. ASSUME SocialInv, Relist \/ ResolveListed PROVE SocialInv'
  <2>1. /\ listed' \in {"unresolved", "resolved"} /\ relists' \in Nat
        /\ UNCHANGED <<vote, comments, suggestion, talk, ids, contested>>
    BY <1>2 DEF Relist, ResolveListed, SocialInv, SocialTypes
  <2> QED BY <1>2, <2>1 DEF SocialInv, SocialTypes, SaidInv, LoneInv, ReviewInv
<1>3. ASSUME SocialInv, NEW id \in DOMAIN comments, DeleteComment(id) PROVE SocialInv'
  <2>1. /\ comments' = [comments EXCEPT ![id].deleted = TRUE]
        /\ UNCHANGED <<listed, vote, suggestion, talk, ids, relists, contested>>
    BY <1>3 DEF DeleteComment
  <2>2. /\ DOMAIN comments' = DOMAIN comments
        /\ comments' \in [DOMAIN comments' -> [parent : Nat, deleted : BOOLEAN]]
        /\ \A i \in DOMAIN comments : comments'[i].parent = comments[i].parent
    BY <1>3, <2>1 DEF SocialInv, SocialTypes
  <2> QED BY <1>3, <2>1, <2>2 DEF SocialInv, SocialTypes, SaidInv, LoneInv, ReviewInv
<1> QED BY <1>1, <1>2, <1>3

LEMMA SocialStep == SocialInv /\ [SocialNext]_socialVars => SocialInv'
<1> SUFFICES ASSUME SocialInv, [SocialNext]_socialVars PROVE SocialInv'
  OBVIOUS
<1>1. CASE UNCHANGED socialVars
  BY <1>1 DEF socialVars, SocialInv, SocialTypes, SaidInv, LoneInv, ReviewInv
<1> QED BY <1>1, WriteVoteKeeps, RequestsKeep, WriteCommentKeeps, ReviewKeeps, DeletionsKeep, RowsKeep
        DEF SocialNext

LEMMA SocialInvImplies == SocialInv => SocialTypeOK
BY DEF SocialInv, SocialTypes, SaidInv, SocialTypeOK, NoSuggestion

\* What a step does to votes and comments, and whom a review removes.
Toggles ==
  \A u \in User :
    talk[u].kind = "vote" /\ talk[u].alone /\ talk'[u] = Silent /\ vote' # vote
    => vote' = IF vote = talk[u].value THEN 0 ELSE talk[u].value
Stays == listed' # "absent" => DOMAIN comments \subseteq DOMAIN comments'
Reviewed ==
  \A u \in User :
    talk[u].kind = "delete" /\ talk'[u] = Silent /\ listed' = "absent" /\ listed # "absent"
    => suggestion.outcome = "nuked" \/ contested'

LEMMA VotesToggle == SocialInv /\ SocialNext => Toggles
<1> SUFFICES ASSUME SocialInv, SocialNext, NEW u \in User,
                    talk[u].kind = "vote", talk[u].alone, talk'[u] = Silent, vote' # vote
             PROVE  vote' = IF vote = talk[u].value THEN 0 ELSE talk[u].value
  BY DEF Toggles
<1>1. talk \in [User -> TalkType] /\ talk[u] # Silent
  BY SilentFacts DEF SocialInv, SocialTypes
<1>2. CASE \E w \in User : WriteVote(w)
  <2>1. PICK w \in User : WriteVote(w)
    BY <1>2
  <2>2. w = u
    <3>1. w # u => talk'[u] = [talk[u] EXCEPT !.alone = FALSE]
      BY <2>1 DEF WriteVote
    <3>2. w # u => ~talk'[u].alone
      BY <1>1, <3>1 DEF TalkType
    <3> QED BY <3>2, SilentFacts
  <2>3. vote' = Voted(talk[u]) /\ vote \in {talk[u].read, 0}
    BY <2>1, <2>2 DEF WriteVote, SocialInv, LoneInv
  <2> QED BY <2>3 DEF Voted
<1>3. CASE Withdraw
  <2>1. talk'[u] = [talk[u] EXCEPT !.alone = talk[u] = Silent]
    BY <1>3 DEF Withdraw
  <2>2. ~talk'[u].alone
    BY <1>1, <2>1 DEF TalkType
  <2> QED BY <2>2, SilentFacts
<1>4. CASE \E w \in User : Nuke(w)
  <2>1. PICK w \in User : talk[w].kind = "delete" /\ talk' = [talk EXCEPT ![w] = Silent]
    BY <1>4 DEF Nuke, Ends
  <2>2. w # u
    BY <2>1
  <2>3. talk'[u] = talk[u]
    BY <1>1, <2>1, <2>2
  <2> QED BY <1>1, <2>3
<1>5. CASE UNCHANGED vote
  BY <1>5
<1>6. \/ \E w \in User : WriteVote(w) \/ Nuke(w)
      \/ Withdraw \/ UNCHANGED vote
  BY DEF SocialNext, SuggestNuke, Relist, ResolveListed, DeleteComment, ReadVote, CheckComment,
         WriteComment, Review, FindNuked, TalkFailed
<1> QED BY <1>2, <1>3, <1>4, <1>5, <1>6

LEMMA CommentsStay == SocialInv /\ SocialNext => Stays
<1> SUFFICES ASSUME SocialInv, SocialNext, listed' # "absent" PROVE DOMAIN comments \subseteq DOMAIN comments'
  BY DEF Stays
<1>1. /\ ~Withdraw /\ \A u \in User : ~Nuke(u)
  BY DEF Withdraw, Nuke, Gone
<1>2. ASSUME NEW u \in User, WriteComment(u) PROVE DOMAIN comments \subseteq DOMAIN comments'
  BY <1>2 DEF WriteComment
<1>3. ASSUME NEW id \in DOMAIN comments, DeleteComment(id) PROVE DOMAIN comments \subseteq DOMAIN comments'
  BY <1>3 DEF DeleteComment
<1>4. \/ \E u \in User : WriteComment(u)
      \/ \E id \in DOMAIN comments : DeleteComment(id)
      \/ UNCHANGED comments
  BY <1>1 DEF SocialNext, SuggestNuke, Relist, ResolveListed, ReadVote, CheckComment, WriteVote,
         Review, FindNuked, TalkFailed
<1> QED BY <1>2, <1>3, <1>4

LEMMA NukesAreReviewed == SocialInv /\ SocialNext => Reviewed
<1> SUFFICES ASSUME SocialInv, SocialNext, NEW u \in User, talk[u].kind = "delete"
             PROVE  suggestion.outcome = "nuked" \/ contested'
  BY DEF Reviewed
<1>1. suggestion.outcome = "nuked" \/ contested
  BY DEF SocialInv, ReviewInv, Reviewing
<1>2. contested => contested'
  BY DEF SocialNext, SuggestNuke, Relist, ResolveListed, DeleteComment, ReadVote, CheckComment,
         WriteComment, Review, FindNuked, TalkFailed, WriteVote, Nuke, Withdraw
<1> QED BY <1>1, <1>2

\* For any number of users: a vote that no other crosses toggles, a comment
\* goes only with its torrent, and what a review removes was reviewed as
\* "nuked" unless it was crossed.
THEOREM SocialStaysSound == SocialSpec => SocialIsSound
<1>1. SocialInit => SocialInv
  BY SocialInvInit
<1>2. SocialInv /\ [SocialNext]_socialVars => SocialInv'
  BY SocialStep
<1>3. SocialInv /\ [SocialNext]_socialVars => [Toggles]_socialVars /\ [Stays]_socialVars /\ [Reviewed]_socialVars
  BY VotesToggle, CommentsStay, NukesAreReviewed
<1>4. SocialSpec => [][Toggles]_socialVars /\ [][Stays]_socialVars /\ [][Reviewed]_socialVars
  BY <1>1, <1>2, <1>3, PTL DEF SocialSpec
<1> QED BY <1>4 DEF SocialIsSound, LoneVoteToggles, RepliesStay, NukedWasReviewed, Toggles, Stays, Reviewed

---------------------------------------------------------------------------
(* The log *)

Entry == [id : Nat, category : Categories, level : {"debug", "info"}]
Kept == IF logged > MaxLines THEN MaxLines ELSE logged
Under == {t \in LogThread : unsent[t] # NoEntry}
SentIds == {sent[i].id : i \in DOMAIN sent}

LogTypes ==
  /\ debug \in BOOLEAN /\ logged \in 0..MaxLogged /\ toggles \in 0..MaxToggles
  /\ buffer \in Seq(Entry) /\ sent \in Seq(Entry)
  /\ unsent \in [LogThread -> Entry \cup {NoEntry}]

BufferInv ==
  /\ Len(buffer) = Kept
  /\ \A i \in DOMAIN buffer : buffer[i].id = logged - Len(buffer) + i

\* Each category in the buffer has a last entry there.
LastInv ==
  \A i \in DOMAIN buffer : \E k \in DOMAIN buffer :
    /\ buffer[k].category = buffer[i].category
    /\ \A j \in DOMAIN buffer : buffer[j].category = buffer[i].category => j <= k

StreamInv ==
  /\ IsFiniteSet(Under) /\ Len(sent) + Cardinality(Under) = logged
  /\ SentIds \cup {unsent[t].id : t \in Under} = 1..logged

LogInv == LogTypes /\ BufferInv /\ LastInv /\ StreamInv

LEMMA LogNumbers == MaxLines \in Nat /\ MaxLines > 0 /\ MaxLogged \in Nat /\ MaxToggles \in Nat
BY LogCaptureAssumption

LEMMA NoEntryFacts == NoEntry \notin Entry
BY DEF NoEntry, Entry, Categories

\* A view of one entry is not empty while the buffer has one to show.
LEMMA RecentFacts ==
  ASSUME LogTypes, LastInv, NEW i \in DOMAIN buffer
  PROVE  Recent(1, buffer[i].category) # {}
<1> DEFINE of == {k \in DOMAIN buffer : buffer[i].category \in {"all", buffer[k].category}}
<1>1. Len(buffer) \in Nat /\ DOMAIN buffer = 1..Len(buffer)
  BY LenProperties DEF LogTypes
<1>2. of = {k \in DOMAIN buffer : buffer[k].category = buffer[i].category}
  <2>1. buffer[i] \in Entry
    BY <1>1, LenProperties DEF LogTypes
  <2>2. buffer[i].category # "all"
    BY <2>1 DEF Entry, Categories
  <2> QED BY <2>2
<1>3. Recent(1, buffer[i].category) = {k \in of : Cardinality({j \in of : j > k}) < 1}
  BY DEF Recent
<1> HIDE DEF of
<1>4. PICK k \in of : \A j \in of : j <= k
  BY <1>2 DEF LastInv
<1>5. {j \in of : j > k} = {}
  <2>1. \A j \in of : j \in Nat /\ j <= k
    BY <1>1, <1>2, <1>4
  <2>2. \A j \in of : ~(j > k)
    BY <2>1
  <2> QED BY <2>2
<1>6. Cardinality({j \in of : j > k}) < 1
  BY <1>5, FS_EmptySet
<1> QED BY <1>3, <1>4, <1>6

LEMMA LogInvInit == LogInit => LogInv
<1> SUFFICES ASSUME LogInit PROVE LogInv
  OBVIOUS
<1>1. /\ \A S : <<>> \in Seq(S)
      /\ Len(<<>>) = 0 /\ DOMAIN <<>> = {}
  OBVIOUS
<1>2. buffer = <<>> /\ sent = <<>> /\ logged = 0 /\ unsent = [t \in LogThread |-> NoEntry]
  BY DEF LogInit
<1>3. Under = {} /\ SentIds = {} /\ Kept = 0
  BY <1>1, <1>2, LogNumbers DEF Under, SentIds, Kept
<1>4. LogTypes
  <2>1. debug = FALSE /\ toggles = 0 /\ 0 \in 0..MaxLogged /\ 0 \in 0..MaxToggles
    BY LogNumbers DEF LogInit
  <2>2. unsent \in [LogThread -> Entry \cup {NoEntry}]
    BY <1>2
  <2> QED BY <1>1, <1>2, <2>1, <2>2 DEF LogTypes
<1>5. BufferInv
  BY <1>1, <1>2, <1>3 DEF BufferInv
<1>7. LastInv
  BY <1>1, <1>2 DEF LastInv
<1>8. StreamInv
  <2>1. IsFiniteSet(Under) /\ Cardinality(Under) = 0
    BY <1>3, FS_EmptySet
  <2>2. SentIds \cup {unsent[t].id : t \in Under} = 1..0
    BY <1>3
  <2>3. Len(sent) + Cardinality(Under) = 0
    BY <1>1, <1>2, <2>1
  <2> QED BY <1>2, <2>1, <2>2, <2>3 DEF StreamInv
<1> QED BY <1>4, <1>5, <1>7, <1>8 DEF LogInv

LEMMA LogKeeps ==
  ASSUME LogInv, NEW t \in LogThread, Log(t)
  PROVE  LogInv'
<1>1. PICK e \in Entry :
        e.id = logged + 1 /\ buffer' = Pushed(e) /\ unsent' = [unsent EXCEPT ![t] = e]
  <2>1. logged + 1 \in Nat
    BY LogNumbers DEF LogInv, LogTypes
  <2>2. PICK c \in Categories, l \in {"debug", "info"} :
          /\ buffer' = Pushed([id |-> logged + 1, category |-> c, level |-> l])
          /\ unsent' = [unsent EXCEPT ![t] = [id |-> logged + 1, category |-> c, level |-> l]]
    BY DEF Log
  <2>3. [id |-> logged + 1, category |-> c, level |-> l] \in Entry
    BY <2>1 DEF Entry
  <2> QED BY <2>2, <2>3
<1>2. /\ unsent[t] = NoEntry /\ logged < MaxLogged /\ logged' = logged + 1
      /\ UNCHANGED <<debug, sent, toggles>>
  BY DEF Log
<1>3. logged \in Nat /\ logged <= MaxLogged /\ logged' \in 0..MaxLogged
  BY <1>2, LogNumbers DEF LogInv, LogTypes
<1>4. /\ unsent \in [LogThread -> Entry \cup {NoEntry}] /\ unsent' \in [LogThread -> Entry \cup {NoEntry}]
      /\ unsent'[t] = e /\ \A x \in LogThread \ {t} : unsent'[x] = unsent[x]
  BY <1>1 DEF LogInv, LogTypes
<1>5. /\ buffer \in Seq(Entry) /\ Len(buffer) \in Nat /\ DOMAIN buffer = 1..Len(buffer)
      /\ Len(buffer) = Kept
  BY LenProperties DEF LogInv, LogTypes, BufferInv
<1>6. buffer' \in Seq(Entry) /\ BufferInv' /\ LastInv'
  <2> DEFINE rest == IF Len(buffer) >= MaxLines THEN Tail(buffer) ELSE buffer
             gone == IF Len(buffer) >= MaxLines THEN 1 ELSE 0
  <2>1. /\ rest \in Seq(Entry) /\ Len(rest) = Len(buffer) - gone
        /\ \A i \in 1..Len(rest) : rest[i] = buffer[i + gone]
    <3>1. CASE Len(buffer) >= MaxLines
      <4>1. buffer # <<>>
        BY <1>5, <3>1, LogNumbers
      <4> QED BY <1>5, <3>1, <4>1, HeadTailProperties
    <3>2. CASE ~(Len(buffer) >= MaxLines)
      <4>1. gone = 0 /\ rest = buffer
        BY <3>2
      <4> QED BY <1>5, <4>1
    <3> QED BY <3>1, <3>2
  <2>2. gone \in {0, 1} /\ Len(buffer) - gone \in Nat
    BY <1>5, LogNumbers
  <2>3. buffer' = Append(rest, e)
    BY <1>1 DEF Pushed
  <2>4. Kept' = Len(buffer) - gone + 1
    BY <1>2, <1>3, <1>5, LogNumbers DEF Kept
  <2> HIDE DEF rest, gone
  <2>5. /\ buffer' \in Seq(Entry) /\ Len(buffer') = Len(rest) + 1
        /\ \A i \in 1..Len(rest) : buffer'[i] = rest[i]
        /\ buffer'[Len(rest) + 1] = e
    BY <2>1, <2>3, AppendProperties
  <2>6. DOMAIN buffer' = 1..(Len(rest) + 1)
    BY <2>1, <2>2, <2>5, LenProperties
  <2>7. ASSUME NEW i \in DOMAIN buffer' PROVE buffer'[i].id = logged' - Len(buffer') + i
    <3>1. CASE i = Len(rest) + 1
      <4>1. buffer'[i].id = logged + 1 /\ Len(buffer') = i /\ i \in Nat
        BY <1>1, <2>1, <2>2, <2>5, <3>1
      <4> QED BY <1>2, <1>3, <4>1
    <3>2. CASE i # Len(rest) + 1
      <4>1. i \in 1..Len(rest) /\ i + gone \in DOMAIN buffer
        BY <1>5, <2>1, <2>2, <2>6, <3>2
      <4>2. buffer'[i] = buffer[i + gone]
        BY <2>1, <2>5, <4>1
      <4>3. buffer[i + gone].id = logged - Len(buffer) + (i + gone)
        BY <4>1 DEF LogInv, BufferInv
      <4>4. Len(buffer') = Len(buffer) - gone + 1 /\ i \in Nat
        BY <2>1, <2>5, <4>1
      <4>5. logged \in Int /\ Len(buffer) \in Int /\ gone \in Int /\ i \in Int
        BY <1>3, <1>5, <2>2, <4>4
      <4>6. logged - Len(buffer) + (i + gone) = (logged + 1) - (Len(buffer) - gone + 1) + i
        BY ONLY <4>5
      <4> QED BY <1>2, <4>2, <4>3, <4>4, <4>6
    <3> QED BY <3>1, <3>2
  <2>8. Len(buffer') = Kept'
    BY <2>1, <2>2, <2>4, <2>5
  <2>9. \A j \in DOMAIN buffer' :
          \/ j = Len(rest) + 1 /\ buffer'[j] = e
          \/ j + gone \in DOMAIN buffer /\ buffer'[j] = buffer[j + gone] /\ j \in 1..Len(rest)
    BY <1>5, <2>1, <2>2, <2>5, <2>6
  <2>10. ASSUME NEW i \in DOMAIN buffer'
         PROVE  \E k \in DOMAIN buffer' :
                  /\ buffer'[k].category = buffer'[i].category
                  /\ \A j \in DOMAIN buffer' : buffer'[j].category = buffer'[i].category => j <= k
    <3>1. CASE buffer'[i].category = e.category
      <4>1. Len(rest) + 1 \in DOMAIN buffer' /\ \A j \in DOMAIN buffer' : j <= Len(rest) + 1
        BY <2>1, <2>2, <2>6
      <4> QED BY <2>5, <3>1, <4>1
    <3>2. CASE buffer'[i].category # e.category
      <4>1. i + gone \in DOMAIN buffer /\ buffer'[i] = buffer[i + gone] /\ i \in 1..Len(rest)
        BY <2>9, <3>2
      <4>2. PICK k \in DOMAIN buffer :
              /\ buffer[k].category = buffer[i + gone].category
              /\ \A j \in DOMAIN buffer : buffer[j].category = buffer[i + gone].category => j <= k
        BY <4>1 DEF LogInv, LastInv
      <4>3. i + gone <= k
        BY <4>1, <4>2
      <4>4. k - gone \in 1..Len(rest) /\ k - gone + gone = k
        BY <1>5, <2>1, <2>2, <4>1, <4>2, <4>3
      <4>5. k - gone \in DOMAIN buffer' /\ buffer'[k - gone] = buffer[k]
        BY <2>1, <2>2, <2>5, <2>6, <4>4
      <4>6. ASSUME NEW j \in DOMAIN buffer', buffer'[j].category = buffer'[i].category
            PROVE  j <= k - gone
        <5>1. j + gone \in DOMAIN buffer /\ buffer'[j] = buffer[j + gone] /\ j \in 1..Len(rest)
          BY <2>9, <3>2, <4>6
        <5>2. j + gone <= k
          BY <4>1, <4>2, <4>6, <5>1
        <5> QED BY <1>5, <2>2, <5>1, <5>2
      <4> QED BY <4>1, <4>2, <4>5, <4>6
    <3> QED BY <3>1, <3>2
  <2> QED BY <2>5, <2>7, <2>8, <2>10 DEF BufferInv, LastInv
<1>7. LogTypes'
  BY <1>2, <1>3, <1>4, <1>6 DEF LogInv, LogTypes
<1>8. StreamInv'
  <2>1. Under' = Under \cup {t} /\ t \notin Under
    BY <1>2, <1>4, NoEntryFacts DEF Under
  <2>2. /\ IsFiniteSet(Under) /\ Cardinality(Under) \in Nat
        /\ IsFiniteSet(Under') /\ Cardinality(Under') = Cardinality(Under) + 1
    BY <2>1, FS_AddElement, FS_CardinalityType DEF LogInv, StreamInv
  <2>3. Len(sent) \in Nat /\ Len(sent') + Cardinality(Under') = logged'
    BY <1>2, <1>3, <2>2, LenProperties DEF LogInv, LogTypes, StreamInv
  <2>4. {unsent[x].id : x \in Under}' = {unsent[x].id : x \in Under} \cup {e.id}
    BY <1>4, <2>1 DEF Under
  <2>5. SentIds' = SentIds
    BY <1>2 DEF SentIds
  <2>6. 1..logged' = 1..logged \cup {logged + 1}
    BY <1>2, <1>3
  <2> QED BY <1>1, <2>2, <2>3, <2>4, <2>5, <2>6 DEF LogInv, StreamInv
<1> QED BY <1>6, <1>7, <1>8 DEF LogInv

LEMMA BroadcastKeeps ==
  ASSUME LogInv, NEW t \in LogThread, Broadcast(t)
  PROVE  LogInv'
<1>1. /\ unsent[t] # NoEntry /\ sent' = Append(sent, unsent[t])
      /\ unsent' = [unsent EXCEPT ![t] = NoEntry]
      /\ UNCHANGED <<debug, buffer, logged, toggles>>
  BY DEF Broadcast
<1>2. /\ unsent \in [LogThread -> Entry \cup {NoEntry}] /\ unsent' \in [LogThread -> Entry \cup {NoEntry}]
      /\ unsent[t] \in Entry /\ unsent'[t] = NoEntry /\ \A x \in LogThread \ {t} : unsent'[x] = unsent[x]
  BY <1>1 DEF LogInv, LogTypes
<1>3. /\ sent \in Seq(Entry) /\ Len(sent) \in Nat /\ DOMAIN sent = 1..Len(sent)
      /\ sent' \in Seq(Entry) /\ Len(sent') = Len(sent) + 1
      /\ \A i \in 1..Len(sent) : sent'[i] = sent[i]
      /\ sent'[Len(sent) + 1] = unsent[t]
  BY <1>1, <1>2, AppendProperties, LenProperties DEF LogInv, LogTypes
<1>4. DOMAIN sent' = 1..Len(sent) \cup {Len(sent) + 1}
  BY <1>3, LenProperties
<1>5. LogTypes' /\ BufferInv' /\ LastInv'
  BY <1>1, <1>2, <1>3 DEF LogInv, LogTypes, BufferInv, LastInv, Kept
<1>6. StreamInv'
  <2>1. Under' = Under \ {t} /\ t \in Under
    BY <1>1, <1>2, NoEntryFacts DEF Under
  <2>2. /\ IsFiniteSet(Under) /\ Cardinality(Under) \in Nat
        /\ IsFiniteSet(Under') /\ Cardinality(Under') = Cardinality(Under) - 1
    BY <2>1, FS_RemoveElement, FS_CardinalityType DEF LogInv, StreamInv
  <2>3. Len(sent') + Cardinality(Under') = logged'
    BY <1>1, <1>3, <2>2 DEF LogInv, StreamInv
  <2>4. {unsent[x].id : x \in Under} = {unsent[x].id : x \in Under}' \cup {unsent[t].id}
    BY <1>2, <2>1 DEF Under
  <2>5. SentIds' = SentIds \cup {unsent[t].id}
    BY <1>3, <1>4 DEF SentIds
  <2> QED BY <1>1, <2>2, <2>3, <2>4, <2>5 DEF LogInv, StreamInv
<1> QED BY <1>5, <1>6 DEF LogInv

LEMMA LogStep == LogInv /\ [LogNext]_logVars => LogInv'
<1> SUFFICES ASSUME LogInv, [LogNext]_logVars PROVE LogInv'
  OBVIOUS
<1>1. ASSUME NEW t \in LogThread, Log(t) \/ Broadcast(t) PROVE LogInv'
  BY <1>1, LogKeeps, BroadcastKeeps
<1>2. ASSUME NEW s \in LogSocket,
             OpenSocket(s) \/ ForwardEntry(s) \/ CloseSocket(s) \/ ReadDebug(s) \/ WriteDebug(s)
      PROVE  LogInv'
  <2>1. UNCHANGED <<buffer, sent, unsent, logged>>
    BY <1>2 DEF OpenSocket, ForwardEntry, CloseSocket, ReadDebug, WriteDebug
  <2>2. debug' \in BOOLEAN /\ toggles' \in 0..MaxToggles
    <3>1. debug \in BOOLEAN /\ toggles \in 0..MaxToggles
      BY DEF LogInv, LogTypes
    <3>2. CASE ReadDebug(s)
      BY <3>1, <3>2, LogNumbers DEF ReadDebug
    <3>3. CASE WriteDebug(s)
      BY <3>1, <3>3 DEF WriteDebug
    <3>4. CASE OpenSocket(s) \/ ForwardEntry(s) \/ CloseSocket(s)
      BY <3>1, <3>4 DEF OpenSocket, ForwardEntry, CloseSocket
    <3> QED BY <1>2, <3>2, <3>3, <3>4
  <2> QED BY <2>1, <2>2 DEF LogInv, LogTypes, BufferInv, LastInv, StreamInv, Kept, Under, SentIds
<1>3. CASE UNCHANGED logVars
  BY <1>3 DEF logVars, LogInv, LogTypes, BufferInv, LastInv, StreamInv, Kept, Under, SentIds
<1> QED BY <1>1, <1>2, <1>3 DEF LogNext

LEMMA LogInvImplies == LogInv => LogTypeOK /\ StreamedOnce
<1> SUFFICES ASSUME LogInv PROVE LogTypeOK /\ StreamedOnce
  OBVIOUS
<1>1. LogTypeOK
  <2>1. DOMAIN buffer = 1..Kept
    BY LenProperties DEF LogInv, LogTypes, BufferInv
  <2>2. [i \in DOMAIN buffer |-> buffer[i].id] = [i \in 1..Kept |-> logged - Len(buffer) + i]
    BY <2>1 DEF LogInv, BufferInv
  <2>3. \A i \in DOMAIN buffer : Recent(1, buffer[i].category) # {}
    BY RecentFacts DEF LogInv
  <2> QED BY <2>2, <2>3 DEF LogInv, LogTypes, LogTypeOK, Kept
<1>2. StreamedOnce
  BY DEF LogInv, StreamInv, StreamedOnce, Under, SentIds
<1> QED BY <1>1, <1>2

\* What the sockets stream and what the buffer went through are the same
\* entries, each once, for any number of threads, however they interleave
\* between a push and its send.
THEOREM EntriesStreamOnce == LogSpec => []StreamedOnce
<1>1. LogInit => LogInv
  BY LogInvInit
<1>2. LogInv /\ [LogNext]_logVars => LogInv'
  BY LogStep
<1>3. LogInv => StreamedOnce
  BY LogInvImplies
<1> QED BY <1>1, <1>2, <1>3, PTL DEF LogSpec

---------------------------------------------------------------------------
(* Connections *)

\* What is left of the timeout and the time since the last byte make it up.
IdleInv ==
  /\ conn \in {"none", "open", "timed_out", "closed"} /\ waits \in {"read", "write"}
  /\ unread \in 0..Unread /\ room \in 0..Unread /\ left \in 0..Idle /\ deeds \in 0..MaxClient
  /\ age \in Nat /\ left + age >= Idle
  /\ conn = "timed_out" => age >= Idle

LEMMA IdleInvInit == IdleInit => IdleInv
BY IdleTimeoutAssumption DEF IdleInit, IdleInv

LEMMA IdleStep == IdleInv /\ [IdleNext]_idleVars => IdleInv'
<1> SUFFICES ASSUME IdleInv, [IdleNext]_idleVars PROVE IdleInv'
  OBVIOUS
<1>1. Idle \in Nat /\ Unread \in Nat /\ MaxClient \in Nat
  BY IdleTimeoutAssumption
<1>2. CASE PollRead \/ PollWrite
  BY <1>1, <1>2 DEF IdleInv, PollRead, PollWrite, Moves, Touched, Open
<1>3. CASE Expire
  BY <1>1, <1>3 DEF IdleInv, Expire
<1>4. CASE IdleTick
  BY <1>1, <1>4 DEF IdleInv, IdleTick, Open
<1>5. CASE AcceptConnection \/ ClientSends \/ ClientTakes \/ ClientLeaves
  BY <1>1, <1>5 DEF IdleInv, AcceptConnection, ClientSends, ClientTakes, ClientLeaves, ClientDeed
<1>6. CASE UNCHANGED idleVars
  BY <1>6 DEF IdleInv, idleVars
<1> QED BY <1>2, <1>3, <1>4, <1>5, <1>6 DEF IdleNext, ServeConnection

LEMMA IdleInvImplies == IdleInv => IdleTypeOK
BY DEF IdleInv, IdleTypeOK
=============================================================================

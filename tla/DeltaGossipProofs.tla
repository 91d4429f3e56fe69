------------------------- MODULE DeltaGossipProofs -------------------------
(***************************************************************************)
(* While the publisher's writes succeed, the gossip of two nodes loses     *)
(* nothing but the records the reader itself put aside, for every set of   *)
(* torrents and of filters, and any number of failed sessions, refused     *)
(* requests, failed merges and restarts of the reader.                     *)
(***************************************************************************)
EXTENDS DeltaGossip, DeltaExportProofs

(***************************************************************************)
(* The publisher's directory: the files are numbered without a gap, and    *)
(* all but the one being written are complete.                             *)
(***************************************************************************)
Writing == pc \in {"write", "mark", "save", "saving"}

Last == IF Writing THEN cur ELSE Saved

FilesInv ==
  /\ pc # "down"
  /\ DOMAIN delta = 1..Last
  /\ \A s \in DOMAIN delta : delta[s].sealed <=> ~(pc = "write" /\ s = cur)

(***************************************************************************)
(* The session: the deltas listed are numbered without a gap, what lies    *)
(* between the last one merged and the first of them was put aside by the  *)
(* reader, a complete one is still as it was listed, and only the last one *)
(* may be incomplete.                                                      *)
(***************************************************************************)
ListedFollows ==
  \E lo, hi \in Nat :
    /\ DOMAIN listed = lo..hi
    /\ upto < lo
    /\ \A t \in (upto + 1)..(lo - 1) : CoveredAt(t)

ListedIsCurrent ==
  \A s \in DOMAIN listed :
    /\ s \in DOMAIN delta
    /\ listed[s].sealed => delta[s] = listed[s]

OnlyLastIncomplete ==
  \A s, t \in DOMAIN listed : ~listed[s].sealed => t <= s

MergeUnderWay ==
  step = "merge" =>
    /\ DOMAIN listed # {}
    /\ listed[Current].sealed
    /\ \A h \in listed[Current].rows \cap Wanted :
         h \in got \/ h \in left \/ <<Current, h>> \in lost

SessionInv ==
  /\ ListedFollows
  /\ ListedIsCurrent
  /\ OnlyLastIncomplete
  /\ MergeUnderWay
  /\ Covered(upto)

GossipInv ==
  /\ ReliableInv
  /\ FilesInv
  /\ GossipTypeOK
  /\ SessionInv
  /\ WatermarkCovers

-----------------------------------------------------------------------------
(* The publisher.                                                          *)

\* No file disappears and no complete file changes.
FilesGrow ==
  \A s \in DOMAIN delta :
    s \in DOMAIN delta' /\ (delta[s].sealed => delta'[s] = delta[s])

\* A complete file has records in it.
LEMMA FileComplete ==
  ASSUME ReliableInv, FilesInv, NEW s \in DOMAIN delta, delta[s].sealed
  PROVE  Complete(s)
<1> USE DEF ReliableInv, SavedInv, TypeOK
<1>1. CASE s \in 1..Saved
  BY <1>1 DEF Saved, SavingIsComplete, SavedSequenceIsComplete
<1>2. CASE s \notin 1..Saved
  <2>1. Writing /\ s \in 1..cur
    BY <1>2 DEF FilesInv, Last
  <2>2. cur = Saved + 1 /\ Saved \in Nat
    BY <2>1 DEF Writing, NumberAfterSaved, Saved
  <2>3. s = cur
    BY <1>2, <2>1, <2>2
  <2>4. CASE pc = "write"
    BY <2>3, <2>4 DEF FilesInv
  <2>5. CASE pc # "write"
    BY <2>1, <2>3, <2>5 DEF Writing, FileBeforeMarks
  <2> QED
    BY <2>4, <2>5
<1> QED
  BY <1>1, <1>2

LEMMA FilesStep ==
  ASSUME ReliableInv, FilesInv, [ReliableNext]_vars
  PROVE  FilesInv' /\ FilesGrow
<1> USE DEF FilesInv, Last, Writing, Saved, FilesGrow
<1>t. TypeOK /\ TypeOK' /\ NextNumber /\ NumberAfterSaved
  BY ReliableStep DEF ReliableInv, SavedInv
<1>1. CASE Index \/ UNCHANGED vars
  <2>1. UNCHANGED <<sequence, delta, pc, cur>>
    BY <1>1, IndexStep DEF exporter, vars
  <2> QED
    BY <2>1
<1>2. CASE Select
  BY <1>2, <1>t DEF Select, TypeOK
<1>3. CASE Create
  <2>1. /\ pc = "create" /\ pc' = "write" /\ cur = sequence + 1
        /\ UNCHANGED <<sequence, cur>> /\ sequence \in Nat
    BY <1>3, <1>t DEF Create, NextNumber, TypeOK
  <2>2. DOMAIN delta = 1..sequence
    BY <2>1
  <2>3. DOMAIN delta' = 1..cur' /\ cur \notin DOMAIN delta
    BY <1>3, <2>1, <2>2 DEF Create, WithDelta
  <2>4. \A s \in DOMAIN delta : delta'[s] = delta[s]
    BY <1>3, <2>1, <2>2 DEF Create, WithDelta
  <2>5. ~delta'[cur].sealed
    BY <1>3, <2>1, <2>3 DEF Create, WithDelta
  <2>6. \A s \in DOMAIN delta' : s \in DOMAIN delta \/ s = cur
    BY <2>1, <2>2, <2>3
  <2> QED
    BY <2>1, <2>3, <2>4, <2>5, <2>6
<1>4. CASE Write
  <2>1. /\ pc = "write" /\ pc' = "mark" /\ UNCHANGED <<sequence, cur>>
    BY <1>4 DEF Write
  <2>2. cur = sequence + 1 /\ sequence \in Nat
    BY <2>1, <1>t DEF NextNumber, TypeOK
  <2>3. DOMAIN delta' = DOMAIN delta /\ cur \in DOMAIN delta
    BY <1>4, <2>1, <2>2 DEF Write, WithDelta
  <2>4. delta'[cur].sealed /\ \A s \in DOMAIN delta \ {cur} : delta'[s] = delta[s]
    BY <1>4, <2>1, <2>3 DEF Write, WithDelta
  <2> QED
    BY <2>1, <2>3, <2>4
<1>5. CASE Mark
  BY <1>5 DEF Mark
<1>6. CASE SaveTruncate
  BY <1>6, <1>t DEF SaveTruncate, TypeOK
<1>7. CASE SaveWrite
  BY <1>7, <1>t DEF SaveWrite, Leave, TypeOK
<1> QED
  BY <1>1, <1>2, <1>3, <1>4, <1>5, <1>6, <1>7 DEF ReliableNext, Export

\* What is covered stays covered while files grow, torrents are added and
\* records are put aside.
LEMMA CoveredGrows ==
  ASSUME FilesGrow, got \subseteq got', lost \subseteq lost'
  PROVE  \A s : CoveredAt(s) => CoveredAt(s)'
BY DEF CoveredAt, Complete, FilesGrow

-----------------------------------------------------------------------------
(* The reader.                                                             *)

\* The delta to be fetched is the first of those listed; all before it are
\* covered but for the ones up to max_seq, of which Covered(upto) speaks.
LEMMA CurrentFollows ==
  ASSUME GossipTypeOK, ListedFollows, DOMAIN listed # {}
  PROVE  /\ Current \in DOMAIN listed
         /\ Current \in Nat
         /\ upto < Current
         /\ \A t \in DOMAIN listed : Current <= t
         /\ \A t \in (upto + 1)..(Current - 1) : CoveredAt(t)
         /\ \E hi \in Nat : DOMAIN listed = Current..hi
<1>1. PICK lo \in Nat, hi \in Nat :
        /\ DOMAIN listed = lo..hi
        /\ upto < lo
        /\ \A t \in (upto + 1)..(lo - 1) : CoveredAt(t)
  BY DEF ListedFollows
<1>2. lo \in DOMAIN listed /\ \A t \in DOMAIN listed : lo <= t
  BY <1>1
<1>3. Current \in DOMAIN listed /\ \A t \in DOMAIN listed : Current <= t
  BY <1>2 DEF Current
<1>4. Current = lo
  <2>1. Current \in Nat /\ lo <= Current
    BY <1>1, <1>3
  <2>2. Current <= lo
    BY <1>2, <1>3
  <2> QED
    BY <2>1, <2>2, <1>1
<1> QED
  BY <1>1, <1>2, <1>4

\* The reader's steps leave the publisher alone.
LEMMA PublisherPart ==
  ASSUME GossipInv, [SafeNext]_allVars
  PROVE  ReliableInv' /\ FilesInv' /\ FilesGrow
<1>1. [ReliableNext]_vars
  BY DEF SafeNext, allVars, Reader, Session, ReadManifest, Fetch, FetchNotFound,
         FetchUnreadable, MergeRecord, Merged, Finish, SaveWatermark,
         Interruption, SessionFails, Evict, ReaderRestart, Loss, FetchRefused,
         RecordLost, publisher
<1> QED
  BY <1>1, ReliableStep, FilesStep DEF GossipInv

\* The reader's types; no torrent is lost, and the watermarks only move to
\* what was covered or to 0.
LEMMA ReaderTypes ==
  ASSUME GossipInv, [SafeNext]_allVars
  PROVE  /\ GossipTypeOK'
         /\ got \subseteq got'
         /\ lost \subseteq lost'
         /\ seen' \in {0, seen, savedSeen, Greatest(seen, upto)}
         /\ savedSeen' \in {0, seen, savedSeen}
<1> USE GossipAssumption DEF GossipInv, GossipTypeOK, Content, CloseSession, Nothing
<1>1. CASE UNCHANGED reader
  BY <1>1 DEF reader
<1>2. CASE ReadManifest
  <2>1. delta \in [DOMAIN delta -> [rows : SUBSET Hash, sealed : BOOLEAN]]
          /\ DOMAIN delta \subseteq Nat \ {0}
    BY DEF ReliableInv, SavedInv, TypeOK
  <2> QED
    BY <1>2, <2>1 DEF ReadManifest
<1>3. CASE Fetch
  <2>1. Current \in DOMAIN listed
    BY <1>3, CurrentFollows DEF Fetch, SessionInv
  <2> QED
    BY <1>3, <2>1 DEF Fetch
<1>4. CASE FetchNotFound
  BY <1>4 DEF FetchNotFound, Remaining
<1>5. CASE FetchUnreadable
  BY <1>5 DEF FetchUnreadable
<1>6. ASSUME NEW h \in Hash, MergeRecord(h)
      PROVE  GossipTypeOK' /\ got \subseteq got' /\ UNCHANGED <<seen, savedSeen, lost>>
  BY <1>6 DEF MergeRecord
<1>7. CASE Merged
  <2>1. Current \in Nat
    BY <1>7, CurrentFollows DEF Merged, SessionInv, MergeUnderWay
  <2> QED
    BY <1>7, <2>1 DEF Merged, Remaining, Greatest
<1>8. CASE Finish
  BY <1>8 DEF Finish, Greatest
<1>9. CASE SaveWatermark
  BY <1>9 DEF SaveWatermark, session
<1>10. CASE SessionFails
  BY <1>10 DEF SessionFails, Drop
<1>11. CASE Evict
  BY <1>11 DEF Evict, Drop, session
<1>12. CASE ReaderRestart
  BY <1>12 DEF ReaderRestart, Drop
<1>13. CASE FetchRefused
  <2>1. Current \in DOMAIN listed /\ Current \in Nat
    BY <1>13, CurrentFollows DEF FetchRefused, SessionInv
  <2>2. listed[Current].rows \subseteq Hash
    BY <2>1
  <2>3. lost' = lost \cup ({Current} \X listed[Current].rows)
    BY <1>13 DEF FetchRefused, PutAside
  <2>4. lost' \subseteq Nat \X Hash /\ lost \subseteq lost'
    BY <2>1, <2>2, <2>3
  <2> QED
    BY <1>13, <2>1, <2>4 DEF FetchRefused, Drop, Remaining
<1>14. ASSUME NEW h \in Hash, RecordLost(h)
      PROVE  /\ GossipTypeOK' /\ got \subseteq got' /\ lost \subseteq lost'
             /\ UNCHANGED <<seen, savedSeen>>
  <2>1. Current \in Nat
    BY <1>14, CurrentFollows DEF RecordLost, SessionInv, MergeUnderWay
  <2>2. lost' = lost \cup ({Current} \X {h})
    BY <1>14 DEF RecordLost, PutAside
  <2>3. lost' \subseteq Nat \X Hash /\ lost \subseteq lost'
    BY <2>1, <2>2
  <2> QED
    BY <1>14, <2>3 DEF RecordLost, Drop
<1> QED
  BY <1>1, <1>2, <1>3, <1>4, <1>5, <1>6, <1>7, <1>8, <1>9, <1>10, <1>11, <1>12,
     <1>13, <1>14
     DEF SafeNext, allVars, Reader, Session, Interruption, Loss

LEMMA WatermarkStep ==
  ASSUME GossipInv, [SafeNext]_allVars PROVE WatermarkCovers'
<1> DEFINE Kept(n) == \A s \in 1..n : CoveredAt(s)'
<1>1. \A s : CoveredAt(s) => CoveredAt(s)'
  BY PublisherPart, ReaderTypes, CoveredGrows
<1>2. seen \in Nat /\ savedSeen \in Nat /\ upto \in Nat
  BY DEF GossipInv, GossipTypeOK
<1>3. Kept(seen) /\ Kept(savedSeen) /\ Kept(upto)
  BY <1>1 DEF GossipInv, WatermarkCovers, SessionInv, Covered
<1>4. Kept(0)
  OBVIOUS
<1>5. Kept(seen') /\ Kept(savedSeen')
  BY <1>3, <1>4, ReaderTypes DEF Greatest
<1> QED
  BY <1>5 DEF WatermarkCovers, Covered

\* Closing a session leaves nothing to say of it.
LEMMA Closed ==
  ASSUME CloseSession PROVE SessionInv'
<1>1. DOMAIN listed' = 1..0 /\ upto' = 0
  BY DEF CloseSession, Nothing
<1>2. ListedFollows'
  <2>1. upto' < 1 /\ \A t \in (upto' + 1)..(1 - 1) : FALSE
    BY <1>1
  <2> QED
    BY <1>1, <2>1 DEF ListedFollows
<1> QED
  BY <1>2 DEF CloseSession, Nothing, SessionInv, ListedIsCurrent,
       OnlyLastIncomplete, MergeUnderWay, Covered

LEMMA SessionStep ==
  ASSUME GossipInv, [SafeNext]_allVars PROVE SessionInv'
<1>f. FilesGrow /\ got \subseteq got' /\ lost \subseteq lost'
  BY PublisherPart, ReaderTypes
<1>t. /\ upto \in Nat /\ seen \in Nat
      /\ DOMAIN listed \subseteq Nat /\ DOMAIN delta \subseteq Nat
  BY DEF GossipInv, GossipTypeOK, ReliableInv, SavedInv, TypeOK
<1>s. ListedFollows /\ ListedIsCurrent /\ OnlyLastIncomplete /\ MergeUnderWay
  BY DEF GossipInv, SessionInv
<1>g. \A s : CoveredAt(s) => CoveredAt(s)'
  BY <1>f, CoveredGrows
<1>k. \A n \in {seen, upto} : \A s \in 1..n : CoveredAt(s)'
  BY <1>g DEF GossipInv, WatermarkCovers, SessionInv, Covered
<1>c. DOMAIN listed # {} =>
        /\ Current \in DOMAIN listed
        /\ Current \in Nat
        /\ upto < Current
        /\ \A t \in DOMAIN listed : Current <= t
        /\ \A t \in (upto + 1)..(Current - 1) : CoveredAt(t)
        /\ \E hi \in Nat : DOMAIN listed = Current..hi
  BY CurrentFollows DEF GossipInv, SessionInv
<1>m. listed = listed' => Current' = Current
  BY DEF Current
<1> USE DEF SessionInv, ListedIsCurrent, OnlyLastIncomplete
\* The session does not move, or only its step does.
<1>1. ASSUME UNCHANGED <<listed, upto>>, MergeUnderWay' PROVE SessionInv'
  <2>1. ListedIsCurrent'
    BY <1>1, <1>f, <1>s DEF FilesGrow
  <2>2. Covered(upto)'
    BY <1>1, <1>k DEF Covered
  <2>3. ListedFollows'
    BY <1>1, <1>g, <1>s DEF ListedFollows
  <2> QED
    BY <1>1, <1>s, <2>1, <2>2, <2>3
\* The current delta is put aside: covered by now, or as the last one.
<1>2. ASSUME NEW c, c = Current,
             DOMAIN listed # {}, listed' = Remaining, step' = "fetch",
             \/ upto' \in {upto, c} /\ CoveredAt(c)'
             \/ upto' = upto /\ ~listed[Current].sealed
      PROVE  SessionInv'
  <2>1. DOMAIN listed' = DOMAIN listed \ {Current}
    BY <1>2 DEF Remaining
  <2>2. \A s \in DOMAIN listed' : listed'[s] = listed[s]
    BY <1>2, <2>1 DEF Remaining
  <2>3. ListedIsCurrent' /\ OnlyLastIncomplete'
    BY <1>f, <1>s, <2>1, <2>2 DEF FilesGrow
  <2>d. c \in Nat /\ upto < c
    BY <1>2, <1>c
  <2>b. \A t \in (upto + 1)..(c - 1) : CoveredAt(t)'
    BY <1>2, <1>c, <1>g
  <2>4. ListedFollows'
    <3>1. CASE upto' \in {upto, c} /\ CoveredAt(c)'
      <4>1. PICK hi \in Nat : DOMAIN listed = c..hi
        BY <1>2, <1>c
      <4>2. DOMAIN listed' = (c + 1)..hi
        BY <1>2, <2>1, <2>d, <4>1
      <4>3. upto' < c + 1
        BY <3>1, <2>d, <1>t
      <4>4. \A t \in (upto' + 1)..((c + 1) - 1) : CoveredAt(t)'
        <5> TAKE t \in (upto' + 1)..((c + 1) - 1)
        <5>0. upto' = upto \/ upto' = c
          BY <3>1
        <5>1. upto \in Nat /\ c \in Nat /\ upto < c
          BY <1>t, <2>d
        <5>2. t \in (upto' + 1)..((c + 1) - 1)
          OBVIOUS
        <5>3. t = c \/ t \in (upto + 1)..(c - 1)
          <6>1. CASE upto' = upto
            <7>1. t \in (upto + 1)..((c + 1) - 1)
              BY <6>1, <5>2
            <7> QED
              BY ONLY <7>1, <5>1
          <6>2. CASE upto' = c
            <7>1. t \in (c + 1)..((c + 1) - 1)
              BY <6>2, <5>2
            <7> QED
              BY ONLY <7>1, <5>1
          <6> QED
            BY <5>0, <6>1, <6>2
        <5> QED
          BY <5>3, <3>1, <2>b
      <4>5. c + 1 \in Nat
        BY <2>d
      <4> QED
        BY <4>1, <4>2, <4>3, <4>4, <4>5 DEF ListedFollows
    <3>2. CASE upto' = upto /\ ~listed[Current].sealed
      <4>1. \A t \in DOMAIN listed : t = Current
        BY <1>s, <1>t, <1>c, <1>2, <3>2
      <4>2. DOMAIN listed' = {}
        BY <2>1, <4>1
      <4>3. DOMAIN listed' = (upto' + 1)..0 /\ upto' + 1 \in Nat
        BY <4>2, <3>2, <1>t
      <4>4. upto' < upto' + 1 /\ \A t \in (upto' + 1)..((upto' + 1) - 1) : FALSE
        BY <3>2, <1>t
      <4> QED
        BY <4>3, <4>4 DEF ListedFollows
    <3> QED
      BY <1>2, <3>1, <3>2
  <2>5. Covered(upto)'
    <3>1. CASE upto' = upto
      BY <3>1, <1>k DEF Covered
    <3>2. CASE upto' = c /\ CoveredAt(c)'
      <4>1. \A s \in 1..c : s \in 1..upto \/ s \in (upto + 1)..(c - 1) \/ s = c
        BY <2>d, <1>t
      <4>3. \A s \in 1..upto : CoveredAt(s)'
        BY <1>k
      <4>2. \A s \in 1..c : CoveredAt(s)'
        BY <4>1, <3>2, <2>b, <4>3
      <4> QED
        BY <3>2, <4>2 DEF Covered
    <3> QED
      BY <1>2, <3>1, <3>2
  <2>6. MergeUnderWay'
    BY <1>2 DEF MergeUnderWay
  <2> QED
    BY <2>3, <2>4, <2>5, <2>6
<1>3. CASE UNCHANGED reader
  <2>1. UNCHANGED <<listed, upto, step, left, got, lost>>
    BY <1>3 DEF reader
  <2>2. MergeUnderWay'
    BY <2>1, <1>s, <1>m DEF MergeUnderWay
  <2> QED
    BY <1>1, <2>1, <2>2
<1>4. CASE ReadManifest
  <2>1. /\ listed' = [s \in {t \in DOMAIN delta : t > seen} |-> delta[s]]
        /\ upto' = seen /\ step' = "fetch"
    BY <1>4 DEF ReadManifest
  <2>2. (DOMAIN delta = 1..Last /\ Last \in Nat) \/ DOMAIN delta = {}
    <3>1. DOMAIN delta = 1..Last
      BY DEF GossipInv, FilesInv
    <3>2. Last \in Int
      BY DEF Last, Saved, GossipInv, ReliableInv, SavedInv, TypeOK
    <3> QED
      BY <3>1, <3>2
  <2>3. ListedFollows'
    <3>1. PICK last \in Nat : DOMAIN delta = 1..last
      BY <2>2
    <3>2. DOMAIN listed' = (seen + 1)..last
      BY <2>1, <3>1, <1>t
    <3>3. seen + 1 \in Nat /\ seen < seen + 1 /\ \A t \in (seen + 1)..((seen + 1) - 1) : FALSE
      BY <1>t
    <3> QED
      BY <2>1, <3>2, <3>3 DEF ListedFollows
  <2>4. ListedIsCurrent'
    BY <2>1, <1>f DEF FilesGrow
  <2>5. OnlyLastIncomplete'
    <3>1. \A s \in DOMAIN delta : ~delta[s].sealed => \A t \in DOMAIN delta : t <= s
      <4> SUFFICES ASSUME NEW s \in DOMAIN delta, ~delta[s].sealed
                   PROVE  \A t \in DOMAIN delta : t <= s
        OBVIOUS
      <4>1. s = Last /\ DOMAIN delta = 1..Last
        BY DEF GossipInv, FilesInv, Last, Writing
      <4> QED
        BY <4>1, <2>2, <1>t
    <3> QED
      BY <2>1, <3>1
  <2>6. Covered(upto)' /\ MergeUnderWay'
    BY <2>1, <1>k DEF Covered, MergeUnderWay
  <2> QED
    BY <2>3, <2>4, <2>5, <2>6
<1>5. CASE Fetch
  <2>1. DOMAIN listed # {} /\ listed[Current].sealed /\ left' = listed[Current].rows
          /\ UNCHANGED <<listed, upto>>
    BY <1>5 DEF Fetch
  <2>2. MergeUnderWay'
    BY <2>1, <1>m DEF MergeUnderWay
  <2> QED
    BY <1>1, <2>1, <2>2
<1>6. CASE FetchNotFound
  <2>1. /\ DOMAIN listed # {} /\ listed' = Remaining /\ UNCHANGED <<step, upto>>
        /\ step = "fetch"
        /\ delta[Current] # listed[Current] \/ ~listed[Current].sealed
    BY <1>6 DEF FetchNotFound
  <2>2. ~listed[Current].sealed
    BY <2>1, <1>c, <1>s
  <2> QED
    BY <1>2, <2>1, <2>2
<1>7. ASSUME NEW h \in Hash, MergeRecord(h) PROVE SessionInv'
  <2>1. /\ step = "merge" /\ got' = got \cup ({h} \cap Wanted) /\ left' = left \ {h}
        /\ UNCHANGED <<listed, upto, step, lost>>
    BY <1>7 DEF MergeRecord
  <2>2. MergeUnderWay'
    BY <2>1, <1>s, <1>m DEF MergeUnderWay
  <2> QED
    BY <1>1, <2>1, <2>2
<1>8. CASE Merged
  <2>1. /\ step = "merge" /\ left = {} /\ upto' = Greatest(upto, Current)
        /\ listed' = Remaining /\ step' = "fetch" /\ UNCHANGED <<delta, got, lost>>
    BY <1>8 DEF Merged, publisher, vars
  <2>2. /\ DOMAIN listed # {} /\ listed[Current].sealed
        /\ \A h \in listed[Current].rows \cap Wanted : h \in got \/ <<Current, h>> \in lost
    BY <2>1, <1>s DEF MergeUnderWay
  <2>3. Current \in DOMAIN listed /\ Current \in Nat /\ upto < Current
    BY <2>2, <1>c
  <2>4. Current \in DOMAIN delta /\ delta[Current] = listed[Current]
    BY <2>2, <2>3, <1>s
  <2>5. Complete(Current)
    BY <2>2, <2>4, FileComplete DEF GossipInv
  <2>6. upto' = Current
    BY <2>1, <2>3, <1>t DEF Greatest
  <2>7. CoveredAt(Current)
    BY <2>2, <2>4, <2>5 DEF CoveredAt
  <2>8. PICK c : c = Current
    OBVIOUS
  <2>9. CoveredAt(c)'
    BY <2>7, <2>8, <1>g
  <2> QED
    BY <1>2, <2>1, <2>2, <2>6, <2>8, <2>9
<1>11. CASE FetchRefused
  <2>1. /\ DOMAIN listed # {} /\ listed' = Remaining /\ UNCHANGED <<step, upto, delta, got>>
        /\ step = "fetch"
        /\ lost' = lost \cup ({Current} \X listed[Current].rows)
    BY <1>11 DEF FetchRefused, PutAside, publisher, vars
  <2>2. CASE ~listed[Current].sealed
    BY <1>2, <2>1, <2>2
  <2>3. CASE listed[Current].sealed
    <3>1. Current \in DOMAIN delta /\ delta[Current] = listed[Current]
      BY <2>1, <2>3, <1>c, <1>s
    <3>2. Complete(Current)
      BY <2>3, <3>1, FileComplete DEF GossipInv
    <3>3. PICK c : c = Current
      OBVIOUS
    <3>4. CoveredAt(c)'
      <4>1. \A h \in delta[c].rows : <<c, h>> \in lost'
        BY <2>1, <3>1, <3>3
      <4>2. Complete(c)'
        BY <2>1, <3>2, <3>3 DEF Complete
      <4> QED
        BY <2>1, <4>1, <4>2 DEF CoveredAt
    <3> QED
      BY <1>2, <2>1, <3>3, <3>4
  <2> QED
    BY <2>2, <2>3
<1>12. ASSUME NEW h \in Hash, RecordLost(h) PROVE SessionInv'
  <2>1. /\ step = "merge" /\ lost' = lost \cup ({Current} \X {h}) /\ left' = left \ {h}
        /\ UNCHANGED <<listed, upto, step, got>>
    BY <1>12 DEF RecordLost, PutAside
  <2>2. MergeUnderWay'
    BY <2>1, <1>s, <1>m DEF MergeUnderWay
  <2> QED
    BY <1>1, <2>1, <2>2
<1>9. CASE Finish \/ FetchUnreadable \/ SessionFails \/ ReaderRestart
  BY <1>9, Closed DEF Finish, FetchUnreadable, SessionFails, ReaderRestart
<1>10. CASE SaveWatermark \/ Evict
  <2>1. UNCHANGED <<listed, upto, step, left, got, lost>>
    BY <1>10 DEF SaveWatermark, Evict, session
  <2>2. MergeUnderWay'
    BY <2>1, <1>s, <1>m DEF MergeUnderWay
  <2> QED
    BY <1>1, <2>1, <2>2
<1> QED
  BY <1>3, <1>4, <1>5, <1>6, <1>7, <1>8, <1>9, <1>10, <1>11, <1>12
     DEF SafeNext, allVars, Reader, Session, Interruption, Loss

LEMMA GossipInitial == GossipInit => GossipInv
<1> SUFFICES ASSUME GossipInit PROVE GossipInv
  OBVIOUS
<1>1. ReliableInv
  BY InitReliable DEF GossipInit
<1>2. FilesInv
  BY DEF GossipInit, Init, FilesInv, Last, Writing, Saved
<1>3. SessionInv /\ WatermarkCovers
  <2>1. DOMAIN listed = 1..0 /\ upto = 0
    BY DEF GossipInit, Nothing
  <2>2. ListedFollows
    <3>1. upto < 1 /\ \A t \in (upto + 1)..(1 - 1) : FALSE
      BY <2>1
    <3> QED
      BY <2>1, <3>1 DEF ListedFollows
  <2> QED
    BY <2>2 DEF GossipInit, SessionInv, ListedIsCurrent, Nothing,
         OnlyLastIncomplete, MergeUnderWay, WatermarkCovers, Covered
<1>4. GossipTypeOK
  BY GossipAssumption DEF GossipInit, GossipTypeOK, Content, Nothing
<1> QED
  BY <1>1, <1>2, <1>3, <1>4 DEF GossipInv

\* While the publisher's writes succeed, the watermark a reader keeps of it,
\* and the one it would restart from, only ever cover complete deltas whose
\* wanted torrents the reader has or itself put aside (manager.rs, merge.rs).
THEOREM GossipCovers == SafeSpec => []WatermarkCovers
<1>1. GossipInv /\ [SafeNext]_allVars => GossipInv'
  BY PublisherPart, ReaderTypes, WatermarkStep, SessionStep DEF GossipInv
<1>2. GossipInv => WatermarkCovers
  BY DEF GossipInv
<1> QED
  BY <1>1, <1>2, GossipInitial, PTL DEF SafeSpec

\* Type correctness of the reader.
THEOREM GossipTypes == SafeSpec => []GossipTypeOK
<1>1. GossipInv /\ [SafeNext]_allVars => GossipInv'
  BY PublisherPart, ReaderTypes, WatermarkStep, SessionStep DEF GossipInv
<1>2. GossipInv => GossipTypeOK
  BY DEF GossipInv
<1> QED
  BY <1>1, <1>2, GossipInitial, PTL DEF SafeSpec
=============================================================================

----------------------------- MODULE NodeProofs -----------------------------
(***************************************************************************)
(* Theorems about the process, its identity, its epoch and its XMPP        *)
(* channel, and about the parts of the node together.                      *)
(***************************************************************************)
EXTENDS MCNode, TorrentLifecycleProofs, WebProofs

---------------------------------------------------------------------------
(* The contributor identity *)

IdTypes ==
  /\ keyFile \in IdKey \cup {"none", "torn"}
  /\ pending \in IdKey \cup {"none", "torn"}
  /\ sync \in IdKey \cup {"none", "torn"}
  /\ env \in IdKey \cup {"none"} /\ web \in IdKey \cup {"none"} /\ known \in SUBSET IdKey
  /\ step \in {"down", "load", "save", "fill", "settle", "offer", "up"}
  /\ job \in {"env", "fresh", "restore"}
  /\ restored \in BOOLEAN /\ unsaved \in BOOLEAN /\ mishaps \in 0..MaxMishaps

\* Where main or a restore may be for each thing it saves, and that from the
\* save on there is a key to save.
StepInv ==
  /\ step = "load" => job = "env"
  /\ step = "offer" => job = "fresh"
  /\ step = "settle" => job # "fresh"
  /\ step \notin {"down", "load"} => web \in IdKey
  /\ step \notin {"down", "load"} /\ job # "fresh" /\ step # "up" => web \in known

\* What is shown is saved as soon as the file is complete; only a failed
\* save of a restored key leaves them apart.
SavedInv ==
  /\ step \in {"settle", "offer"} => keyFile = web
  /\ MemoryIsSaved
  /\ unsaved => mishaps > 0
  /\ unsaved /\ step # "down" => restored

\* The sync worker starts once main serves, and finds what main saved.
SyncInv ==
  /\ ~Serving => sync = "none"
  /\ job = "restore" /\ step # "down" => restored
  /\ SignsAsShown

\* The key of the file is offered, or the user has it.
Offered(k) == pending \in {"none", k} /\ (k \notin known => pending = k)

OfferInv ==
  mishaps = 0 =>
    /\ step \in {"down", "load"} => keyFile = "none" \/ (keyFile \in IdKey /\ Offered(keyFile))
    /\ step = "up" => Offered(web) /\ keyFile = web

IdInv == IdTypes /\ StepInv /\ SavedInv /\ SyncInv /\ OfferInv

LEMMA IdImplies ==
  IdInv => IdentityTypeOK /\ IdentityIsSound
<1> SUFFICES ASSUME IdInv PROVE IdentityTypeOK /\ IdentityIsSound
  OBVIOUS
<1>1. IdentityTypeOK
  BY DEF IdInv, IdTypes, StepInv, IdentityTypeOK, Serving
<1>2. MemoryIsSaved /\ SignsAsShown
  BY DEF IdInv, SavedInv, SyncInv
<1>3. OfferIsCurrent
  BY DEF IdInv, OfferInv, OfferIsCurrent, Offered
<1> QED BY <1>1, <1>2, <1>3 DEF IdentityIsSound

LEMMA IdInit == IdentityInit => IdInv
<1> SUFFICES ASSUME IdentityInit PROVE IdInv
  OBVIOUS
<1>1. 0 \in 0..MaxMishaps
  BY IdentityAssumption
<1>2. IdTypes
  BY <1>1 DEF IdentityInit, IdTypes
<1>3. StepInv /\ SavedInv /\ OfferInv
  BY DEF IdentityInit, StepInv, SavedInv, OfferInv, MemoryIsSaved
<1>4. SyncInv
  BY IdentityAssumption DEF IdentityInit, SyncInv, Serving, SignsAsShown
<1> QED BY <1>2, <1>3, <1>4 DEF IdInv

\* One step per action.
LEMMA IdStep == IdInv /\ [IdentityNext]_idVars => IdInv'
<1> SUFFICES ASSUME IdInv, [IdentityNext]_idVars PROVE IdInv'
  OBVIOUS
<1> USE IdentityAssumption
    DEF IdInv, IdTypes, StepInv, SavedInv, SyncInv, OfferInv, MemoryIsSaved, SignsAsShown,
        Serving, Offered
<1>1. CASE StartMain
  BY <1>1 DEF StartMain
<1>2. CASE LoadOrGenerate
  BY <1>2 DEF LoadOrGenerate
<1>3. CASE Truncate
  BY <1>3 DEF Truncate
<1>4. CASE Fill
  BY <1>4 DEF Fill
<1>5. CASE SaveFailed
  <2>1. /\ step \in {"save", "fill"} /\ mishaps' = mishaps + 1 /\ mishaps' \in 0..MaxMishaps
        /\ unsaved' = (unsaved \/ job = "restore")
        /\ UNCHANGED <<env, keyFile, pending, web, sync, job, known, restored>>
    BY <1>5 DEF SaveFailed, Mishap
  <2>2. CASE job = "env"
    <3>1. step' = "load"
      BY <1>5, <2>2 DEF SaveFailed, AfterFailedSave
    <3> QED BY <2>1, <2>2, <3>1
  <2>3. CASE job = "fresh"
    <3>1. step' = "down"
      BY <1>5, <2>3 DEF SaveFailed, AfterFailedSave
    <3> QED BY <2>1, <2>3, <3>1
  <2>4. CASE job = "restore"
    <3>1. step' = "up"
      BY <1>5, <2>4 DEF SaveFailed, AfterFailedSave
    <3> QED BY <2>1, <2>4, <3>1
  <2> QED BY <2>2, <2>3, <2>4
<1>6. CASE Settle
  BY <1>6 DEF Settle, Mishap
<1>7. CASE Offer
  BY <1>7 DEF Offer, Mishap
<1>8. ASSUME NEW k \in IdKey, Restore(k) PROVE IdInv'
  BY <1>8 DEF Restore
<1>9. CASE Acknowledge
  BY <1>9 DEF Acknowledge
<1>10. CASE SyncLoads
  BY <1>10 DEF SyncLoads
<1>11. CASE CrashIdentity
  BY <1>11 DEF CrashIdentity, Mishap
<1>12. CASE UNCHANGED idVars
  BY <1>12 DEF idVars
<1> QED
  BY <1>1, <1>2, <1>3, <1>4, <1>5, <1>6, <1>7, <1>8, <1>9, <1>10, <1>11, <1>12 DEF IdentityNext

\* Types, and nobody is served without an identity to show.
THEOREM ServesAnIdentity == IdentitySpec => []IdentityTypeOK
<1>1. IdentitySpec => []IdInv
  BY IdInit, IdStep, PTL DEF IdentitySpec
<1> QED BY <1>1, IdImplies, PTL

\* The key file, the two copies in memory and the recovery key on offer
\* agree, whatever was restored, failed or crashed, with the exceptions that
\* IdentityIsSound names.
THEOREM IdentitySound == IdentitySpec => []IdentityIsSound
<1>1. IdentitySpec => []IdInv
  BY IdInit, IdStep, PTL DEF IdentitySpec
<1> QED BY <1>1, IdImplies, PTL

---------------------------------------------------------------------------
(* Epochs *)

Rows == [source : {"sync", "bep51"}, epoch : 1..MaxEpoch]

\* No synced row is of another epoch.
Purified == \A r \in indexed : r.source = "sync" => r.epoch = CurrentEpoch

\* What may be left of a transition; only its first statement purges.
FromRenumber == <<"renumber", "rewind", "clean", "save_state">>
FromRewind == <<"rewind", "clean", "save_state">>
FromClean == <<"clean", "save_state">>
Unpurged == {SeedPlan, OtherPlan}
RestOfPlans == {FromRenumber, FromRewind, FromClean, AdoptPlan, <<>>}

\* Once the purge is over the rows are of the current epoch and stay so:
\* merges that start read the new declaration, and for those that had
\* started before "faulty" is set.
EpochInv ==
  /\ declared \in 0..MaxEpoch /\ reached \in 0..MaxEpoch /\ merging \in 0..MaxEpoch
  /\ faulty \in BOOLEAN /\ epochFaults \in 0..EpochFaults
  /\ indexed \in SUBSET Rows
  /\ statements \in Unpurged \cup RestOfPlans
  /\ statements # <<>> => declared >= 1
  /\ ~faulty =>
       /\ reached <= declared
       /\ merging \in {0, CurrentEpoch}
       /\ statements \in Unpurged => reached < declared
       /\ statements \notin Unpurged => Purified

\* Each plan is its first statement and one of the rests.
LEMMA PlanFacts ==
  /\ Head(SeedPlan) = "purge_synced" /\ Tail(SeedPlan) = FromRenumber
  /\ Head(OtherPlan) = "purge_all" /\ Tail(OtherPlan) = FromRewind
  /\ Head(FromRenumber) = "renumber" /\ Tail(FromRenumber) = FromRewind
  /\ Head(FromRewind) = "rewind" /\ Tail(FromRewind) = FromClean
  /\ Head(FromClean) = "clean" /\ Tail(FromClean) = AdoptPlan
  /\ Head(AdoptPlan) = "save_state" /\ Tail(AdoptPlan) = <<>>
BY DEF SeedPlan, OtherPlan, AdoptPlan, FromRenumber, FromRewind, FromClean

LEMMA PlansDiffer ==
  Unpurged \cap RestOfPlans = {} /\ <<>> \notin Unpurged /\ AdoptPlan # <<>>
BY DEF Unpurged, RestOfPlans, SeedPlan, OtherPlan, AdoptPlan, FromRenumber, FromRewind, FromClean

\* What follows any statement purges no more.
LEMMA RestOfPlan ==
  ASSUME NEW p \in Unpurged \cup RestOfPlans, p # <<>>
  PROVE  /\ Tail(p) \in RestOfPlans
         /\ p \in Unpurged => Head(p) \in {"purge_synced", "purge_all"}
         /\ p \notin Unpurged => Head(p) \in {"renumber", "rewind", "clean", "save_state"}
BY PlanFacts, PlansDiffer DEF Unpurged, RestOfPlans

LEMMA EpochImplies == EpochInv => EpochTypeOK /\ OldRowsGo
<1> SUFFICES ASSUME EpochInv PROVE EpochTypeOK /\ OldRowsGo
  OBVIOUS
<1>1. EpochTypeOK
  BY DEF EpochInv, EpochTypeOK, Rows
<1>2. OldRowsGo
  BY DEF EpochInv, OldRowsGo, Purified
<1> QED BY <1>1, <1>2

LEMMA EpochInitInv == EpochInit => EpochInv
<1> SUFFICES ASSUME EpochInit PROVE EpochInv
  OBVIOUS
<1>1. statements \in RestOfPlans /\ statements \notin Unpurged
  BY PlansDiffer DEF EpochInit, RestOfPlans
<1>2. 0 \in 0..MaxEpoch /\ 0 \in 0..EpochFaults
  BY EpochTransitionAssumption
<1>3. indexed \in SUBSET Rows /\ Purified
  BY DEF EpochInit, Purified
<1>4. /\ declared = 0 /\ reached = 0 /\ merging = 0 /\ epochFaults = 0 /\ faulty = FALSE
      /\ ~(statements # <<>>)
  BY DEF EpochInit
<1>5. declared \in 0..MaxEpoch /\ reached \in 0..MaxEpoch /\ merging \in 0..MaxEpoch
      /\ epochFaults \in 0..EpochFaults /\ reached <= declared
  BY <1>2, <1>4
<1> QED BY <1>1, <1>3, <1>4, <1>5 DEF EpochInv

\* A statement keeps rows rows; the first purges, the others keep the rows
\* pure.
LEMMA PurgedFacts ==
  ASSUME EpochInv, declared >= 1, NEW s \in {"purge_synced", "purge_all", "renumber", "rewind", "clean", "save_state"}
  PROVE  /\ Purged(s) \in SUBSET Rows
         /\ (s \in {"purge_synced", "purge_all"} \/ Purified) =>
              \A r \in Purged(s) : r.source = "sync" => r.epoch = CurrentEpoch
<1>1. CASE s = "purge_all"
  BY <1>1 DEF Purged
<1>2. CASE s = "purge_synced"
  <2>1. Purged(s) = {r \in indexed : r.source # "sync"}
    BY <1>2 DEF Purged
  <2> QED BY <2>1 DEF EpochInv
<1>3. CASE s = "renumber"
  <2> DEFINE New(r) == [r EXCEPT !.epoch = IF r.source = "sync" THEN @ ELSE declared]
  <2>1. Purged(s) = {New(r) : r \in indexed}
    BY <1>3 DEF Purged
  <2>2. \A r \in Rows : New(r) \in Rows /\ New(r).source = r.source
                        /\ (r.source = "sync" => New(r).epoch = r.epoch)
    BY DEF Rows, EpochInv
  <2> HIDE DEF New
  <2>3. \A r \in indexed : r \in Rows
    BY DEF EpochInv
  <2> QED BY <1>3, <2>1, <2>2, <2>3 DEF Purified
<1>4. CASE s \in {"rewind", "clean", "save_state"}
  <2>1. Purged(s) = indexed
    BY <1>4 DEF Purged
  <2> QED BY <1>4, <2>1 DEF EpochInv, Purified
<1> QED BY <1>1, <1>2, <1>3, <1>4

\* One step per action.
LEMMA EpochStep == EpochInv /\ [EpochNext]_epochVars => EpochInv'
<1> SUFFICES ASSUME EpochInv, [EpochNext]_epochVars PROVE EpochInv'
  OBVIOUS
<1> USE EpochTransitionAssumption
<1>1. ASSUME NEW e \in 1..MaxEpoch, Declare(e) PROVE EpochInv'
  <2>1. PICK p \in {SeedPlan, OtherPlan, AdoptPlan} :
          statements' = p /\ faulty' = (faulty \/ merging # 0 \/ p = AdoptPlan)
    BY <1>1 DEF Declare
  <2>2. declared' = e /\ e > CurrentEpoch /\ UNCHANGED <<reached, indexed, merging, epochFaults>>
    BY <1>1 DEF Declare, Newer
  <2>3. CurrentEpoch >= declared /\ CurrentEpoch >= 1 /\ CurrentEpoch \in Nat
    BY DEF CurrentEpoch, EpochInv
  <2>4. statements' \in Unpurged' \cup RestOfPlans' /\ Unpurged' = Unpurged /\ RestOfPlans' = RestOfPlans
    BY <2>1 DEF Unpurged, RestOfPlans
  <2>5. ~faulty' => ~faulty /\ merging = 0 /\ statements' \in Unpurged
    BY <2>1 DEF Unpurged
  <2> QED BY <2>1, <2>2, <2>3, <2>4, <2>5 DEF EpochInv
<1>2. ASSUME NEW e \in 1..MaxEpoch, DeclareFailed(e) PROVE EpochInv'
  BY <1>2, PlansDiffer DEF DeclareFailed, EpochFault, EpochInv, Unpurged, RestOfPlans
<1>3. CASE Transition
  <2> DEFINE s == Head(statements)
  <2>1. /\ statements # <<>> /\ indexed' = Purged(s) /\ statements' = Tail(statements)
        /\ reached' = IF s = "save_state" THEN declared ELSE reached
        /\ UNCHANGED <<declared, merging, faulty, epochFaults>>
    BY <1>3 DEF Transition
  <2>2. /\ statements' \in RestOfPlans
        /\ s \in {"purge_synced", "purge_all", "renumber", "rewind", "clean", "save_state"}
        /\ statements \in Unpurged => s \in {"purge_synced", "purge_all"}
    BY <2>1, RestOfPlan DEF EpochInv
  <2>3. declared >= 1 /\ declared \in 0..MaxEpoch /\ reached \in 0..MaxEpoch
    BY <2>1 DEF EpochInv
  <2>4. CurrentEpoch' = CurrentEpoch
    BY <2>1 DEF CurrentEpoch
  <2>5. indexed' \in SUBSET Rows
    BY <2>1, <2>2, <2>3, PurgedFacts
  <2>6. ~faulty => Purified'
    <3> SUFFICES ASSUME ~faulty PROVE Purified'
      OBVIOUS
    <3>1. s \in {"purge_synced", "purge_all"} \/ Purified
      BY <2>2 DEF EpochInv
    <3> QED BY <2>1, <2>2, <2>3, <2>4, <3>1, PurgedFacts DEF Purified
  <2>7. statements' \notin Unpurged
    BY <2>2, PlansDiffer
  <2>8. reached' \in 0..MaxEpoch /\ (~faulty => reached' <= declared)
    BY <2>1, <2>3 DEF EpochInv
  <2> HIDE DEF s
  <2>9. Unpurged' = Unpurged /\ RestOfPlans' = RestOfPlans
    BY DEF Unpurged, RestOfPlans
  <2> QED BY <2>1, <2>2, <2>3, <2>4, <2>5, <2>6, <2>7, <2>8, <2>9 DEF EpochInv, Rows
<1>4. CASE StatementIgnored
  <2>1. /\ statements # <<>> /\ statements' = Tail(statements) /\ faulty' = TRUE
        /\ epochFaults' \in 0..EpochFaults
        /\ UNCHANGED <<declared, reached, indexed, rewound, merging>>
    BY <1>4 DEF StatementIgnored, EpochFault, EpochInv
  <2>2. statements' \in RestOfPlans /\ Unpurged' = Unpurged /\ RestOfPlans' = RestOfPlans
    BY <2>1, RestOfPlan DEF EpochInv, Unpurged, RestOfPlans
  <2> QED BY <2>1, <2>2 DEF EpochInv
<1>5. CASE CrashTransition
  BY <1>5 DEF CrashTransition, EpochFault, EpochInv, Unpurged, RestOfPlans
<1>6. CASE AcceptRecord
  <2>1. CurrentEpoch \in 0..MaxEpoch
    BY DEF CurrentEpoch, EpochInv
  <2> QED BY <1>6, <2>1 DEF AcceptRecord, EpochInv, Unpurged, RestOfPlans, Purified, CurrentEpoch
<1>7. CASE StoreRecord
  <2> DEFINE row == [source |-> "sync", epoch |-> merging]
  <2>1. /\ merging # 0 /\ indexed' = indexed \cup {row} /\ merging' = 0
        /\ UNCHANGED <<declared, reached, statements, faulty, epochFaults>>
    BY <1>7 DEF StoreRecord
  <2>2. row \in Rows
    BY <2>1 DEF Rows, EpochInv
  <2>3. ~faulty => row.epoch = CurrentEpoch
    BY <2>1 DEF EpochInv
  <2> HIDE DEF row
  <2>4. CurrentEpoch' = CurrentEpoch /\ Unpurged' = Unpurged /\ RestOfPlans' = RestOfPlans /\ Rows' = Rows
    BY <2>1 DEF CurrentEpoch, Unpurged, RestOfPlans, Rows
  <2> QED BY <2>1, <2>2, <2>3, <2>4 DEF EpochInv, Purified
<1>8. CASE IndexFound
  <2> DEFINE row == [source |-> "bep51", epoch |-> 1]
  <2>1. /\ indexed' = indexed \cup {row}
        /\ UNCHANGED <<declared, reached, statements, merging, faulty, epochFaults>>
    BY <1>8 DEF IndexFound
  <2>2. row \in Rows /\ row.source # "sync"
    BY DEF Rows
  <2> HIDE DEF row
  <2>3. CurrentEpoch' = CurrentEpoch /\ Unpurged' = Unpurged /\ RestOfPlans' = RestOfPlans /\ Rows' = Rows
    BY <2>1 DEF CurrentEpoch, Unpurged, RestOfPlans, Rows
  <2> QED BY <2>1, <2>2, <2>3 DEF EpochInv, Purified
<1>9. CASE UNCHANGED epochVars
  BY <1>9 DEF epochVars, EpochInv, Unpurged, RestOfPlans, Purified, CurrentEpoch
<1> QED BY <1>1, <1>2, <1>3, <1>4, <1>5, <1>6, <1>7, <1>8, <1>9 DEF EpochNext

\* Types, and the state names no epoch that was not declared.
THEOREM EpochTypes == EpochSpec => []EpochTypeOK
<1>1. EpochSpec => []EpochInv
  BY EpochInitInv, EpochStep, PTL DEF EpochSpec
<1> QED BY <1>1, EpochImplies, PTL

\* A transition recorded as done leaves no row synced in an older epoch,
\* with the exceptions that OldRowsGo names.
THEOREM OldRows == EpochSpec => []OldRowsGo
<1>1. EpochSpec => []EpochInv
  BY EpochInitInv, EpochStep, PTL DEF EpochSpec
<1> QED BY <1>1, EpochImplies, PTL

---------------------------------------------------------------------------
(* The XMPP channel *)

\* A nick whose manifest may be asked for.
Stranger(n) == n.cid # OurNick.cid /\ n.cid # "none"

\* Who was asked was seen, and whose answer is awaited is a stranger.
XmppInv ==
  /\ phase \in {"off", "top", "credentials", "register", "stream", "backoff", "stopped"}
  /\ backoff \in MinBackoff..MaxBackoff /\ seen \subseteq RoomNick
  /\ validating # NoNick => validating \in RoomNick /\ Stranger(validating)
  /\ online => phase = "stream"
  /\ \A n \in added : Stranger(n)
  /\ asked \in [RoomNick -> {0, 1}] /\ \A n \in RoomNick : asked[n] = 1 => n \in seen

LEMMA XmppInvInit == XmppInit => XmppInv
BY XmppAssumption DEF XmppInit, XmppInv

LEMMA XmppEnds == ASSUME XmppInv, NEW p \in {"backoff", "stopped"}, EndsWith(p), UNCHANGED <<backoff, added>>
                  PROVE  XmppInv'
BY DEF XmppInv, EndsWith, Stranger

LEMMA PresenceKeeps == ASSUME XmppInv, NEW n \in RoomNick, HandlePresence(n) PROVE XmppInv'
<1>1. /\ UNCHANGED <<phase, backoff, online, added>> /\ seen' = seen \cup {n} /\ n \notin seen
      /\ \/ UNCHANGED <<validating, asked>>
         \/ Stranger(n) /\ validating' = n /\ asked' = [asked EXCEPT ![n] = @ + 1]
  BY DEF HandlePresence, GhostOfUs, Stranger
<1>2. asked[n] = 0
  BY <1>1 DEF XmppInv
<1>3. asked' \in [RoomNick -> {0, 1}] /\ \A x \in RoomNick \ {n} : asked'[x] = asked[x]
  BY <1>1, <1>2 DEF XmppInv
<1> QED BY <1>1, <1>3 DEF XmppInv, Stranger

LEMMA XmppStepKeeps == XmppInv /\ [XmppNext]_xmppVars => XmppInv'
<1> SUFFICES ASSUME XmppInv, [XmppNext]_xmppVars PROVE XmppInv'
  OBVIOUS
<1>1. CASE RunOnce \/ Credentials \/ Register \/ GetOnline \/ StartChannel \/ Disconnected \/ CancelXmpp
  BY <1>1 DEF XmppInv, RunOnce, Credentials, Register, GetOnline, StartChannel, Disconnected, CancelXmpp,
              Driving, Stranger
<1>2. CASE Validated
  BY <1>2 DEF XmppInv, Validated, Stranger
<1>3. CASE BackedOff
  <2>1. backoff' \in MinBackoff..MaxBackoff
    BY <1>3, XmppAssumption DEF XmppInv, BackedOff
  <2> QED BY <1>3, <2>1 DEF XmppInv, BackedOff, Stranger
<1>4. CASE StreamCancelled \/ CredentialsFailed \/ StreamError
  BY <1>4, XmppEnds DEF StreamCancelled, CredentialsFailed, StreamError
<1>5. CASE \E n \in RoomNick : HandlePresence(n)
  BY <1>5, PresenceKeeps
<1>6. CASE UNCHANGED xmppVars
  BY <1>6 DEF XmppInv, xmppVars, Stranger
<1> QED BY <1>1, <1>2, <1>3, <1>4, <1>5, <1>6 DEF XmppNext, XmppStep

LEMMA XmppInvImplies == XmppInv => XmppTypeOK
BY DEF XmppInv, XmppTypeOK, Stranger

---------------------------------------------------------------------------
(* The process *)

\* Nothing runs before the database is there or after main has returned.
NodeInv ==
  /\ main \in {"database", "starting", "waiting", "joining", "exited"}
  /\ deployment \in Deployments /\ next \in 1..Len(StartOrder) + 1
  /\ worker \in [WorkerNames -> {"off", "running", "ended"}]
  /\ request \in {"none", "splash", "served"} /\ download \in BOOLEAN
  /\ Running \cap OnDht # {} => engine = "up"
  /\ main \in {"database", "exited"} => Running = {}

LEMMA NodeInvInit == NodeInit => NodeInv
<1> SUFFICES ASSUME NodeInit PROVE NodeInv
  OBVIOUS
<1>1. worker = [w \in WorkerNames |-> "off"] /\ Running = {}
  BY DEF NodeInit, Running
<1>2. 1 \in 1..Len(StartOrder) + 1
  BY DEF StartOrder
<1> QED BY <1>1, <1>2 DEF NodeInit, NodeInv

\* Workers that end take none to a run.
LEMMA FewerRun ==
  ASSUME NodeInv, main' \in {"database", "starting", "waiting", "joining", "exited"},
         UNCHANGED <<deployment, next, engine>>, worker' \in [WorkerNames -> {"off", "running", "ended"}],
         request' \in {"none", "splash", "served"}, download' \in BOOLEAN,
         Running' \subseteq Running,
         main' \in {"database", "exited"} => Running' = {}
  PROVE  NodeInv'
BY DEF NodeInv

LEMMA StartWorkerKeeps == NodeInv /\ StartWorker => NodeInv'
<1> SUFFICES ASSUME NodeInv, StartWorker PROVE NodeInv'
  OBVIOUS
<1> DEFINE w == Turn
<1>1. /\ main = "starting" /\ w # "none" /\ next' = next + 1
      /\ worker' = IF Startable(w) THEN [worker EXCEPT ![w] = "running"] ELSE worker
      /\ UNCHANGED <<main, deployment, engine, request, download>>
  BY DEF StartWorker
<1>2. next <= Len(StartOrder) /\ next \in Nat /\ Len(StartOrder) = 9
  BY <1>1 DEF Turn, NodeInv, StartOrder
<1>3. next' \in 1..Len(StartOrder) + 1
  BY <1>1, <1>2
<1> HIDE DEF w
<1>4. CASE Startable(w)
  <2>1. worker' \in [WorkerNames -> {"off", "running", "ended"}] /\ Running' \subseteq Running \cup {w}
    BY <1>1, <1>4 DEF NodeInv, Running
  <2>2. Running' \cap OnDht # {} => engine = "up"
    BY <1>4, <2>1 DEF NodeInv, Startable
  <2> QED BY <1>1, <1>3, <2>1, <2>2 DEF NodeInv
<1>5. CASE ~Startable(w)
  BY <1>1, <1>3, <1>5 DEF NodeInv, Running
<1> QED BY <1>4, <1>5

LEMMA WorkersEnd ==
  ASSUME NodeInv, NEW w \in WorkerNames, WorkerStops(w) \/ WorkerDies(w)
  PROVE  NodeInv'
<1>1. /\ worker' = [worker EXCEPT ![w] = "ended"] /\ UNCHANGED <<main, deployment, next, engine>>
      /\ request' \in {"none", request} /\ download' \in BOOLEAN
  BY DEF WorkerStops, WorkerDies, NodeInv
<1>2. worker' \in [WorkerNames -> {"off", "running", "ended"}] /\ Running' \subseteq Running
  BY <1>1 DEF NodeInv, Running
<1>3. main' \in {"database", "exited"} => Running' = {}
  BY <1>1, <1>2 DEF NodeInv
<1> QED BY <1>1, <1>2, <1>3, FewerRun DEF NodeInv

LEMMA MainKeeps ==
  NodeInv /\ (InitDatabase \/ AllStarted \/ ShutDown \/ ExitNode \/ Signalled \/ StartPanics) => NodeInv'
<1> SUFFICES ASSUME NodeInv, InitDatabase \/ AllStarted \/ ShutDown \/ ExitNode \/ Signalled \/ StartPanics
             PROVE  NodeInv'
  OBVIOUS
<1>1. UNCHANGED <<deployment, next, engine, request, download>>
  BY DEF InitDatabase, AllStarted, ShutDown, ExitNode, Signalled, StartPanics
<1>2. CASE InitDatabase
  BY <1>1, <1>2 DEF InitDatabase, NodeInv, Running
<1>3. CASE AllStarted
  <2>1. (\A x \in WorkerNames : worker[x] = "off") => Running = {}
    BY DEF Running
  <2>2. Running' = Running /\ UNCHANGED worker
    BY <1>3 DEF AllStarted, Running
  <2>3. main' \in {"exited", "waiting"} /\ (main' = "exited" => Running = {})
    BY <1>3, <2>1 DEF AllStarted
  <2> QED BY <1>1, <2>2, <2>3, FewerRun DEF NodeInv
<1>4. CASE ShutDown
  BY <1>1, <1>4 DEF ShutDown, NodeInv, Running
<1>5. CASE ExitNode
  BY <1>1, <1>5 DEF ExitNode, Joined, NodeInv, Running
<1>6. CASE Signalled
  BY <1>1, <1>6 DEF Signalled, NodeInv, Running
<1>7. CASE StartPanics
  <2>1. worker' = [x \in WorkerNames |-> IF worker[x] = "off" THEN "off" ELSE "ended"] /\ main' = "exited"
    BY <1>7 DEF StartPanics, AllEnd
  <2>2. worker' \in [WorkerNames -> {"off", "running", "ended"}] /\ Running' = {}
    BY <2>1 DEF Running
  <2> QED BY <1>1, <2>1, <2>2 DEF NodeInv
<1> QED BY <1>2, <1>3, <1>4, <1>5, <1>6, <1>7

LEMMA NodeStepKeeps == NodeInv /\ [NodeNext]_nodeVars => NodeInv'
<1> SUFFICES ASSUME NodeInv, [NodeNext]_nodeVars PROVE NodeInv'
  OBVIOUS
<1>1. CASE StartEngine
  <2>1. engine = "none" /\ UNCHANGED <<main, deployment, next, worker, request, download>>
    BY <1>1 DEF StartEngine
  <2>2. Running \cap OnDht = {} /\ Running' = Running
    BY <2>1 DEF NodeInv, Running
  <2> QED BY <2>1, <2>2 DEF NodeInv
<1>2. CASE SetReady \/ WebAnswered \/ SyncConnects \/ SyncEnds \/ \E early \in BOOLEAN : WebRequest(early)
  <2>1. /\ UNCHANGED <<main, deployment, next, engine, worker>>
        /\ request' \in {"none", "splash", "served"} /\ download' \in BOOLEAN
    BY <1>2 DEF SetReady, WebAnswered, SyncConnects, SyncEnds, WebRequest, NodeInv
  <2> QED BY <2>1 DEF NodeInv, Running
<1>3. CASE UNCHANGED nodeVars
  BY <1>3 DEF nodeVars, NodeInv, Running
<1> QED BY <1>1, <1>2, <1>3, StartWorkerKeeps, WorkersEnd, MainKeeps DEF NodeNext, NodeStep

LEMMA NodeInvImplies == NodeInv => NodeTypeOK
BY DEF NodeInv, NodeTypeOK

---------------------------------------------------------------------------
(* The parts together *)

\* Every part keeps its types and what goes with them: no row without the one
\* it refers to, no connection cut while bytes move, no gap in the log, no
\* peer that is the node itself, no worker without its engine.
THEOREM PartsStayTyped == MCSpec => []PartsTypeOK
<1> DEFINE Inv == /\ LifeInv /\ RecordsInv /\ SocialInv /\ IdInv /\ IdleInv
                  /\ LogInv /\ XmppInv /\ NodeInv /\ EpochInv
           partVars == <<lifeVars, recordVars, socialVars, idVars, idleVars,
                         logVars, xmppVars, nodeVars, epochVars, part>>
<1>1. MCInit => Inv
  BY LifeInvInit, RecordsInvInit, SocialInvInit, IdInit, IdleInvInit, LogInvInit, XmppInvInit,
     NodeInvInit, EpochInitInv DEF MCInit
<1>2. Inv /\ [MCNext]_partVars => Inv'
  <2> SUFFICES ASSUME Inv, [MCNext]_partVars PROVE Inv'
    OBVIOUS
  <2>1. /\ [LifeNext]_lifeVars /\ [RecordsNext]_recordVars /\ [SocialNext]_socialVars
        /\ [IdentityNext]_idVars /\ [IdleNext]_idleVars /\ [LogNext]_logVars
        /\ [XmppNext]_xmppVars /\ [NodeNext]_nodeVars /\ [EpochNext]_epochVars
    BY DEF MCNext, Index, Records, Social, Identity, Connection, Logs, Xmpp, Node, Epochs
  <2> QED BY <2>1, LifeStep, RecordsStep, SocialStep, IdStep, IdleStep, LogStep, XmppStepKeeps,
             NodeStepKeeps, EpochStep
<1>3. Inv => PartsTypeOK
  BY LifeInvImplies, RecordsInvImplies, SocialInvImplies, IdImplies, IdleInvImplies, LogInvImplies,
     XmppInvImplies, NodeInvImplies, EpochImplies DEF PartsTypeOK
<1> HIDE DEF Inv
<1> QED BY <1>1, <1>2, <1>3, PTL DEF MCSpec
=============================================================================

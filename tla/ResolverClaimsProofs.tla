------------------------ MODULE ResolverClaimsProofs ------------------------
(***************************************************************************)
(* Proofs about the resolver's claims.  The inductive invariant says what  *)
(* a claim relies on: a row in flight is present, its lease has not run    *)
(* out, no files are stored for it yet, and no other job has its hash.     *)
(***************************************************************************)
EXTENDS ResolverClaims, FiniteSetTheorems, TLAPS

\* fair_lane_limits for a batch of twice the workers: half of the slots are
\* reserved for new discoveries, the lanes together never exceed the batch,
\* and with at least two workers uploads get at most a quarter of it and the
\* general lane is never empty.
THEOREM LanesFitTheBatch ==
  LET lane == LaneLimits(Limit)
  IN  /\ lane.bep51 = Workers
      /\ lane.general \in Nat
      /\ lane.bep51 + lane.upload + lane.general = Limit
      /\ Workers > 1 => 4 * lane.upload <= Limit /\ lane.general > 0
<1>1. /\ Limit \in Nat \ {0} /\ Limit \div 2 = Workers
      /\ Limit \div 4 \in Nat /\ 4 * (Limit \div 4) <= Limit
      /\ Workers > 1 => Limit \div 4 >= 1
      /\ Workers \in Nat \ {0}
  BY ResolverClaimsAssumption DEF Limit
<1>2. Greatest(Limit \div 2, 1) = Workers
  BY <1>1 DEF Greatest
<1> DEFINE u == Greatest(Limit \div 4, 1)
<1>3. /\ u \in Nat /\ u <= Workers
      /\ Workers > 1 => u = Limit \div 4
  <2>1. Limit = 2 * Workers
    BY DEF Limit
  <2> QED BY <1>1, <2>1 DEF Greatest
<1>4. Greatest(Limit - (Workers + u), 0) = Workers - u
  BY <1>1, <1>3 DEF Greatest, Limit
<1>5. LaneLimits(Limit) = [bep51 |-> Workers, upload |-> u, general |-> Workers - u]
  BY <1>1, <1>2, <1>4 DEF LaneLimits
<1>6. Workers > 1 => Workers - u > 0
  BY <1>1, <1>3 DEF Limit
<1> HIDE DEF u
<1> QED
  BY <1>1, <1>3, <1>5, <1>6 DEF Limit

\* Whatever lane a row comes from, it was due.
LEMMA BatchIsDue ==
  ASSUME NEW batch, IsBatch(batch)
  PROVE  batch \subseteq {h \in Hash : Due(h)}
<1>1. \A n, S, rank : \A T \in Heads(n, S, rank) : T \subseteq S
  BY DEF Heads
<1>2. /\ NewLane \subseteq {h \in Hash : Due(h)}
      /\ UploadLane \subseteq {h \in Hash : Due(h)}
      /\ GeneralLane \subseteq {h \in Hash : Due(h)}
  BY DEF NewLane, UploadLane, GeneralLane
<1> QED BY <1>1, <1>2 DEF IsBatch

\* A retry waits for some time.
LEMMA DelayIsNat ==
  ASSUME NEW attempt \in Nat
  PROVE  RetryDelay(attempt) \in Nat
<1> DEFINE n == Least(Greatest(attempt - 1, 0), 12)
<1>1. n \in 0..12
  BY DEF Least, Greatest
<1>2. 2 ^ n \in Nat
  BY <1>1, PowersOfTwo
<1> HIDE DEF n
<1>3. Least(FirstDelay * 2 ^ n, MaxDelay) \in Nat
  BY <1>2, ResolverClaimsAssumption DEF Least
<1> QED BY <1>3 DEF RetryDelay, n

---------------------------------------------------------------------------
(* The inductive invariant.                                                *)

\* The lease of a row with a job has not run out, so no claim takes it.
HeldLeases ==
  \A j \in jobs : Present(j.hash) /\ row[j.hash].wait > 0

\* A row that is, or may be, fetched has no files yet.
UnstoredFiles ==
  \A h \in Hash : Unresolved(h) \/ InFlight(h) => row[h].files = 0

Typed ==
  /\ row \in [Hash -> Row]
  /\ jobs \subseteq Job /\ IsFiniteSet(jobs)
  /\ up \subseteq Resolver
  /\ faults \in 0..MaxFaults

Running(p) == {j \in jobs : j.by = p /\ j.running}

Permits == \A p \in Resolver : Cardinality(Running(p)) <= Workers

Inv == Typed /\ Permits /\ HeldLeases /\ UnstoredFiles /\ ExclusiveClaim /\ FilesStoredOnce

USE DEF Present, Unresolved, InFlight

LEMMA InitInv == Init => Inv
<1> SUFFICES ASSUME Init PROVE Inv
  OBVIOUS
<1>r. /\ row \in [Hash -> Row] /\ jobs = {}
      /\ \A h \in Hash : row[h].files <= 1 /\ (Unresolved(h) => row[h].files = 0)
  <2> DEFINE rows == {NewRow("none")}
               \cup {Old(s, stored) : s \in {"bep51", "upload"}, stored \in {0, 1}}
  <2>0. \A s \in {"bep51", "upload"}, stored \in {0, 1} :
          Old(s, stored) \in Row /\ Old(s, stored).files <= 1 /\ Old(s, stored).resolved
    <3> SUFFICES ASSUME NEW s \in {"bep51", "upload"}, NEW stored \in {0, 1}
                 PROVE  /\ Old(s, stored) \in Row /\ Old(s, stored).files <= 1
                        /\ Old(s, stored).resolved
      OBVIOUS
    <3>1. NewRow(s) \in Row
      BY DEF NewRow, Row, Source
    <3>2. stored \in Nat /\ stored <= 1
      OBVIOUS
    <3>3. \A r \in Row : LET o == [r EXCEPT !.resolved = TRUE, !.files = stored]
                        IN  o \in Row /\ o.files = stored /\ o.resolved
      BY <3>2 DEF Row
    <3> HIDE DEF NewRow
    <3> QED BY <3>1, <3>2, <3>3 DEF Old
  <2>n. NewRow("none") \in Row /\ NewRow("none").files = 0 /\ NewRow("none").source = "none"
    BY DEF NewRow, Row
  <2>1. \A r \in rows :
          /\ r \in Row /\ r.files <= 1
          /\ r.source = "none" \/ r.resolved
    BY <2>0, <2>n
  <2>2. row \in [Hash -> rows] /\ jobs = {}
    BY DEF Init
  <2> HIDE DEF rows
  <2> QED BY <2>1, <2>2
<1>1. Typed
  BY <1>r, FS_EmptySet, ResolverClaimsAssumption DEF Init, Typed
<1>2. Permits
  <2> SUFFICES ASSUME NEW p \in Resolver PROVE Cardinality(Running(p)) <= Workers
    BY DEF Permits
  <2>1. Running(p) = {}
    BY DEF Init, Running
  <2> QED BY <2>1, FS_EmptySet, ResolverClaimsAssumption
<1>3. HeldLeases /\ UnstoredFiles /\ ExclusiveClaim /\ FilesStoredOnce
  BY <1>r DEF HeldLeases, UnstoredFiles, ExclusiveClaim, FilesStoredOnce
<1> QED BY <1>1, <1>2, <1>3 DEF Inv

\* The permits in use do not grow when jobs only go, or are added to wait.
LEMMA PermitsKept ==
  ASSUME Typed, Permits,
         \A j \in jobs' : j.running => j \in jobs
  PROVE  Permits'
<1> SUFFICES ASSUME NEW p \in Resolver PROVE Cardinality(Running(p)') <= Workers
  BY DEF Permits
<1>1. Running(p)' \subseteq Running(p)
  BY DEF Running
<1>2. IsFiniteSet(Running(p))
  BY FS_Subset DEF Typed, Running
<1>3. /\ Cardinality(Running(p)') <= Cardinality(Running(p))
      /\ Cardinality(Running(p)') \in Nat /\ Cardinality(Running(p)) \in Nat
  BY <1>1, <1>2, FS_Subset, FS_CardinalityType
<1> QED BY <1>3, ResolverClaimsAssumption DEF Permits

\* A step that leaves jobs alone keeps the invariant if rows in flight keep
\* what their jobs rely on.
LEMMA RowsKept ==
  ASSUME Inv, row' \in [Hash -> Row], jobs' = jobs,
         up' \subseteq Resolver, faults' \in 0..MaxFaults,
         \A h \in Hash :
           InFlight(h) => /\ row[h].source # "none" => row'[h].source # "none"
                          /\ row'[h].wait > 0
                          /\ row'[h].files = row[h].files,
         \A h \in Hash : (Unresolved(h)' => row'[h].files = 0) /\ row'[h].files <= 1
  PROVE  Inv'
<1>1. Typed'
  BY DEF Inv, Typed
<1>2. Permits'
  BY PermitsKept DEF Inv
<1>3. HeldLeases'
  BY DEF Inv, HeldLeases, Typed, Job
<1>4. UnstoredFiles'
  BY DEF Inv, UnstoredFiles
<1>5. ExclusiveClaim' /\ FilesStoredOnce'
  BY DEF Inv, ExclusiveClaim, FilesStoredOnce
<1> QED BY <1>1, <1>2, <1>3, <1>4, <1>5 DEF Inv

\* Rows just leased were due, hence in no job: no held row was due.
LEMMA LeasedRows ==
  ASSUME Inv, NEW batch, IsBatch(batch)
  PROVE  /\ batch \subseteq Hash
         /\ \A h \in batch : Unresolved(h) /\ ~InFlight(h)
         /\ Leased(batch) \in [Hash -> Row]
         /\ \A h \in Hash :
              /\ Leased(batch)[h].source = row[h].source
              /\ Leased(batch)[h].resolved = row[h].resolved
              /\ Leased(batch)[h].files = row[h].files
              /\ Leased(batch)[h].wait =
                   IF h \in batch THEN Lease ELSE row[h].wait
<1>1. batch \subseteq {h \in Hash : Due(h)}
  BY BatchIsDue
<1>2. \A h \in batch : Unresolved(h) /\ ~InFlight(h)
  BY <1>1 DEF Due, Inv, HeldLeases
<1>3. Leased(batch) \in [Hash -> Row]
  <2>1. \A r \in Row : [r EXCEPT !.attempts = @ + 1, !.wait = Lease] \in Row
    <3> SUFFICES ASSUME NEW r \in Row
                 PROVE  [r EXCEPT !.attempts = r.attempts + 1, !.wait = Lease] \in Row
      OBVIOUS
    <3>1. r.attempts + 1 \in Nat /\ Lease \in Nat
      BY ResolverClaimsAssumption DEF Row
    <3> QED BY <3>1 DEF Row
  <2> QED BY <2>1 DEF Leased, Inv, Typed
<1>4. \A h \in Hash : Leased(batch)[h] =
        IF h \in batch
          THEN [row[h] EXCEPT !.attempts = @ + 1, !.wait = Lease] ELSE row[h]
  BY DEF Leased
<1>5. row \in [Hash -> Row]
  BY DEF Inv, Typed
<1> QED BY <1>1, <1>2, <1>3, <1>4, <1>5 DEF Row

\* A job that ends takes nothing else with it, if its row keeps its place and
\* stores at most one list of files.
LEMMA JobEnds ==
  ASSUME Inv, NEW j \in jobs, row' \in [Hash -> Row], jobs' = jobs \ {j},
         up' = up, faults' \in 0..MaxFaults,
         \A h \in Hash \ {j.hash} : row'[h] = row[h],
         (Unresolved(j.hash)' => row'[j.hash].files = 0) /\ row'[j.hash].files <= 1
  PROVE  Inv'
<1>1. j.hash \in Hash
  BY DEF Inv, Typed, Job
<1>2. \A k \in jobs' : k \in jobs /\ k.hash \in Hash \ {j.hash}
  BY DEF Inv, ExclusiveClaim, Typed, Job
<1>3. Typed'
  <2>1. IsFiniteSet(jobs')
    BY FS_Subset DEF Inv, Typed
  <2> QED BY <2>1 DEF Inv, Typed
<1>4. Permits'
  BY <1>2, PermitsKept DEF Inv
<1>5. HeldLeases'
  BY <1>2 DEF Inv, HeldLeases
<1>6. UnstoredFiles'
  BY <1>1, <1>2 DEF Inv, UnstoredFiles
<1>7. ExclusiveClaim' /\ FilesStoredOnce'
  BY <1>1 DEF Inv, ExclusiveClaim, FilesStoredOnce
<1> QED BY <1>3, <1>4, <1>5, <1>6, <1>7 DEF Inv

LEMMA NextInv ==
  ASSUME Inv, [TimelyNext]_vars
  PROVE  Inv'
<1> USE DEF Inv
<1>t. /\ row \in [Hash -> Row] /\ jobs \subseteq Job /\ IsFiniteSet(jobs)
      /\ up \subseteq Resolver /\ faults \in 0..MaxFaults /\ MaxFaults \in Nat
  BY ResolverClaimsAssumption DEF Typed
<1>1. ASSUME NEW p \in Resolver, Claim(p) PROVE Inv'
  <2>1. PICK batch \in (SUBSET Hash) \ {{}} :
          /\ IsBatch(batch)
          /\ row' = Leased(batch)
          /\ jobs' = jobs \cup {[by |-> p, hash |-> h, running |-> FALSE,
                                 attempt |-> row[h].attempts + 1] : h \in batch}
    BY <1>1 DEF Claim, DueRows
  <2>2. /\ \A h \in batch : Unresolved(h) /\ ~InFlight(h)
        /\ row' \in [Hash -> Row]
        /\ \A h \in Hash : /\ row'[h].source = row[h].source
                           /\ row'[h].resolved = row[h].resolved
                           /\ row'[h].files = row[h].files
                           /\ row'[h].wait = IF h \in batch THEN Lease ELSE row[h].wait
    BY <2>1, LeasedRows
  <2>11. PICK new :
          /\ \A k \in new : k \in Job /\ k.hash \in batch /\ ~k.running
          /\ \A i, k \in new : i.hash = k.hash => i = k
          /\ IsFiniteSet(new)
          /\ jobs' = jobs \cup new
    <3> DEFINE J(h) == [by |-> p, hash |-> h, running |-> FALSE,
                        attempt |-> row[h].attempts + 1]
    <3> DEFINE claimed == {J(h) : h \in batch}
    <3>1. \A h \in batch : J(h) \in Job /\ J(h).hash = h /\ ~J(h).running
      <4>1. \A h \in batch : row[h].attempts + 1 \in Nat
        BY <1>t DEF Row
      <4> QED BY <4>1 DEF Job
    <3>2. jobs' = jobs \cup claimed
      BY <2>1
    <3>3. IsFiniteSet(claimed)
      <4> DEFINE f == [h \in batch |-> J(h)]
      <4>1. IsFiniteSet(batch)
        BY FS_Subset, ResolverClaimsAssumption
      <4>2. f \in Surjection(batch, claimed)
        BY DEF Surjection
      <4> QED BY <4>1, <4>2, FS_Surjection
    <3> HIDE DEF J
    <3>4. \A k \in claimed : k.hash \in batch /\ k = J(k.hash)
      BY <3>1
    <3>5. \A i, k \in claimed : i.hash = k.hash => i = k
      BY <3>4
    <3>6. \A k \in claimed : k \in Job /\ k.hash \in batch /\ ~k.running
      BY <3>1
    <3> HIDE DEF claimed
    <3> QED BY <3>2, <3>3, <3>5, <3>6
  <2>3. \A k \in jobs' : k \in jobs \/ (k.hash \in batch /\ ~k.running)
    BY <2>11
  <2>4. Typed'
    <3>1. jobs' \subseteq Job /\ IsFiniteSet(jobs')
      BY <1>t, <2>11, FS_Union
    <3> QED BY <1>1, <1>t, <2>2, <3>1 DEF Typed, Claim
  <2>5. Permits'
    BY <2>3, PermitsKept
  <2>6. HeldLeases'
    BY <1>t, <2>2, <2>3, ResolverClaimsAssumption DEF HeldLeases, Job
  <2>7. UnstoredFiles'
    BY <2>2, <2>3 DEF UnstoredFiles
  <2>8. ExclusiveClaim'
    BY <2>11, <2>2 DEF ExclusiveClaim
  <2>9. FilesStoredOnce'
    BY <2>2 DEF FilesStoredOnce
  <2> QED BY <2>4, <2>5, <2>6, <2>7, <2>8, <2>9
<1>2. ASSUME NEW p \in Resolver, ClaimLost(p) PROVE Inv'
  <2>1. PICK batch \in (SUBSET Hash) \ {{}} : IsBatch(batch) /\ row' = Leased(batch)
    BY <1>2 DEF ClaimLost, DueRows
  <2>2. /\ \A h \in batch : Unresolved(h) /\ ~InFlight(h)
        /\ row' \in [Hash -> Row]
        /\ \A h \in Hash : /\ row'[h].source = row[h].source
                           /\ row'[h].resolved = row[h].resolved
                           /\ row'[h].files = row[h].files
                           /\ row'[h].wait = IF h \in batch THEN Lease ELSE row[h].wait
    BY <2>1, LeasedRows
  <2>3. jobs' = jobs /\ up' = up /\ faults' \in 0..MaxFaults
    BY <1>2, <1>t DEF ClaimLost
  <2>4. \A h \in Hash : InFlight(h) => row'[h].wait > 0 /\ row'[h].files = row[h].files
    BY <2>2 DEF HeldLeases
  <2>5. \A h \in Hash : (Unresolved(h)' => row'[h].files = 0) /\ row'[h].files <= 1
    BY <2>2 DEF UnstoredFiles, FilesStoredOnce
  <2> QED BY <1>t, <2>2, <2>3, <2>4, <2>5, RowsKept
<1>3. ASSUME NEW p \in Resolver, Stop(p) PROVE Inv'
  <2>1. row' = row /\ jobs' \subseteq jobs /\ up' \subseteq up /\ faults' \in 0..MaxFaults
    BY <1>3, <1>t DEF Stop
  <2>2. Typed'
    BY <1>t, <2>1, FS_Subset DEF Typed
  <2>3. Permits'
    BY <2>1, PermitsKept
  <2> QED BY <2>1, <2>2, <2>3
          DEF HeldLeases, UnstoredFiles, ExclusiveClaim, FilesStoredOnce
<1>4. ASSUME NEW j \in jobs, Spawn(j) PROVE Inv'
  <2> DEFINE k == [j EXCEPT !.running = TRUE]
  <2>1. /\ jobs' = (jobs \ {j}) \cup {k}
        /\ row' = row /\ up' = up /\ faults' = faults /\ ~j.running
        /\ Cardinality(Running(j.by)) < Workers
    BY <1>4 DEF Spawn, Running
  <2>2. /\ k \in Job /\ k.hash = j.hash /\ k.by = j.by /\ k.running
    BY <1>t DEF Job
  <2> HIDE DEF k
  <2>3. Typed'
    <3>1. IsFiniteSet(jobs \ {j})
      BY <1>t, FS_Subset
    <3>2. IsFiniteSet((jobs \ {j}) \cup {k})
      BY <3>1, FS_AddElement
    <3> QED BY <1>t, <2>1, <2>2, <3>2 DEF Typed
  <2>4. Permits'
    <3> SUFFICES ASSUME NEW p \in Resolver PROVE Cardinality(Running(p)') <= Workers
      BY DEF Permits
    <3>1. IsFiniteSet(Running(p)) /\ Cardinality(Running(p)) \in Nat
      BY <1>t, FS_Subset, FS_CardinalityType DEF Running
    <3>2. CASE p # j.by
      <4>1. Running(p)' = Running(p)
        BY <2>1, <2>2, <3>2 DEF Running
      <4> QED BY <4>1 DEF Permits
    <3>3. CASE p = j.by
      <4>1. Running(p)' = Running(p) \cup {k}
        <5>1. \A l \in Running(p)' : l \in Running(p) \cup {k}
          BY <2>1 DEF Running
        <5>2. \A l \in Running(p) \cup {k} : l \in Running(p)'
          BY <2>1, <2>2, <3>3 DEF Running
        <5> QED BY <5>1, <5>2
      <4>2. Cardinality(Running(p) \cup {k}) <= Cardinality(Running(p)) + 1
        <5>1. \/ Cardinality(Running(p) \cup {k}) = Cardinality(Running(p))
              \/ Cardinality(Running(p) \cup {k}) = Cardinality(Running(p)) + 1
          BY <3>1, FS_AddElement, Zenon
        <5> QED BY <3>1, <5>1
      <4>3. Cardinality(Running(p) \cup {k}) \in Nat
        BY <3>1, FS_AddElement, FS_CardinalityType
      <4> QED BY <2>1, <3>1, <3>3, <4>1, <4>2, <4>3, ResolverClaimsAssumption
    <3> QED BY <3>2, <3>3
  <2>5. \A i \in jobs' : \E l \in jobs : i.hash = l.hash
    BY <2>1, <2>2
  <2>6. HeldLeases' /\ UnstoredFiles' /\ FilesStoredOnce'
    BY <2>1, <2>5 DEF HeldLeases, UnstoredFiles, FilesStoredOnce
  <2>7. ExclusiveClaim'
    BY <2>1, <2>2 DEF ExclusiveClaim
  <2> QED BY <2>3, <2>4, <2>6, <2>7
<1>5. ASSUME NEW j \in jobs, End(j) PROVE Inv'
  <2>1. /\ j.hash \in Hash /\ j.attempt \in Nat /\ row[j.hash] \in Row
        /\ row[j.hash].files = 0
    BY <1>t DEF Job, UnstoredFiles
  <2>2. CASE Succeed(j)
    <3>1. row' = [row EXCEPT ![j.hash].resolved = TRUE,
                             ![j.hash].priority = FALSE,
                             ![j.hash].classified = TRUE,
                             ![j.hash].files = @ + 1]
      BY <2>2 DEF Succeed
    <3>2. row' \in [Hash -> Row]
      BY <1>t, <2>1, <3>1 DEF Row
    <3>3. row'[j.hash].resolved /\ row'[j.hash].files = 1
      BY <1>t, <2>1, <3>1 DEF Row
    <3>4. \A h \in Hash \ {j.hash} : row'[h] = row[h]
      BY <1>t, <2>1, <3>1
    <3>5. jobs' = jobs \ {j} /\ up' = up /\ faults' \in 0..MaxFaults
      BY <1>t, <2>2 DEF Succeed
    <3> QED BY <3>2, <3>3, <3>4, <3>5, JobEnds
  <2>3. CASE Fail(j)
    <3>1. row' = Retried(j) /\ jobs' = jobs \ {j} /\ up' = up /\ faults' \in 0..MaxFaults
      BY <1>t, <2>3 DEF Fail
    <3>2. RetryDelay(j.attempt) \in Nat
      BY <2>1, DelayIsNat
    <3>3. /\ row' \in [Hash -> Row]
          /\ \A h \in Hash \ {j.hash} : row'[h] = row[h]
          /\ row'[j.hash].files = 0
      BY <1>t, <2>1, <3>1, <3>2 DEF Retried, Row
    <3> QED BY <3>1, <3>3, JobEnds
  <2>4. CASE FailUnrecorded(j)
    <3>1. row' = row /\ jobs' = jobs \ {j} /\ up' = up /\ faults' \in 0..MaxFaults
      BY <1>t, <2>4 DEF FailUnrecorded
    <3> QED BY <1>t, <2>1, <3>1, JobEnds
  <2> QED BY <1>5, <2>2, <2>3, <2>4 DEF End
<1>6. ASSUME NEW h \in Hash, NEW r \in Row, Insert(h, r),
             r.files = 0
      PROVE  Inv'
  <2>1. /\ row' = [row EXCEPT ![h] = r] /\ ~InFlight(h)
        /\ jobs' = jobs /\ up' = up /\ faults' = faults
    BY <1>6 DEF Insert, HeldLeases
  <2>2. row' \in [Hash -> Row] /\ row'[h] = r /\ \A g \in Hash \ {h} : row'[g] = row[g]
    BY <1>t, <2>1
  <2>3. \A g \in Hash : /\ InFlight(g) => row'[g] = row[g] /\ row[g].wait > 0
                        /\ (Unresolved(g)' => row'[g].files = 0) /\ row'[g].files <= 1
    BY <1>6, <2>1, <2>2 DEF HeldLeases, UnstoredFiles, FilesStoredOnce
  <2> QED BY <1>t, <2>1, <2>2, <2>3, RowsKept
<1>7. ASSUME NEW h \in Hash,
             \/ Discover(h) \/ UploadMagnet(h) \/ UploadTorrent(h) \/ Import(h)
      PROVE  Inv'
  <2>1. \A s \in Source :
          /\ NewRow(s) \in Row /\ NewRow(s).source = s
          /\ NewRow(s).files = 0
    BY DEF NewRow, Row, Source
  <2>2. CASE Discover(h)
    BY <1>6, <2>1, <2>2 DEF Discover, Source
  <2>3. CASE UploadMagnet(h)
    <3> DEFINE r == [NewRow("upload") EXCEPT !.priority = TRUE]
    <3>0. NewRow("upload") \in Row /\ NewRow("upload").files = 0
      BY <2>1 DEF Source
    <3>1. r \in Row /\ r.files = 0
      BY <3>0 DEF Row
    <3>2. Insert(h, r)
      BY <2>3 DEF UploadMagnet
    <3> HIDE DEF r
    <3> QED BY <1>6, <3>1, <3>2
  <2>4. CASE UploadTorrent(h)
    <3> DEFINE r == [NewRow("upload") EXCEPT !.resolved = TRUE]
    <3>0. NewRow("upload") \in Row /\ NewRow("upload").files = 0
      BY <2>1 DEF Source
    <3>1. r \in Row /\ r.files = 0
      BY <3>0 DEF Row
    <3>2. Insert(h, r)
      BY <2>4 DEF UploadTorrent
    <3> HIDE DEF r
    <3> QED BY <1>6, <3>1, <3>2
  <2>5. CASE Import(h)
    <3>1. PICK s \in Imported, named \in BOOLEAN :
            Insert(h, [NewRow(s) EXCEPT !.resolved = named])
      BY <2>5 DEF Import
    <3> DEFINE r == [NewRow(s) EXCEPT !.resolved = named]
    <3>2. NewRow(s) \in Row /\ NewRow(s).files = 0
      BY <2>1, ResolverClaimsAssumption DEF Source
    <3>3. r \in Row /\ r.files = 0
      BY <3>2 DEF Row
    <3>4. Insert(h, r)
      BY <3>1
    <3> HIDE DEF r
    <3> QED BY <1>6, <3>3, <3>4
  <2> QED BY <1>7, <2>2, <2>3, <2>4, <2>5
<1>13. ASSUME NEW h \in Hash, UploadContent(h) PROVE Inv'
  <2>1. /\ row' = [row EXCEPT ![h].classified = TRUE]
        /\ jobs' = jobs /\ up' = up /\ faults' = faults
    BY <1>13 DEF UploadContent
  <2>2. /\ row' \in [Hash -> Row]
        /\ \A g \in Hash : /\ row'[g].source = row[g].source
                           /\ row'[g].resolved = row[g].resolved
                           /\ row'[g].wait = row[g].wait
                           /\ row'[g].files = row[g].files
    BY <1>t, <2>1 DEF Row
  <2>3. \A g \in Hash :
          /\ InFlight(g) => row'[g].wait > 0
          /\ (Unresolved(g)' => row'[g].files = 0) /\ row'[g].files <= 1
    BY <2>2 DEF HeldLeases, UnstoredFiles, FilesStoredOnce
  <2> QED BY <1>t, <2>1, <2>2, <2>3, RowsKept
<1>8. ASSUME NEW h \in Hash, MergeResolve(h) PROVE Inv'
  <2>1. /\ row' = [row EXCEPT ![h].resolved = TRUE]
        /\ jobs' = jobs /\ up' = up /\ faults' = faults /\ row[h].files = 0
    BY <1>8 DEF MergeResolve, UnstoredFiles
  <2>2. /\ row' \in [Hash -> Row]
        /\ \A g \in Hash : /\ row'[g].source = row[g].source
                           /\ row'[g].wait = row[g].wait
                           /\ row'[g].files = row[g].files
                           /\ row[g].resolved => row'[g].resolved
    BY <1>t, <2>1 DEF Row
  <2>3. \A g \in Hash :
          /\ InFlight(g) => row'[g].wait > 0
          /\ (Unresolved(g)' => row'[g].files = 0) /\ row'[g].files <= 1
    BY <2>2 DEF HeldLeases, UnstoredFiles, FilesStoredOnce
  <2> QED BY <1>t, <2>1, <2>2, <2>3, RowsKept
<1>9. ASSUME TimelyTick PROVE Inv'
  <2>1. /\ row' = [h \in Hash |-> [row[h] EXCEPT !.wait = Greatest(@ - 1, 0)]]
        /\ jobs' = jobs /\ up' = up /\ faults' = faults
        /\ \A h \in Hash : InFlight(h) => row[h].wait > 1
    BY <1>9 DEF TimelyTick, Tick
  <2>2. \A n \in Nat : Greatest(n - 1, 0) \in Nat /\ (n > 1 => Greatest(n - 1, 0) > 0)
    BY DEF Greatest
  <2>3. /\ row' \in [Hash -> Row]
        /\ \A g \in Hash : /\ row'[g].source = row[g].source
                           /\ row'[g].resolved = row[g].resolved
                           /\ row'[g].files = row[g].files
                           /\ row[g].wait > 1 => row'[g].wait > 0
    BY <1>t, <2>1, <2>2 DEF Row
  <2>4. \A g \in Hash :
          /\ InFlight(g) => row'[g].wait > 0
          /\ (Unresolved(g)' => row'[g].files = 0) /\ row'[g].files <= 1
    BY <2>1, <2>3 DEF UnstoredFiles, FilesStoredOnce
  <2> QED BY <1>t, <2>1, <2>3, <2>4, RowsKept
<1>10. ASSUME NEW h \in Hash, TimelyDelete(h) PROVE Inv'
  <2>1. /\ row' = [row EXCEPT ![h] = NewRow("none")] /\ ~InFlight(h)
        /\ jobs' = jobs /\ up' = up /\ faults' \in 0..MaxFaults
    BY <1>10, <1>t DEF TimelyDelete, Delete
  <2>2. NewRow("none") \in Row /\ NewRow("none").files = 0
    BY DEF NewRow, Row
  <2>3. /\ row' \in [Hash -> Row] /\ row'[h] = NewRow("none")
        /\ \A g \in Hash \ {h} : row'[g] = row[g]
    BY <1>t, <2>1, <2>2
  <2>4. \A g \in Hash : /\ InFlight(g) => row'[g] = row[g] /\ row[g].wait > 0
                        /\ (Unresolved(g)' => row'[g].files = 0) /\ row'[g].files <= 1
    BY <2>1, <2>2, <2>3 DEF HeldLeases, UnstoredFiles, FilesStoredOnce
  <2> QED BY <1>t, <2>1, <2>3, <2>4, RowsKept
<1>11. ASSUME NEW p \in Resolver, TimelyStart(p) PROVE Inv'
  <2>1. /\ row' = Repaired /\ jobs' = jobs /\ up' \subseteq Resolver /\ faults' = faults
        /\ \A h \in Hash : Incomplete(h) => ~InFlight(h)
    BY <1>11, <1>t DEF TimelyStart, Start
  <2>2. row' \in [Hash -> Row]
    BY <1>t, <2>1 DEF Repaired, Row
  <2>3. \A g \in Hash : /\ ~Incomplete(g) => row'[g] = row[g]
                        /\ Incomplete(g) => row'[g].files = 0
    BY <1>t, <2>1 DEF Repaired, Row
  <2>4. \A g \in Hash : /\ InFlight(g) => row'[g] = row[g] /\ row[g].wait > 0
                        /\ (Unresolved(g)' => row'[g].files = 0) /\ row'[g].files <= 1
    BY <2>1, <2>3 DEF HeldLeases, UnstoredFiles, FilesStoredOnce
  <2> QED BY <1>t, <2>1, <2>2, <2>4, RowsKept
<1>12. ASSUME UNCHANGED vars PROVE Inv'
  BY <1>12 DEF vars, Typed, Permits, Running, HeldLeases, UnstoredFiles,
               ExclusiveClaim, FilesStoredOnce
<1> QED
  BY <1>1, <1>2, <1>3, <1>4, <1>5, <1>7, <1>8, <1>9, <1>10, <1>11, <1>12, <1>13
  DEF TimelyNext, Resolve, Write

LEMMA Invariance == TimelySpec => []Inv
BY InitInv, NextInv, PTL DEF TimelySpec

---------------------------------------------------------------------------
\* As long as jobs end within their lease and rows in flight are neither
\* deleted nor requeued, no two jobs fetch one hash, in one process or in
\* several: claims, crashes, lost answers, failed updates and concurrent
\* writers of the rows included.
THEOREM ClaimsAreExclusive == TimelySpec => []ExclusiveClaim
BY Invariance, PTL DEF Inv

\* Then resolvers never store the files of a torrent a second time.
THEOREM FilesAreStoredOnce == TimelySpec => []FilesStoredOnce
BY Invariance, PTL DEF Inv

\* Types, and the bound of the semaphore on every resolver's fetches.
THEOREM Types == TimelySpec => []TypeOK
<1>1. Inv => TypeOK
  BY DEF Inv, Typed, Permits, Running, TypeOK
<1> QED BY <1>1, Invariance, PTL

---------------------------------------------------------------------------
(* How a claim fills its slots.                                            *)

LEMMA UnionSize ==
  ASSUME NEW S, IsFiniteSet(S), NEW T, IsFiniteSet(T)
  PROVE  /\ IsFiniteSet(S \cup T)
         /\ Cardinality(S) \in Nat /\ Cardinality(T) \in Nat
         /\ Cardinality(S \cup T) \in Nat
         /\ Cardinality(S \cup T) <= Cardinality(S) + Cardinality(T)
         /\ S \cap T = {} => Cardinality(S \cup T) = Cardinality(S) + Cardinality(T)
<1>1. /\ IsFiniteSet(S \cup T) /\ IsFiniteSet(S \cap T)
      /\ Cardinality(S \cup T) = Cardinality(S) + Cardinality(T) - Cardinality(S \cap T)
  BY FS_Union, FS_Subset
<1>2. /\ Cardinality(S) \in Nat /\ Cardinality(T) \in Nat
      /\ Cardinality(S \cup T) \in Nat /\ Cardinality(S \cap T) \in Nat
  BY <1>1, FS_CardinalityType
<1>3. S \cap T = {} => Cardinality(S \cap T) = 0
  BY FS_EmptySet
<1> DEFINE s == Cardinality(S)  t == Cardinality(T)
           u == Cardinality(S \cup T)  i == Cardinality(S \cap T)
<1>4. /\ s \in Nat /\ t \in Nat /\ u \in Nat /\ i \in Nat
      /\ u = s + t - i /\ (S \cap T = {} => i = 0)
  BY <1>1, <1>2, <1>3
<1> HIDE DEF s, t, u, i
<1>5. u <= s + t /\ (S \cap T = {} => u = s + t)
  BY <1>4
<1> QED
  BY <1>1, <1>2, <1>5 DEF s, t, u, i

\* ORDER BY, LIMIT n: at most n rows, and all there are if it is fewer.
LEMMA HeadsFill ==
  ASSUME NEW S, IsFiniteSet(S), NEW n \in Nat, NEW rank, NEW T \in Heads(n, S, rank)
  PROVE  /\ T \subseteq S /\ IsFiniteSet(T)
         /\ Cardinality(T) \in Nat /\ Cardinality(T) <= n
         /\ Cardinality(T) = Least(n, Cardinality(S))
         /\ T = S \/ Cardinality(T) = n
<1>1. T \subseteq S /\ Cardinality(T) = Least(n, Cardinality(S))
  BY DEF Heads
<1>2. /\ IsFiniteSet(T) /\ Cardinality(S) \in Nat /\ Cardinality(T) \in Nat
      /\ Cardinality(S) = Cardinality(T) => S = T
  BY <1>1, FS_Subset, FS_CardinalityType
<1>3. \/ Cardinality(T) = n /\ n <= Cardinality(S)
      \/ Cardinality(T) = Cardinality(S) /\ Cardinality(S) <= n
  BY <1>1, <1>2 DEF Least
<1> QED
  BY <1>1, <1>2, <1>3

\* The overflow takes exactly what the lanes leave: either it fills the batch
\* or no row outside the upload lane is left over.
LEMMA BatchUsesSlots ==
  ASSUME NEW batch, IsBatch(batch)
  PROVE  /\ IsFiniteSet(batch)
         /\ Cardinality(batch) <= Limit
         /\ Cardinality(batch \cap NewLane) >= Least(Cardinality(NewLane), Workers)
         /\ Cardinality(batch) = Limit \/ GeneralLane \subseteq batch
         /\ UploadLane # {} => batch \cap UploadLane # {}
<1> DEFINE lane == LaneLimits(Limit)
           left(taken) == Greatest(Limit - Cardinality(taken), 0)
<1>1. /\ lane.bep51 = Workers /\ lane.general \in Nat
      /\ lane.upload \in Nat /\ lane.upload > 0
      /\ lane.bep51 + lane.upload + lane.general = Limit
      /\ Workers \in Nat \ {0} /\ Limit \in Nat
  <2>1. /\ Limit \in Nat \ {0} /\ Limit \div 4 \in Nat /\ Workers \in Nat \ {0}
    BY ResolverClaimsAssumption DEF Limit
  <2>2. lane.upload = Greatest(Limit \div 4, 1)
    BY <2>1 DEF LaneLimits
  <2>3. lane.upload \in Nat /\ lane.upload > 0
    BY <2>1, <2>2 DEF Greatest
  <2> QED
    BY <2>1, <2>3, LanesFitTheBatch
<1>2. /\ IsFiniteSet(NewLane) /\ IsFiniteSet(UploadLane) /\ IsFiniteSet(GeneralLane)
  <2>1. NewLane \subseteq Hash /\ UploadLane \subseteq Hash /\ GeneralLane \subseteq Hash
    BY DEF NewLane, UploadLane, GeneralLane
  <2> QED
    BY <2>1, FS_Subset, ResolverClaimsAssumption
<1> HIDE DEF lane
<1>3. PICK new \in Heads(lane.bep51, NewLane, ByAttempts),
           upload \in Heads(lane.upload, UploadLane, ByAttempts) :
        \E general \in Heads(lane.general, GeneralLane \ new, AnnounceFirst) :
        LET taken == new \cup upload \cup general
        IN  \E over \in Heads(left(taken), GeneralLane \ (new \cup general), ByAttempts) :
              batch = taken \cup over
  BY DEF IsBatch, lane
<1>4. PICK general \in Heads(lane.general, GeneralLane \ new, AnnounceFirst) :
        LET taken == new \cup upload \cup general
        IN  \E over \in Heads(left(taken), GeneralLane \ (new \cup general), ByAttempts) :
              batch = taken \cup over
  BY <1>3
<1> DEFINE taken == new \cup upload \cup general
           rest == GeneralLane \ (new \cup general)
<1>5. PICK over \in Heads(left(taken), rest, ByAttempts) : batch = taken \cup over
  BY <1>4
<1>6. /\ new \subseteq NewLane /\ IsFiniteSet(new)
      /\ Cardinality(new) \in Nat /\ Cardinality(new) <= Workers
      /\ Cardinality(new) = Least(Workers, Cardinality(NewLane))
  BY <1>1, <1>2, HeadsFill
<1>7. /\ upload \subseteq UploadLane /\ IsFiniteSet(upload)
      /\ Cardinality(upload) \in Nat /\ Cardinality(upload) <= lane.upload
      /\ upload = UploadLane \/ Cardinality(upload) = lane.upload
  BY <1>1, <1>2, HeadsFill
<1>8. /\ general \subseteq GeneralLane \ new /\ IsFiniteSet(general)
      /\ Cardinality(general) \in Nat /\ Cardinality(general) <= lane.general
  <2>1. IsFiniteSet(GeneralLane \ new)
    BY <1>2, FS_Subset
  <2> QED
    BY <1>1, <2>1, HeadsFill
<1>9. /\ IsFiniteSet(taken) /\ Cardinality(taken) \in Nat /\ Cardinality(taken) <= Limit
  <2>1. /\ IsFiniteSet(new \cup upload) /\ Cardinality(new \cup upload) \in Nat
        /\ Cardinality(new \cup upload) <= Cardinality(new) + Cardinality(upload)
    BY <1>6, <1>7, UnionSize
  <2>2. /\ IsFiniteSet(taken) /\ Cardinality(taken) \in Nat
        /\ Cardinality(taken) <= Cardinality(new \cup upload) + Cardinality(general)
    BY <1>8, <2>1, UnionSize
  <2> QED
    BY <1>1, <1>6, <1>7, <1>8, <2>1, <2>2
<1>10. left(taken) \in Nat /\ left(taken) = Limit - Cardinality(taken)
  BY <1>1, <1>9 DEF Greatest
<1>11. /\ over \subseteq rest /\ IsFiniteSet(over)
       /\ Cardinality(over) \in Nat /\ Cardinality(over) <= left(taken)
       /\ over = rest \/ Cardinality(over) = left(taken)
  <2>1. IsFiniteSet(rest)
    BY <1>2, FS_Subset
  <2> HIDE DEF rest, left
  <2> QED
    BY <1>10, <2>1, HeadsFill
<1>12. taken \cap over = {}
  BY <1>7, <1>11 DEF UploadLane, GeneralLane
<1>13. /\ IsFiniteSet(batch)
       /\ Cardinality(batch) = Cardinality(taken) + Cardinality(over)
  <2> HIDE DEF taken
  <2> QED
    BY <1>5, <1>9, <1>11, <1>12, UnionSize
<1>14. Cardinality(batch) <= Limit
  BY ONLY <1>1, <1>9, <1>10, <1>11, <1>13
<1>15. Cardinality(batch \cap NewLane) >= Least(Cardinality(NewLane), Workers)
  <2>1. new \subseteq batch \cap NewLane /\ IsFiniteSet(batch \cap NewLane)
    BY <1>2, <1>5, <1>6, FS_Subset
  <2>2. /\ Cardinality(new) <= Cardinality(batch \cap NewLane)
        /\ Cardinality(batch \cap NewLane) \in Nat /\ Cardinality(NewLane) \in Nat
    BY <1>2, <2>1, FS_Subset, FS_CardinalityType
  <2> QED
    BY <1>1, <1>6, <2>2 DEF Least
<1>16. Cardinality(batch) = Limit \/ GeneralLane \subseteq batch
  <2>1. CASE over = rest
    BY <1>5, <2>1
  <2>2. CASE Cardinality(over) = left(taken)
    BY ONLY <1>1, <1>9, <1>10, <1>13, <2>2
  <2> QED
    BY <1>11, <2>1, <2>2
<1>17. UploadLane # {} => batch \cap UploadLane # {}
  <2>1. UploadLane # {} => upload # {}
    BY <1>1, <1>7, FS_EmptySet
  <2> QED
    BY <1>5, <1>7, <2>1
<1> QED
  BY <1>13, <1>14, <1>15, <1>16, <1>17

\* A batch leaves a due row out only for rows that come before it, and uploads
\* take no more than their lane from the others.
LEMMA LeftOutIsCrowded ==
  ASSUME row \in [Hash -> Row], NEW batch, IsBatch(batch),
         NEW h \in DueRows \ batch, Claimable(h)
  PROVE  Crowded(h)
<1> DEFINE lane == LaneLimits(Limit)
           others == DueRows \ {h}
           uploads == {g \in others : /\ row[g].source = "upload" /\ row[g].priority
                                      /\ row[g].attempts <= row[h].attempts}
           general(S) == {g \in S : /\ row[g].source # "upload"
                                    /\ \/ row[g].source = "announce"
                                       \/ row[g].attempts <= row[h].attempts}
<1>1. /\ lane.bep51 \in Nat /\ lane.upload \in Nat /\ lane.upload > 0
      /\ lane.general \in Nat /\ Limit \in Nat
  <2>1. /\ Limit \in Nat \ {0} /\ Limit \div 4 \in Nat /\ Workers \in Nat \ {0}
    BY ResolverClaimsAssumption DEF Limit
  <2>2. lane.upload = Greatest(Limit \div 4, 1)
    BY <2>1 DEF LaneLimits
  <2>3. lane.upload \in Nat /\ lane.upload > 0
    BY <2>1, <2>2 DEF Greatest
  <2> QED
    BY <2>1, <2>3, LanesFitTheBatch
<1>2. /\ IsFiniteSet(UploadLane) /\ IsFiniteSet(GeneralLane) /\ IsFiniteSet(others)
  <2>1. UploadLane \subseteq Hash /\ GeneralLane \subseteq Hash /\ others \subseteq Hash
    BY DEF UploadLane, GeneralLane, DueRows
  <2> QED
    BY <2>1, FS_Subset, ResolverClaimsAssumption
<1>3. /\ h \in Hash /\ Due(h) /\ h \notin batch
      /\ \A g \in Hash : row[g].attempts \in Nat
  BY DEF DueRows, Row
<1>4. Crowded(h) =
        IF row[h].source = "upload"
          THEN Cardinality(uploads) >= lane.upload
          ELSE Cardinality(general(others)) >= Limit - lane.upload
  BY DEF Crowded
<1> HIDE DEF lane
<1>5. PICK new \in Heads(lane.bep51, NewLane, ByAttempts),
           upload \in Heads(lane.upload, UploadLane, ByAttempts) :
        \E first \in Heads(lane.general, GeneralLane \ new, AnnounceFirst) :
        LET taken == new \cup upload \cup first
        IN  \E over \in Heads(Greatest(Limit - Cardinality(taken), 0),
                             GeneralLane \ (new \cup first), ByAttempts) :
              batch = taken \cup over
  BY DEF IsBatch, lane
<1>6. PICK first \in Heads(lane.general, GeneralLane \ new, AnnounceFirst) :
        LET taken == new \cup upload \cup first
        IN  \E over \in Heads(Greatest(Limit - Cardinality(taken), 0),
                             GeneralLane \ (new \cup first), ByAttempts) :
              batch = taken \cup over
  BY <1>5
<1> DEFINE left == Greatest(Limit - Cardinality(new \cup upload \cup first), 0)
<1>7. PICK over \in Heads(left, GeneralLane \ (new \cup first), ByAttempts) :
        batch = new \cup upload \cup first \cup over
  BY <1>6
<1> HIDE DEF left
<1>8. /\ upload \subseteq UploadLane /\ IsFiniteSet(upload)
      /\ Cardinality(upload) \in Nat /\ Cardinality(upload) <= lane.upload
      /\ upload = UploadLane \/ Cardinality(upload) = lane.upload
  BY <1>1, <1>2, <1>5, HeadsFill
<1>9. CASE row[h].source = "upload"
  <2>1. h \in UploadLane \ upload
    BY <1>3, <1>7, <1>9 DEF UploadLane, Claimable
  <2>2. \A g \in upload : row[g].attempts <= row[h].attempts
    <3>1. \A g \in upload, s \in UploadLane \ upload : ByAttempts[g] <= ByAttempts[s]
      BY <1>5 DEF Heads
    <3> QED
      BY <1>3, <1>8, <2>1, <3>1 DEF ByAttempts, UploadLane
  <2>3. upload \subseteq uploads
    BY <1>8, <2>1, <2>2 DEF UploadLane, DueRows
  <2>4. /\ IsFiniteSet(uploads) /\ Cardinality(uploads) \in Nat
        /\ Cardinality(upload) <= Cardinality(uploads)
    BY <1>2, <2>3, FS_Subset, FS_CardinalityType
  <2>5. Cardinality(uploads) >= lane.upload
    BY <1>1, <1>8, <2>1, <2>4
  <2> QED
    BY <1>4, <1>9, <2>5
<1>10. CASE row[h].source # "upload"
  <2> DEFINE B == new \cup first \cup over
  <2>1. h \in GeneralLane /\ h \notin new /\ h \notin first /\ h \notin over
    BY <1>3, <1>7, <1>10 DEF GeneralLane
  <2>2. /\ IsFiniteSet(batch) /\ Cardinality(batch) = Limit
    BY <1>3, <2>1, BatchUsesSlots
  <2>3. B \subseteq general(others)
    <3>1. \A g \in new : g \in general(others)
      <4>1. new \subseteq NewLane
        BY <1>5 DEF Heads
      <4> QED
        BY <1>3, <2>1, <4>1 DEF NewLane, DueRows
    <3>2. \A g \in first : g \in general(others)
      <4>1. /\ first \subseteq GeneralLane
            /\ \A g \in first : AnnounceFirst[g] <= AnnounceFirst[h]
        BY <1>6, <2>1 DEF Heads
      <4>2. \A g \in first : row[g].source = "announce" \/ row[g].attempts <= row[h].attempts
        <5> SUFFICES ASSUME NEW g \in first, row[g].source # "announce"
                     PROVE  row[g].attempts <= row[h].attempts
          OBVIOUS
        <5>1. /\ g \in Hash /\ row[g].attempts \in Nat /\ row[h].attempts \in Nat
              /\ MaxAttempts \in Nat
          BY <1>3, <4>1, ResolverClaimsAssumption DEF GeneralLane
        <5>2. /\ AnnounceFirst[g] = row[g].attempts + MaxAttempts
              /\ \/ AnnounceFirst[h] = row[h].attempts + MaxAttempts
                 \/ AnnounceFirst[h] = row[h].attempts + 0
          BY <1>3, <5>1 DEF AnnounceFirst
        <5> QED
          BY <4>1, <5>1, <5>2
      <4> QED
        BY <1>3, <2>1, <4>1, <4>2 DEF GeneralLane, DueRows
    <3>3. \A g \in over : g \in general(others)
      <4>1. /\ over \subseteq GeneralLane
            /\ \A g \in over : ByAttempts[g] <= ByAttempts[h]
        BY <1>7, <2>1 DEF Heads
      <4>2. \A g \in over : row[g].attempts <= row[h].attempts
        BY <1>3, <4>1 DEF ByAttempts, GeneralLane
      <4> QED
        BY <1>3, <2>1, <4>1, <4>2 DEF GeneralLane, DueRows
    <3> HIDE DEF general
    <3> QED
      BY <3>1, <3>2, <3>3
  <2>4. batch = B \cup upload
    BY <1>7
  <2> HIDE DEF B
  <2>5. /\ Cardinality(B) \in Nat /\ Limit <= Cardinality(B) + Cardinality(upload)
    <3>1. IsFiniteSet(B)
      BY <2>2, <2>4, FS_Subset
    <3> QED
      BY <1>8, <2>2, <2>4, <3>1, UnionSize
  <2> DEFINE G == general(others)
  <2>6. Cardinality(B) <= Cardinality(G) /\ Cardinality(G) \in Nat
    <3>1. IsFiniteSet(G)
      BY <1>2, FS_Subset
    <3>2. B \subseteq G
      BY <2>3
    <3> HIDE DEF G
    <3> QED
      BY <3>1, <3>2, FS_Subset, FS_CardinalityType
  <2>7. Cardinality(G) >= Limit - lane.upload
    <3> HIDE DEF G
    <3> QED
      BY ONLY <1>1, <1>8, <2>5, <2>6
  <2> QED
    BY <1>4, <1>10, <2>7
<1> QED
  BY <1>9, <1>10

\* Only a claim counts attempts: every other writer leaves those of a row
\* alone or makes the row anew.
LEMMA OnlyClaimsCount ==
  ASSUME Inv, TimelyNext, NEW g \in Hash, row'[g].attempts > row[g].attempts
  PROVE  \E batch : IsBatch(batch) /\ row' = Leased(batch)
<1> USE DEF Inv
<1>t. /\ row \in [Hash -> Row] /\ jobs \subseteq Job
      /\ row[g].attempts \in Nat /\ row'[g].attempts \in Nat
  <2>1. row \in [Hash -> Row] /\ row' \in [Hash -> Row] /\ jobs \subseteq Job
    BY NextInv DEF Typed
  <2> QED
    BY <2>1 DEF Row
<1>n. \A s : NewRow(s).attempts = 0
  BY DEF NewRow
<1>1. CASE \E p \in Resolver : Claim(p) \/ ClaimLost(p)
  BY <1>1 DEF Claim, ClaimLost
<1>2. CASE \E p \in Resolver : Stop(p)
  BY <1>2, <1>t DEF Stop
<1>3. ASSUME NEW j \in jobs, Spawn(j) \/ End(j) PROVE row'[g].attempts = row[g].attempts
  <2>1. j.hash \in Hash
    BY <1>t DEF Job
  <2>2. CASE Spawn(j) \/ FailUnrecorded(j)
    BY <2>2 DEF Spawn, FailUnrecorded
  <2>3. CASE Succeed(j)
    BY <1>t, <2>1, <2>3 DEF Succeed, Row
  <2>4. CASE Fail(j)
    BY <1>t, <2>1, <2>4 DEF Fail, Retried, Row
  <2> QED
    BY <1>3, <2>2, <2>3, <2>4 DEF End
<1>4. ASSUME NEW h \in Hash, NEW r, r.attempts = 0, Insert(h, r)
      PROVE  row'[g].attempts <= row[g].attempts
  BY <1>t, <1>4 DEF Insert
<1>5. ASSUME NEW h \in Hash,
             Discover(h) \/ UploadMagnet(h) \/ UploadTorrent(h) \/ Import(h)
      PROVE  row'[g].attempts <= row[g].attempts
  <2>1. CASE Discover(h)
    BY <1>4, <1>n, <2>1 DEF Discover
  <2>2. CASE UploadMagnet(h)
    BY <1>4, <2>2 DEF UploadMagnet, NewRow
  <2>3. CASE UploadTorrent(h)
    BY <1>4, <2>3 DEF UploadTorrent, NewRow
  <2>4. CASE Import(h)
    BY <1>4, <2>4 DEF Import, NewRow
  <2> QED
    BY <1>5, <2>1, <2>2, <2>3, <2>4
<1>6. ASSUME NEW h \in Hash, MergeResolve(h) \/ UploadContent(h)
      PROVE  row'[g].attempts = row[g].attempts
  BY <1>t, <1>6 DEF MergeResolve, UploadContent, Row
<1>7. CASE TimelyTick
  BY <1>t, <1>7 DEF TimelyTick, Tick, Row
<1>8. ASSUME NEW h \in Hash, TimelyDelete(h) PROVE row'[g].attempts <= row[g].attempts
  BY <1>t, <1>8 DEF TimelyDelete, Delete, NewRow
<1>9. ASSUME NEW p \in Resolver, TimelyStart(p) PROVE row'[g].attempts = row[g].attempts
  BY <1>t, <1>9 DEF TimelyStart, Start, Repaired, Row
<1>10. ASSUME row'[g].attempts <= row[g].attempts PROVE FALSE
  BY <1>t, <1>10
<1> QED
  BY <1>1, <1>2, <1>3, <1>5, <1>6, <1>7, <1>8, <1>9, <1>10, <1>t
  DEF TimelyNext, Resolve, Write

\* A batch is full or leaves nothing due in the general lane, never crowds the
\* new discoveries out of their half, takes an upload if one is due, and leaves
\* a row out only for enough rows of its kind that come before it.
THEOREM SlotsAreUsed == TimelySpec => ClaimUsesItsSlots
<1> DEFINE batch == {h \in Hash : row'[h].attempts > row[h].attempts}
           Used == batch # {} =>
             /\ Cardinality(batch) <= Limit
             /\ Cardinality(batch \cap NewLane) >= Least(Cardinality(NewLane), Workers)
             /\ Cardinality(batch) = Limit \/ GeneralLane \subseteq batch
             /\ Cardinality(batch) = Limit \/ UploadLane \subseteq batch
                  \/ batch \cap UploadLane # {}
             /\ \A h \in DueRows \ batch : Claimable(h) => Crowded(h)
<1>1. Inv /\ [TimelyNext]_vars => [Used]_vars
  <2> SUFFICES ASSUME Inv, TimelyNext, batch # {} PROVE Used
    OBVIOUS
  <2>1. PICK B : IsBatch(B) /\ row' = Leased(B)
    BY OnlyClaimsCount
  <2>2. batch = B
    <3>1. B \subseteq Hash
      BY <2>1, BatchIsDue
    <3>2. \A h \in Hash : row[h] \in Row /\ row[h].attempts \in Nat
      BY DEF Inv, Typed, Row
    <3>3. \A h \in Hash : row'[h].attempts =
            IF h \in B THEN row[h].attempts + 1 ELSE row[h].attempts
      BY <2>1, <3>2 DEF Leased, Row
    <3> QED
      BY <3>1, <3>2, <3>3
  <2> HIDE DEF batch
  <2> QED
    BY <2>1, <2>2, BatchUsesSlots, LeftOutIsCrowded DEF Inv, Typed
<1> QED
  BY <1>1, Invariance, PTL DEF TimelySpec, ClaimUsesItsSlots
=============================================================================

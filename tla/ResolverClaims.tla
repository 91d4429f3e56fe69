--------------------------- MODULE ResolverClaims ---------------------------
(***************************************************************************)
(* The metadata resolver (indexarr-dht/src/resolver.rs) as a work queue    *)
(* over the table torrents.  A resolver claims a batch of unresolved rows  *)
(* in four lanes, leasing them by retry_after, hands each to a worker, and *)
(* a worker stores what it fetched or sets the time of the next attempt.   *)
(* Other writers insert, resolve, requeue and delete rows meanwhile, and   *)
(* several processes may share one database.                               *)
(*                                                                         *)
(* A claim is one SQL statement and one step.  A fetch is a running job;   *)
(* what it takes from peers is left out, it succeeds or fails.  Time is    *)
(* relative: "wait" counts the ticks until retry_after.                    *)
(*                                                                         *)
(* "files" counts the lists of files that resolvers stored, those of       *)
(* versions before 0.3 included.  What the web's routes store is the       *)
(* subject of TorrentLifecycle.  Each of those routes looks for the row    *)
(* first and then runs INSERT ... ON CONFLICT DO NOTHING, whose effect is  *)
(* that of the INSERT alone; what the route does afterwards, to whichever  *)
(* row is there by then, is an action of its own.                          *)
(*                                                                         *)
(* Rows of a lane with equal attempts are taken in any order (the code     *)
(* orders them by observations and age).  MaxAttempts and MaxFaults are    *)
(* bounds.                                                                 *)
(***************************************************************************)
EXTENDS Integers, FiniteSets

CONSTANTS Hash,        \* info hashes
          Resolver,    \* processes that share the database
          Workers,     \* resolve_workers of the configuration
          Imported,    \* sources that imported items name
          Lease,       \* the ticks of '10 minutes'
          FirstDelay,  \* the ticks of 30 seconds
          MaxDelay,    \* the ticks of a day
          MaxAttempts, \* bound: claims of a row
          MaxFaults    \* bound: stops and lost answers

ASSUME ResolverClaimsAssumption ==
  /\ IsFiniteSet(Hash)
  /\ Imported \subseteq {"bep51", "upload", "announce", "import"}
  /\ Workers \in Nat \ {0}
  /\ Lease \in Nat \ {0} /\ FirstDelay \in Nat \ {0} /\ MaxDelay \in Nat \ {0}
  /\ MaxAttempts \in Nat /\ MaxFaults \in Nat

\* What the doubling of the retry delay comes to; the exponent is clamped.
ASSUME PowersOfTwo == \A n \in 0..12 : 2 ^ n \in Nat \ {0}

VARIABLES
  row,     \* the table torrents, with what its rows own in other tables
  jobs,    \* ResolveJob: claimed and waiting for a permit, or being fetched
  up,      \* the resolvers that run
  faults

vars == <<row, jobs, up, faults>>

Source == {"bep51", "upload", "announce", "import"}

Row == [source : Source \cup {"none"}, priority : BOOLEAN,
        resolved : BOOLEAN, classified : BOOLEAN,
        attempts : Nat, wait : Nat, files : Nat]

\* A row as the schema's defaults make it; no row is one of source "none".
NewRow(s) == [source |-> s, priority |-> FALSE,
              resolved |-> FALSE, classified |-> FALSE,
              attempts |-> 0, wait |-> 0, files |-> 0]

Present(h) == row[h].source # "none"
Unresolved(h) == Present(h) /\ ~row[h].resolved
InFlight(h) == \E j \in jobs : j.hash = h

Least(a, b) == IF a < b THEN a ELSE b
Greatest(a, b) == IF a < b THEN b ELSE a

---------------------------------------------------------------------------
(* Lanes *)

Limit == 2 * Workers

\* fair_lane_limits.  A lane has at least one slot, general what is left.
LaneLimits(limit) ==
  IF limit = 0
    THEN [bep51 |-> 0, upload |-> 0, general |-> 0]
    ELSE LET bep51 == Greatest(limit \div 2, 1)
             upload == Greatest(limit \div 4, 1)
         IN  [bep51 |-> bep51, upload |-> upload,
              general |-> Greatest(limit - (bep51 + upload), 0)]

\* retry_delay_secs: exponential, with a cap.
RetryDelay(attempt) ==
  Least(FirstDelay * 2 ^ Least(Greatest(attempt - 1, 0), 12), MaxDelay)

Due(h) ==
  Unresolved(h) /\ row[h].wait = 0 /\ row[h].attempts < MaxAttempts

DueRows == {h \in Hash : Due(h)}
NewLane == {h \in Hash : Due(h) /\ row[h].source = "bep51" /\ row[h].attempts = 0}
UploadLane == {h \in Hash : Due(h) /\ row[h].source = "upload" /\ row[h].priority}
\* Mutant: the general lane is only for retries.
GeneralLaneRetries ==
  {h \in Hash : Due(h) /\ row[h].source # "upload" /\ row[h].attempts > 0}
GeneralLane == {h \in Hash : Due(h) /\ row[h].source # "upload"}

\* The choices of n rows of S, those of lowest rank first: ORDER BY, LIMIT.
Heads(n, S, rank) ==
  {T \in SUBSET S : /\ Cardinality(T) = Least(n, Cardinality(S))
                    /\ \A t \in T, s \in S \ T : rank[t] <= rank[s]}

ByAttempts == [h \in Hash |-> row[h].attempts]
AnnounceFirst ==
  [h \in Hash |-> row[h].attempts
                    + IF row[h].source = "announce" THEN 0 ELSE MaxAttempts]

\* Mutant: unused capacity of a lane is not used.
IsBatchOfLanes(batch) ==
  LET lane == LaneLimits(Limit)
  IN  \E new \in Heads(lane.bep51, NewLane, ByAttempts),
         upload \in Heads(lane.upload, UploadLane, ByAttempts) :
      \E general \in Heads(lane.general, GeneralLane \ new, AnnounceFirst) :
        batch = new \cup upload \cup general

\* What one claim may take: three lanes, and what overflows into the capacity
\* they leave.
IsBatch(batch) ==
  LET lane == LaneLimits(Limit)
  IN  \E new \in Heads(lane.bep51, NewLane, ByAttempts),
         upload \in Heads(lane.upload, UploadLane, ByAttempts) :
      \E general \in Heads(lane.general, GeneralLane \ new, AnnounceFirst) :
      LET taken == new \cup upload \cup general
      IN  \E over \in Heads(Greatest(Limit - Cardinality(taken), 0),
                            GeneralLane \ (new \cup general), ByAttempts) :
            batch = taken \cup over

---------------------------------------------------------------------------
(* The resolver *)

\* A resolver that runs claims when every job of its last batch has a permit.
Idle(p) == p \in up /\ \A j \in jobs : j.by = p => j.running

\* Mutant: a claim sets no lease, as before 0.3.
LeasedAttemptOnly(batch) ==
  [h \in Hash |-> IF h \in batch
                    THEN [row[h] EXCEPT !.attempts = @ + 1]
                    ELSE row[h]]

Leased(batch) ==
  [h \in Hash |-> IF h \in batch
                    THEN [row[h] EXCEPT !.attempts = @ + 1, !.wait = Lease]
                    ELSE row[h]]

Claim(p) ==
  /\ Idle(p)
  /\ \E batch \in (SUBSET DueRows) \ {{}} :
       /\ IsBatch(batch)
       /\ row' = Leased(batch)
       /\ jobs' = jobs \cup {[by |-> p, hash |-> h, running |-> FALSE,
                              attempt |-> row[h].attempts + 1] : h \in batch}
  /\ UNCHANGED <<up, faults>>

\* The claim was committed but its answer was lost: unwrap_or_default.
ClaimLost(p) ==
  /\ Idle(p) /\ faults < MaxFaults
  /\ \E batch \in (SUBSET DueRows) \ {{}} : IsBatch(batch) /\ row' = Leased(batch)
  /\ faults' = faults + 1
  /\ UNCHANGED <<jobs, up>>

\* Mutant: a job needs no permit.
SpawnUnlimited(j) ==
  /\ j \in jobs /\ ~j.running
  /\ jobs' = (jobs \ {j}) \cup {[j EXCEPT !.running = TRUE]}
  /\ UNCHANGED <<row, up, faults>>

Spawn(j) ==
  /\ j \in jobs /\ ~j.running
  /\ Cardinality({k \in jobs : k.by = j.by /\ k.running}) < Workers
  /\ jobs' = (jobs \ {j}) \cup {[j EXCEPT !.running = TRUE]}
  /\ UNCHANGED <<row, up, faults>>

\* process_resolved in one transaction; files and content refer to the row,
\* so nothing is stored if it was deleted.
Succeed(j) ==
  /\ j \in jobs /\ j.running
  /\ Present(j.hash)
  /\ row' = [row EXCEPT ![j.hash].resolved = TRUE,
                        ![j.hash].priority = FALSE,
                        ![j.hash].classified = TRUE,
                        ![j.hash].files = @ + 1]
  /\ jobs' = jobs \ {j}
  /\ UNCHANGED <<up, faults>>

\* Nothing fetched or nothing stored: schedule_retry, then the job ends.
Retried(j) ==
  IF Unresolved(j.hash)
    THEN [row EXCEPT ![j.hash].wait = RetryDelay(j.attempt)]
    ELSE row

Fail(j) ==
  /\ j \in jobs /\ j.running
  /\ row' = Retried(j)
  /\ jobs' = jobs \ {j}
  /\ UNCHANGED <<up, faults>>

\* schedule_retry ignores its error: the lease stays.
FailUnrecorded(j) ==
  /\ j \in jobs /\ j.running /\ faults < MaxFaults
  /\ jobs' = jobs \ {j}
  /\ faults' = faults + 1
  /\ UNCHANGED <<row, up>>

\* A process ends, in order or not: its jobs end with it, the leases stay.
Stop(p) ==
  /\ p \in up /\ faults < MaxFaults
  /\ up' = up \ {p}
  /\ jobs' = {j \in jobs : j.by # p}
  /\ faults' = faults + 1
  /\ UNCHANGED row

\* run_migrations requeues the rows resolved here without classification.
Incomplete(h) ==
  row[h].source \in {"bep51", "upload"} /\ row[h].resolved /\ ~row[h].classified

\* Mutant: the requeued rows keep their files.
RepairedKeepFiles ==
  [h \in Hash |-> IF Incomplete(h)
                    THEN [row[h] EXCEPT !.resolved = FALSE, !.wait = 0,
                                        !.priority = TRUE]
                    ELSE row[h]]

Repaired ==
  [h \in Hash |-> IF Incomplete(h)
                    THEN [row[h] EXCEPT !.resolved = FALSE, !.wait = 0,
                                        !.priority = TRUE, !.files = 0]
                    ELSE row[h]]

Start(p) ==
  /\ p \notin up
  /\ row' = Repaired
  /\ up' = up \cup {p}
  /\ UNCHANGED <<jobs, faults>>

---------------------------------------------------------------------------
(* Other writers of the table *)

Insert(h, r) ==
  /\ ~Present(h)
  /\ row' = [row EXCEPT ![h] = r]
  /\ UNCHANGED <<jobs, up, faults>>

\* upsert_hash, of the sampler; a second sighting only counts observations.
Discover(h) == Insert(h, NewRow("bep51"))

UploadMagnet(h) == Insert(h, [NewRow("upload") EXCEPT !.priority = TRUE])

\* The row of a .torrent file.
UploadTorrent(h) == Insert(h, [NewRow("upload") EXCEPT !.resolved = TRUE])

\* The content of a .torrent file.  Its request may have found no row long ago,
\* and another writer's row in place of its own now.  Errors are ignored.
UploadContent(h) ==
  /\ Present(h)
  /\ row' = [row EXCEPT ![h].classified = TRUE]
  /\ UNCHANGED <<jobs, up, faults>>

\* An item is resolved if it has a name.
Import(h) ==
  \E s \in Imported, named \in BOOLEAN :
    Insert(h, [NewRow(s) EXCEPT !.resolved = named])

\* update_unresolved of a merge: no files, no content.
MergeResolve(h) ==
  /\ Unresolved(h)
  /\ row' = [row EXCEPT ![h].resolved = TRUE]
  /\ UNCHANGED <<jobs, up, faults>>

Delete(h) ==
  /\ Present(h)
  /\ row' = [row EXCEPT ![h] = NewRow("none")]
  /\ UNCHANGED <<jobs, up, faults>>

Tick ==
  /\ \E h \in Hash : row[h].wait > 0
  /\ row' = [h \in Hash |-> [row[h] EXCEPT !.wait = Greatest(@ - 1, 0)]]
  /\ UNCHANGED <<jobs, up, faults>>

---------------------------------------------------------------------------
\* A resolver before 0.3 could mark a row as resolved before all that belongs
\* to it was stored.
Old(s, stored) == [NewRow(s) EXCEPT !.resolved = TRUE, !.files = stored]

Init ==
  /\ row \in [Hash -> {NewRow("none")}
                       \cup {Old(s, stored) : s \in {"bep51", "upload"}, stored \in {0, 1}}]
  /\ jobs = {}
  /\ up = {}
  /\ faults = 0

End(j) == Succeed(j) \/ Fail(j) \/ FailUnrecorded(j)

Resolve ==
  \/ \E p \in Resolver : Claim(p) \/ ClaimLost(p) \/ Stop(p)
  \/ \E j \in jobs : Spawn(j) \/ End(j)

Write ==
  \E h \in Hash :
    \/ Discover(h) \/ UploadMagnet(h) \/ Import(h)
    \/ UploadTorrent(h) \/ UploadContent(h)
    \/ MergeResolve(h)

\* What the lease relies on: a job ends before the lease of its row does, and
\* a row in flight is neither deleted nor requeued by a process that starts.
TimelyTick == (\A j \in jobs : row[j.hash].wait > 1) /\ Tick
TimelyDelete(h) == ~InFlight(h) /\ Delete(h)
TimelyStart(p) == (\A h \in Hash : Incomplete(h) => ~InFlight(h)) /\ Start(p)

TimelyNext ==
  \/ Resolve \/ Write \/ TimelyTick
  \/ \E h \in Hash : TimelyDelete(h)
  \/ \E p \in Resolver : TimelyStart(p)

TimelySpec == Init /\ [][TimelyNext]_vars

\* A job may outlive the lease of its row: with many candidate peers that let
\* each of their timeouts pass, a fetch takes longer than ten minutes.
SlowNext ==
  \/ Resolve \/ Write \/ Tick
  \/ \E h \in Hash : TimelyDelete(h)
  \/ \E p \in Resolver : TimelyStart(p)

SlowSpec == Init /\ [][SlowNext]_vars

\* The resolvers that run keep polling, semaphore permits are given in order,
\* a fetch ends by its timeouts, and time passes.
Fairness ==
  /\ WF_vars(\E p \in Resolver : Claim(p))
  /\ \A h \in Hash : WF_vars(\E j \in jobs : j.hash = h /\ (Spawn(j) \/ End(j)))
  /\ WF_vars(TimelyTick)

FairTimelySpec == TimelySpec /\ Fairness

---------------------------------------------------------------------------
(* Properties *)

Job == [by : Resolver, hash : Hash, running : BOOLEAN, attempt : Nat]

\* Rows, jobs and running resolvers have their types, and no resolver runs
\* more fetches than it has workers (the semaphore of run).
TypeOK ==
  /\ row \in [Hash -> Row]
  /\ jobs \subseteq Job
  /\ up \subseteq Resolver
  /\ faults \in 0..MaxFaults
  /\ \A p \in Resolver :
       Cardinality({j \in jobs : j.by = p /\ j.running}) <= Workers

\* No two jobs, of one resolver loop or of two processes, are about one hash:
\* what the lease of claim_unresolved_batch is for.
ExclusiveClaim ==
  \A i, j \in jobs : i.hash = j.hash => i = j

\* Resolvers store the files of a torrent at most once, although torrent_files
\* has no key that would refuse a second copy: claims, merges, uploads and the
\* repair of rows that an old version left incomplete together see to it.
FilesStoredOnce ==
  \A h \in Hash : row[h].files <= 1

\* A row some lane takes (an upload only with priority).
Claimable(h) ==
  /\ Unresolved(h) /\ row[h].attempts < MaxAttempts
  /\ row[h].source = "upload" => row[h].priority

\* The order of the lanes puts at least as many due rows before h as a claim
\* can take: of uploads those of their lane, of others all that uploads leave.
Crowded(h) ==
  LET lane == LaneLimits(Limit)
      others == DueRows \ {h}
  IN  IF row[h].source = "upload"
        THEN Cardinality({g \in others : /\ row[g].source = "upload" /\ row[g].priority
                                         /\ row[g].attempts <= row[h].attempts})
               >= lane.upload
        ELSE Cardinality({g \in others : /\ row[g].source # "upload"
                                         /\ \/ row[g].source = "announce"
                                            \/ row[g].attempts <= row[h].attempts})
               >= Limit - lane.upload

\* A claim takes no more than its limit, at least the new discoveries half of
\* it is reserved for, and leaves no slot empty for which there is due work
\* other than uploads.  It leaves a due row out only for enough rows of its
\* kind that come before it: no backlog of uploads crowds out anything else.
ClaimUsesItsSlots ==
  [][LET batch == {h \in Hash : row'[h].attempts > row[h].attempts}
         full == Cardinality(batch) = Limit
     IN  batch # {} =>
             /\ Cardinality(batch) <= Limit
             /\ Cardinality(batch \cap NewLane)
                  >= Least(Cardinality(NewLane), Workers)
             /\ full \/ GeneralLane \subseteq batch
             /\ full \/ UploadLane \subseteq batch
                     \/ batch \cap UploadLane # {}
             /\ \A h \in DueRows \ batch : Claimable(h) => Crowded(h)]_vars

\* No row is lost between the lanes, by a crash, by a lost answer or by an
\* error of schedule_retry: while a resolver runs, a claimable row does not wait
\* for ever, unless again and again enough other rows come before it.  (An
\* endless supply of new discoveries does that to a row that has been tried:
\* the general lane and the overflow prefer those with the fewest attempts.)
WaitingIsClaimed ==
  \A h \in Hash :
    []<>(InFlight(h) \/ ~Claimable(h) \/ up = {} \/ Crowded(h))
=============================================================================

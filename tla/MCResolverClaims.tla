-------------------------- MODULE MCResolverClaims --------------------------
(* The resolvers on small sets.  A behaviour is either one of two rows     *)
(* that all writers write and two resolvers fetch, or one of three rows,   *)
(* more than a claim of two takes, that one resolver fetches while they    *)
(* are discovered, uploaded as magnets and deleted again without end.      *)
EXTENDS ResolverClaims

CONSTANTS h3, r1

VARIABLE crowd

MCInit ==
  /\ Init
  /\ crowd \in BOOLEAN
  /\ row[h3] = NewRow("none")
  /\ crowd => row = [h \in Hash |-> NewRow("none")]

Pair == TimelyNext /\ row'[h3] = row[h3]

Crowd ==
  /\ \/ Resolve \/ TimelyTick \/ TimelyStart(r1)
     \/ \E h \in Hash : Discover(h) \/ UploadMagnet(h) \/ TimelyDelete(h)
  /\ faults' = 0

MCNext == (IF crowd THEN Crowd ELSE Pair) /\ UNCHANGED crowd

\* The specification of two rows in which a fetch may outlast its lease.
MCSlowSpec ==
  /\ MCInit /\ ~crowd
  /\ [][SlowNext /\ row'[h3] = row[h3] /\ UNCHANGED crowd]_<<vars, crowd>>

MCSpec == MCInit /\ [][MCNext]_<<vars, crowd>> /\ Fairness
=============================================================================

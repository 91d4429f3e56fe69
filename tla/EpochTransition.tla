--------------------------- MODULE EpochTransition ---------------------------
(***************************************************************************)
(* The epoch of the swarm (indexarr-sync/src/epoch.rs): a declaration      *)
(* signed by the maintainer is saved, then the data of the older epoch is  *)
(* purged, statement by statement with every error ignored, then the state *)
(* is saved; meanwhile records of other nodes are merged and hashes found. *)
(* No caller of apply_epoch_declaration is in the program; the checks of   *)
(* merge_record read what it saves.                                        *)
(*                                                                         *)
(* A row is [source, epoch].  Declarations with a bad signature are        *)
(* refused before anything changes and are left out, as are seed hours.    *)
(* MaxEpoch bounds the epochs, EpochFaults what goes wrong.                *)
(***************************************************************************)
EXTENDS Naturals, Sequences

CONSTANTS MaxEpoch, EpochFaults

ASSUME EpochTransitionAssumption == MaxEpoch \in Nat \ {0} /\ EpochFaults \in Nat

VARIABLES
  declared,    \* the declaration's epoch; 0 if there is none or it is torn
  reached,     \* last_seen_epoch of the state
  indexed,     \* rows of the index
  rewound,     \* watermarks are 0 and the old delta files gone
  statements,  \* of the transition under way
  merging,     \* the epoch of a record whose checks passed, or 0
  faulty,      \* history: a fault, or a merge that a declaration overtook
  epochFaults

epochVars == <<declared, reached, indexed, rewound, statements, merging, faulty, epochFaults>>

EpochFault == epochFaults < EpochFaults /\ epochFaults' = epochFaults + 1 /\ faulty' = TRUE

\* get_current_epoch.
CurrentEpoch == IF declared = 0 THEN 1 ELSE declared

\* Of a seed of the new epoch, and of anybody else.
SeedPlan == <<"purge_synced", "renumber", "rewind", "clean", "save_state">>
OtherPlan == <<"purge_all", "rewind", "clean", "save_state">>
AdoptPlan == <<"save_state">>

Newer(e) == e > CurrentEpoch

\* apply_epoch_declaration up to the saved declaration.
Declare(e) ==
  /\ statements = <<>> /\ Newer(e)
  /\ declared' = e
  /\ \E p \in {SeedPlan, OtherPlan, AdoptPlan} :
       /\ statements' = p
       /\ faulty' = (faulty \/ merging # 0 \/ p = AdoptPlan)
  /\ rewound' = FALSE
  /\ UNCHANGED <<reached, indexed, merging, epochFaults>>

\* Saving it fails: nothing else is done, and the file may be torn.
DeclareFailed(e) ==
  /\ statements = <<>> /\ Newer(e) /\ EpochFault
  /\ declared' \in {declared, 0}
  /\ UNCHANGED <<reached, indexed, rewound, statements, merging>>

\* Mutant of Purged: a seed keeps what it synced and purges the rest.
PurgedOwn(s) ==
  CASE s = "purge_all" -> {}
    [] s = "purge_synced" -> {r \in indexed : r.source = "sync"}
    [] s = "renumber" -> {[r EXCEPT !.epoch = IF r.source = "sync" THEN @ ELSE declared] : r \in indexed}
    [] OTHER -> indexed

\* The rows after a statement.
Purged(s) ==
  CASE s = "purge_all" -> {}
    [] s = "purge_synced" -> {r \in indexed : r.source # "sync"}
    [] s = "renumber" -> {[r EXCEPT !.epoch = IF r.source = "sync" THEN @ ELSE declared] : r \in indexed}
    [] OTHER -> indexed

Transition ==
  /\ statements # <<>>
  /\ indexed' = Purged(Head(statements))
  /\ rewound' = (rewound \/ Head(statements) = "clean")
  /\ reached' = IF Head(statements) = "save_state" THEN declared ELSE reached
  /\ statements' = Tail(statements)
  /\ UNCHANGED <<declared, merging, faulty, epochFaults>>

\* The errors of the statements are ignored.
StatementIgnored ==
  /\ statements # <<>> /\ EpochFault
  /\ statements' = Tail(statements)
  /\ UNCHANGED <<declared, reached, indexed, rewound, merging>>

CrashTransition ==
  /\ statements # <<>> /\ EpochFault
  /\ statements' = <<>> /\ merging' = 0
  /\ UNCHANGED <<declared, reached, indexed, rewound>>

\* merge_record: the record's epoch must be the current one; then, in
\* separate statements, its row is written.
AcceptRecord ==
  /\ merging = 0
  /\ merging' = CurrentEpoch
  /\ UNCHANGED <<declared, reached, indexed, rewound, statements, faulty, epochFaults>>

StoreRecord ==
  /\ merging # 0
  /\ indexed' = indexed \cup {[source |-> "sync", epoch |-> merging]}
  /\ merging' = 0
  /\ UNCHANGED <<declared, reached, rewound, statements, faulty, epochFaults>>

\* A hash is found: the epoch has the column's default.
IndexFound ==
  /\ indexed' = indexed \cup {[source |-> "bep51", epoch |-> 1]}
  /\ UNCHANGED <<declared, reached, rewound, statements, merging, faulty, epochFaults>>

EpochInit ==
  /\ declared = 0 /\ reached = 0 /\ indexed = {} /\ rewound = FALSE /\ statements = <<>>
  /\ merging = 0 /\ faulty = FALSE /\ epochFaults = 0

EpochNext ==
  \/ \E e \in 1..MaxEpoch : Declare(e) \/ DeclareFailed(e)
  \/ Transition \/ StatementIgnored \/ CrashTransition
  \/ AcceptRecord \/ StoreRecord \/ IndexFound

EpochSpec == EpochInit /\ [][EpochNext]_epochVars

---------------------------------------------------------------------------
(* Properties *)

\* Types; and the state never names an epoch that no declaration reached,
\* unless something went wrong.
EpochTypeOK ==
  /\ {declared, reached, merging} \subseteq 0..MaxEpoch /\ faulty \in BOOLEAN
  /\ indexed \subseteq [source : {"sync", "bep51"}, epoch : 1..MaxEpoch]
  /\ faulty \/ reached <= declared
  /\ epochFaults \in 0..EpochFaults

\* Once the transition is recorded as done, no row synced in an older epoch
\* is left, although merges went on all the while - unless a statement
\* failed, the process ended in between, or a merge had passed its checks
\* before the declaration was saved.
OldRowsGo ==
  reached = declared /\ ~faulty =>
    \A r \in indexed : r.source = "sync" => r.epoch = CurrentEpoch
=============================================================================

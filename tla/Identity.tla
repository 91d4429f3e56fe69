------------------------------ MODULE Identity ------------------------------
(***************************************************************************)
(* The contributor identity: the key file and the recovery key kept for    *)
(* the user until acknowledged (indexarr-identity), the copy main loads    *)
(* and the web API restores, and the copy the sync worker loads and signs  *)
(* with.  fs::write truncates before it writes, so a crash or a failure in *)
(* between leaves a torn file, and who reads meanwhile sees one.           *)
(*                                                                         *)
(* A key and the recovery key that encodes it are one value.  A recovery   *)
(* key that does not decode is refused before anything changes, as if none *)
(* were set.  MaxMishaps bounds failed writes and crashes in mid-operation.*)
(***************************************************************************)
EXTENDS Naturals

CONSTANTS IdKey,  \* keys, one more than are ever generated or restored
          MaxMishaps

ASSUME IdentityAssumption == MaxMishaps \in Nat /\ IdKey \cap {"none", "torn"} = {}

VARIABLES
  env,          \* INDEXARR_CONTRIBUTOR_RECOVERY_KEY, or "none"
  keyFile,      \* contributor.key: a key, "none" or "torn"
  pending,      \* .recovery_key_pending: the same
  web,          \* AppState's key, or "none"
  sync,         \* the sync worker's key, "none" yet, or "torn" for no key
  step,         \* where main, or the request that holds the lock, is
  job,          \* what is being saved: "env", "fresh" or "restore"
  known,        \* history: keys the user brought or has acknowledged
  restored,     \* history: the web API restored a key in this life
  unsaved,      \* history: saving a restored key failed in this life
  mishaps

idVars == <<env, keyFile, pending, web, sync, step, job, known, restored, unsaved, mishaps>>

Mishap == mishaps < MaxMishaps /\ mishaps' = mishaps + 1

\* main has got as far as its workers.
Serving == step = "up" \/ (step # "down" /\ job = "restore")

StartMain ==
  /\ step = "down"
  /\ step' = IF env \in IdKey THEN "save" ELSE "load"
  /\ web' = env
  /\ job' = "env"
  /\ known' = known \cup ({env} \cap IdKey)
  /\ restored' = FALSE /\ unsaved' = FALSE
  /\ UNCHANGED <<env, keyFile, pending, sync, mishaps>>

\* A file that is not a key ends main.
LoadOrGenerate ==
  /\ step = "load"
  /\ IF keyFile = "none"
     THEN /\ \E k \in IdKey \ known : web' = k
          /\ step' = "save" /\ job' = "fresh"
     ELSE /\ web' = IF keyFile = "torn" THEN "none" ELSE keyFile
          /\ step' = IF keyFile = "torn" THEN "down" ELSE "up"
          /\ UNCHANGED job
  /\ UNCHANGED <<env, keyFile, pending, sync, known, restored, unsaved, mishaps>>

Truncate ==
  /\ step = "save"
  /\ keyFile' = "torn" /\ step' = "fill"
  /\ UNCHANGED <<env, pending, web, sync, job, known, restored, unsaved, mishaps>>

Fill ==
  /\ step = "fill"
  /\ keyFile' = web
  /\ step' = IF job = "fresh" THEN "offer" ELSE "settle"
  /\ UNCHANGED <<env, pending, web, sync, job, known, restored, unsaved, mishaps>>

\* Mutant of AfterFailedSave: main goes on with the key it could not save.
AfterFailedSaveKeep ==
  CASE job = "env" -> "up" [] job = "fresh" -> "down" [] job = "restore" -> "up"

\* A failed env key is replaced by the file's, a failed new key ends main,
\* a failed restore is answered with an error.
AfterFailedSave ==
  CASE job = "env" -> "load" [] job = "fresh" -> "down" [] job = "restore" -> "up"

SaveFailed ==
  /\ step \in {"save", "fill"} /\ Mishap
  /\ step' = AfterFailedSave
  /\ unsaved' = (unsaved \/ job = "restore")
  /\ UNCHANGED <<env, keyFile, pending, web, sync, job, known, restored>>

\* acknowledge_onboarding after a restore; its error is ignored.
Settle ==
  /\ step = "settle" /\ step' = "up"
  /\ \/ pending' = "none" /\ UNCHANGED mishaps
     \/ Mishap /\ UNCHANGED pending
  /\ UNCHANGED <<env, keyFile, web, sync, job, known, restored, unsaved>>

\* The recovery key of a new identity is written for the user, or main ends.
Offer ==
  /\ step = "offer"
  /\ \/ pending' = web /\ step' = "up" /\ UNCHANGED mishaps
     \/ Mishap /\ pending' \in {pending, "torn"} /\ step' = "down"
  /\ UNCHANGED <<env, keyFile, web, sync, job, known, restored, unsaved>>

\* restore_identity, under the write lock until it is answered.
Restore(k) ==
  /\ step = "up"
  /\ web' = k /\ job' = "restore" /\ step' = "save"
  /\ known' = known \cup {k} /\ restored' = TRUE
  /\ UNCHANGED <<env, keyFile, pending, sync, unsaved, mishaps>>

\* The user saw identity_status and acknowledges what it offered.
Acknowledge ==
  /\ step = "up" /\ pending # "none"
  /\ pending' = "none"
  /\ known' = known \cup ({pending} \cap IdKey)
  /\ UNCHANGED <<env, keyFile, web, sync, step, job, restored, unsaved, mishaps>>

\* The sync worker's own load_or_generate.  It starts after the web server,
\* finds a file (main saw to that) and ignores errors: a torn one leaves it
\* without a key for life.
SyncLoads ==
  /\ Serving /\ sync = "none"
  /\ sync' = keyFile
  /\ UNCHANGED <<env, keyFile, pending, web, step, job, known, restored, unsaved, mishaps>>

CrashIdentity ==
  /\ step # "down" /\ step' = "down"
  /\ web' = "none" /\ sync' = "none"
  /\ IF step = "up" THEN UNCHANGED mishaps ELSE Mishap
  /\ UNCHANGED <<env, keyFile, pending, job, known, restored, unsaved>>

IdentityInit ==
  /\ env \in IdKey \cup {"none"}
  /\ keyFile = "none" /\ pending = "none" /\ web = "none" /\ sync = "none"
  /\ step = "down" /\ job = "env" /\ known = {}
  /\ restored = FALSE /\ unsaved = FALSE /\ mishaps = 0

IdentityNext ==
  \/ StartMain \/ LoadOrGenerate \/ Truncate \/ Fill \/ SaveFailed \/ Settle \/ Offer
  \/ \E k \in IdKey : Restore(k)
  \/ Acknowledge \/ SyncLoads \/ CrashIdentity

IdentitySpec == IdentityInit /\ [][IdentityNext]_idVars

---------------------------------------------------------------------------
(* Properties *)

\* Types, and whenever requests are served there is an identity to serve.
IdentityTypeOK ==
  /\ {keyFile, pending, sync} \subseteq IdKey \cup {"none", "torn"}
  /\ {env, web} \subseteq IdKey \cup {"none"} /\ known \subseteq IdKey
  /\ step \in {"down", "load", "save", "fill", "settle", "offer", "up"}
  /\ job \in {"env", "fresh", "restore"} /\ mishaps \in 0..MaxMishaps
  /\ Serving => web \in IdKey

\* The identity the node shows is the one it will have after a restart
\* without an env key, unless saving a restored one failed in this life.
MemoryIsSaved == step = "up" => keyFile = web \/ unsaved

\* The node signs its deltas with the identity it shows, until one is
\* restored by the web API: the sync worker keeps its copy.
SignsAsShown == sync \in IdKey => sync = web \/ restored

\* Short of failures in mid-operation, the recovery key offered to the user
\* is that of the current identity, and a generated identity stays offered
\* until the user acknowledges it.
OfferIsCurrent ==
  step = "up" /\ mishaps = 0 =>
    pending \in {"none", web} /\ (web \notin known => pending = web)

\* The file, the two copies in memory and the key on offer agree.
IdentityIsSound == MemoryIsSaved /\ SignsAsShown /\ OfferIsCurrent
=============================================================================

----------------------------- MODULE PeerRecords -----------------------------
(***************************************************************************)
(* The signed address record of one device (routes/records.rs).  A PUT is  *)
(* checked on its own, then against the key of the stored record, then     *)
(* written, in separate statements; several may be under way.  A GET       *)
(* returns the record until it expires.                                    *)
(*                                                                         *)
(* A body is the key that signed it and the time its addresses are good    *)
(* for; bodies whose form or signature is bad are refused before anything  *)
(* is read, and are left out.  MaxPuts bounds the requests.                *)
(***************************************************************************)
EXTENDS Naturals

CONSTANTS DeviceKey,  \* Ed25519 keys that sign records
          Putter,     \* requests that may be under way at once
          Horizon,    \* the last moment
          MaxPuts

ASSUME PeerRecordsAssumption == Horizon \in Nat /\ MaxPuts \in Nat

VARIABLES
  stored,   \* the row of peer_records
  put,      \* per request: its body and what is left of it
  now,
  puts,
  crossed   \* history: two requests both found no record

recordVars == <<stored, put, now, puts, crossed>>

\* Whose key the row names, who signed its addresses, and until when.
NoRecord == [key |-> "none", signer |-> "none", expiry |-> 0]
NoPut == [signer |-> "none", expiry |-> 0, found |-> FALSE]
Stored == stored # NoRecord
Puts == {c \in Putter : put[c] # NoPut}

\* Mutant of PutRecord: no comparison with the stored key.
PutRecordUnchecked(c, k, expiry) ==
  /\ put[c] = NoPut /\ puts < MaxPuts
  /\ put' = [put EXCEPT ![c] = [signer |-> k, expiry |-> expiry, found |-> Stored]]
  /\ puts' = puts + 1
  /\ UNCHANGED <<stored, now, crossed>>

\* put_record up to the check of the stored key; another key is a conflict.
PutRecord(c, k, expiry) ==
  /\ put[c] = NoPut /\ puts < MaxPuts
  /\ Stored => stored.key = k
  /\ put' = [put EXCEPT ![c] = [signer |-> k, expiry |-> expiry, found |-> Stored]]
  /\ puts' = puts + 1
  /\ UNCHANGED <<stored, now, crossed>>

\* INSERT ... ON CONFLICT DO UPDATE: all but the key.
Upserted(p) ==
  [key |-> IF Stored THEN stored.key ELSE p.signer, signer |-> p.signer, expiry |-> p.expiry]

WriteRecord(c) ==
  /\ put[c] # NoPut
  /\ stored' = Upserted(put[c])
  /\ crossed' = (crossed \/ (Stored /\ ~put[c].found))
  /\ put' = [put EXCEPT ![c] = NoPut]
  /\ UNCHANGED <<now, puts>>

\* The statement fails; the client gets an error.
WriteRecordFailed(c) ==
  /\ put[c] # NoPut
  /\ put' = [put EXCEPT ![c] = NoPut]
  /\ UNCHANGED <<stored, now, puts, crossed>>

RecordTick ==
  /\ now < Horizon
  /\ now' = now + 1
  /\ UNCHANGED <<stored, put, puts, crossed>>

\* What get_record returns.
Answered == IF Stored /\ stored.expiry > now THEN stored ELSE NoRecord

RecordsInit ==
  /\ stored = NoRecord
  /\ put = [c \in Putter |-> NoPut]
  /\ now = 0 /\ puts = 0 /\ crossed = FALSE

RecordsNext ==
  \/ RecordTick
  \/ \E c \in Putter :
       \/ \E k \in DeviceKey, e \in 1..Horizon + 1 : PutRecord(c, k, e)
       \/ WriteRecord(c) \/ WriteRecordFailed(c)

RecordsSpec == RecordsInit /\ [][RecordsNext]_recordVars

---------------------------------------------------------------------------
(* Properties *)

\* The record and the requests have their types; nobody is answered with a
\* record that has expired.
RecordsTypeOK ==
  /\ stored \in [key : DeviceKey, signer : DeviceKey, expiry : 1..Horizon + 1] \cup {NoRecord}
  /\ put \in [Putter -> [signer : DeviceKey, expiry : 1..Horizon + 1, found : BOOLEAN] \cup {NoPut}]
  /\ now \in 0..Horizon /\ puts \in 0..MaxPuts /\ crossed \in BOOLEAN
  /\ Answered # NoRecord => Answered.expiry > now

\* The first writer's key stays the key of the device, whatever is written,
\* refused or expired later.
FirstKeyStays == [][Stored => stored'.key = stored.key]_recordVars

\* Who reads a record can check its signature with the key beside it, unless
\* two first writers crossed.
UncrossedIsSigned == ~crossed => stored.signer = stored.key

\* records.rs: "The first writer for a device_id establishes the public key
\* (TOFU); subsequent writes must use the same public key."
SubsequentWritesUseKey == stored.signer = stored.key
=============================================================================

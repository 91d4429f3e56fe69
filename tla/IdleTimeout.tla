----------------------------- MODULE IdleTimeout -----------------------------
(***************************************************************************)
(* One connection of the public sync port (idle_timeout.rs): reads and     *)
(* writes share a deadline that every byte moved pushes back, and that is  *)
(* looked at only when the socket has nothing to do.                       *)
(*                                                                         *)
(* The HTTP server above waits to read or to write, one or the other; the  *)
(* client sends, takes what was written, leaves, or falls silent.  Time    *)
(* is counted in parts of the timeout, Idle of them.  Unread and           *)
(* MaxClient bound the socket's buffer and what the client does.           *)
(***************************************************************************)
EXTENDS Naturals

CONSTANTS Idle,      \* SYNC_CONN_IDLE_TIMEOUT
          Unread,    \* what the socket buffers
          MaxClient

ASSUME IdleTimeoutAssumption == Idle \in Nat \ {0} /\ Unread \in Nat /\ MaxClient \in Nat

VARIABLES
  conn,    \* "none", "open", "timed_out" or "closed"
  waits,   \* what the server waits for: "read" or "write"
  unread,  \* bytes from the client, in units of a read
  room,    \* bytes the socket takes from the server
  left,    \* until the deadline
  age,     \* history: since the last byte moved
  deeds    \* of the client

idleVars == <<conn, waits, unread, room, left, age, deeds>>

Open == conn = "open"

\* The listener's accept.
AcceptConnection ==
  /\ conn = "none" /\ conn' = "open"
  /\ UNCHANGED <<waits, unread, room, left, age, deeds>>

Touched == Idle

\* Bytes moved, and the server goes on to read or to write.
Moves == left' = Touched /\ age' = 0 /\ waits' \in {"read", "write"}

PollRead ==
  /\ Open /\ waits = "read" /\ unread > 0
  /\ \E n \in 1..unread : unread' = unread - n
  /\ Moves
  /\ UNCHANGED <<conn, room, deeds>>

PollWrite ==
  /\ Open /\ waits = "write" /\ room > 0
  /\ \E n \in 1..room : room' = room - n
  /\ Moves
  /\ UNCHANGED <<conn, unread, deeds>>

\* Mutant of Pending: a write that waits never looks at the deadline.
PendingRead == waits = "read" /\ unread = 0

Pending == IF waits = "read" THEN unread = 0 ELSE room = 0

\* poll_expired: the deadline's waker has the task poll again.
Expire ==
  /\ Open /\ Pending /\ left = 0
  /\ conn' = "timed_out"
  /\ UNCHANGED <<waits, unread, room, left, age, deeds>>

ClientDeed == Open /\ deeds < MaxClient /\ deeds' = deeds + 1

ClientSends ==
  /\ ClientDeed /\ unread < Unread
  /\ unread' = unread + 1
  /\ UNCHANGED <<conn, waits, room, left, age>>

ClientTakes ==
  /\ ClientDeed /\ room < Unread
  /\ room' = room + 1
  /\ UNCHANGED <<conn, waits, unread, left, age>>

\* End of stream, or an error of the socket.
ClientLeaves ==
  /\ ClientDeed
  /\ conn' = "closed"
  /\ UNCHANGED <<waits, unread, room, left, age>>

IdleTick ==
  /\ Open /\ left > 0
  /\ left' = left - 1 /\ age' = age + 1
  /\ UNCHANGED <<conn, waits, unread, room, deeds>>

IdleInit ==
  /\ conn = "none" /\ waits = "read" /\ unread = 0 /\ room = Unread
  /\ left = Idle /\ age = 0 /\ deeds = 0

ServeConnection == PollRead \/ PollWrite \/ Expire \/ IdleTick

IdleNext == AcceptConnection \/ ServeConnection \/ ClientSends \/ ClientTakes \/ ClientLeaves

IdleSpec == IdleInit /\ [][IdleNext]_idleVars

\* The runtime polls a task that can go on, and time passes.
FairIdleSpec == IdleSpec /\ WF_idleVars(ServeConnection)

---------------------------------------------------------------------------
(* Properties *)

\* Types; and a connection on which a byte moved in either direction less
\* than the timeout ago is never closed as idle: a long download keeps the
\* silent reading side open, and a long upload the writing side.
IdleTypeOK ==
  /\ conn \in {"none", "open", "timed_out", "closed"} /\ waits \in {"read", "write"}
  /\ unread \in 0..Unread /\ room \in 0..Unread /\ left \in 0..Idle /\ deeds \in 0..MaxClient
  /\ conn = "timed_out" => age >= Idle

\* A client that connects and does nothing, or stops half-way, does not hold
\* its descriptor for ever: every connection ends once the client rests.
SilentEnds == conn = "open" ~> conn # "open"
=============================================================================

---------------------------- MODULE XmppDiscovery ----------------------------
(***************************************************************************)
(* The XMPP channel (indexarr-xmpp): the node asks its bootstraps for its  *)
(* public address, registers an account, joins the room under a nick that  *)
(* carries its contributor id and URL, and asks each other nick's URL for  *)
(* a manifest before it adds the peer.  An error ends the stream and is    *)
(* backed off; a disconnection is repaired by the XMPP library.            *)
(*                                                                         *)
(* A nick is [cid, url]; one that does not parse has cid "none", and one   *)
(* whose URL may not be advertised has url "private".  XmppFaults bounds   *)
(* the failures, MaxPresence the presences.                                *)
(***************************************************************************)
EXTENDS Naturals

CONSTANTS RoomNick,     \* nicks of the room
          OurNick,      \* ours
          MinBackoff, MaxBackoff,
          MaxPresence, XmppFaults

ASSUME XmppAssumption ==
  /\ OurNick \in RoomNick /\ MaxPresence \in Nat /\ XmppFaults \in Nat
  /\ MinBackoff \in Nat \ {0} /\ MaxBackoff \in Nat /\ MinBackoff <= MaxBackoff

VARIABLES
  phase,      \* of run: "off", "top", "credentials", "register", "stream", "backoff", "stopped"
  backoff,
  account,    \* the server knows our account
  online,     \* the stream is up and the room joined
  seen,       \* nicks of this stream
  validating, \* the nick whose manifest is awaited, or NoNick
  added,      \* peers handed to the peer table
  asked,      \* history: how often each nick's node was asked in this stream
  presences, cancelled, xmppFaults

xmppVars == <<phase, backoff, account, online, seen, validating, added, asked, presences,
              cancelled, xmppFaults>>

NoNick == [cid |-> "none", url |-> "none"]
XmppFault == xmppFaults < XmppFaults /\ xmppFaults' = xmppFaults + 1

\* run_once gives up: a clean end stops run, an error is backed off.
EndsWith(p) ==
  /\ phase' = p
  /\ online' = FALSE /\ seen' = {} /\ validating' = NoNick
  /\ asked' = [n \in RoomNick |-> 0]

\* main starts the channel if it is enabled.
StartChannel ==
  /\ phase = "off" /\ phase' = "top"
  /\ UNCHANGED <<backoff, account, online, seen, validating, added, asked, presences,
                 cancelled, xmppFaults>>

RunOnce ==
  /\ phase = "top"
  /\ phase' = IF cancelled THEN "stopped" ELSE "credentials"
  /\ UNCHANGED <<backoff, account, online, seen, validating, added, asked, presences,
                 cancelled, xmppFaults>>

\* build_credentials: the first bootstrap that reports a public address.
Credentials ==
  /\ phase = "credentials" /\ phase' = "register"
  /\ UNCHANGED <<backoff, account, online, seen, validating, added, asked, presences,
                 cancelled, xmppFaults>>

\* None of them does, or the identity is not initialized.
CredentialsFailed ==
  /\ phase = "credentials" /\ XmppFault /\ EndsWith("backoff")
  /\ UNCHANGED <<backoff, account, added, presences, cancelled>>

\* register_account: whatever goes wrong is only logged.
Register ==
  /\ phase = "register" /\ phase' = "stream"
  /\ \/ account' = TRUE /\ UNCHANGED xmppFaults
     \/ XmppFault /\ UNCHANGED account
  /\ UNCHANGED <<backoff, online, seen, validating, added, asked, presences, cancelled>>

Driving == phase = "stream" /\ validating = NoNick

\* The library connected and authenticated: the room is joined.
GetOnline ==
  /\ Driving /\ ~online /\ account
  /\ online' = TRUE
  /\ UNCHANGED <<phase, backoff, account, seen, validating, added, asked, presences,
                 cancelled, xmppFaults>>

Disconnected ==
  /\ Driving /\ online /\ XmppFault
  /\ online' = FALSE
  /\ UNCHANGED <<phase, backoff, account, seen, validating, added, asked, presences, cancelled>>

\* Mutant of StreamError: an error ends the channel.
StreamErrorStops ==
  /\ Driving /\ XmppFault /\ EndsWith("stopped")
  /\ UNCHANGED <<backoff, account, added, presences, cancelled>>

\* The stream ends, or the presence that joins the room cannot be sent.
StreamError ==
  /\ Driving /\ XmppFault /\ EndsWith("backoff")
  /\ UNCHANGED <<backoff, account, added, presences, cancelled>>

\* Another session of ours.
GhostOfUs(n) == n.cid = OurNick.cid

\* handle_presence up to the manifest; a presence of ours, of a nick seen
\* before or of a leave changes nothing.
HandlePresence(n) ==
  /\ Driving /\ online /\ presences < MaxPresence
  /\ n \notin seen \cup {OurNick}
  /\ seen' = seen \cup {n}
  /\ IF n.cid = "none" \/ GhostOfUs(n) \/ n.url = "private"
     THEN UNCHANGED <<validating, asked>>
     ELSE validating' = n /\ asked' = [asked EXCEPT ![n] = @ + 1]
  /\ presences' = presences + 1
  /\ UNCHANGED <<phase, backoff, account, online, added, cancelled, xmppFaults>>

\* The manifest names the contributor of the nick, or it does not, or does
\* not come within the client's timeout; nothing else is handled meanwhile.
Validated ==
  /\ validating # NoNick
  /\ \/ added' = added \cup {validating}
     \/ UNCHANGED added
  /\ validating' = NoNick
  /\ UNCHANGED <<phase, backoff, account, online, seen, asked, presences, cancelled, xmppFaults>>

BackedOff ==
  /\ phase = "backoff"
  /\ phase' = IF cancelled THEN "stopped" ELSE "top"
  /\ backoff' = IF cancelled THEN backoff
                ELSE IF 2 * backoff > MaxBackoff THEN MaxBackoff ELSE 2 * backoff
  /\ UNCHANGED <<account, online, seen, validating, added, asked, presences, cancelled, xmppFaults>>

\* The event loop sees the token: the stream is closed.
StreamCancelled ==
  /\ Driving /\ cancelled /\ EndsWith("stopped")
  /\ UNCHANGED <<backoff, account, added, presences, cancelled, xmppFaults>>

CancelXmpp ==
  /\ phase # "off" /\ ~cancelled /\ cancelled' = TRUE
  /\ UNCHANGED <<phase, backoff, account, online, seen, validating, added, asked, presences,
                 xmppFaults>>

XmppInit ==
  /\ phase = "off" /\ backoff = MinBackoff /\ account = FALSE
  /\ online = FALSE /\ seen = {} /\ validating = NoNick
  /\ added = {} /\ asked = [n \in RoomNick |-> 0]
  /\ presences = 0 /\ cancelled = FALSE /\ xmppFaults = 0

\* What the channel and its library do on their own.
XmppStep ==
  RunOnce \/ Credentials \/ Register \/ GetOnline \/ Validated \/ BackedOff \/ StreamCancelled

XmppNext ==
  \/ XmppStep \/ StartChannel \/ CredentialsFailed \/ Disconnected \/ StreamError \/ CancelXmpp
  \/ \E n \in RoomNick : HandlePresence(n)

XmppSpec == XmppInit /\ [][XmppNext]_xmppVars

\* Every wait of the channel has a timeout, and the library reconnects.
FairXmppSpec == XmppSpec /\ WF_xmppVars(XmppStep)

---------------------------------------------------------------------------
(* Properties *)

\* Types; no other session of the node, with the nick of an older URL, is a
\* peer of it; and however often a nick leaves, comes back or the stream is
\* repaired, its node is asked for a manifest once per stream.
XmppTypeOK ==
  /\ phase \in {"off", "top", "credentials", "register", "stream", "backoff", "stopped"}
  /\ backoff \in MinBackoff..MaxBackoff /\ seen \subseteq RoomNick
  /\ validating \in RoomNick \cup {NoNick}
  /\ online => phase = "stream"
  /\ \A n \in added : n.cid # OurNick.cid /\ n.cid # "none"
  /\ \A n \in RoomNick : asked[n] <= 1

\* A shutdown is noticed wherever the channel waits, and errors never end
\* the channel: it ends, and gets online until then, unless registration
\* failed, which nothing tries again while the stream lasts.
ChannelLives ==
  /\ cancelled ~> phase = "stopped"
  /\ []<>(online \/ cancelled \/ phase = "off" \/ (phase = "stream" /\ ~account))
=============================================================================

------------------------------- MODULE MCNode -------------------------------
(* The index, its web API and the process around them on small sets.  The  *)
(* modules share no variable, so a behaviour runs one of them, and "part"  *)
(* says which; the others stay in their initial state.                     *)
EXTENDS TorrentLifecycle, PeerRecords, Social, Identity, IdleTimeout, LogCapture,
        XmppDiscovery, NodeLifecycle, EpochTransition

CONSTANTS a, b

MCOurNick == [cid |-> "us", url |-> "new"]

\* An older session of ours, two nodes, a nick that may not be asked and
\* one that does not parse.
MCRoomNick ==
  {MCOurNick, [cid |-> "us", url |-> "old"], [cid |-> a, url |-> a],
   [cid |-> b, url |-> "private"], [cid |-> "none", url |-> b]}

MCDeployments ==
  {{"http_server", "dht_crawler", "resolver", "announcer", "sync", "peer_refresher"},
   {"http_server", "resolver"}, {"bep51_sampler"}, {}}

VARIABLE part

\* Only the part that runs starts with the initial states that vary.
MCInit ==
  /\ part \in {"index", "records", "social", "identity", "idle", "log", "xmpp", "node", "epoch"}
  /\ LifeInit /\ RecordsInit /\ SocialInit /\ IdentityInit /\ IdleInit /\ LogInit
  /\ XmppInit /\ NodeInit /\ EpochInit
  /\ part # "identity" => env = "none"
  /\ part # "node" => deployment = {}

Index(A) == part = "index" /\ A /\ UNCHANGED <<recordVars, socialVars, idVars, idleVars,
          logVars, xmppVars, nodeVars, epochVars, part>>
Records(A) == part = "records" /\ A /\ UNCHANGED <<lifeVars, socialVars, idVars, idleVars,
          logVars, xmppVars, nodeVars, epochVars, part>>
Social(A) == part = "social" /\ A /\ UNCHANGED <<lifeVars, recordVars, idVars, idleVars,
          logVars, xmppVars, nodeVars, epochVars, part>>
Identity(A) == part = "identity" /\ A /\ UNCHANGED <<lifeVars, recordVars, socialVars,
          idleVars, logVars, xmppVars, nodeVars, epochVars, part>>
Connection(A) == part = "idle" /\ A /\ UNCHANGED <<lifeVars, recordVars, socialVars, idVars, logVars,
          xmppVars, nodeVars, epochVars, part>>
Logs(A) == part = "log" /\ A /\ UNCHANGED <<lifeVars, recordVars, socialVars, idVars, idleVars,
          xmppVars, nodeVars, epochVars, part>>
Xmpp(A) == part = "xmpp" /\ A /\ UNCHANGED <<lifeVars, recordVars, socialVars, idVars,
          idleVars, logVars, nodeVars, epochVars, part>>
Node(A) == part = "node" /\ A /\ UNCHANGED <<lifeVars, recordVars, socialVars, idVars,
          idleVars, logVars, xmppVars, epochVars, part>>
Epochs(A) == part = "epoch" /\ A /\ UNCHANGED <<lifeVars, recordVars, socialVars, idVars,
          idleVars, logVars, xmppVars, nodeVars, part>>

MCNext ==
  \/ Index(LifeNext) \/ Records(RecordsNext) \/ Social(SocialNext) \/ Identity(IdentityNext)
  \/ Connection(IdleNext) \/ Logs(LogNext) \/ Xmpp(XmppNext) \/ Node(NodeNext) \/ Epochs(EpochNext)

\* The fairness of FairIdleSpec, FairXmppSpec and FairNodeSpec.
MCSpec ==
  /\ MCInit
  /\ [][MCNext]_<<lifeVars, recordVars, socialVars, idVars, idleVars,
                 logVars, xmppVars, nodeVars, epochVars, part>>
  /\ WF_idleVars(Connection(ServeConnection))
  /\ WF_xmppVars(Xmpp(XmppStep))
  /\ WF_nodeVars(Node(NodeStep))

\* The types of all parts, and what goes with them: no row without the one
\* it refers to, no connection cut while bytes move, no gap in the log, no
\* peer that is the node itself, no worker without its engine.
PartsTypeOK ==
  /\ LifeTypeOK /\ RecordsTypeOK /\ SocialTypeOK /\ IdentityTypeOK /\ IdleTypeOK
  /\ LogTypeOK /\ XmppTypeOK /\ NodeTypeOK /\ EpochTypeOK
=============================================================================

------------------------------- MODULE Social -------------------------------
(***************************************************************************)
(* What users say of one torrent (routes/social.rs): its vote, its         *)
(* comments and the suggestion to remove it.  Every user has the           *)
(* fingerprint "anonymous", so a torrent has at most one vote and one      *)
(* suggestion.  A request is several statements; what it read may have     *)
(* changed when it writes, and the torrent may be gone.                    *)
(*                                                                         *)
(* Texts are left out.  MaxTalk bounds the requests, MaxComments the       *)
(* comments, MaxRelist how often the torrent is found again.               *)
(***************************************************************************)
EXTENDS Integers

CONSTANTS User,        \* requests that may be under way at once
          MaxTalk, MaxComments, MaxRelist

ASSUME SocialAssumption == MaxTalk \in Nat /\ MaxComments \in Nat /\ MaxRelist \in Nat

VARIABLES
  listed,      \* the torrent: "absent", "unresolved" or "resolved"
  vote,        \* 1, -1, or 0 for no row
  comments,    \* id -> [parent, deleted]; parent 0 is none
  suggestion,  \* [id, outcome]; id 0 is none
  talk,        \* per user, the request under way
  ids,         \* ids of comments and suggestions given out
  talks, relists,
  contested    \* history: a review met another one or lost its torrent

socialVars == <<listed, vote, comments, suggestion, talk, ids, talks, relists, contested>>

Silent == [kind |-> "none", value |-> 0, read |-> 0, id |-> 0, alone |-> TRUE]
NoSuggestion == [id |-> 0, outcome |-> "none"]
Talking(k) == {u \in User : talk[u].kind = k}

\* The torrent's rows go with it: ON DELETE CASCADE.
Gone ==
  /\ listed' = "absent" /\ vote' = 0 /\ suggestion' = NoSuggestion
  /\ comments' = [i \in {} |-> 0]

Speaks(u, t) ==
  /\ talk[u] = Silent /\ talks < MaxTalk
  /\ talk' = [talk EXCEPT ![u] = t]
  /\ talks' = talks + 1

\* Whatever request ends, or changes a vote, votes under way are not alone.
Ends(u) == talk' = [talk EXCEPT ![u] = Silent]

\* cast_vote up to its SELECT.
ReadVote(u) ==
  /\ \E v \in {1, -1} :
       Speaks(u, [Silent EXCEPT !.kind = "vote", !.value = v, !.read = vote,
                                !.alone = (Talking("vote") = {})])
  /\ UNCHANGED <<listed, vote, comments, suggestion, ids, relists, contested>>

\* The row after the statement the read calls for: DELETE, UPDATE or INSERT.
Voted(t) ==
  IF t.read = t.value THEN 0
  ELSE IF t.read # 0 /\ vote = 0 THEN 0
  ELSE t.value

\* INSERT needs the torrent, and that there is no vote yet.
Insertable(t) == t.read = 0 => listed # "absent" /\ vote = 0

\* The statement, then get_votes.  Other votes under way are not alone.
WriteVote(u) ==
  /\ talk[u].kind = "vote" /\ Insertable(talk[u])
  /\ vote' = Voted(talk[u])
  /\ talk' = [w \in User |-> IF w = u THEN Silent ELSE [talk[w] EXCEPT !.alone = FALSE]]
  /\ UNCHANGED <<listed, comments, suggestion, ids, talks, relists, contested>>

\* create_comment up to its check that the torrent is resolved.  A reply is
\* to a comment the user was shown.
CheckComment(u) ==
  /\ listed = "resolved"
  /\ \E p \in DOMAIN comments \cup {0} : Speaks(u, [Silent EXCEPT !.kind = "comment", !.id = p])
  /\ UNCHANGED <<listed, vote, comments, suggestion, ids, relists, contested>>

\* The INSERT, which needs the torrent and the parent.
WriteComment(u) ==
  LET t == talk[u] id == ids + 1
  IN  /\ t.kind = "comment" /\ listed # "absent" /\ t.id \in DOMAIN comments \cup {0}
      /\ id <= MaxComments
      /\ comments' = [i \in DOMAIN comments \cup {id} |->
                        IF i = id THEN [parent |-> t.id, deleted |-> FALSE] ELSE comments[i]]
      /\ ids' = id
      /\ Ends(u)
  /\ UNCHANGED <<listed, vote, suggestion, talks, relists, contested>>

\* Soft: the row stays and its text is replaced.
DeleteComment(id) ==
  /\ ~comments[id].deleted
  /\ comments' = [comments EXCEPT ![id].deleted = TRUE]
  /\ UNCHANGED <<listed, vote, suggestion, talk, ids, talks, relists, contested>>

\* suggest_nuke: one statement, and nothing if there is one already.
SuggestNuke ==
  /\ listed # "absent" /\ suggestion.id = 0 /\ ids < MaxComments
  /\ suggestion' = [id |-> ids + 1, outcome |-> "none"]
  /\ ids' = ids + 1
  /\ UNCHANGED <<listed, vote, comments, talk, talks, relists, contested>>

\* Mutant of NextOfReview: dismissed ones are removed as well.
NextOfReviewAlways(outcome) == "select"

\* What follows the UPDATE.
NextOfReview(outcome) == IF outcome = "nuked" THEN "select" ELSE "done"

\* review_nuke: the UPDATE of a suggestion that was shown as pending, or by
\* a reviewer whose list is old.
Review(u) ==
  /\ suggestion.id # 0
  /\ \E outcome \in {"nuked", "dismissed"} :
       /\ suggestion' = [suggestion EXCEPT !.outcome = outcome]
       /\ IF NextOfReview(outcome) = "done"
          THEN talk[u] = Silent /\ talks < MaxTalk /\ talks' = talks + 1 /\ UNCHANGED talk
          ELSE Speaks(u, [Silent EXCEPT !.kind = "select", !.id = suggestion.id])
  /\ contested' = (contested \/ Talking("select") \cup Talking("delete") # {})
  /\ UNCHANGED <<listed, vote, comments, ids, relists>>

\* The SELECT of its hash: the suggestion may be gone.
FindNuked(u) ==
  /\ talk[u].kind = "select"
  /\ IF suggestion.id = talk[u].id
     THEN talk' = [talk EXCEPT ![u].kind = "delete"]
     ELSE Ends(u)
  /\ UNCHANGED <<listed, vote, comments, suggestion, ids, talks, relists, contested>>

\* DELETE FROM torrents, by hash.
Nuke(u) ==
  /\ talk[u].kind = "delete"
  /\ Gone /\ Ends(u)
  /\ contested' = (contested \/ Talking("select") \cup Talking("delete") # {u})
  /\ UNCHANGED <<ids, talks, relists>>

\* A statement fails, or its row does not fit: the request ends with an error.
TalkFailed(u) ==
  /\ talk[u] # Silent
  /\ Ends(u)
  /\ UNCHANGED <<listed, vote, comments, suggestion, ids, talks, relists, contested>>

\* The rest of the node: the torrent is found, resolved, deleted.
Relist ==
  /\ listed = "absent" /\ relists < MaxRelist
  /\ listed' = "unresolved" /\ relists' = relists + 1
  /\ UNCHANGED <<vote, comments, suggestion, talk, ids, talks, contested>>

ResolveListed ==
  /\ listed = "unresolved" /\ listed' = "resolved"
  /\ UNCHANGED <<vote, comments, suggestion, talk, ids, talks, relists, contested>>

Withdraw ==
  /\ listed # "absent" /\ Gone
  /\ contested' = (contested \/ Talking("select") \cup Talking("delete") # {})
  /\ talk' = [w \in User |-> [talk[w] EXCEPT !.alone = talk[w] = Silent]]
  /\ UNCHANGED <<ids, talks, relists>>

SocialInit ==
  /\ listed = "unresolved" /\ vote = 0 /\ comments = [i \in {} |-> 0]
  /\ suggestion = NoSuggestion /\ talk = [u \in User |-> Silent]
  /\ ids = 0 /\ talks = 0 /\ relists = 0 /\ contested = FALSE

SocialNext ==
  \/ SuggestNuke \/ Relist \/ ResolveListed \/ Withdraw
  \/ \E id \in DOMAIN comments : DeleteComment(id)
  \/ \E u \in User :
       \/ ReadVote(u) \/ WriteVote(u) \/ CheckComment(u) \/ WriteComment(u)
       \/ Review(u) \/ FindNuked(u) \/ Nuke(u) \/ TalkFailed(u)

SocialSpec == SocialInit /\ [][SocialNext]_socialVars

---------------------------------------------------------------------------
(* Properties *)

\* Types; nothing is said of a torrent that is not there, although requests
\* write after it was deleted, and every reply has its parent.
SocialTypeOK ==
  /\ listed \in {"absent", "unresolved", "resolved"} /\ vote \in {-1, 0, 1}
  /\ suggestion.outcome \in {"none", "nuked", "dismissed"}
  /\ DOMAIN comments \subseteq 1..MaxComments
  /\ \A i \in DOMAIN comments : comments[i].parent \in DOMAIN comments \cup {0}
  /\ listed = "absent" => vote = 0 /\ suggestion.id = 0 /\ DOMAIN comments = {}

\* A vote that no other one crosses toggles: the same value again takes it
\* back, the other one replaces it.
LoneVoteToggles ==
  [][\A u \in User :
       talk[u].kind = "vote" /\ talk[u].alone /\ talk'[u] = Silent /\ vote' # vote
       => vote' = IF vote = talk[u].value THEN 0 ELSE talk[u].value]_socialVars

\* A comment goes only with its torrent: deleting one keeps the replies.
RepliesStay ==
  [][listed' # "absent" => DOMAIN comments \subseteq DOMAIN comments']_socialVars

\* A review removes the torrent only if the suggestion was reviewed as
\* "nuked", unless another review or a deletion came in between.
NukedWasReviewed ==
  [][\A u \in User :
       talk[u].kind = "delete" /\ talk'[u] = Silent /\ listed' = "absent" /\ listed # "absent"
       => suggestion.outcome = "nuked" \/ contested']_socialVars

\* No step of a request loses or removes what another user said, short of
\* the crossings named above.
SocialIsSound == LoneVoteToggles /\ RepliesStay /\ NukedWasReviewed
=============================================================================

----------------------------- MODULE Collaboration -----------------------------
(***************************************************************************)
(* Comments, reactions and the feed of activities (api/v1/comments.py,      *)
(* api/v1/activities.py, services/collaboration_service.py).                *)
(*                                                                          *)
(* Of a comment's text only matters whether it was edited and whom it       *)
(* mentions, and any user may be the author; there is one emoji.  Replies   *)
(* are comments like others; which are shown below which is left out.       *)
(***************************************************************************)
EXTENDS Requests, Sequences

CONSTANTS Participants,
          CommentIds,
          MaxMentions   \* bound on the mentions in a comment

ASSUME CollaborationAssumption == MaxMentions \in Nat

VARIABLE discussion   \* the committed tables

\* An entry of the feed: the comment it is of, for whom, and whether that user
\* has read it.
IsTables(tables) ==
  /\ DOMAIN tables = {"comments", "reactions", "activities"}
  /\ DOMAIN tables.comments \subseteq CommentIds
  /\ \A c \in DOMAIN tables.comments :
       tables.comments[c] \in [edited : BOOLEAN, deleted : BOOLEAN]
  /\ tables.reactions \subseteq CommentIds \X Participants
  /\ DOMAIN tables.activities \subseteq (DOMAIN tables.comments) \X (0..MaxMentions)
  /\ \A a \in DOMAIN tables.activities :
       tables.activities[a] \in [user : Participants, read : BOOLEAN]

CollaborationTypeOK ==
  /\ IsTables(discussion)
  /\ \A s \in UnderWay : IsTables(seen[s])

CollaborationInit ==
  /\ RequestsInit
  /\ discussion = [comments |-> <<>>, reactions |-> {}, activities |-> <<>>]

ReadDiscussion(s) ==
  /\ ReadBy(s, discussion)
  /\ UNCHANGED discussion

\* No such comment, or not this user's; a name that several users match; a
\* reaction that another request has inserted meanwhile.
RefusedDiscussion(s) ==
  /\ EndOf(s)
  /\ UNCHANGED discussion

\* One activity for the author and one for each mention, in the transaction
\* of the comment.  A user who is mentioned twice gets two: the identifiers
\* that are compared are of different types.
add_comment(s) ==
  \E c \in CommentIds \ DOMAIN discussion.comments, author \in Participants :
  \E n \in 0..MaxMentions : \E mentions \in [1..n -> Participants] :
    LET entry(i) == [user |-> IF i = 0 THEN author ELSE mentions[i], read |-> FALSE]
        entries == {c} \X (0..n)
    IN /\ EndOf(s)
       /\ discussion' =
            [discussion EXCEPT
               !.comments = Inserted(@, c, [edited |-> FALSE, deleted |-> FALSE]),
               !.activities = [a \in DOMAIN @ \cup entries |->
                                 IF a \in DOMAIN @ THEN @[a] ELSE entry(a[2])]]

\* As if the row were written as it was loaded: a variant of the next.
edit_whole_comment(s) ==
  \E c \in DOMAIN seen[s].comments :
    /\ ~seen[s].comments[c].deleted
    /\ EndOf(s)
    /\ discussion' =
         [discussion EXCEPT !.comments[c] = [seen[s].comments[c] EXCEPT !.edited = TRUE]]

\* By its author, who has loaded it while it was not deleted.
edit_comment(s) ==
  \E c \in DOMAIN seen[s].comments :
    /\ ~seen[s].comments[c].deleted
    /\ EndOf(s)
    /\ discussion' = [discussion EXCEPT !.comments[c].edited = TRUE]

\* By its author or an administrator.  A deleted comment can be deleted again.
delete_comment(s) ==
  \E c \in DOMAIN seen[s].comments :
    /\ EndOf(s)
    /\ discussion' = [discussion EXCEPT !.comments[c].deleted = TRUE]

\* Toggles; the comment may be deleted.  To remove what another request has
\* removed is no error, and to add what it has added is.
add_reaction(s) ==
  \E c \in DOMAIN seen[s].comments, user \in Participants :
    LET reaction == <<c, user>> IN
    /\ reaction \notin seen[s].reactions => reaction \notin discussion.reactions
    /\ EndOf(s)
    /\ discussion' =
         [discussion EXCEPT !.reactions = IF reaction \in seen[s].reactions
                                            THEN @ \ {reaction} ELSE @ \cup {reaction}]

\* Those of the activities that are the user's and that were unread.
mark_as_read(s) ==
  \E user \in Participants :
  \E chosen \in SUBSET {a \in DOMAIN seen[s].activities :
                          seen[s].activities[a] = [user |-> user, read |-> FALSE]} :
    /\ EndOf(s)
    /\ discussion' =
         [discussion EXCEPT !.activities =
            [a \in DOMAIN @ |-> IF a \in chosen THEN [@[a] EXCEPT !.read = TRUE] ELSE @[a]]]

DiscussionHandler(s) ==
  \/ ReadDiscussion(s)
  \/ s \in UnderWay /\ \/ RefusedDiscussion(s)
                       \/ add_comment(s)
                       \/ edit_comment(s)
                       \/ delete_comment(s)
                       \/ add_reaction(s)
                       \/ mark_as_read(s)

CollaborationNext == \E s \in Sessions : DiscussionHandler(s)

-----------------------------------------------------------------------------
(* Property *)

get_unread_count(user) ==
  Cardinality({a \in DOMAIN discussion.activities :
                 discussion.activities[a] = [user |-> user, read |-> FALSE]})

\* Whatever requests overlap, a deleted comment is not shown again, an entry of
\* the feed that was read does not count as unread again, and a user's unread
\* entries grow by no more than a comment can add.
DeletionIsFinal ==
  [][/\ \A c \in DOMAIN discussion.comments :
          discussion.comments[c].deleted => discussion'.comments[c].deleted
     /\ \A a \in DOMAIN discussion.activities :
          discussion.activities[a].read => discussion'.activities[a].read
     /\ \A user \in Participants :
          get_unread_count(user)' <= get_unread_count(user) + MaxMentions + 1]_discussion
=============================================================================

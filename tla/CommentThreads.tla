---------------------------- MODULE CommentThreads ----------------------------
(***************************************************************************)
(* How the comments of a document are laid out: useCommentGroups and       *)
(* useCommentReplies of frontend/packages/app/models/comments.ts.  The     *)
(* comments are those of the daemon's answer; a comment may reply to one   *)
(* that has not been received.  A group or a thread is the set of what its *)
(* loop comes by.                                                          *)
(***************************************************************************)
EXTENDS Integers, SequencesExt, FiniteSetsExt

IdsOf(comments) == {c.id : c \in comments}
RepliesTo(comments, ids) == {c.id : c \in {c \in comments : c.repliedComment \in ids}}

(* What a loop has at hand, round after round.  The loops of the code go   *)
(* on until nothing is left to do; a round after that changes nothing, and *)
(* there are no more rounds than comments.                                 *)
Rounds(step, x, n) ==
    LET at[k \in 0..n] == IF k = 0 THEN x ELSE step[at[k - 1]]
    IN  at
MaxRounds(comments) == Cardinality(IdsOf(comments))

(* From a comment on, for as long as there is exactly one reply.           *)
nextComment(comments) ==
    [id \in IdsOf(comments) |->
        LET next == RepliesTo(comments, {id})
        IN  IF Cardinality(next) = 1 THEN CHOOSE c \in next : TRUE ELSE id]
groupComments(comments, first) == Rounds(nextComment(comments), first, MaxRounds(comments))

(* Mutant: only the replies to the last comment are counted.               *)
moreCommentsDirect(comments, last) == Cardinality(RepliesTo(comments, {last}))

(* The comments under the last one of a group, level by level.             *)
walkMoreComments(comments) ==
    [ids \in SUBSET IdsOf(comments) |-> RepliesTo(comments, ids)]
moreCommentsCount(comments, last) ==
    LET walk == Rounds(walkMoreComments(comments), {last}, MaxRounds(comments))
    IN  Cardinality(UNION Range(walk)) - 1

(* One group for each reply to the target.                                 *)
useCommentGroups(comments, target) ==
    [first \in RepliesTo(comments, {target}) |->
        LET group == groupComments(comments, first)
            last == group[MaxRounds(comments)]
        IN  [comments |-> Range(group), last |-> last,
             moreCommentsCount |-> moreCommentsCount(comments, last)]]

(* A comment and the ones it replies to, up to the first that is not there *)
(* (a comment that is there has no other with its id).  The undefined that *)
(* the code puts in front, for the one it did not find, is left out.       *)
repliedTo(comments) ==
    [id \in IdsOf(comments) |->
        LET to == (CHOOSE c \in comments : c.id = id).repliedComment
        IN  IF to \in IdsOf(comments) THEN to ELSE id]
useCommentReplies(comments, target) ==
    Range(Rounds(repliedTo(comments), target, MaxRounds(comments)))

-----------------------------------------------------------------------------
(* Reference: the comments under a target are the least set that has its   *)
(* replies and the replies to its members.                                 *)
ClosedUnder(comments, target, S) ==
    \A c \in comments : c.repliedComment \in S \cup {target} => c.id \in S
Under(comments, target) ==
    {id \in IdsOf(comments) :
        \A S \in SUBSET IdsOf(comments) : ClosedUnder(comments, target, S) => id \in S}
=============================================================================

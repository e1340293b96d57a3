------------------------------- MODULE Board -------------------------------
(***************************************************************************)
(* What the files of the forums promise to their readers: in every forum   *)
(* the threads in the order of their last replies, newest first, and in    *)
(* every thread the posts in the order in which they were written.         *)
(* Forum.tla, the linked lists and chains of offsets that db.c keeps in    *)
(* files, is shown to implement this.                                      *)
(***************************************************************************)
EXTENDS Naturals, Sequences, SequencesExt, FiniteSets

CONSTANTS
  Post,       \* what a post may be
  MaxSlots,   \* bound on the threads of a forum
  MaxForums   \* bound on the forums

VARIABLE board   \* [forum -> the sequence of its threads]

Forums == 0 .. MaxForums - 1
Thread == 0 .. MaxSlots - 1

Init == board = [f \in Forums |-> <<>>]

\* What the threads s of a forum may become.
Ids(s) == {s[k].id : k \in DOMAIN s}

Opened(s, now) == \E t \in Thread \ Ids(s), p \in Post : now = <<[id |-> t, posts |-> <<p>>]>> \o s

\* The thread replied to goes to the front; the others keep their order.
Replied(s, now) == \E k \in DOMAIN s, p \in Post :
  now = <<[s[k] EXCEPT !.posts = Append(s[k].posts, p)]>> \o RemoveAt(s, k)

Edited(s, now) == \E k \in DOMAIN s : \E n \in DOMAIN s[k].posts, p \in Post :
  now = [s EXCEPT ![k].posts[n] = p]

\* A post goes; a thread goes with its last post.
Retracted(s, now) == \E k \in DOMAIN s : \E n \in DOMAIN s[k].posts :
  now = IF Len(s[k].posts) = 1 THEN RemoveAt(s, k)
        ELSE [s EXCEPT ![k].posts = RemoveAt(s[k].posts, n)]

\* Threads go and the others keep their order.
Dropped(s, now) == \E was \in [DOMAIN now -> DOMAIN s] :
  /\ \A i, k \in DOMAIN now : i < k => was[i] < was[k]
  /\ \A i \in DOMAIN now : now[i] = s[was[i]]

Changed(s, now) == Opened(s, now) \/ Replied(s, now) \/ Edited(s, now) \/ Retracted(s, now)

\* One forum changes, or threads go from any of them.
Next ==
  \/ \E f \in Forums :
       /\ \A g \in Forums \ {f} : board'[g] = board[g]
       /\ \E now \in {board'[f]} : Changed(board[f], now)
  \/ \A f \in Forums : Dropped(board[f], board'[f])

Spec == Init /\ [][Next]_board
=============================================================================

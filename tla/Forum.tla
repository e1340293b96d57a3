------------------------------- MODULE Forum -------------------------------
(***************************************************************************)
(* The public forums of db.c and html_forum.c.                             *)
(*                                                                         *)
(* "forums" is an array with one record per forum, and forum number f has  *)
(* a directory "forum<f>" of its own: a file of threads, which is a doubly *)
(* linked list and a free list over slots, and for every thread a file of  *)
(* posts, each of which starts with the offset of the next one.  How many  *)
(* threads a forum has is kept in three places, how many posts a thread    *)
(* has in three as well.  The forums of the empires are other files        *)
(* written by the same functions.                                          *)
(*                                                                         *)
(* A post is known by its length, which is all that moves it in its file.  *)
(***************************************************************************)
EXTENDS Integers, Sequences, FiniteSets, SequencesExt, Functions

CONSTANTS
  Post,       \* the lengths of posts
  MaxSlots,   \* bound on the slots of a file of threads
  MaxForums,  \* bound on the forums
  MaxPosts    \* bound on the posts in all the forums

ASSUME ForumConstants ==
  /\ Post \subseteq Nat \ {0}
  /\ MaxSlots \in Nat \ {0} /\ MaxForums \in Nat /\ MaxPosts \in Nat

VARIABLES
  index,   \* the file "forums": for every forum the number of its threads
  dir,     \* the directories that exist, by number
  moved    \* history: a forum that was not the last was deleted

vars == <<index, dir, moved>>

Slots == 0 .. MaxSlots - 1
Link  == Slots \cup {-1}

\* f with y at x, whether something was there or not.
Entered(f, x, y) == [z \in DOMAIN f \cup {x} |-> IF z = x THEN y ELSE f[z]]

-----------------------------------------------------------------------------
(* A file of posts: their number, the end of the last one, the number once  *)
(* more in the thread's record, and what is written where.                  *)

EmptyThread == [num |-> 0, end |-> 0, posts |-> 0, at |-> <<>>]

\* Bytes that are no post are read as one that leads nowhere.
At(file, o) == IF o \in DOMAIN file.at THEN file.at[o] ELSE [next |-> o, length |-> 0]

\* A post is written at an offset over whatever began inside it.
Put(file, o, p) ==
  LET over == o .. o + p
  IN [file EXCEPT !.at = Entered(Restrict(file.at, DOMAIN file.at \ over),
                                 o, [next |-> o + 1 + p, length |-> p])]

\* The offset of the k-th post, found by walking there from the first.
Offset(file, k) ==
  LET at[i \in 0 .. k] == IF i = 0 THEN 0 ELSE At(file, at[i - 1]).next IN at[k]
ListPosts(file) == [k \in 1 .. file.num |-> At(file, Offset(file, k - 1)).length]

Appended(file, p) ==
  [Put(file, file.end, p) EXCEPT !.num = file.num + 1, !.posts = file.posts + 1, !.end = file.end + 1 + p]

\* What lies behind the end is read no more.
Trimmed(file) == [file EXCEPT !.at = RestrictDomain(file.at, LAMBDA o : o < file.end)]

\* Every later post is read at its place and written where the one before it
\* was; the last place is the new end.
Move(s) == LET p == At(s.file, s.from)
           IN [file |-> Put(s.file, s.to, p.length), from |-> p.next, to |-> s.to + 1 + p.length]
Cut(file, k) ==
  LET o == Offset(file, k)
      n == file.num - k - 1
      s[i \in 0 .. n] == IF i = 0 THEN [file |-> file, from |-> At(file, o).next, to |-> o]
                         ELSE Move(s[i - 1])
  IN Trimmed([s[n].file EXCEPT !.num = file.num - 1, !.posts = file.posts - 1, !.end = s[n].to])

\* The later posts are held in memory and written again behind the new one.
Write(s, length) == [file |-> Put(s.file, s.to, length), to |-> s.to + 1 + length]
RewrittenWith(file, k, held) ==
  LET n == Len(held)
      s[i \in 0 .. n] == IF i = 0 THEN [file |-> file, to |-> Offset(file, k)] ELSE Write(s[i - 1], held[i])
  IN Trimmed([s[n].file EXCEPT !.end = s[n].to])

\* Mutant of Rewritten: the posts are held from this one on.
RewrittenTwice(file, k, p) ==
  RewrittenWith(file, k, <<p>> \o SubSeq(ListPosts(file), k + 1, file.num - 1))
Rewritten(file, k, p) ==
  RewrittenWith(file, k, <<p>> \o SubSeq(ListPosts(file), k + 2, file.num))

-----------------------------------------------------------------------------
(* A directory: the head of the file of threads, its slots, and the files   *)
(* of posts that exist.  A slot repeats the number of posts.                *)

Unused == [prev |-> -1, next |-> -1, free |-> FALSE, posts |-> 0]
NewForum == [num |-> 0, used |-> -1, free |-> -1, next |-> 0, threads |-> 0,
             slot |-> [t \in Slots |-> Unused], file |-> <<>>]

\* A link is written into a slot, if there is one to write it into.
Prev(slot, t, to) == IF t = -1 THEN slot ELSE [slot EXCEPT ![t].prev = to]
Onward(slot, t, to) == IF t = -1 THEN slot ELSE [slot EXCEPT ![t].next = to]

NewSlot(d) == IF d.free # -1 THEN d.free ELSE d.next

AddThread(d) ==
  LET t == NewSlot(d)
  IN [d EXCEPT !.num = d.num + 1, !.threads = d.threads + 1, !.used = t,
               !.free = IF d.free # -1 THEN d.slot[t].next ELSE -1,
               !.next = IF d.free # -1 THEN d.next ELSE d.next + 1,
               !.slot = Prev([d.slot EXCEPT ![t] = [Unused EXCEPT !.next = d.used]], d.used, t),
               !.file = Entered(d.file, t, EmptyThread)]

\* Mutant of Removable: whether the slot is in use is not asked.
RemovableAgain(d, t) == t < d.next
Removable(d, t) == t < d.next /\ ~d.slot[t].free

RemoveThread(d, t) ==
  LET s == d.slot[t]
      freed == [d.slot EXCEPT ![t] = [Unused EXCEPT !.free = TRUE, !.next = d.free]]
  IN [d EXCEPT !.num = d.num - 1, !.threads = d.threads - 1, !.free = t,
               !.used = IF s.prev = -1 THEN s.next ELSE d.used,
               !.slot = Prev(Onward(freed, s.prev, s.next), s.next, s.prev),
               !.file = Restrict(d.file, DOMAIN d.file \ {t})]


\* The thread goes to the front of the list.
Raised(d, t) ==
  IF d.used = t THEN d
  ELSE LET s   == d.slot[t]
           cut == Prev(Onward(d.slot, s.prev, s.next), s.next, s.prev)
       IN [d EXCEPT !.used = t,
                    !.slot = Prev([cut EXCEPT ![t].prev = -1, ![t].next = d.used], d.used, t)]

\* The thread's record is written into its file and into its slot.
WithThread(d, t, file) == [d EXCEPT !.file[t] = file, !.slot[t].posts = file.posts]

AddPost(d, t, p) == Raised(WithThread(d, t, Appended(d.file[t], p)), t)

\* The threads of a forum, by the walk of dbForumListThreads.
Following(d, t, k) ==
  LET at[i \in 0 .. k] == IF i = 0 THEN t ELSE IF at[i - 1] = -1 THEN -1 ELSE d.slot[at[i - 1]].next
  IN at[k]
Nth(d, k) == Following(d, d.used, k)
ListThreads(d) == [k \in 1 .. d.num |-> Nth(d, k - 1)]

-----------------------------------------------------------------------------
(* The handlers. *)

Posts(d) == FoldFunction(LAMBDA file, n : n + file.num, 0, d.file)
AllPosts == FoldFunction(LAMBDA d, n : n + Posts(d), 0, dir)

\* Only the file of threads is written where a directory is left over.
CreateForum ==
  LET f == Len(index)
  IN /\ f < MaxForums
     /\ index' = Append(index, 0)
     /\ dir' = Entered(dir, f, [NewForum EXCEPT !.file = IF f \in DOMAIN dir THEN dir[f].file ELSE <<>>])
     /\ UNCHANGED moved

\* The directory goes, the later records move down, and the directories are
\* renamed in the wrong place: they stay where they are.
DeleteForum(f) ==
  /\ f \in DOMAIN dir
  /\ dir' = Restrict(dir, DOMAIN dir \ {f})
  /\ index' = IF f < Len(index) THEN RemoveAt(index, f + 1) ELSE index
  /\ moved' = (moved \/ f < Len(index) - 1)

\* A thread is opened with its first post in it.
OpenThread(f) == \E p \in Post :
  LET d == AddThread(dir[f])
  IN /\ NewSlot(dir[f]) \in Slots /\ AllPosts < MaxPosts
     /\ dir' = [dir EXCEPT ![f] = AddPost(d, NewSlot(dir[f]), p)]
     /\ index' = IF f < Len(index) THEN [index EXCEPT ![f + 1] = d.threads] ELSE index
     /\ UNCHANGED moved

Reply(f, t) == \E p \in Post :
  /\ AllPosts < MaxPosts
  /\ dir' = [dir EXCEPT ![f] = AddPost(dir[f], t, p)]
  /\ UNCHANGED <<index, moved>>

EditPost(f, t) == \E k \in 0 .. dir[f].file[t].num - 1, p \in Post :
  /\ dir' = [dir EXCEPT ![f].file[t] = Rewritten(dir[f].file[t], k, p)]
  /\ UNCHANGED <<index, moved>>

\* Mutant of Without: the count in the index stays.
WithoutCounting(w, f, t) ==
  IF Removable(w.dir[f], t) THEN [w EXCEPT !.dir[f] = RemoveThread(w.dir[f], t)] ELSE w
\* A thread goes, with one of the count in the index.
Without(w, f, t) ==
  IF Removable(w.dir[f], t)
  THEN [dir   |-> [w.dir EXCEPT ![f] = RemoveThread(w.dir[f], t)],
        index |-> IF f < Len(w.index) THEN [w.index EXCEPT ![f + 1] = w.index[f + 1] - 1] ELSE w.index]
  ELSE w
Become(w) == dir' = w.dir /\ index' = w.index /\ UNCHANGED moved
Now == [dir |-> dir, index |-> index]

DeleteThread(f, t) == Removable(dir[f], t) /\ Become(Without(Now, f, t))

\* A thread goes with its last post.
DeletePost(f, t) == \E k \in 0 .. dir[f].file[t].num - 1 :
  LET w == [Now EXCEPT !.dir[f] = WithThread(dir[f], t, Cut(dir[f].file[t], k))]
  IN Become(IF dir[f].file[t].num = 1 THEN Without(w, f, t) ELSE w)

\* A moderator removes the threads of an author or an address, those of the
\* set S, from every forum of the index, the last in the list first.
Swept(w, f, S) ==
  LET threads == ListThreads(w.dir[f])
      n       == Len(threads)
      at[k \in 0 .. n] == IF k = 0 THEN w
                          ELSE IF <<f, threads[n + 1 - k]>> \in S THEN Without(at[k - 1], f, threads[n + 1 - k])
                          ELSE at[k - 1]
  IN IF f \in DOMAIN w.dir THEN at[n] ELSE w
Cleaned(w, S) ==
  LET at[f \in 0 .. Len(index)] == IF f = 0 THEN w ELSE Swept(at[f - 1], f - 1, S)
  IN at[Len(index)]
Clean == \E S \in SUBSET {x \in (DOMAIN dir) \X Slots : x[2] \in DOMAIN dir[x[1]].file} :
  Become(Cleaned(Now, S))

\* The first start creates the forums.
Init ==
  /\ index = [k \in 1 .. MaxForums |-> 0]
  /\ dir = [f \in 0 .. MaxForums - 1 |-> NewForum]
  /\ moved = FALSE

Next ==
  \/ CreateForum \/ Clean
  \/ \E f \in DOMAIN dir :
       \/ DeleteForum(f) \/ OpenThread(f)
       \/ \E t \in Slots : DeleteThread(f, t)
       \/ \E t \in DOMAIN dir[f].file : Reply(f, t) \/ EditPost(f, t) \/ DeletePost(f, t)

Spec == Init /\ [][Next]_vars

\* Bound: a run looks no further once directories and records are out of step.
InStep == ~moved

-----------------------------------------------------------------------------
(* Properties. *)

\* Every file by type; a thread has a file of posts when its slot is in use,
\* and a thread without posts, which no page could show, does not outlast the
\* request that made it so.
TypeOK ==
  /\ index \in Seq(Nat) /\ moved \in BOOLEAN
  /\ DOMAIN dir \subseteq 0 .. MaxForums - 1
  /\ \A f \in DOMAIN dir : LET d == dir[f] IN
       /\ d.used \in Link /\ d.free \in Link /\ d.next \in 0 .. MaxSlots
       /\ d.slot \in [Slots -> [prev: Link, next: Link, free: BOOLEAN, posts: Nat]]
       /\ DOMAIN d.file = {t \in Slots : t < d.next /\ ~d.slot[t].free}
       /\ \A t \in DOMAIN d.file : d.file[t].num > 0

\* The list of threads can be walked both ways, whatever was raised to the
\* front or removed, and it ends where its length says.
LinksMutual ==
  \A f \in DOMAIN dir : LET d == dir[f] threads == ListThreads(d) IN
    /\ \A k \in DOMAIN threads : threads[k] # -1 /\
         d.slot[threads[k]].prev = IF k = 1 THEN -1 ELSE threads[k - 1]
    /\ Nth(d, d.num) = -1

FreeSlot(d, k) == Following(d, d.free, k)

\* Every slot is listed or free and never both: a request sent twice, or from
\* a page that is out of date, frees no slot twice.
SlotsExact ==
  \A f \in DOMAIN dir : LET d == dir[f]
                           free == {FreeSlot(d, k) : k \in 0 .. d.next - d.num - 1} IN
    /\ ToSet(ListThreads(d)) \cap free = {}
    /\ ToSet(ListThreads(d)) \cup free = 0 .. d.next - 1
    /\ FreeSlot(d, d.next - d.num) = -1

\* The three counts of threads and the three counts of posts agree, and
\* every record of the index has its directory.
CountsAgree ==
  ~moved =>
    /\ DOMAIN dir = 0 .. Len(index) - 1
    /\ \A f \in DOMAIN dir : LET d == dir[f] IN
         /\ index[f + 1] = d.num /\ d.threads = d.num
         /\ \A t \in DOMAIN d.file : d.slot[t].posts = d.file[t].num /\ d.file[t].posts = d.file[t].num

\* The offsets of a file of posts lead through all of them to its end, where
\* the next post will be written.
ChainsReachTheEnd ==
  \A f \in DOMAIN dir : \A t \in DOMAIN dir[f].file :
    LET file == dir[f].file[t] IN Offset(file, file.num) = file.end

\* The links and offsets that every walk over the files relies on.
FilesSound == TypeOK /\ LinksMutual /\ SlotsExact /\ ChainsReachTheEnd

\* What the walks read is what Board promises: replies raise their thread,
\* and nothing else changes the order of threads or posts, or a post.
Read(f) ==
  IF f \notin DOMAIN dir THEN <<>>
  ELSE LET d == dir[f] threads == ListThreads(d)
       IN [k \in DOMAIN threads |-> [id |-> threads[k], posts |-> ListPosts(d.file[threads[k]])]]
Abstract == INSTANCE Board WITH board <- [f \in 0 .. MaxForums - 1 |-> Read(f)]
ImplementsBoard == Abstract!Spec
=============================================================================

-------------------------- MODULE RemoteMergeProofs --------------------------
(***************************************************************************)
(* Proofs about RemoteMerge: the type invariant, that nothing the cursor   *)
(* has passed is lost, and that the user's unacknowledged edit is          *)
(* untouched, for every set of animes and every bound.                     *)
(*                                                                         *)
(* A pass, and the echoes of an answer, are functions defined by recursion *)
(* over the changelog and the rows.  What they compute is proved from the  *)
(* least place at which it would be otherwise: the order of the naturals   *)
(* is well founded.                                                        *)
(***************************************************************************)
EXTENDS RemoteMerge, SequenceTheorems, FiniteSetTheorems, WellFoundedInduction, TLAPS

(***************************************************************************)
(* Induction over the naturals, as the existence of a least element, and   *)
(* what it gives of a function defined by recursion over 0..m.             *)
(***************************************************************************)
Less == {pair \in Nat \X Nat : pair[1] < pair[2]}

\* The order of the naturals, as a set of pairs, is well founded.
LEMMA LessIsWellFounded == IsWellFoundedOn(Less, Nat)
  BY NatLessThanWellFounded DEF OpToRel, Less

\* A set of naturals that is not empty has a least element.
LEMMA Least ==
  ASSUME NEW T \in SUBSET Nat, T # {}
  PROVE  \E x \in T : \A y \in T : x <= y
<1>1. PICK x \in T : \A y \in T : ~ (<<y, x>> \in Less)
  BY LessIsWellFounded, WFMin, Zenon
<1>2. ASSUME NEW y \in T PROVE x <= y
  <2>1. x \in Nat /\ y \in Nat
    OBVIOUS
  <2>2. <<y, x>> \notin Less
    BY <1>1
  <2>3. <<y, x>> \in Nat \X Nat
    BY <2>1
  <2>4. ~(y < x)
    BY <2>2, <2>3 DEF Less
  <2> QED BY <2>1, <2>4
<1> QED BY <1>2

\* A set that holds 0 and, with each number below m, the next one, holds 0..m.
LEMMA UpTo ==
  ASSUME NEW m \in Nat, NEW H, 0 \in H,
         \A n \in 1..m : n - 1 \in H => n \in H
  PROVE  0..m \subseteq H
<1> DEFINE T == (0..m) \ H
<1>1. SUFFICES ASSUME T # {} PROVE FALSE
  OBVIOUS
<1>2. T \in SUBSET Nat
  OBVIOUS
<1> HIDE DEF T
<1>3. PICK x \in T : \A y \in T : x <= y
  BY <1>1, <1>2, Least
<1> USE DEF T
<1>4. x \in 1..m /\ x \notin H
  OBVIOUS
<1>5. x - 1 \in 0..m /\ ~(x <= x - 1)
  BY <1>4
<1>6. x - 1 \in H
  BY <1>3, <1>5
<1> QED BY <1>4, <1>6

\* g takes the first n of the steps, from base on.
Takes(g, n, S, base, step) ==
  g \in [0..n -> S] /\ g[0] = base /\ \A i \in 1..n : g[i] = step[i][g[i - 1]]

\* A number of steps, each a function on S, can be taken one after the other.
LEMMA StepsCompose ==
  ASSUME NEW S, NEW m \in Nat, NEW base \in S, NEW step \in [1..m -> [S -> S]]
  PROVE  \E g : Takes(g, m, S, base, step)
<1> DEFINE H == {n \in 0..m : \E g : Takes(g, n, S, base, step)}
<1>1. 0 \in H
  <2> DEFINE g == [i \in 0..0 |-> base]
  <2>1. g \in [0..0 -> S]
    OBVIOUS
  <2>2. g[0] = base
    <3>1. 0 \in 0..0
      OBVIOUS
    <3> QED BY <3>1
  <2>3. \A i \in 1..0 : g[i] = step[i][g[i - 1]]
    OBVIOUS
  <2>4. 0 \in 0..m
    OBVIOUS
  <2> HIDE DEF g
  <2>5. Takes(g, 0, S, base, step)
    BY <2>1, <2>2, <2>3 DEF Takes
  <2> QED BY <2>4, <2>5
<1>2. ASSUME NEW n \in 1..m, n - 1 \in H PROVE n \in H
  <2>1. PICK g : Takes(g, n - 1, S, base, step)
    BY <1>2
  <2> DEFINE h == [i \in 0..n |-> IF i = n THEN step[n][g[n - 1]] ELSE g[i]]
  <2>2. g \in [0..(n - 1) -> S] /\ g[0] = base
    BY <2>1 DEF Takes
  <2>3. step[n][g[n - 1]] \in S
    BY <2>2
  <2>4. h \in [0..n -> S]
    BY <2>2, <2>3
  <2>5. h[0] = base
    BY <2>2
  <2>6. ASSUME NEW i \in 1..n PROVE h[i] = step[i][h[i - 1]]
    <3>1. i - 1 \in 0..(n - 1) /\ h[i - 1] = g[i - 1]
      OBVIOUS
    <3>2. CASE i = n
      BY <3>1, <3>2
    <3>3. CASE i # n
      <4>1. i \in 1..(n - 1) /\ h[i] = g[i]
        BY <3>3
      <4> QED BY <4>1, <3>1, <2>1 DEF Takes
    <3> QED BY <3>2, <3>3
  <2> HIDE DEF h
  <2>7. Takes(h, n, S, base, step)
    BY <2>4, <2>5, <2>6 DEF Takes
  <2> QED BY <2>7
<1> HIDE DEF H
<1>3. \A n \in 1..m : n - 1 \in H => n \in H
  BY <1>2
<1>4. 0..m \subseteq H
  BY <1>1, <1>3, UpTo
<1>5. m \in 0..m
  OBVIOUS
<1> QED BY <1>4, <1>5 DEF H

(***************************************************************************)
(* What the merge writes of one change, and of a pass.                     *)
(***************************************************************************)
FeedIds == 1..Len(feed)
Tables  == [Animes -> Anime]

\* A row that is written whole has the snapshot, and a guard that was given.
LEMMA UpsertedIsAnime ==
  ASSUME NEW x \in Anime, NEW snap \in Content, NEW g \in 0..MaxFeed, NEW t \in 0..MaxFeed
  PROVE  /\ Upserted(x, snap, g, t) \in Anime
         /\ Upserted(x, snap, g, t).here
         /\ \A f \in Known : Upserted(x, snap, g, t)[f] = snap[f]
         /\ Upserted(x, snap, g, t).guard = IF g # 0 THEN g ELSE x.guard
  BY DEF Upserted, Anime, Content, Known

\* A partial write has the snapshot in its fields, and the guard.
LEMMA PartialIsAnime ==
  ASSUME NEW x \in Anime, NEW snap \in Content, NEW g \in 0..MaxFeed, NEW fs \in SUBSET Known
  PROVE  /\ Partial(x, fs, snap, g) \in Anime
         /\ Partial(x, fs, snap, g).here = x.here
         /\ \A f \in Known : Partial(x, fs, snap, g)[f] = IF f \in fs THEN snap[f] ELSE x[f]
         /\ Partial(x, fs, snap, g).guard = g
  BY DEF Partial, Anime, Content, Known

\* A change is of an anime, one of three types, and has a snapshot.
LEMMA ChangeType ==
  ASSUME TypeOK, NEW c \in FeedIds
  PROVE  /\ feed[c] \in Change /\ feed[c].anime \in Animes /\ feed[c].snap \in Content
         /\ feed[c].type \in {"create", "update", "delete"}
         /\ feed[c].fields \in SUBSET Fields
         /\ c \in 1..MaxFeed /\ Len(feed) \in Nat /\ c \in Nat
<1>1. Len(feed) \in Nat /\ Len(feed) <= MaxFeed
  BY DEF TypeOK
<1>2. feed[c] \in Change
  BY DEF TypeOK, FeedIds
<1> QED BY <1>1, <1>2, RemoteMergeAssumption DEF Change, FeedIds

\* The known fields among the ones a change names.
Names(c) == feed[c].fields \cap Known
Touching(c, a) == feed[c].anime = a /\ (feed[c].type # "update" \/ Names(c) # {})

\* What an accepted change leaves of an anime: nothing of it if the change names no field
\* this build knows, else the change's values in the fields it touches, and its guard.
LEMMA AcceptedIsAnime ==
  ASSUME TypeOK, NEW x \in Anime, NEW c \in FeedIds, feed[c].type # "delete"
  PROVE  /\ Accepted(x, c) \in Anime
         /\ x.here => Accepted(x, c).here
         /\ \/ /\ Accepted(x, c) = x /\ x.here
               /\ feed[c].type = "update" /\ Names(c) = {}
            \/ /\ Accepted(x, c).here /\ Accepted(x, c).guard = c
               /\ \A f \in Known :
                    \/ Accepted(x, c)[f] = feed[c].snap[f]
                    \/ /\ Accepted(x, c)[f] = x[f] /\ x.here
                       /\ feed[c].type = "update" /\ f \notin feed[c].fields
<1>0. /\ feed[c].snap \in Content /\ c \in 1..MaxFeed /\ c \in 0..MaxFeed /\ 0 \in 0..MaxFeed
      /\ feed[c].type \in {"create", "update", "delete"} /\ c # 0 /\ x.here \in BOOLEAN
  BY ChangeType, RemoteMergeAssumption DEF Anime
<1>1. CASE feed[c].type = "create" \/ ~x.here
  <2>1. Accepted(x, c) = Upserted(x, feed[c].snap, c, 0)
    BY <1>1 DEF Accepted
  <2> QED BY <1>0, <2>1, UpsertedIsAnime
<1>2. CASE ~(feed[c].type = "create" \/ ~x.here) /\ Names(c) = {}
  <2>1. Accepted(x, c) = x
    BY <1>2 DEF Accepted, Names
  <2> QED BY <1>0, <1>2, <2>1
<1>3. CASE ~(feed[c].type = "create" \/ ~x.here) /\ Names(c) # {}
  <2>1. Accepted(x, c) = Partial(x, Names(c), feed[c].snap, c)
    BY <1>3 DEF Accepted, Names
  <2>2. Names(c) \in SUBSET Known
    BY DEF Names
  <2> QED BY <1>0, <1>3, <2>1, <2>2, PartialIsAnime DEF Names
<1> QED BY <1>1, <1>2, <1>3

\* The anime of a change is the only one a change writes.
LEMMA MergeOneIsTable ==
  ASSUME TypeOK, NEW table \in Tables, NEW c \in FeedIds
  PROVE  /\ MergeOne(table, c) \in Tables
         /\ \A a \in Animes :
              MergeOne(table, c)[a] = IF a # feed[c].anime THEN table[a]
                                      ELSE IF Decision(c) = "delete" THEN NoAnime
                                      ELSE IF Decision(c) = "apply" THEN Accepted(table[a], c)
                                      ELSE table[a]
<1> DEFINE b == feed[c].anime
<1>1. b \in Animes /\ table[b] \in Anime
  BY ChangeType DEF Tables
<1>2. NoAnime \in Anime
  BY RemoteMergeAssumption DEF NoAnime, Anime, Values
<1>3. CASE Decision(c) = "delete"
  <2>1. MergeOne(table, c) = [table EXCEPT ![b] = NoAnime]
    BY <1>3 DEF MergeOne
  <2> QED BY <1>1, <1>2, <1>3, <2>1 DEF Tables
<1>4. CASE Decision(c) = "apply"
  <2>1. MergeOne(table, c) = [table EXCEPT ![b] = Accepted(table[b], c)]
    BY <1>4 DEF MergeOne
  <2>2. feed[c].type # "delete"
    BY <1>4 DEF Decision
  <2>3. Accepted(table[b], c) \in Anime
    BY <1>1, <2>2, AcceptedIsAnime
  <2> QED BY <1>1, <1>4, <2>1, <2>3 DEF Tables
<1>5. CASE Decision(c) \notin {"delete", "apply"}
  <2>1. MergeOne(table, c) = table
    BY <1>5 DEF MergeOne
  <2> QED BY <1>5, <2>1
<1> QED BY <1>3, <1>4, <1>5

\* The pass as a recursion: it exists, and each of its tables is one step after the last.
LEMMA MergedSteps ==
  ASSUME TypeOK, NEW changes \in SUBSET FeedIds, NEW g, g = MergedUpTo(changes)
  PROVE  /\ g[0] = local
         /\ \A n \in FeedIds : /\ g[n - 1] \in Tables
                               /\ g[n] = IF n \in changes THEN MergeOne(g[n - 1], n) ELSE g[n - 1]
         /\ g[Len(feed)] \in Tables
<1> DEFINE m == Len(feed)
           Next1(t, n) == IF n \in changes THEN MergeOne(t, n) ELSE t
           step == [n \in 1..m |-> [t \in Tables |-> Next1(t, n)]]
           Rec(h) == [n \in 0..m |-> IF n = 0 THEN local
                        ELSE IF n \in changes THEN MergeOne(h[n - 1], n) ELSE h[n - 1]]
<1>1. m \in Nat /\ local \in Tables
  BY DEF TypeOK, Tables
<1>2. \A n \in 1..m : \A t \in Tables : Next1(t, n) \in Tables
  BY MergeOneIsTable DEF FeedIds
<1>3. step \in [1..m -> [Tables -> Tables]]
  BY <1>2
<1>4. \A n \in 1..m : \A t \in Tables : step[n][t] = Next1(t, n)
  OBVIOUS
<1>5. PICK h : Takes(h, m, Tables, local, step)
  <2> HIDE DEF step
  <2> QED BY <1>1, <1>3, StepsCompose
<1>6. h = Rec(h)
  <2> HIDE DEF step, m
  <2>1. h \in [0..m -> Tables] /\ h[0] = local /\ \A n \in 1..m : h[n] = step[n][h[n - 1]]
    BY <1>5 DEF Takes
  <2>2. ASSUME NEW n \in 1..m PROVE h[n] = Next1(h[n - 1], n)
    <3>1. n - 1 \in 0..m
      BY <1>1
    <3> QED BY <3>1, <2>1, <1>4
  <2>3. \A n \in 0..m : h[n] = IF n = 0 THEN local ELSE Next1(h[n - 1], n)
    BY <1>1, <2>1, <2>2
  <2> QED BY <2>1, <2>3
<1>7. g = CHOOSE k : k = Rec(k)
  BY DEF MergedUpTo
<1>8. g = Rec(g)
  <2> HIDE DEF Rec
  <2> QED BY <1>6, <1>7
<1>9. g[0] = local /\ \A n \in 1..m : g[n] = Next1(g[n - 1], n)
  BY <1>1, <1>8
<1>10. 0..m \subseteq {n \in Nat : g[n] \in Tables}
  <2> DEFINE H == {n \in Nat : g[n] \in Tables}
  <2>1. 0 \in H
    BY <1>1, <1>9
  <2>2. \A n \in 1..m : n - 1 \in H => n \in H
    <3> HIDE DEF m, Next1
    <3> QED BY <1>1, <1>2, <1>9
  <2> HIDE DEF H
  <2>3. 0..m \subseteq H
    BY <1>1, <2>1, <2>2, UpTo
  <2> QED BY <2>3 DEF H
<1>11. ASSUME NEW n \in FeedIds PROVE g[n - 1] \in Tables
  <2>1. n - 1 \in 0..m
    BY <1>1 DEF FeedIds
  <2> QED BY <2>1, <1>10
<1>12. g[Len(feed)] \in Tables
  BY <1>1, <1>10
<1> QED BY <1>9, <1>11, <1>12 DEF FeedIds

DeletesIn(a, changes) == {d \in changes : feed[d].anime = a /\ feed[d].type = "delete"}
OfIn(a, changes) == {c \in changes : feed[c].anime = a}

\* Nothing happens to an anime after its deletion.
NothingAfterDelete ==
  \A k \in FeedIds : \A c \in 1..(k - 1) :
    feed[c].anime = feed[k].anime => feed[c].type # "delete"

\* What a pass has made of anime a, as x, after those of its changes that are up to n.
\* The changes of a that the pass applies are later than the guard; x has the latest of them
\* as its guard, shows every field as some change of the pass has it that is no older than
\* any change of the pass that touches the field, or as it was.
FromPass(a, f, changes, from, n, x) ==
  \E k \in OfIn(a, changes) : from <= k /\ k <= n /\ x[f] = feed[k].snap[f]
PassOver(a, changes, n, x) ==
  /\ local[a].here => x.here
  /\ \/ x.guard = local[a].guard
     \/ /\ x.guard \in OfIn(a, changes) /\ x.guard <= n /\ x.here
        /\ local[a].guard < x.guard
  /\ \A f \in Known : \/ x[f] = local[a][f] /\ x.here = local[a].here
                      \/ x.here /\ FromPass(a, f, changes, local[a].guard + 1, n, x)
  /\ \A e \in OfIn(a, changes) :
       e <= n /\ local[a].guard < e /\ (feed[e].type # "update" \/ Names(e) # {})
       => /\ x.here /\ e <= x.guard
          /\ \A f \in Known : (feed[e].type # "update" \/ f \in feed[e].fields)
                                => FromPass(a, f, changes, e, n, x)
PassFacts(a, changes, n, x) ==
  /\ x \in Anime
  /\ ~x.here => x.guard = 0
  /\ \A d \in DeletesIn(a, changes) : d <= n => x = NoAnime
  /\ (\A d \in DeletesIn(a, changes) : ~(d <= n)) =>
       IF a \in UnackedAnimes THEN x = local[a] ELSE PassOver(a, changes, n, x)

\* What a pass decides about a change.
LEMMA Decided ==
  ASSUME TypeOK, NEW c \in FeedIds
  PROVE  /\ Decision(c) = "delete" <=> feed[c].type = "delete"
         /\ Decision(c) = "apply" <=> /\ feed[c].type # "delete"
                                      /\ feed[c].anime \notin UnackedAnimes
                                      /\ local[feed[c].anime].guard < c
         /\ Decision(c) = "defer_outbox" <=> /\ feed[c].type # "delete"
                                             /\ feed[c].anime \in UnackedAnimes
<1>1. c \in Nat /\ c # 0 /\ local[feed[c].anime].guard \in Nat
  BY ChangeType, RemoteMergeAssumption DEF TypeOK, Anime
<1>2. IsStale(c, local[feed[c].anime].guard) <=> ~(local[feed[c].anime].guard < c)
  BY <1>1 DEF IsStale
<1>3. CASE feed[c].type = "delete"
  <2>1. Decision(c) = "delete"
    BY <1>3 DEF Decision
  <2> QED BY <1>3, <2>1
<1>4. CASE feed[c].type # "delete" /\ feed[c].anime \in UnackedAnimes
  <2>1. Decision(c) = "defer_outbox"
    BY <1>4 DEF Decision
  <2> QED BY <1>4, <2>1
<1>5. CASE feed[c].type # "delete" /\ feed[c].anime \notin UnackedAnimes /\ local[feed[c].anime].guard < c
  <2>1. Decision(c) = "apply"
    BY <1>2, <1>5 DEF Decision
  <2> QED BY <1>5, <2>1
<1>6. CASE feed[c].type # "delete" /\ feed[c].anime \notin UnackedAnimes /\ ~(local[feed[c].anime].guard < c)
  <2>1. Decision(c) = "drop_stale"
    BY <1>2, <1>6 DEF Decision
  <2> QED BY <1>6, <2>1
<1> QED BY <1>3, <1>4, <1>5, <1>6

\* Before the first change, an anime is as it was.
LEMMA PassStarts ==
  ASSUME TypeOK, NEW a \in Animes, NEW changes \in SUBSET FeedIds,
         ~local[a].here => local[a].guard = 0
  PROVE  PassFacts(a, changes, 0, local[a])
<1>1. local[a] \in Anime /\ local[a].guard \in Nat
  BY RemoteMergeAssumption DEF TypeOK, Anime
<1>2. \A c \in changes : c \in Nat /\ ~(c <= 0)
  BY ChangeType DEF FeedIds
<1>3. PassOver(a, changes, 0, local[a])
  BY <1>1, <1>2 DEF PassOver, OfIn
<1> QED BY <1>1, <1>2, <1>3 DEF PassFacts, DeletesIn

\* A change that is not in the pass, or of another anime, or dropped, or deferred, or one
\* that names no known field, changes nothing.
LEMMA PassSkips ==
  ASSUME TypeOK, NEW a \in Animes, NEW changes \in SUBSET FeedIds, NEW n \in FeedIds,
         NEW x, PassFacts(a, changes, n - 1, x),
         \/ n \notin changes
         \/ feed[n].anime # a
         \/ feed[n].type # "delete" /\ a \in UnackedAnimes
         \/ feed[n].type # "delete" /\ ~(local[a].guard < n)
         \/ feed[n].type = "update" /\ Names(n) = {}
  PROVE  PassFacts(a, changes, n, x)
<1>1. n \in Nat /\ n # 0 /\ \A c \in changes : c \in Nat /\ (c <= n <=> c <= n - 1 \/ c = n)
  BY ChangeType DEF FeedIds
<1>2. \A d \in DeletesIn(a, changes) : d <= n <=> d <= n - 1
  BY <1>1 DEF DeletesIn
<1>3. ASSUME PassOver(a, changes, n - 1, x), a \notin UnackedAnimes
      PROVE  PassOver(a, changes, n, x)
  <2>0. local[a].guard \in Nat
    BY RemoteMergeAssumption DEF TypeOK, Anime
  <2>1. ASSUME NEW f, NEW e \in Nat, FromPass(a, f, changes, e, n - 1, x)
        PROVE  FromPass(a, f, changes, e, n, x)
    BY <1>1, <2>1 DEF FromPass, OfIn
  <2>2. ASSUME NEW e \in OfIn(a, changes), e <= n, local[a].guard < e, feed[e].type # "update" \/ Names(e) # {}
        PROVE  e <= n - 1
    BY <1>1, <1>3, <2>2 DEF OfIn
  <2>3. \A e \in OfIn(a, changes) : e \in Nat /\ (e <= n - 1 => e <= n)
    BY <1>1 DEF OfIn
  <2> QED BY <1>1, <1>3, <2>0, <2>1, <2>2, <2>3 DEF PassOver
<1> QED BY <1>2, <1>3 DEF PassFacts

\* A deletion removes the anime.
LEMMA PassDeletes ==
  ASSUME TypeOK, NEW a \in Animes, NEW changes \in SUBSET FeedIds, NEW n \in changes,
         feed[n].anime = a, feed[n].type = "delete"
  PROVE  PassFacts(a, changes, n, NoAnime)
<1>1. NoAnime \in Anime /\ NoAnime.guard = 0
  BY RemoteMergeAssumption DEF NoAnime, Anime, Values
<1>2. n \in DeletesIn(a, changes) /\ n <= n
  BY ChangeType DEF DeletesIn
<1> QED BY <1>1, <1>2 DEF PassFacts

\* An accepted change is written over what the pass has made of the anime.
LEMMA PassApplies ==
  ASSUME TypeOK, NothingAfterDelete, NEW a \in Animes, NEW changes \in SUBSET FeedIds,
         NEW n \in changes, feed[n].anime = a, feed[n].type # "delete",
         a \notin UnackedAnimes, local[a].guard < n,
         NEW x, PassFacts(a, changes, n - 1, x),
         ~(feed[n].type = "update" /\ Names(n) = {} /\ x.here)
  PROVE  PassFacts(a, changes, n, Accepted(x, n))
<1> DEFINE y == Accepted(x, n)
<1>0. n \in FeedIds /\ n \in Nat /\ n # 0 /\ local[a].guard \in Nat
  BY ChangeType, RemoteMergeAssumption DEF FeedIds, TypeOK, Anime
<1>1. \A c \in changes : c \in Nat /\ c \in FeedIds /\ (c <= n <=> c <= n - 1 \/ c = n)
  BY ChangeType DEF FeedIds
<1>2. \A d \in DeletesIn(a, changes) : ~(d <= n)
  <2>1. SUFFICES ASSUME NEW d \in changes, feed[d].anime = a, feed[d].type = "delete", d <= n
                 PROVE  FALSE
    BY DEF DeletesIn
  <2>2. d # n
    BY <2>1
  <2>3. d \in 1..(n - 1)
    BY <1>0, <1>1, <2>1, <2>2 DEF FeedIds
  <2> QED BY <1>0, <2>1, <2>3 DEF NothingAfterDelete
<1>3. PassOver(a, changes, n - 1, x) /\ x \in Anime
  <2>1. \A d \in DeletesIn(a, changes) : ~(d <= n - 1)
    BY <1>0, <1>1, <1>2 DEF DeletesIn
  <2> QED BY <2>1 DEF PassFacts
<1>4. /\ y \in Anime /\ y.here /\ y.guard = n
      /\ \A f \in Known : \/ y[f] = feed[n].snap[f]
                          \/ /\ y[f] = x[f] /\ x.here
                             /\ feed[n].type = "update" /\ f \notin feed[n].fields
  <2>1. x \in Anime
    BY <1>3
  <2> QED BY <1>0, <2>1, AcceptedIsAnime
<1> HIDE DEF y
<1>5. n \in OfIn(a, changes) /\ n <= n
  BY <1>0 DEF OfIn
<1>6. ASSUME NEW f \in Known, NEW e \in Nat, FromPass(a, f, changes, e, n - 1, x), e <= n, x.here
      PROVE  FromPass(a, f, changes, e, n, y)
  <2>1. CASE y[f] = feed[n].snap[f]
    BY <1>5, <1>6, <2>1 DEF FromPass
  <2>2. CASE y[f] = x[f]
    <3>1. PICK k \in OfIn(a, changes) : e <= k /\ k <= n - 1 /\ x[f] = feed[k].snap[f]
      BY <1>6 DEF FromPass
    <3>2. k <= n
      BY <1>1, <3>1 DEF OfIn
    <3> QED BY <2>2, <3>1, <3>2 DEF FromPass
  <2> QED BY <1>4, <2>1, <2>2
<1>7. ASSUME NEW f \in Known
      PROVE  \/ y[f] = local[a][f] /\ y.here = local[a].here
             \/ y.here /\ FromPass(a, f, changes, local[a].guard + 1, n, y)
  <2>0. local[a].guard + 1 \in Nat /\ local[a].guard + 1 <= n
    BY <1>0
  <2>1. CASE y[f] = feed[n].snap[f]
    BY <1>4, <1>5, <2>0, <2>1 DEF FromPass
  <2>2. CASE y[f] = x[f] /\ x.here
    <3>1. CASE x[f] = local[a][f] /\ x.here = local[a].here
      <4>1. y.here = x.here
        <5>1. y.here \in BOOLEAN /\ x.here \in BOOLEAN
          BY <1>3, <1>4 DEF Anime
        <5> QED BY <1>4, <2>2, <5>1
      <4> QED BY <2>2, <3>1, <4>1
    <3>2. CASE FromPass(a, f, changes, local[a].guard + 1, n - 1, x)
      BY <1>4, <1>6, <2>0, <2>2, <3>2
    <3> QED BY <1>3, <3>1, <3>2 DEF PassOver
  <2> QED BY <1>4, <2>1, <2>2
<1>8. ASSUME NEW e \in OfIn(a, changes), e <= n, local[a].guard < e,
             feed[e].type # "update" \/ Names(e) # {},
             NEW f \in Known, feed[e].type # "update" \/ f \in feed[e].fields
      PROVE  FromPass(a, f, changes, e, n, y)
  <2>1. CASE e = n
    <3>1. y[f] = feed[n].snap[f]
      BY <1>4, <1>8, <2>1
    <3> QED BY <1>5, <2>1, <3>1 DEF FromPass
  <2>2. CASE e # n
    <3>1. e <= n - 1 /\ e \in Nat
      BY <1>1, <1>8, <2>2 DEF OfIn
    <3>2. x.here /\ FromPass(a, f, changes, e, n - 1, x)
      BY <1>3, <1>8, <3>1 DEF PassOver
    <3> QED BY <1>6, <1>8, <3>1, <3>2
  <2> QED BY <2>1, <2>2
<1>9. PassOver(a, changes, n, y)
  BY <1>4, <1>5, <1>7, <1>8 DEF PassOver
<1> QED BY <1>2, <1>4, <1>9 DEF PassFacts, y

\* One step of the pass.
LEMMA PassStep ==
  ASSUME TypeOK, NothingAfterDelete, NEW a \in Animes, NEW changes \in SUBSET FeedIds,
         NEW n \in FeedIds, NEW t \in Tables, PassFacts(a, changes, n - 1, t[a])
  PROVE  PassFacts(a, changes, n, (IF n \in changes THEN MergeOne(t, n) ELSE t)[a])
<1>1. CASE n \notin changes \/ feed[n].anime # a
  <2>1. (IF n \in changes THEN MergeOne(t, n) ELSE t)[a] = t[a]
    BY <1>1, MergeOneIsTable
  <2> QED BY <1>1, <2>1, PassSkips
<1>2. CASE n \in changes /\ feed[n].anime = a /\ Decision(n) = "delete"
  <2>1. (IF n \in changes THEN MergeOne(t, n) ELSE t)[a] = NoAnime
    BY <1>2, MergeOneIsTable
  <2>2. feed[n].type = "delete"
    BY <1>2, Decided
  <2> QED BY <1>2, <2>1, <2>2, PassDeletes
<1>3. CASE n \in changes /\ feed[n].anime = a /\ Decision(n) = "apply"
  <2>1. (IF n \in changes THEN MergeOne(t, n) ELSE t)[a] = Accepted(t[a], n)
    BY <1>3, MergeOneIsTable
  <2>2. feed[n].type # "delete" /\ a \notin UnackedAnimes /\ local[a].guard < n
    BY <1>3, Decided
  <2>3. CASE feed[n].type = "update" /\ Names(n) = {} /\ t[a].here
    <3>1. Accepted(t[a], n) = t[a]
      BY <2>3 DEF Accepted, Names
    <3> QED BY <2>1, <2>3, <3>1, PassSkips
  <2>4. CASE ~(feed[n].type = "update" /\ Names(n) = {} /\ t[a].here)
    BY <1>3, <2>1, <2>2, <2>4, PassApplies
  <2> QED BY <2>3, <2>4
<1>4. CASE n \in changes /\ feed[n].anime = a /\ Decision(n) \notin {"delete", "apply"}
  <2>1. (IF n \in changes THEN MergeOne(t, n) ELSE t)[a] = t[a]
    BY <1>4, MergeOneIsTable
  <2>2. feed[n].type # "delete" /\ (a \in UnackedAnimes \/ ~(local[a].guard < n))
    BY <1>4, Decided
  <2> QED BY <2>1, <2>2, PassSkips
<1> QED BY <1>1, <1>2, <1>3, <1>4

\* What a whole pass makes of an anime.
LEMMA PassMerges ==
  ASSUME TypeOK, NothingAfterDelete, NEW a \in Animes, NEW changes \in SUBSET FeedIds,
         ~local[a].here => local[a].guard = 0
  PROVE  Merged(changes) \in Tables /\ PassFacts(a, changes, Len(feed), Merged(changes)[a])
<1> DEFINE g == MergedUpTo(changes)
           H == {n \in Nat : n <= Len(feed) => PassFacts(a, changes, n, g[n][a])}
<1>1. /\ g[0] = local /\ g[Len(feed)] \in Tables
      /\ \A n \in FeedIds : /\ g[n - 1] \in Tables
                            /\ g[n] = IF n \in changes THEN MergeOne(g[n - 1], n) ELSE g[n - 1]
  BY MergedSteps
<1>2. Len(feed) \in Nat
  BY DEF TypeOK
<1> HIDE DEF g
<1>3. 0 \in H
  BY <1>1, PassStarts
<1>4. ASSUME NEW n \in 1..Len(feed), n - 1 \in H PROVE n \in H
  <2>1. n \in FeedIds /\ n \in Nat /\ n - 1 <= Len(feed)
    BY <1>2 DEF FeedIds
  <2>2. PassFacts(a, changes, n - 1, g[n - 1][a]) /\ g[n - 1] \in Tables
    BY <1>1, <1>4, <2>1
  <2>3. PassFacts(a, changes, n, g[n][a])
    BY <1>1, <2>1, <2>2, PassStep
  <2> QED BY <2>1, <2>3
<1>5. 0..Len(feed) \subseteq H
  <2> HIDE DEF H
  <2>1. \A n \in 1..Len(feed) : n - 1 \in H => n \in H
    BY <1>4
  <2> QED BY <1>2, <1>3, <2>1, UpTo
<1>6. Len(feed) \in H
  <2>1. Len(feed) \in 0..Len(feed)
    BY <1>2
  <2> QED BY <1>5, <2>1
<1>7. PassFacts(a, changes, Len(feed), g[Len(feed)][a])
  BY <1>2, <1>6
<1>8. Merged(changes) = g[Len(feed)]
  BY DEF Merged, g
<1> QED BY <1>1, <1>7, <1>8

(***************************************************************************)
(* The changelog, and what the table shows of it.                          *)
(***************************************************************************)
\* A set of naturals that has a bound and is not empty has a greatest element.
LEMMA Greatest ==
  ASSUME NEW m \in Nat, NEW T \in SUBSET (1..m), T # {}
  PROVE  \E x \in T : \A y \in T : y <= x
<1> DEFINE U == {i \in Nat : i <= m /\ m - i \in T}
<1>1. U # {}
  <2>1. PICK x \in T : TRUE
    OBVIOUS
  <2>2. m - x \in U
    BY <2>1
  <2> QED BY <2>2
<1>2. U \in SUBSET Nat
  OBVIOUS
<1> HIDE DEF U
<1>3. PICK u \in U : \A v \in U : u <= v
  BY <1>1, <1>2, Least
<1> USE DEF U
<1>4. u \in Nat /\ u <= m /\ m - u \in T
  BY <1>3
<1>5. ASSUME NEW y \in T PROVE y <= m - u
  <2>1. m - y \in U
    OBVIOUS
  <2>2. u <= m - y
    BY <1>3, <2>1
  <2> QED BY <1>4, <2>2
<1> QED BY <1>4, <1>5

\* The last change of an anime among the first n of a history.
LastIn(h, a, n) == LET of == {k \in 1..n : h[k].anime = a}
                   IN IF of = {} THEN 0 ELSE CHOOSE k \in of : \A j \in of : j <= k

\* It is one of them, and none of them is later.
LEMMA LastInIs ==
  ASSUME NEW h, NEW a, NEW n \in Nat
  PROVE  /\ LastIn(h, a, n) \in 0..n
         /\ \A k \in 1..n : h[k].anime = a => k <= LastIn(h, a, n) /\ LastIn(h, a, n) # 0
         /\ LastIn(h, a, n) # 0 => LastIn(h, a, n) \in 1..n /\ h[LastIn(h, a, n)].anime = a
<1> DEFINE of == {k \in 1..n : h[k].anime = a}
<1>1. CASE of = {}
  <2>1. LastIn(h, a, n) = 0
    BY <1>1 DEF LastIn
  <2> QED BY <1>1, <2>1
<1>2. CASE of # {}
  <2>1. LastIn(h, a, n) = CHOOSE k \in of : \A j \in of : j <= k
    BY <1>2 DEF LastIn
  <2>2. of \in SUBSET (1..n)
    OBVIOUS
  <2>3. \E k \in of : \A j \in of : j <= k
    <3> HIDE DEF of
    <3> QED BY <1>2, <2>2, Greatest
  <2>4. LastIn(h, a, n) \in of /\ \A j \in of : j <= LastIn(h, a, n)
    <3> HIDE DEF of
    <3> QED BY <2>1, <2>3
  <2> QED BY <2>4
<1> QED BY <1>1, <1>2

\* The last change of an anime among the first n.
LEMMA LastChangeIs ==
  ASSUME NEW a, NEW n \in Nat
  PROVE  /\ LastChange(a, n) \in 0..n
         /\ \A k \in 1..n : feed[k].anime = a => k <= LastChange(a, n) /\ LastChange(a, n) # 0
         /\ LastChange(a, n) # 0 => LastChange(a, n) \in 1..n /\ feed[LastChange(a, n)].anime = a
<1>1. LastChange(a, n) = LastIn(feed, a, n)
  BY DEF LastChange, LastIn
<1> QED BY <1>1, LastInIs

Deletes(a) == DeletesIn(a, FeedIds)

\* An anime the bridge has had and deleted is one it does not have.
LEMMA DeletedIsGone ==
  ASSUME TypeOK, NothingAfterDelete, NEW a, NEW n \in 0..Len(feed), NEW d \in Deletes(a), d <= n
  PROVE  ~Exists(a, n) /\ LastChange(a, n) = d
<1>1. d \in 1..n /\ d \in FeedIds /\ feed[d].anime = a /\ feed[d].type = "delete" /\ n \in Nat /\ Len(feed) \in Nat
  BY DEF Deletes, DeletesIn, FeedIds, TypeOK
<1>2. d <= LastChange(a, n) /\ LastChange(a, n) \in 1..n /\ feed[LastChange(a, n)].anime = a
  BY <1>1, LastChangeIs
<1>3. ~(d < LastChange(a, n))
  <2>1. SUFFICES ASSUME d < LastChange(a, n) PROVE FALSE
    OBVIOUS
  <2>2. LastChange(a, n) \in FeedIds /\ d \in 1..(LastChange(a, n) - 1)
    BY <1>1, <1>2, <2>1 DEF FeedIds
  <2> QED BY <1>1, <1>2, <2>2 DEF NothingAfterDelete
<1>4. LastChange(a, n) = d
  BY <1>1, <1>2, <1>3
<1> QED BY <1>1, <1>4 DEF Exists

\* An anime of which there are changes has its last one, and is there unless that is a deletion.
LEMMA LastIsThere ==
  ASSUME TypeOK, NEW a, NEW n \in 0..Len(feed), NEW c \in 1..n, feed[c].anime = a
  PROVE  /\ LastChange(a, n) \in 1..n /\ LastChange(a, n) \in FeedIds /\ c <= LastChange(a, n)
         /\ feed[LastChange(a, n)].anime = a
         /\ ~Exists(a, n) => LastChange(a, n) \in Deletes(a)
<1>1. n \in Nat /\ Len(feed) \in Nat
  BY DEF TypeOK
<1>2. LastChange(a, n) \in 1..n /\ c <= LastChange(a, n) /\ feed[LastChange(a, n)].anime = a /\ LastChange(a, n) # 0
  BY <1>1, LastChangeIs
<1>3. LastChange(a, n) \in FeedIds
  BY <1>1, <1>2 DEF FeedIds
<1> QED BY <1>2, <1>3 DEF Exists, Deletes, DeletesIn

\* A snapshot the bridge can give is the one of the last change, which is no deletion.
LEMMA SnapshotIs ==
  ASSUME TypeOK, NEW a, NEW n \in 0..Len(feed), Exists(a, n)
  PROVE  /\ LastChange(a, n) \in FeedIds /\ LastChange(a, n) \in 1..n
         /\ feed[LastChange(a, n)].anime = a /\ feed[LastChange(a, n)].type # "delete"
         /\ Snapshot(a, n) = feed[LastChange(a, n)].snap /\ Snapshot(a, n) \in Content
         /\ \A k \in 1..n : feed[k].anime = a => k <= LastChange(a, n)
<1>1. n \in Nat /\ Len(feed) \in Nat
  BY DEF TypeOK
<1>2. LastChange(a, n) # 0 /\ feed[LastChange(a, n)].type # "delete"
  BY DEF Exists
<1>3. LastChange(a, n) \in 1..n /\ feed[LastChange(a, n)].anime = a
  BY <1>1, <1>2, LastChangeIs
<1>4. LastChange(a, n) \in FeedIds
  BY <1>1, <1>3 DEF FeedIds
<1>5. Snapshot(a, n) = feed[LastChange(a, n)].snap
  BY DEF Snapshot
<1>6. feed[LastChange(a, n)].snap \in Content
  BY <1>4, ChangeType
<1> QED BY <1>1, <1>2, <1>3, <1>4, <1>5, <1>6, LastChangeIs

(***************************************************************************)
(* The invariant.                                                          *)
(***************************************************************************)
Unsettled == Unacked \cup {"given_up"}

\* The table shows field f of anime a as a change from e on has it.
Covered(a, f, e) == \E k \in FeedIds : e <= k /\ feed[k].anime = a /\ Shows(a, f, k)
\* What the table shows of the edited field is the user's newest edit, still unsettled.
Own(a) == \E j \in RowIds : /\ rows[j].anime = a /\ rows[j].status \in Unsettled
                            /\ local[a].seen = EditValue(j)
                            /\ \A i \in RowIds : rows[i].anime = a => i <= j
Kept(a, f, e) == Covered(a, f, e) \/ (f = "seen" /\ Own(a))

\* The anime is not in the table, and the bridge has deleted it.
Gone(a) == ~local[a].here /\ Deletes(a) # {}
\* The bridge has deleted it, and the next pass that finds a change of it finds that one.
Doomed(a) ==
  \E d \in Deletes(a) :
    \/ d \in staged
    \/ cursor = 0 /\ \A r \in Runtimes : cyc[r].pc = "answered" => d <= cyc[r].upto

\* A change the cursor has passed, or that comes before a staged one of the same anime.
Reached(a, e) == e <= cursor \/ \E c \in staged : feed[c].anime = a /\ e <= c
\* A change the snapshot of the pairing has, older than what is staged from before it.
Under(a, e) == /\ cursor = 0
               /\ \A c \in staged : feed[c].anime = a => e < c
               /\ \A f \in Known : Touches(e, a, f) => Kept(a, f, e)

GuardShown(a) ==
  \A f \in Known : \A e \in FeedIds : e <= local[a].guard /\ Touches(e, a, f) => Kept(a, f, e)
Accounted(a) ==
  \A e \in FeedIds : Touching(e, a) /\ Reached(a, e) =>
    e \in staged \/ e <= local[a].guard \/ Under(a, e)

\* Every change up to the guard of an anime is shown, unless a deletion is to come.
GuardShows == paired => \A a \in Animes \ drift : Doomed(a) \/ GuardShown(a)
\* Every change the cursor has passed is staged or behind the guard of its anime.
CursorShows ==
  paired => \A a \in Animes : (a \notin drift \/ Exists(a, Len(feed))) =>
              Gone(a) \/ Doomed(a) \/ Accounted(a)

ComesFromFeed ==
  /\ \A a \in Animes : local[a].here => \E c \in FeedIds : feed[c].anime = a
  /\ \A a \in Animes : ~local[a].here => local[a].guard = 0
  /\ \A a \in Animes : local[a].guard # 0 =>
       local[a].guard \in FeedIds /\ feed[local[a].guard].anime = a
  /\ \A a \in drift : local[a].here
  /\ \A i \in RowIds : \E c \in FeedIds : feed[c].anime = rows[i].anime

RequestsBehind ==
  /\ \A r \in Runtimes : cyc[r].send \subseteq RowIds
  /\ \A r \in Runtimes : cyc[r].pc # "idle" => cyc[r].since <= Len(feed) /\ (paired => cyc[r].since <= cursor)
  /\ \A r \in Runtimes : cyc[r].pc = "answered" => cyc[r].since <= cyc[r].upto /\ cyc[r].upto <= Len(feed)
  /\ heal.upto <= Len(feed)
  /\ \A a \in Animes : /\ keep[a].upto <= Len(feed)
                       /\ keep[a].pc = "fetched" => \E c \in 1..keep[a].upto : feed[c].anime = a

\* What a pairing finds, and what is staged from before it.
UnpairedIsQuiet ==
  ~paired => /\ \A i \in RowIds : rows[i].status = "deleted"
             /\ \A c1, c2 \in staged : \A e \in FeedIds : c1 <= e /\ e <= c2 => e \in staged
             /\ staged # {} => cyc["native"].pc = "idle"
PairingIsAlone ==
  pairing.pc = "fetched" =>
    /\ ~paired /\ pairing.upto <= Len(feed)
    /\ \A r \in Runtimes : cyc[r].pc = "idle"
    /\ heal.pc = "idle" /\ \A a \in Animes : keep[a].pc = "idle"
    /\ \A c \in staged : c <= pairing.upto
    /\ \A a \in Animes : local[a].guard <= pairing.upto
    /\ \A a \in Animes : local[a].here => \E c \in 1..pairing.upto : feed[c].anime = a
StagedIsBehind ==
  paired => \A c \in staged :
    \/ c <= cursor
    \/ /\ cursor = 0
       /\ heal.pc = "fetched" => c <= heal.upto
       /\ \A a \in Animes : keep[a].pc = "fetched" => c <= keep[a].upto
       /\ \A r \in Runtimes : cyc[r].pc = "answered" => c <= cyc[r].upto

\* The edits the bridge applied come back in the page of the same answer, later than anything
\* the table has of the anime.
EchoesAwaited ==
  \A r \in Runtimes : cyc[r].pc = "answered" =>
    \A i \in HeldBy(r) \cap cyc[r].applied :
      \E k \in FeedIds : /\ cyc[r].since < k /\ k <= cyc[r].upto
                         /\ feed[k].anime = rows[i].anime /\ feed[k].type = "update"
                         /\ "seen" \in feed[k].fields /\ feed[k].snap.seen = EditValue(i)
                         /\ local[rows[i].anime].guard < k

MergeInv ==
  /\ TypeOK /\ NothingAfterDelete /\ ComesFromFeed /\ RequestsBehind
  /\ UnpairedIsQuiet /\ PairingIsAlone /\ StagedIsBehind /\ EchoesAwaited
  /\ GuardShows /\ CursorShows

\* A field a change touches is one of the known fields it touches.
LEMMA TouchesIsTouching ==
  ASSUME NEW c, NEW a
  PROVE  /\ \A f \in Known : Touches(c, a, f) => Touching(c, a)
         /\ Touching(c, a) => \E f \in Known : Touches(c, a, f)
         /\ feed[c].anime = a /\ feed[c].type = "delete" => \A f \in Known : Touches(c, a, f)
<1>1. \E f \in Known : f = "seen"
  BY DEF Known
<1> QED BY <1>1 DEF Touches, Touching, Names

\* A table that shows every change up to the guard, behind a cursor whose changes are staged
\* or behind the guard, has lost none.
LEMMA NothingLost == MergeInv => NothingLostBehindCursor
<1> SUFFICES ASSUME MergeInv, paired, NEW a \in Animes \ drift, NEW f \in Known
             PROVE  LET passed == {c \in 1..cursor : Touches(c, a, f)} IN
                    \/ passed = {}
                    \/ \E c \in staged : Touches(c, a, f)
                    \/ \E i \in RowIds : rows[i].anime = a /\ rows[i].status \in Unacked \cup {"given_up"}
                    \/ \E last \in passed : /\ \A c \in passed : c <= last
                                            /\ \E c \in last..Len(feed) :
                                                 feed[c].anime = a /\ Shows(a, f, c)
  BY DEF NothingLostBehindCursor
<1> DEFINE passed == {c \in 1..cursor : Touches(c, a, f)}
<1>1. SUFFICES ASSUME passed # {}, \A c \in staged : ~Touches(c, a, f),
                      \A i \in RowIds : rows[i].anime = a => rows[i].status \notin Unsettled
               PROVE  \E last \in passed : /\ \A c \in passed : c <= last
                                           /\ \E c \in last..Len(feed) :
                                                feed[c].anime = a /\ Shows(a, f, c)
  BY DEF Unsettled
<1>2. TypeOK /\ cursor \in 0..Len(feed) /\ cursor \in Nat /\ Len(feed) \in Nat
  BY DEF MergeInv, TypeOK
<1>3. PICK last \in passed : \A c \in passed : c <= last
  <2>1. passed \in SUBSET (1..cursor)
    OBVIOUS
  <2> HIDE DEF passed
  <2> QED BY <1>1, <1>2, <2>1, Greatest
<1>4. last \in FeedIds /\ last <= cursor /\ Touches(last, a, f) /\ Touching(last, a) /\ last \in Nat /\ last # 0
  BY <1>2, <1>3, TouchesIsTouching DEF FeedIds
<1>5. ~Own(a)
  BY <1>1 DEF Own
<1>6. ~Doomed(a)
  <2>1. SUFFICES ASSUME NEW d \in Deletes(a), d \in staged \/ cursor = 0 PROVE FALSE
    BY DEF Doomed
  <2>2. feed[d].anime = a /\ feed[d].type = "delete"
    BY DEF Deletes, DeletesIn
  <2>3. d \in staged
    BY <1>2, <1>4, <2>1
  <2> QED BY <1>1, <2>2, <2>3, TouchesIsTouching
<1>7. Gone(a) \/ Accounted(a)
  BY <1>6 DEF MergeInv, CursorShows
<1>8. Covered(a, f, last)
  <2>1. CASE Gone(a)
    <3>1. PICK d \in Deletes(a) : TRUE
      BY <2>1 DEF Gone
    <3>2. d \in FeedIds /\ feed[d].anime = a /\ feed[d].type = "delete" /\ d \in 1..Len(feed)
      BY <3>1 DEF Deletes, DeletesIn, FeedIds
    <3>3. last <= d
      <4>1. LastChange(a, Len(feed)) = d
        BY <1>2, <3>2, DeletedIsGone DEF MergeInv
      <4>2. feed[last].anime = a
        BY <1>4 DEF Touches
      <4> QED BY <1>2, <1>4, <4>1, <4>2, LastChangeIs DEF FeedIds
    <3> QED BY <2>1, <3>2, <3>3 DEF Covered, Shows, Gone
  <2>2. CASE Accounted(a)
    <3>1. Reached(a, last)
      BY <1>4 DEF Reached
    <3>2. last \in staged \/ last <= local[a].guard \/ Under(a, last)
      BY <1>4, <2>2, <3>1 DEF Accounted
    <3>3. last \notin staged
      BY <1>1, <1>4
    <3>4. ~Under(a, last)
      BY <1>2, <1>4 DEF Under
    <3>5. GuardShown(a)
      BY <1>6 DEF MergeInv, GuardShows
    <3> QED BY <1>4, <1>5, <3>2, <3>3, <3>4, <3>5 DEF GuardShown, Kept
  <2> QED BY <1>7, <2>1, <2>2
<1>9. PICK k \in FeedIds : last <= k /\ feed[k].anime = a /\ Shows(a, f, k)
  BY <1>8 DEF Covered
<1>10. k \in last..Len(feed)
  BY <1>2, <1>4, <1>9 DEF FeedIds
<1> QED BY <1>3, <1>9, <1>10

(***************************************************************************)
(* What a step keeps of the two claims about the table.                    *)
(***************************************************************************)
\* The changelog grows, or stays.
FeedKept ==
  /\ Len(feed) \in Nat /\ Len(feed)' \in Nat /\ Len(feed) <= Len(feed)'
  /\ \A k \in FeedIds : feed'[k] = feed[k]

\* A change of the changelog stays what it is.
LEMMA FeedStays ==
  ASSUME FeedKept, NEW c \in FeedIds
  PROVE  /\ c \in FeedIds' /\ feed'[c] = feed[c] /\ c \in Nat
         /\ \A a : (Touching(c, a))' <=> Touching(c, a)
         /\ \A a, f : (Touches(c, a, f))' <=> Touches(c, a, f)
         /\ \A a : c \in Deletes(a) => c \in Deletes(a)'
  BY DEF FeedKept, FeedIds, Touching, Touches, Names, Deletes, DeletesIn

\* What is shown stays shown while the anime's fields stay.
LEMMA CoveredStays ==
  ASSUME FeedKept, NEW a \in Animes, NEW f \in Known, NEW e \in FeedIds, Covered(a, f, e),
         local'[a].here = local[a].here, local'[a][f] = local[a][f]
  PROVE  Covered(a, f, e)'
<1>1. PICK k \in FeedIds : e <= k /\ feed[k].anime = a /\ Shows(a, f, k)
  BY DEF Covered
<1>2. k \in FeedIds' /\ feed'[k] = feed[k]
  BY <1>1, FeedStays
<1>3. Shows(a, f, k)'
  BY <1>1, <1>2 DEF Shows
<1> QED BY <1>1, <1>2, <1>3 DEF Covered

\* The user's newest edit stays while the rows of the anime stay unsettled.
LEMMA OwnStays ==
  ASSUME NEW a \in Animes, Own(a), local'[a].seen = local[a].seen,
         RowIds' = RowIds,
         \A i \in RowIds : /\ rows'[i].anime = rows[i].anime
                           /\ rows[i].anime = a /\ rows[i].status \in Unsettled
                                => rows'[i].status \in Unsettled
  PROVE  Own(a)'
<1>1. PICK j \in RowIds : /\ rows[j].anime = a /\ rows[j].status \in Unsettled
                          /\ local[a].seen = EditValue(j)
                          /\ \A i \in RowIds : rows[i].anime = a => i <= j
  BY DEF Own
<1>2. /\ j \in RowIds' /\ rows'[j].anime = a /\ rows'[j].status \in Unsettled
      /\ local'[a].seen = EditValue(j)
      /\ \A i \in RowIds' : rows'[i].anime = a => i <= j
  BY <1>1
<1> QED BY <1>2 DEF Own

\* A step that moves no guard, no cursor, nothing staged and no history, and keeps what
\* is kept, keeps both claims.
LEMMA QuietStep ==
  ASSUME TypeOK, FeedKept, GuardShows, CursorShows,
         staged' = staged, cursor' = cursor, paired' = paired, drift' = drift,
         \A a \in Animes : local'[a].here = local[a].here /\ local'[a].guard = local[a].guard,
         \A a \in Animes : \A f \in Known : \A e \in FeedIds : Kept(a, f, e) => Kept(a, f, e)',
         \A r \in Runtimes : cyc'[r].pc = "answered" =>
           \/ cyc[r].pc = "answered" /\ cyc'[r].upto = cyc[r].upto
           \/ Len(feed) <= cyc'[r].upto,
         \A r \in Runtimes : cyc'[r].upto \in Nat,
         \A a \in drift : Exists(a, Len(feed))' => Exists(a, Len(feed)),
         \A a \in Animes : local[a].guard <= Len(feed)
  PROVE  GuardShows' /\ CursorShows'
<1>0. /\ cursor \in Nat /\ cursor <= Len(feed) /\ staged \subseteq FeedIds
      /\ \A a \in Animes : local[a].guard \in Nat
  BY RemoteMergeAssumption DEF TypeOK, FeedIds, Anime
<1>1. ASSUME NEW a \in Animes, Doomed(a) PROVE Doomed(a)'
  <2>1. PICK d \in Deletes(a) : \/ d \in staged
                                \/ cursor = 0 /\ \A r \in Runtimes : cyc[r].pc = "answered" => d <= cyc[r].upto
    BY <1>1 DEF Doomed
  <2>2. d \in FeedIds /\ d \in Deletes(a)' /\ d \in Nat /\ d <= Len(feed) /\ Len(feed) \in Nat
    BY FeedStays DEF Deletes, DeletesIn, FeedIds, FeedKept
  <2>3. ASSUME NEW r \in Runtimes, cyc'[r].pc = "answered",
               \A q \in Runtimes : cyc[q].pc = "answered" => d <= cyc[q].upto
        PROVE  d <= cyc'[r].upto
    BY <2>2, <2>3
  <2> QED BY <2>1, <2>2, <2>3 DEF Doomed
<1>2. ASSUME NEW a \in Animes, GuardShown(a) PROVE GuardShown(a)'
  <2>1. ASSUME NEW f \in Known, NEW e \in FeedIds', e <= local'[a].guard, Touches(e, a, f)'
        PROVE  Kept(a, f, e)'
    <3>1. e \in FeedIds
      BY <1>0, <2>1 DEF FeedIds, FeedKept
    <3>2. Touches(e, a, f)
      BY <2>1, <3>1, FeedStays
    <3> QED BY <1>2, <2>1, <3>1, <3>2 DEF GuardShown
  <2> QED BY <2>1 DEF GuardShown
<1>3. ASSUME NEW a \in Animes, Accounted(a) PROVE Accounted(a)'
  <2>1. ASSUME NEW e \in FeedIds', Touching(e, a)', Reached(a, e)'
        PROVE  e \in staged \/ e <= local[a].guard \/ Under(a, e)'
    <3>1. e \in FeedIds
      <4>1. CASE e <= cursor
        BY <1>0, <4>1 DEF FeedIds, FeedKept
      <4>2. CASE \E c \in staged : e <= c
        BY <1>0, <4>2 DEF FeedIds, FeedKept
      <4> QED BY <2>1, <4>1, <4>2 DEF Reached
    <3>2. Touching(e, a)
      BY <2>1, <3>1, FeedStays
    <3>3. Reached(a, e)
      BY <1>0, <2>1, FeedStays DEF Reached
    <3>4. CASE Under(a, e)
      <4>1. \A c \in staged : feed'[c].anime = a => e < c
        BY <1>0, <3>4, FeedStays DEF Under
      <4>2. ASSUME NEW f \in Known, Touches(e, a, f)' PROVE Kept(a, f, e)'
        BY <3>1, <3>4, <4>2, FeedStays DEF Under
      <4> QED BY <3>4, <4>1, <4>2 DEF Under
    <3> QED BY <1>3, <3>1, <3>2, <3>3, <3>4 DEF Accounted
  <2> QED BY <2>1 DEF Accounted
<1>4. ASSUME NEW a \in Animes, Gone(a) PROVE Gone(a)'
  <2>1. PICK d \in Deletes(a) : TRUE
    BY <1>4 DEF Gone
  <2>2. d \in Deletes(a)'
    BY <2>1, FeedStays DEF Deletes, DeletesIn
  <2> QED BY <1>4, <2>2 DEF Gone
<1>5. GuardShows'
  BY <1>1, <1>2 DEF GuardShows
<1>6. CursorShows'
  <2>1. SUFFICES ASSUME paired, NEW a \in Animes, a \notin drift \/ Exists(a, Len(feed))'
                 PROVE  Gone(a)' \/ Doomed(a)' \/ Accounted(a)'
    BY DEF CursorShows
  <2>2. a \notin drift \/ Exists(a, Len(feed))
    BY <2>1
  <2>3. Gone(a) \/ Doomed(a) \/ Accounted(a)
    BY <2>1, <2>2 DEF CursorShows
  <2> QED BY <1>1, <1>3, <1>4, <2>3
<1> QED BY <1>5, <1>6

(***************************************************************************)
(* What the actions make of the rows, of the changelog and of an anime.    *)
(***************************************************************************)
\* A function on 1..n is a sequence of n elements.
LEMMA RowFn ==
  ASSUME NEW n \in Nat, NEW S, NEW s \in [1..n -> S]
  PROVE  s \in Seq(S) /\ Len(s) = n
  BY SeqDef

\* The rows keep their places and their animes.
RowsInPlace == /\ rows' \in Seq(Row) /\ Len(rows') = Len(rows) /\ RowIds' = RowIds
            /\ \A i \in RowIds : rows'[i].anime = rows[i].anime

\* Rows settled with a status have that status, and no runtime holds them; the others stay.
LEMMA SettledRows ==
  ASSUME TypeOK, NEW ids, NEW st \in Statuses, rows' = Settled(ids, st)
  PROVE  /\ RowsInPlace
         /\ \A i \in RowIds : i \in ids => rows'[i].status = st
         /\ \A i \in RowIds : i \notin ids => rows'[i] = rows[i]
<1>1. Len(rows) \in Nat /\ \A i \in RowIds : rows[i] \in Row
  BY DEF TypeOK, RowIds
<1>2. \A i \in RowIds : [rows[i] EXCEPT !.status = st, !.by = "none"] \in Row
  BY <1>1 DEF Row
<1>3. rows' \in [1..Len(rows) -> Row]
  BY <1>1, <1>2 DEF Settled, RowIds
<1>4. rows' \in Seq(Row) /\ Len(rows') = Len(rows)
  <2> HIDE DEF Row
  <2> QED BY <1>1, <1>3, RowFn
<1>5. ASSUME NEW i \in RowIds
      PROVE  /\ rows'[i].anime = rows[i].anime
             /\ i \in ids => rows'[i].status = st
             /\ i \notin ids => rows'[i] = rows[i]
  BY <1>1 DEF Settled, Row
<1> QED BY <1>4, <1>5 DEF RowsInPlace, RowIds

\* A healed anime shows the snapshot, and keeps its guard.
LEMMA HealedIs ==
  ASSUME TypeOK, NEW a \in Animes, NEW n \in 0..Len(feed), Exists(a, n)
  PROVE  /\ Healed(a, n) \in Anime /\ Healed(a, n).here
         /\ \A f \in Known : Healed(a, n)[f] = Snapshot(a, n)[f]
         /\ Healed(a, n).guard = local[a].guard
<1> DEFINE x == local[a]
           s == Snapshot(a, n)
           t == LastChange(a, n)
<1>1. x \in Anime /\ s \in Content /\ t \in 0..MaxFeed /\ 0 \in 0..MaxFeed
  <2>1. LastChange(a, n) \in FeedIds /\ Snapshot(a, n) \in Content
    BY SnapshotIs
  <2>2. Len(feed) \in Nat /\ Len(feed) <= MaxFeed
    BY DEF TypeOK
  <2> QED BY <2>1, <2>2, RemoteMergeAssumption DEF TypeOK, FeedIds
<1>2. CASE ~x.here
  <2>1. Healed(a, n) = Upserted(x, s, 0, t)
    BY <1>2 DEF Healed
  <2> HIDE DEF x, s, t
  <2>2. Healed(a, n).guard = x.guard
    BY <1>1, <2>1, UpsertedIsAnime
  <2> QED BY <1>1, <2>1, <2>2, UpsertedIsAnime DEF x, s
<1>3. CASE x.here /\ \A f \in Known : x[f] = s[f]
  <2>1. Healed(a, n) = [x EXCEPT !.token = t]
    BY <1>3 DEF Healed
  <2> HIDE DEF x, s, t
  <2>2. [x EXCEPT !.token = t] \in Anime /\ [x EXCEPT !.token = t].here = x.here /\ [x EXCEPT !.token = t].guard = x.guard
        /\ \A f \in Known : [x EXCEPT !.token = t][f] = x[f]
    BY <1>1 DEF Anime, Known
  <2> QED BY <1>3, <2>1, <2>2 DEF x, s
<1>4. CASE x.here /\ ~(\A f \in Known : x[f] = s[f])
  <2>1. Healed(a, n) = [Partial(x, Known, s, x.guard) EXCEPT !.token = t]
    BY <1>4 DEF Healed
  <2> HIDE DEF x, s, t
  <2> DEFINE y == Partial(x, Known, s, x.guard)
  <2>2. y \in Anime /\ y.here = x.here /\ y.guard = x.guard /\ \A f \in Known : y[f] = s[f]
    <3>1. Known \in SUBSET Known /\ x.guard \in 0..MaxFeed
      BY <1>1 DEF Anime
    <3> QED BY <1>1, <3>1, PartialIsAnime
  <2> HIDE DEF y
  <2>3. [y EXCEPT !.token = t] \in Anime /\ [y EXCEPT !.token = t].here = y.here /\ [y EXCEPT !.token = t].guard = y.guard
        /\ \A f \in Known : [y EXCEPT !.token = t][f] = y[f]
    BY <1>1, <2>2 DEF Anime, Known
  <2> QED BY <1>4, <2>1, <2>2, <2>3 DEF x, s, y
<1> QED BY <1>2, <1>3, <1>4

\* The changelog with one more change.
LEMMA OneMoreChange ==
  ASSUME TypeOK, Len(feed) < MaxFeed, NEW c \in Change, feed' = Append(feed, c)
  PROVE  /\ FeedKept /\ feed' \in Seq(Change) /\ Len(feed)' = Len(feed) + 1
         /\ Len(feed)' <= MaxFeed /\ feed'[Len(feed) + 1] = c
<1>1. feed \in Seq(Change) /\ Len(feed) \in Nat
  BY DEF TypeOK
<1>2. feed' \in Seq(Change) /\ Len(feed)' = Len(feed) + 1 /\ feed'[Len(feed) + 1] = c
      /\ \A k \in 1..Len(feed) : feed'[k] = feed[k]
  <2> HIDE DEF Change
  <2> QED BY <1>1, AppendProperties
<1> QED BY <1>1, <1>2, RemoteMergeAssumption DEF FeedKept, FeedIds

\* An unchanged changelog is kept.
LEMMA SameFeed ==
  ASSUME TypeOK, feed' = feed
  PROVE  FeedKept
  BY DEF TypeOK, FeedKept, FeedIds

\* Only the token of an anime differs.
TokenOnly(a) == /\ local'[a].here = local[a].here /\ local'[a].guard = local[a].guard
                /\ \A f \in Known : local'[a][f] = local[a][f]

\* The tokens an answer gives are given to the table, and to nothing else of it.
LEMMA TokensGiven ==
  ASSUME TypeOK, NEW r \in Runtimes, NEW table \in Tables, cyc[r].pc = "answered", cyc[r].upto <= Len(feed),
         NEW t, t = WithTokens(table, r)
  PROVE  /\ t \in Tables
         /\ \A a \in Animes : /\ t[a].here = table[a].here /\ t[a].guard = table[a].guard
                              /\ \A f \in Known : t[a][f] = table[a][f]
<1>1. cyc[r] \in Cycle /\ Len(feed) \in Nat /\ Len(feed) <= MaxFeed
  BY DEF TypeOK
<1>2. cyc[r].upto \in 0..MaxFeed /\ cyc[r].upto \in Nat
  BY <1>1, RemoteMergeAssumption DEF Cycle
<1>3. \A a \in Animes : LastChange(a, cyc[r].upto) \in 0..MaxFeed
  <2>1. \A a \in Animes : LastChange(a, cyc[r].upto) \in 0..cyc[r].upto
    BY <1>2, LastChangeIs
  <2> QED BY <1>2, <2>1, RemoteMergeAssumption
<1>4. ASSUME NEW a \in Animes
      PROVE  /\ t[a] \in Anime /\ t[a].here = table[a].here /\ t[a].guard = table[a].guard
             /\ \A f \in Known : t[a][f] = table[a][f]
  <2> DEFINE k == LastChange(a, cyc[r].upto)
  <2>1. t[a] = table[a] \/ t[a] = [table[a] EXCEPT !.token = k]
    BY DEF WithTokens
  <2>2. table[a] \in Anime /\ k \in 0..MaxFeed
    BY <1>3 DEF Tables
  <2> HIDE DEF k
  <2> QED BY <2>1, <2>2 DEF Anime, Known
<1>5. t = [a \in Animes |-> t[a]]
  BY DEF WithTokens
<1>6. t \in [Animes -> Anime]
  <2> HIDE DEF Anime
  <2> QED BY <1>4, <1>5
<1> QED BY <1>4, <1>6 DEF Tables

(***************************************************************************)
(* Every action keeps the types.                                           *)
(***************************************************************************)
\* The types of a step that may only add to the changelog.
LEMMA GrownTypes ==
  ASSUME TypeOK, FeedKept, feed' \in Seq(Change), Len(feed)' <= MaxFeed,
         UNCHANGED <<local, rows, staged, cursor, paired, heal, keep, pairing, unpaired, drift>>,
         cyc' \in [Runtimes -> Cycle]
  PROVE  TypeOK'
<1>1. staged' \subseteq 1..Len(feed') /\ cursor' \in 0..Len(feed')
  BY DEF TypeOK, FeedKept
<1> QED BY <1>1 DEF TypeOK

\* The bridge's changes are changes.
LEMMA EditedIs ==
  ASSUME TypeOK, NEW a \in Animes, BridgeEdit(a)
  PROVE  \E c \in Change : /\ feed' = Append(feed, c) /\ Len(feed) < MaxFeed
                           /\ c.anime = a /\ Exists(a, Len(feed))
<1>1. PICK f \in BridgeEdits :
       feed' = Append(feed, [anime |-> a, type |-> "update", fields |-> {f},
                 snap |-> [g \in Known |-> IF g = f THEN Len(feed) + 1
                                           ELSE Snapshot(a, Len(feed))[g]]])
  BY DEF BridgeEdit
<1> DEFINE s == [g \in Known |-> IF g = f THEN Len(feed) + 1 ELSE Snapshot(a, Len(feed))[g]]
           c == [anime |-> a, type |-> "update", fields |-> {f}, snap |-> s]
<1>2. Len(feed) < MaxFeed /\ Exists(a, Len(feed)) /\ Len(feed) \in Nat /\ Len(feed) \in 0..Len(feed)
  BY DEF BridgeEdit, TypeOK
<1>3. Snapshot(a, Len(feed)) \in Content
  BY <1>2, SnapshotIs
<1>4. Len(feed) + 1 \in Values
  BY <1>2, RemoteMergeAssumption DEF Values
<1>5. s \in Content
  BY <1>3, <1>4 DEF Content
<1>6. {f} \in SUBSET Fields
  BY BridgeEditsAssumption
<1> HIDE DEF s
<1>7. c \in Change
  BY <1>5, <1>6 DEF Change
<1>8. c.anime = a /\ feed' = Append(feed, c)
  BY <1>1 DEF s
<1> QED BY <1>2, <1>7, <1>8

\* A creation is a change of an anime the bridge never had.
LEMMA CreatedIs ==
  ASSUME TypeOK, NEW a \in Animes, BridgeCreates(a)
  PROVE  \E c \in Change : /\ feed' = Append(feed, c) /\ Len(feed) < MaxFeed
                           /\ c.anime = a /\ LastChange(a, Len(feed)) = 0
<1> DEFINE s == [f \in Known |-> Len(feed) + 1]
           c == [anime |-> a, type |-> "create", fields |-> {}, snap |-> s]
<1>2. Len(feed) < MaxFeed /\ Len(feed) \in Nat /\ LastChange(a, Len(feed)) = 0 /\ feed' = Append(feed, c)
  BY DEF BridgeCreates, TypeOK
<1>3. Len(feed) + 1 \in Values
  BY <1>2, RemoteMergeAssumption DEF Values
<1>4. s \in Content
  BY <1>3 DEF Content
<1> HIDE DEF s
<1>5. c \in Change
  BY <1>4 DEF Change
<1>6. c.anime = a
  OBVIOUS
<1> QED BY <1>2, <1>5, <1>6

\* A deletion is a change of an anime the bridge has.
LEMMA RemovedIs ==
  ASSUME TypeOK, NEW a \in Animes, BridgeDeletes(a)
  PROVE  \E c \in Change : /\ feed' = Append(feed, c) /\ Len(feed) < MaxFeed
                           /\ c.anime = a /\ Exists(a, Len(feed))
<1> DEFINE c == [anime |-> a, type |-> "delete", fields |-> {}, snap |-> Blank]
<1>2. Len(feed) < MaxFeed /\ Exists(a, Len(feed)) /\ feed' = Append(feed, c)
  BY DEF BridgeDeletes
<1>3. Blank \in Content
  BY RemoteMergeAssumption DEF Content, Blank, Values
<1>4. c \in Change
  BY <1>3 DEF Change
<1>5. c.anime = a
  OBVIOUS
<1> QED BY <1>2, <1>4, <1>5

\* The other devices' edits.
LEMMA BridgeTypes ==
  ASSUME TypeOK, NEW a \in Animes, BridgeEdit(a) \/ BridgeCreates(a) \/ BridgeDeletes(a)
  PROVE  TypeOK' /\ FeedKept
<1>1. /\ UNCHANGED <<local, rows, staged, cursor, paired, heal, keep, pairing, unpaired, drift>>
      /\ cyc' = cyc
  BY DEF BridgeEdit, BridgeCreates, BridgeDeletes
<1>2. \E c \in Change : feed' = Append(feed, c) /\ Len(feed) < MaxFeed
  BY EditedIs, CreatedIs, RemovedIs
<1>3. FeedKept /\ feed' \in Seq(Change) /\ Len(feed)' <= MaxFeed
  BY <1>2, OneMoreChange
<1>4. cyc' \in [Runtimes -> Cycle]
  BY <1>1 DEF TypeOK
<1> QED BY <1>1, <1>3, <1>4, GrownTypes

\* The row of the user's edit.
LEMMA LocalEditTypes ==
  ASSUME TypeOK, NEW a \in Animes, LocalEdit(a)
  PROVE  /\ TypeOK' /\ rows' \in Seq(Row) /\ Len(rows') = Len(rows) + 1
         /\ \A i \in RowIds : rows'[i] = rows[i]
         /\ rows'[Len(rows) + 1].anime = a /\ rows'[Len(rows) + 1].status = "pending"
         /\ local'[a] = [local[a] EXCEPT !.seen = EditValue(Len(rows) + 1)]
         /\ \A b \in Animes \ {a} : local'[b] = local[b]
<1> DEFINE r == [anime |-> a, status |-> "pending", by |-> "none", bridgeOnly |-> FALSE]
           n == Len(rows) + 1
<1>1. /\ Len(rows) < MaxRow /\ rows' = Append(rows, r) /\ rows \in Seq(Row) /\ Len(rows) \in Nat
      /\ local' = [local EXCEPT ![a].seen = EditValue(n)]
      /\ UNCHANGED <<feed, staged, cursor, paired, cyc, heal, keep, pairing, unpaired, drift>>
  BY DEF LocalEdit, TypeOK
<1>2. r \in Row /\ r.anime = a /\ r.status = "pending"
  BY DEF Row, Statuses
<1> HIDE DEF r
<1>3. rows' \in Seq(Row) /\ Len(rows') = n /\ rows'[n] = r /\ \A i \in 1..Len(rows) : rows'[i] = rows[i]
  <2> HIDE DEF Row
  <2> QED BY <1>1, <1>2, AppendProperties
<1>4. EditValue(n) \in Values
  BY <1>1, RemoteMergeAssumption DEF EditValue, Values
<1>5. local \in [Animes -> Anime]
  BY DEF TypeOK
<1> HIDE DEF n
<1>6. [local[a] EXCEPT !.seen = EditValue(n)] \in Anime
  BY <1>4, <1>5 DEF Anime
<1>7. local' = [local EXCEPT ![a] = [local[a] EXCEPT !.seen = EditValue(n)]]
  BY <1>1
<1>8. local' \in [Animes -> Anime] /\ local'[a] = [local[a] EXCEPT !.seen = EditValue(n)]
      /\ \A b \in Animes \ {a} : local'[b] = local[b]
  <2> HIDE DEF Anime
  <2> QED BY <1>5, <1>6, <1>7
<1>9. Len(rows') <= MaxRow
  BY <1>1, <1>3, RemoteMergeAssumption DEF n
<1>10. TypeOK'
  BY <1>1, <1>3, <1>8, <1>9 DEF TypeOK
<1> QED BY <1>2, <1>3, <1>8, <1>10 DEF RowIds, n

\* A claim.
LEMMA BeginTypes ==
  ASSUME TypeOK, NEW r \in Runtimes, Begin(r)
  PROVE  /\ TypeOK' /\ RowsInPlace
         /\ \A i \in RowIds : \/ rows'[i] = rows[i]
                              \/ /\ rows[i].status = "pending" /\ rows'[i].status = "processing"
                                 /\ rows'[i].by = r
         /\ cyc'[r].pc = "asked" /\ cyc'[r].since = cursor /\ cyc'[r].send \subseteq RowIds
         /\ cyc'[r].upto = 0
         /\ \A q \in Runtimes \ {r} : cyc'[q] = cyc[q]
<1>1. /\ rows' = [i \in RowIds |-> IF i \in Heads
                    THEN [rows[i] EXCEPT !.status = "processing", !.by = r] ELSE rows[i]]
      /\ cyc' = [cyc EXCEPT ![r] = [NoCycle EXCEPT !.pc = "asked", !.since = cursor,
                                                   !.send = Heads]]
      /\ UNCHANGED <<feed, local, staged, cursor, paired, heal, keep, pairing, unpaired, drift>>
  BY DEF Begin
<1>2. Len(rows) \in Nat /\ Len(rows) <= MaxRow /\ \A i \in RowIds : rows[i] \in Row
  BY DEF TypeOK, RowIds
<1>3. Heads \subseteq RowIds /\ \A i \in Heads : rows[i].status = "pending"
  BY DEF Heads
<1>4. ASSUME NEW i \in RowIds
      PROVE  /\ rows'[i] \in Row /\ rows'[i].anime = rows[i].anime
             /\ \/ rows'[i] = rows[i]
                \/ /\ rows[i].status = "pending" /\ rows'[i].status = "processing"
                   /\ rows'[i].by = r
  <2> DEFINE x == rows[i]
  <2>1. x \in Row
    BY <1>2
  <2>2. rows'[i] = IF i \in Heads THEN [x EXCEPT !.status = "processing", !.by = r] ELSE x
    BY <1>1
  <2>3. i \in Heads => x.status = "pending"
    BY <1>3
  <2> HIDE DEF x
  <2>4. [x EXCEPT !.status = "processing", !.by = r] \in Row
        /\ [x EXCEPT !.status = "processing", !.by = r].anime = x.anime
        /\ [x EXCEPT !.status = "processing", !.by = r].status = "processing"
        /\ [x EXCEPT !.status = "processing", !.by = r].by = r
    BY <2>1 DEF Row, Statuses
  <2> QED BY <2>1, <2>2, <2>3, <2>4 DEF x
<1>5. rows' \in [1..Len(rows) -> Row]
  <2>1. rows' = [i \in RowIds |-> rows'[i]]
    BY <1>1
  <2> HIDE DEF Row
  <2> QED BY <1>4, <2>1 DEF RowIds
<1>6. rows' \in Seq(Row) /\ Len(rows') = Len(rows)
  <2> HIDE DEF Row
  <2> QED BY <1>2, <1>5, RowFn
<1>7. RowsInPlace
  BY <1>4, <1>6 DEF RowsInPlace, RowIds
<1> DEFINE k == [NoCycle EXCEPT !.pc = "asked", !.since = cursor, !.send = Heads]
<1>8. k \in Cycle /\ k.pc = "asked" /\ k.since = cursor /\ k.send = Heads /\ k.upto = 0
  <2>1. cursor \in 0..MaxFeed /\ 0 \in 0..MaxFeed /\ Heads \in SUBSET (1..MaxRow)
    BY <1>2, <1>3, RemoteMergeAssumption DEF TypeOK, RowIds
  <2> QED BY <2>1 DEF NoCycle, Cycle
<1> HIDE DEF k
<1>9. cyc \in [Runtimes -> Cycle] /\ cyc' = [cyc EXCEPT ![r] = k]
  BY <1>1 DEF TypeOK, k
<1>10. cyc' \in [Runtimes -> Cycle] /\ cyc'[r] = k /\ \A q \in Runtimes \ {r} : cyc'[q] = cyc[q]
  <2> HIDE DEF Cycle
  <2> QED BY <1>8, <1>9
<1>11. TypeOK'
  BY <1>1, <1>2, <1>6, <1>10 DEF TypeOK
<1> QED BY <1>3, <1>4, <1>7, <1>8, <1>10, <1>11

\* A token is stored, or the edits of an anime are given up.
LEMMA FetchBaseTypes ==
  ASSUME TypeOK, NEW r \in Runtimes, FetchBase(r), cyc[r].send \subseteq RowIds
  PROVE  /\ TypeOK' /\ RowsInPlace /\ \A a \in Animes : TokenOnly(a)
         /\ \A i \in RowIds : \/ rows'[i] = rows[i]
                              \/ rows[i].status \in Unacked /\ rows'[i].status = "given_up"
         /\ \E i \in RowIds : rows[i].status = "processing"
<1>1. PICK i \in HeldBy(r) :
    LET a == rows[i].anime IN
    /\ cyc[r].pc = "asked" /\ TokenOf(i) = 0
    /\ IF Exists(a, Len(feed))
       THEN /\ local[a].here
            /\ local' = [local EXCEPT ![a].token = LastChange(a, Len(feed))]
            /\ UNCHANGED rows
       ELSE /\ rows' = [j \in RowIds |->
                 IF j = i \/ (rows[j].anime = a /\ rows[j].status = "pending")
                 THEN [rows[j] EXCEPT !.status = "given_up", !.by = "none",
                                      !.bridgeOnly = TRUE]
                 ELSE rows[j]]
            /\ UNCHANGED local
    /\ UNCHANGED <<feed, staged, cursor, paired, cyc, heal, keep, pairing,
                   unpaired, drift>>
  BY DEF FetchBase
<1> DEFINE a == rows[i].anime
<1>2. /\ i \in RowIds /\ rows[i].status = "processing"
      /\ \A j \in RowIds : rows[j] \in Row
      /\ Len(rows) \in Nat /\ Len(rows) <= MaxRow /\ rows \in Seq(Row)
  <2>1. i \in HeldBy(r)
    OBVIOUS
  <2>2. i \in cyc[r].send /\ rows[i].status = "processing"
    BY <2>1 DEF HeldBy
  <2>3. Len(rows) \in Nat /\ Len(rows) <= MaxRow /\ rows \in Seq(Row)
    BY DEF TypeOK
  <2>4. \A j \in RowIds : rows[j] \in Row
    BY <2>3 DEF RowIds
  <2> QED BY <2>2, <2>3, <2>4
<1>3. a \in Animes /\ local[a] \in Anime /\ local \in [Animes -> Anime]
  <2>1. rows[i] \in Row
    BY <1>2
  <2>2. a \in Animes
    BY <2>1 DEF Row
  <2>3. local \in [Animes -> Anime]
    BY DEF TypeOK
  <2> HIDE DEF a
  <2> QED BY <2>2, <2>3
<1>4. UNCHANGED <<feed, staged, cursor, paired, cyc, heal, keep, pairing, unpaired, drift>>
  BY <1>1
<1>5. CASE Exists(a, Len(feed))
  <2>1. /\ local' = [local EXCEPT ![a].token = LastChange(a, Len(feed))] /\ rows' = rows
    BY <1>1, <1>5
  <2> DEFINE x == [local[a] EXCEPT !.token = LastChange(a, Len(feed))]
  <2>2. LastChange(a, Len(feed)) \in 0..MaxFeed
    <3>1. Len(feed) \in Nat /\ Len(feed) <= MaxFeed
      BY DEF TypeOK
    <3> QED BY <3>1, LastChangeIs, RemoteMergeAssumption
  <2>3. x \in Anime /\ x.here = local[a].here /\ x.guard = local[a].guard /\ \A f \in Known : x[f] = local[a][f]
    BY <1>3, <2>2 DEF Anime, Known
  <2>4. local' = [local EXCEPT ![a] = x]
    BY <2>1
  <2> HIDE DEF x
  <2>5. local' \in [Animes -> Anime] /\ local'[a] = x /\ \A b \in Animes : b # a => local'[b] = local[b]
    <3> HIDE DEF a, Anime
    <3> QED BY <1>3, <2>3, <2>4
  <2>6. \A b \in Animes : TokenOnly(b)
    BY <2>3, <2>5 DEF TokenOnly
  <2>7. TypeOK'
    BY <1>4, <2>1, <2>5 DEF TypeOK
  <2>8. RowsInPlace
    BY <1>2, <2>1 DEF RowsInPlace, RowIds
  <2> QED BY <1>2, <2>1, <2>6, <2>7, <2>8
<1>6. CASE ~Exists(a, Len(feed))
  <2>1. /\ local' = local
        /\ rows' = [j \in RowIds |->
                 IF j = i \/ (rows[j].anime = a /\ rows[j].status = "pending")
                 THEN [rows[j] EXCEPT !.status = "given_up", !.by = "none",
                                      !.bridgeOnly = TRUE]
                 ELSE rows[j]]
    BY <1>1, <1>6
  <2>2. ASSUME NEW j \in RowIds
        PROVE  /\ rows'[j] \in Row /\ rows'[j].anime = rows[j].anime
               /\ \/ rows'[j] = rows[j]
                  \/ rows[j].status \in Unacked /\ rows'[j].status = "given_up"
    <3> DEFINE x == rows[j]
               y == [x EXCEPT !.status = "given_up", !.by = "none", !.bridgeOnly = TRUE]
    <3>1. x \in Row
      BY <1>2
    <3>2. rows'[j] = IF j = i \/ (rows[j].anime = a /\ rows[j].status = "pending") THEN y ELSE x
      BY <2>1
    <3>3. j = i \/ (rows[j].anime = a /\ rows[j].status = "pending") => x.status \in Unacked
      BY <1>2 DEF Unacked
    <3> HIDE DEF x
    <3>4. y \in Row /\ y.anime = x.anime /\ y.status = "given_up"
      BY <3>1 DEF Row, Statuses
    <3> QED BY <3>1, <3>2, <3>3, <3>4 DEF x
  <2>3. rows' \in [1..Len(rows) -> Row]
    <3>1. rows' = [j \in RowIds |-> rows'[j]]
      BY <2>1
    <3> HIDE DEF Row
    <3> QED BY <2>2, <3>1 DEF RowIds
  <2>4. rows' \in Seq(Row) /\ Len(rows') = Len(rows)
    <3> HIDE DEF Row
    <3> QED BY <1>2, <2>3, RowFn
  <2>5. RowsInPlace
    BY <2>2, <2>4 DEF RowsInPlace, RowIds
  <2>6. TypeOK'
    BY <1>2, <1>3, <1>4, <2>1, <2>4 DEF TypeOK
  <2>7. \A b \in Animes : TokenOnly(b)
    BY <2>1 DEF TokenOnly
  <2> QED BY <1>2, <2>2, <2>5, <2>6, <2>7
<1> QED BY <1>5, <1>6

\* A released request.
LEMMA FailTypes ==
  ASSUME TypeOK, NEW r \in Runtimes, Fail(r)
  PROVE  /\ TypeOK' /\ RowsInPlace /\ cyc'[r] = NoCycle
         /\ \A q \in Runtimes \ {r} : cyc'[q] = cyc[q]
         /\ \A i \in RowIds : \/ rows'[i] = rows[i]
                              \/ i \in HeldBy(r) /\ rows'[i].status = "pending"
<1>1. /\ rows' = Settled(HeldBy(r), "pending") /\ cyc' = [cyc EXCEPT ![r] = NoCycle]
      /\ UNCHANGED <<feed, local, staged, cursor, paired, heal, keep, pairing, unpaired, drift>>
  BY DEF Fail
<1>2. "pending" \in Statuses
  BY DEF Statuses
<1>3. /\ RowsInPlace
      /\ \A i \in RowIds : i \in HeldBy(r) => rows'[i].status = "pending"
      /\ \A i \in RowIds : i \notin HeldBy(r) => rows'[i] = rows[i]
  BY <1>1, <1>2, SettledRows
<1>4. NoCycle \in Cycle
  BY RemoteMergeAssumption DEF NoCycle, Cycle
<1>5. cyc' \in [Runtimes -> Cycle] /\ cyc'[r] = NoCycle /\ \A q \in Runtimes \ {r} : cyc'[q] = cyc[q]
  <2>1. cyc \in [Runtimes -> Cycle]
    BY DEF TypeOK
  <2> HIDE DEF Cycle, NoCycle
  <2> QED BY <1>1, <1>4, <2>1
<1>6. TypeOK'
  BY <1>1, <1>3, <1>5 DEF TypeOK, RowsInPlace
<1> QED BY <1>3, <1>5, <1>6

\* The user keeps the local state.
LEMMA KeepLocalTypes ==
  ASSUME TypeOK, NEW a \in Animes, KeepLocal(a)
  PROVE  /\ TypeOK' /\ RowsInPlace /\ \A b \in Animes : TokenOnly(b)
         /\ \A i \in RowIds : \/ rows'[i] = rows[i]
                              \/ rows[i].status = "given_up" /\ rows'[i].status = "pending"
         /\ \E i \in RowIds : rows[i].status = "given_up"
<1>1. /\ rows' = Settled(GivenUp(a), "pending") /\ local' = [local EXCEPT ![a].token = 0]
      /\ UNCHANGED <<feed, staged, cursor, paired, cyc, heal, keep, pairing, unpaired, drift>>
      /\ GivenUp(a) # {}
  BY DEF KeepLocal, OffersLocal
<1>2. "pending" \in Statuses
  BY DEF Statuses
<1>3. /\ RowsInPlace
      /\ \A i \in RowIds : i \in GivenUp(a) => rows'[i].status = "pending"
      /\ \A i \in RowIds : i \notin GivenUp(a) => rows'[i] = rows[i]
  BY <1>1, <1>2, SettledRows
<1> DEFINE x == [local[a] EXCEPT !.token = 0]
<1>4. local \in [Animes -> Anime] /\ 0 \in 0..MaxFeed
  BY RemoteMergeAssumption DEF TypeOK
<1>5. x \in Anime /\ x.here = local[a].here /\ x.guard = local[a].guard /\ \A f \in Known : x[f] = local[a][f]
  BY <1>4 DEF Anime, Known
<1>6. local' = [local EXCEPT ![a] = x]
  BY <1>1
<1> HIDE DEF x
<1>7. local' \in [Animes -> Anime] /\ local'[a] = x /\ \A b \in Animes : b # a => local'[b] = local[b]
  <2> HIDE DEF Anime
  <2> QED BY <1>4, <1>5, <1>6
<1>8. \A b \in Animes : TokenOnly(b)
  BY <1>5, <1>7 DEF TokenOnly
<1>9. TypeOK'
  BY <1>1, <1>3, <1>7 DEF TypeOK, RowsInPlace
<1> QED BY <1>1, <1>3, <1>8, <1>9 DEF GivenUp

\* The three fetches remember how long the changelog was.
LEMMA FetchTypes ==
  ASSUME TypeOK
  PROVE  /\ HealFetch => TypeOK'
         /\ PairFetch => TypeOK'
         /\ \A a \in Animes : KeepBridgeFetch(a) =>
              /\ TypeOK' /\ keep'[a] = [pc |-> "fetched", upto |-> Len(feed)]
              /\ \A b \in Animes \ {a} : keep'[b] = keep[b]
<1> DEFINE x == [pc |-> "fetched", upto |-> Len(feed)]
<1>1. x \in Fetch
  BY RemoteMergeAssumption DEF TypeOK, Fetch
<1> HIDE DEF x
<1>2. ASSUME HealFetch PROVE TypeOK'
  <2>1. heal' = x /\ UNCHANGED <<feed, local, rows, staged, cursor, paired, cyc, keep, pairing, unpaired, drift>>
    BY <1>2 DEF HealFetch, x
  <2> QED BY <1>1, <2>1 DEF TypeOK
<1>3. ASSUME PairFetch PROVE TypeOK'
  <2>1. pairing' = x /\ UNCHANGED <<feed, local, rows, staged, cursor, paired, cyc, heal, keep, unpaired, drift>>
    BY <1>3 DEF PairFetch, x
  <2> QED BY <1>1, <2>1 DEF TypeOK
<1>4. ASSUME NEW a \in Animes, KeepBridgeFetch(a)
      PROVE  TypeOK' /\ keep'[a] = x /\ \A b \in Animes \ {a} : keep'[b] = keep[b]
  <2>1. /\ keep' = [keep EXCEPT ![a] = x]
        /\ UNCHANGED <<feed, local, rows, staged, cursor, paired, cyc, heal, pairing, unpaired, drift>>
    BY <1>4 DEF KeepBridgeFetch, x
  <2>2. keep \in [Animes -> Fetch]
    BY DEF TypeOK
  <2>3. keep' \in [Animes -> Fetch] /\ keep'[a] = x /\ \A b \in Animes \ {a} : keep'[b] = keep[b]
    <3> HIDE DEF Fetch
    <3> QED BY <1>1, <2>1, <2>2
  <2> QED BY <2>1, <2>3 DEF TypeOK
<1> QED BY <1>2, <1>3, <1>4 DEF x

(***************************************************************************)
(* The edits the bridge applies, as it records them.                       *)
(***************************************************************************)
\* Change k of a history is the one the bridge recorded of the edit of row i.
Echoes(h, k, i) == /\ h[k].anime = rows[i].anime /\ h[k].type = "update"
                   /\ "seen" \in h[k].fields /\ h[k].snap.seen = EditValue(i)

\* An edit is recorded as an update of its anime, with the user's value.
LEMMA EchoIs ==
  ASSUME TypeOK, NEW i \in RowIds, NEW h \in Seq(Change), NEW k0 \in 1..Len(h),
         h[k0].anime = rows[i].anime
  PROVE  /\ Echo(h, i) \in Seq(Change) /\ Len(Echo(h, i)) = Len(h) + 1
         /\ \A k \in 1..Len(h) : Echo(h, i)[k] = h[k]
         /\ Echoes(Echo(h, i), Len(h) + 1, i)
<1> DEFINE a == rows[i].anime
           of == {k \in 1..Len(h) : h[k].anime = a}
           Is(k) == h[k].anime = a /\ \A j \in (k + 1)..Len(h) : h[j].anime # a
           at == CHOOSE k \in 1..Len(h) : Is(k)
           s == [h[at].snap EXCEPT !.seen = EditValue(i)]
           c == [anime |-> a, type |-> "update", fields |-> {"seen"}, snap |-> s]
<1>0. Len(h) \in Nat /\ Len(rows) \in Nat /\ Len(rows) <= MaxRow /\ rows \in Seq(Row)
  BY DEF TypeOK
<1>1. a \in Animes
  <2>1. rows[i] \in Row
    BY <1>0 DEF RowIds
  <2> QED BY <2>1 DEF Row
<1>2. at \in 1..Len(h)
  <2>1. of \in SUBSET (1..Len(h)) /\ of # {}
    OBVIOUS
  <2>2. PICK k \in of : \A j \in of : j <= k
    <3> HIDE DEF of
    <3> QED BY <1>0, <2>1, Greatest
  <2>3. \A j \in (k + 1)..Len(h) : j \notin of
    BY <1>0, <2>2
  <2>4. Is(k) /\ k \in 1..Len(h)
    BY <1>0, <2>2, <2>3
  <2> HIDE DEF Is
  <2> QED BY <2>4
<1> HIDE DEF at
<1>3. h[at].snap \in Content
  <2>1. h[at] \in Change
    <3> HIDE DEF Change
    <3> QED BY <1>2
  <2> QED BY <2>1 DEF Change
<1>4. EditValue(i) \in Values
  BY <1>0, RemoteMergeAssumption DEF EditValue, Values, RowIds
<1>5. s \in Content /\ s.seen = EditValue(i)
  BY <1>3, <1>4 DEF Content, Known
<1> HIDE DEF s, a
<1>6. {"seen"} \in SUBSET Fields
  BY DEF Fields, Known
<1>7. c \in Change /\ c.anime = a /\ c.type = "update" /\ "seen" \in c.fields /\ c.snap = s
  BY <1>1, <1>5, <1>6 DEF Change
<1>8. Echo(h, i) = Append(h, c)
  BY DEF Echo, at, s, a
<1> HIDE DEF c
<1>9. Append(h, c) \in Seq(Change) /\ Len(Append(h, c)) = Len(h) + 1 /\ Append(h, c)[Len(h) + 1] = c
      /\ \A k \in 1..Len(h) : Append(h, c)[k] = h[k]
  <2> HIDE DEF Change
  <2> QED BY <1>7, AppendProperties
<1>10. Echoes(Echo(h, i), Len(h) + 1, i)
  BY <1>5, <1>7, <1>8, <1>9 DEF Echoes, a
<1> QED BY <1>8, <1>9, <1>10

\* The changelog so far is the beginning of every history.
Histories == {h \in Seq(Change) : Len(feed) <= Len(h) /\ \A k \in FeedIds : h[k] = feed[k]}

\* What the history is after the edits of rows 1..n that are among ids.
EchoFacts(ids, n, h) ==
  /\ h \in Histories
  /\ Len(h) = Len(feed) + Cardinality(ids \cap (1..n))
  /\ \A k \in (Len(feed) + 1)..Len(h) : \E i \in ids : h[k].anime = rows[i].anime /\ h[k].type = "update"
  /\ \A i \in ids : i <= n => \E k \in (Len(feed) + 1)..Len(h) : Echoes(h, k, i)

\* One edit more.
LEMMA EchoStep ==
  ASSUME TypeOK, NEW ids \in SUBSET RowIds, \A i \in ids : \E k \in FeedIds : feed[k].anime = rows[i].anime,
         NEW n \in RowIds, NEW h, EchoFacts(ids, n - 1, h)
  PROVE  EchoFacts(ids, n, IF n \in ids THEN Echo(h, n) ELSE h)
<1>0. Len(rows) \in Nat /\ n \in Nat /\ Len(feed) \in Nat /\ ids \in SUBSET Nat /\ n # 0
  <2>1. Len(rows) \in Nat /\ Len(feed) \in Nat
    BY DEF TypeOK
  <2> QED BY <2>1 DEF RowIds
<1>1. h \in Seq(Change) /\ Len(h) \in Nat /\ Len(feed) <= Len(h) /\ \A k \in FeedIds : h[k] = feed[k]
  <2>1. h \in Histories
    BY DEF EchoFacts
  <2>2. h \in Seq(Change) /\ Len(feed) <= Len(h) /\ \A k \in FeedIds : h[k] = feed[k]
    BY <2>1 DEF Histories
  <2>3. Len(h) \in Nat
    BY <2>2
  <2> QED BY <2>2, <2>3
<1>2. IsFiniteSet(ids \cap (1..(n - 1))) /\ Cardinality(ids \cap (1..(n - 1))) \in Nat
  <2>1. IsFiniteSet(1..(n - 1))
    BY <1>0, FS_Interval
  <2>2. IsFiniteSet(ids \cap (1..(n - 1)))
    BY <2>1, FS_Subset
  <2> QED BY <2>2, FS_CardinalityType
<1>3. CASE n \notin ids
  <2>1. ids \cap (1..n) = ids \cap (1..(n - 1))
    BY <1>0, <1>3
  <2>2. \A i \in ids : i <= n => i <= n - 1
    BY <1>0, <1>3
  <2> QED BY <1>3, <2>1, <2>2 DEF EchoFacts
<1>4. CASE n \in ids
  <2> DEFINE g == Echo(h, n)
  <2>1. PICK k0 \in FeedIds : feed[k0].anime = rows[n].anime
    BY <1>4
  <2>2. k0 \in 1..Len(h) /\ h[k0].anime = rows[n].anime
    BY <1>0, <1>1, <2>1 DEF FeedIds
  <2>3. /\ g \in Seq(Change) /\ Len(g) = Len(h) + 1
        /\ \A k \in 1..Len(h) : g[k] = h[k]
        /\ Echoes(g, Len(h) + 1, n)
    BY <1>1, <2>2, EchoIs
  <2> HIDE DEF g
  <2>4. ids \cap (1..n) = (ids \cap (1..(n - 1))) \cup {n} /\ n \notin ids \cap (1..(n - 1))
    BY <1>0, <1>4
  <2>5. Cardinality(ids \cap (1..n)) = Cardinality(ids \cap (1..(n - 1))) + 1
    BY <1>2, <2>4, FS_AddElement
  <2>6. g \in Histories
    BY <1>0, <1>1, <2>3 DEF Histories, FeedIds
  <2>7. Len(g) = Len(feed) + Cardinality(ids \cap (1..n))
    BY <1>0, <1>1, <1>2, <2>3, <2>5 DEF EchoFacts
  <2>8. ASSUME NEW k \in (Len(feed) + 1)..Len(g)
        PROVE  \E i \in ids : g[k].anime = rows[i].anime /\ g[k].type = "update"
    <3>1. CASE k = Len(h) + 1
      BY <1>4, <2>3, <3>1 DEF Echoes
    <3>2. CASE k # Len(h) + 1
      <4>1. k \in (Len(feed) + 1)..Len(h) /\ k \in 1..Len(h)
        BY <1>0, <1>1, <2>3, <3>2
      <4> QED BY <2>3, <4>1 DEF EchoFacts
    <3> QED BY <3>1, <3>2
  <2>11. \A i \in ids : i <= n - 1 => \E k \in (Len(feed) + 1)..Len(h) : Echoes(h, k, i)
    BY DEF EchoFacts
  <2>9. ASSUME NEW i \in ids, i <= n
        PROVE  \E k \in (Len(feed) + 1)..Len(g) : Echoes(g, k, i)
    <3>1. CASE i = n
      <4>1. Len(h) + 1 \in (Len(feed) + 1)..Len(g)
        BY <1>0, <1>1, <2>3
      <4> QED BY <2>3, <3>1, <4>1
    <3>2. CASE i # n
      <4>1. i <= n - 1
        BY <1>0, <2>9, <3>2
      <4>2. PICK k \in (Len(feed) + 1)..Len(h) : Echoes(h, k, i)
        BY <4>1, <2>11
      <4>5. Len(h) \in Nat /\ Len(feed) \in Nat /\ Len(g) = Len(h) + 1 /\ \A j \in 1..Len(h) : g[j] = h[j]
        BY <1>0, <1>1, <2>3
      <4>6. k \in 1..Len(h) /\ k \in (Len(feed) + 1)..Len(g)
        BY <4>5
      <4>3. k \in (Len(feed) + 1)..Len(g) /\ g[k] = h[k]
        BY <4>5, <4>6
      <4> QED BY <4>2, <4>3 DEF Echoes
    <3> QED BY <3>1, <3>2
  <2>10. EchoFacts(ids, n, g)
    BY <2>6, <2>7, <2>8, <2>9 DEF EchoFacts
  <2> QED BY <1>4, <2>10 DEF g
<1> QED BY <1>3, <1>4

\* All of them.
LEMMA EchoedIs ==
  ASSUME TypeOK, NEW ids \in SUBSET RowIds, \A i \in ids : \E k \in FeedIds : feed[k].anime = rows[i].anime
  PROVE  EchoFacts(ids, Len(rows), Echoed(ids))
<1> DEFINE m == Len(rows)
           Step1(h, n) == IF n \in ids THEN Echo(h, n) ELSE h
           step == [n \in 1..m |-> [h \in Histories |-> Step1(h, n)]]
           Rec(h) == [n \in 0..m |-> IF n = 0 THEN feed
                        ELSE IF n \in ids THEN Echo(h[n - 1], n) ELSE h[n - 1]]
           g == CHOOSE k : k = Rec(k)
<1>1. m \in Nat /\ feed \in Histories /\ Len(feed) \in Nat
  BY DEF TypeOK, Histories
<1>2. ASSUME NEW n \in 1..m, NEW h \in Histories PROVE Step1(h, n) \in Histories
  <2>1. CASE n \notin ids
    BY <2>1
  <2>2. CASE n \in ids
    <3>1. PICK k0 \in FeedIds : feed[k0].anime = rows[n].anime
      BY <2>2
    <3>2. h \in Seq(Change) /\ Len(h) \in Nat /\ Len(feed) <= Len(h) /\ \A k \in FeedIds : h[k] = feed[k]
      BY DEF Histories
    <3>3. k0 \in 1..Len(h) /\ h[k0].anime = rows[n].anime /\ n \in RowIds
      BY <1>1, <3>1, <3>2 DEF FeedIds, RowIds
    <3>4. /\ Echo(h, n) \in Seq(Change) /\ Len(Echo(h, n)) = Len(h) + 1
          /\ \A k \in 1..Len(h) : Echo(h, n)[k] = h[k]
      BY <3>2, <3>3, EchoIs
    <3>5. Echo(h, n) \in Histories
      BY <1>1, <3>2, <3>4 DEF Histories, FeedIds
    <3> QED BY <2>2, <3>5
  <2> QED BY <2>1, <2>2
<1>3. step \in [1..m -> [Histories -> Histories]]
  BY <1>2
<1>4. \A n \in 1..m : \A h \in Histories : step[n][h] = Step1(h, n)
  OBVIOUS
<1>5. PICK w : Takes(w, m, Histories, feed, step)
  <2> HIDE DEF step
  <2> QED BY <1>1, <1>3, StepsCompose
<1>6. w = Rec(w)
  <2> HIDE DEF step, m
  <2>1. w \in [0..m -> Histories] /\ w[0] = feed /\ \A n \in 1..m : w[n] = step[n][w[n - 1]]
    BY <1>5 DEF Takes
  <2>2. ASSUME NEW n \in 1..m PROVE w[n] = Step1(w[n - 1], n)
    <3>1. n - 1 \in 0..m
      BY <1>1
    <3> QED BY <3>1, <2>1, <1>4
  <2>3. \A n \in 0..m : w[n] = IF n = 0 THEN feed ELSE Step1(w[n - 1], n)
    BY <1>1, <2>1, <2>2
  <2> QED BY <2>1, <2>3
<1>7. Echoed(ids) = g[m]
  BY DEF Echoed
<1>8. g = Rec(g)
  <2> HIDE DEF Rec
  <2> QED BY <1>6
<1>9. g[0] = feed /\ \A n \in 1..m : g[n] = Step1(g[n - 1], n)
  <2> HIDE DEF g
  <2> QED BY <1>1, <1>8
<1> HIDE DEF g, Step1, m
<1> DEFINE H == {n \in Nat : n <= m => EchoFacts(ids, n, g[n])}
<1>10. EchoFacts(ids, 0, feed)
  <2>1. ids \cap (1..0) = {} /\ Cardinality({}) = 0
    BY FS_EmptySet
  <2>2. \A i \in ids : ~(i <= 0)
    BY DEF RowIds
  <2>3. Cardinality(ids \cap (1..0)) = 0
    BY <2>1
  <2>4. Len(feed) = Len(feed) + Cardinality(ids \cap (1..0))
    BY <1>1, <2>3
  <2> QED BY <1>1, <2>2, <2>4 DEF EchoFacts
<1>11. 0 \in H
  BY <1>9, <1>10
<1>12. ASSUME NEW n \in 1..m, n - 1 \in H PROVE n \in H
  <2>1. n \in RowIds /\ n \in Nat /\ n - 1 <= m
    BY <1>1 DEF RowIds, m
  <2>2. EchoFacts(ids, n - 1, g[n - 1])
    BY <1>12, <2>1
  <2>3. EchoFacts(ids, n, Step1(g[n - 1], n))
    BY <2>1, <2>2, EchoStep DEF Step1
  <2> QED BY <1>9, <2>1, <2>3
<1>13. m \in H
  <2> HIDE DEF H
  <2>1. \A n \in 1..m : n - 1 \in H => n \in H
    BY <1>12
  <2>2. 0..m \subseteq H
    BY <1>1, <1>11, <2>1, UpTo
  <2>3. m \in 0..m
    BY <1>1
  <2> QED BY <2>2, <2>3
<1>14. EchoFacts(ids, m, g[m])
  BY <1>1, <1>13
<1> QED BY <1>7, <1>14 DEF m

\* The answer: what it applied is at the end of the changelog.
LEMMA BridgeAnswersTypes ==
  ASSUME TypeOK, NEW r \in Runtimes, BridgeAnswers(r), \A q \in Runtimes : cyc[q].send \subseteq RowIds
  PROVE  /\ TypeOK' /\ FeedKept
         /\ cyc'[r].pc = "answered" /\ cyc'[r].upto = Len(feed)' /\ cyc'[r].since = cyc[r].since
         /\ cyc'[r].send = cyc[r].send
         /\ \A q \in Runtimes \ {r} : cyc'[q] = cyc[q]
         /\ \A k \in FeedIds' : k \in FeedIds \/ (Exists(feed'[k].anime, Len(feed)) /\ feed'[k].type = "update")
         /\ \A i \in cyc'[r].applied : /\ i \in HeldBy(r) /\ i \in RowIds
                                       /\ \E k \in FeedIds' : k > Len(feed) /\ Echoes(feed', k, i)
<1>1. PICK refused \in SUBSET HeldBy(r) :
       LET applied == {i \in HeldBy(r) \ refused :
                         /\ Exists(rows[i].anime, Len(feed))
                         /\ TokenOf(i) = LastChange(rows[i].anime, Len(feed))}
       IN /\ Len(feed) + Cardinality(applied) <= MaxFeed
          /\ feed' = Echoed(applied)
          /\ cyc' = [cyc EXCEPT ![r].pc = "answered", ![r].upto = Len(feed'),
                                ![r].applied = applied, ![r].refused = refused]
  BY DEF BridgeAnswers
<1> DEFINE applied == {i \in HeldBy(r) \ refused :
                         /\ Exists(rows[i].anime, Len(feed))
                         /\ TokenOf(i) = LastChange(rows[i].anime, Len(feed))}
<1>2. /\ Len(feed) + Cardinality(applied) <= MaxFeed /\ feed' = Echoed(applied)
      /\ cyc' = [cyc EXCEPT ![r].pc = "answered", ![r].upto = Len(feed'),
                            ![r].applied = applied, ![r].refused = refused]
  BY <1>1
<1>3. UNCHANGED <<local, rows, staged, cursor, paired, heal, keep, pairing, unpaired, drift>>
      /\ cyc[r].pc = "asked"
  BY DEF BridgeAnswers
<1>4. Len(rows) \in Nat /\ Len(rows) <= MaxRow /\ Len(feed) \in Nat /\ Len(feed) <= MaxFeed
  BY DEF TypeOK
<1>5. HeldBy(r) \subseteq RowIds
  BY DEF HeldBy
<1>6. /\ applied \in SUBSET RowIds /\ applied \subseteq HeldBy(r)
      /\ \A i \in applied : Exists(rows[i].anime, Len(feed))
  BY <1>5
<1>7. refused \in SUBSET RowIds
  BY <1>5
<1> HIDE DEF applied
<1>8. \A i \in applied : \E k \in FeedIds : feed[k].anime = rows[i].anime
  <2>1. \A i \in applied : LastChange(rows[i].anime, Len(feed)) # 0
    BY <1>6 DEF Exists
  <2> QED BY <1>4, <2>1, LastChangeIs DEF FeedIds
<1>9. EchoFacts(applied, Len(rows), feed')
  BY <1>2, <1>6, <1>8, EchoedIs
<1>10. applied \cap (1..Len(rows)) = applied
  BY <1>6 DEF RowIds
<1>11. IsFiniteSet(applied) /\ Cardinality(applied) \in Nat
  <2>1. IsFiniteSet(1..Len(rows))
    BY <1>4, FS_Interval
  <2>2. IsFiniteSet(applied)
    BY <1>6, <2>1, FS_Subset DEF RowIds
  <2> QED BY <2>2, FS_CardinalityType
<1>12. /\ feed' \in Histories /\ Len(feed)' = Len(feed) + Cardinality(applied)
  BY <1>9, <1>10 DEF EchoFacts
<1>13. /\ feed' \in Seq(Change) /\ Len(feed)' \in Nat /\ Len(feed) <= Len(feed)' /\ Len(feed)' <= MaxFeed
       /\ \A k \in FeedIds : feed'[k] = feed[k]
  <2>1. feed' \in Seq(Change) /\ Len(feed') >= Len(feed) /\ \A k \in FeedIds : feed'[k] = feed[k]
    BY <1>12 DEF Histories
  <2> QED BY <1>2, <1>4, <1>11, <1>12, <2>1
<1>14. FeedKept
  BY <1>4, <1>13 DEF FeedKept
<1> DEFINE k == [cyc[r] EXCEPT !.pc = "answered", !.upto = Len(feed'), !.applied = applied, !.refused = refused]
<1>15. /\ k \in Cycle /\ k.pc = "answered" /\ k.upto = Len(feed)' /\ k.since = cyc[r].since /\ k.send = cyc[r].send
       /\ k.applied = applied
  <2>1. cyc[r] \in Cycle
    BY DEF TypeOK
  <2>2. Len(feed') \in 0..MaxFeed /\ applied \in SUBSET (1..MaxRow) /\ refused \in SUBSET (1..MaxRow)
    BY <1>4, <1>6, <1>7, <1>13, RemoteMergeAssumption DEF RowIds
  <2> QED BY <2>1, <2>2 DEF Cycle
<1>16. cyc' = [cyc EXCEPT ![r] = k]
  BY <1>2
<1> HIDE DEF k
<1>17. cyc' \in [Runtimes -> Cycle] /\ cyc'[r] = k /\ \A q \in Runtimes \ {r} : cyc'[q] = cyc[q]
  <2>1. cyc \in [Runtimes -> Cycle]
    BY DEF TypeOK
  <2> HIDE DEF Cycle
  <2> QED BY <1>15, <1>16, <2>1
<1>18. TypeOK'
  BY <1>3, <1>13, <1>14, <1>17, GrownTypes
<1>19. ASSUME NEW j \in FeedIds'
       PROVE  j \in FeedIds \/ (Exists(feed'[j].anime, Len(feed)) /\ feed'[j].type = "update")
  <2>1. CASE j \in FeedIds
    BY <2>1
  <2>2. CASE j \notin FeedIds
    <3>1. j \in (Len(feed) + 1)..Len(feed')
      BY <1>4, <1>13, <2>2 DEF FeedIds
    <3>2. \A l \in (Len(feed) + 1)..Len(feed') : \E i \in applied : feed'[l].anime = rows[i].anime /\ feed'[l].type = "update"
      BY <1>9 DEF EchoFacts
    <3>3. PICK i \in applied : feed'[j].anime = rows[i].anime /\ feed'[j].type = "update"
      BY <3>1, <3>2
    <3> QED BY <1>6, <3>3
  <2> QED BY <2>1, <2>2
<1>20. ASSUME NEW i \in applied PROVE \E j \in FeedIds' : j > Len(feed) /\ Echoes(feed', j, i)
  <2>1. \A l \in applied : l <= Len(rows) => \E j \in (Len(feed) + 1)..Len(feed') : Echoes(feed', j, l)
    BY <1>9 DEF EchoFacts
  <2>2. i <= Len(rows)
    BY <1>4, <1>6 DEF RowIds
  <2>3. PICK j \in (Len(feed) + 1)..Len(feed') : Echoes(feed', j, i)
    BY <2>1, <2>2
  <2>4. j \in FeedIds' /\ j > Len(feed)
    BY <1>4, <1>13 DEF FeedIds
  <2> QED BY <2>3, <2>4
<1> QED BY <1>6, <1>14, <1>15, <1>17, <1>18, <1>19, <1>20

\* The rows after an answer: those the runtime holds are confirmed, given up or queued again,
\* and a confirmed edit deletes those of its anime that were given up before it.
LEMMA AnswerRows ==
  ASSUME TypeOK, NEW r \in Runtimes, rows' = AfterAnswer(r), cyc[r].send \subseteq RowIds
  PROVE  /\ RowsInPlace
         /\ \A i \in RowIds :
              \/ /\ i \in HeldBy(r) /\ rows[i].status = "processing"
                 /\ rows'[i].by = "none"
                 /\ \/ i \in cyc[r].applied /\ rows'[i].status = "synced"
                    \/ i \notin cyc[r].applied /\ rows'[i].status \in {"given_up", "pending"}
              \/ /\ i \notin HeldBy(r) /\ rows'[i] = rows[i]
              \/ /\ rows[i].status = "given_up" /\ rows'[i].status = "deleted"
                 /\ \E j \in HeldBy(r) : j > i /\ rows[j].anime = rows[i].anime
<1>1. Len(rows) \in Nat /\ rows \in Seq(Row)
  BY DEF TypeOK
<1>2. \A i \in RowIds : rows[i] \in Row
  BY <1>1 DEF RowIds
<1>3. \A i \in HeldBy(r) : i \in RowIds /\ rows[i].status = "processing"
  BY DEF HeldBy
<1>4. ASSUME NEW i \in RowIds
      PROVE  /\ rows'[i] \in Row /\ rows'[i].anime = rows[i].anime
             /\ \/ /\ i \in HeldBy(r) /\ rows[i].status = "processing"
                   /\ rows'[i].by = "none"
                   /\ \/ i \in cyc[r].applied /\ rows'[i].status = "synced"
                      \/ i \notin cyc[r].applied /\ rows'[i].status \in {"given_up", "pending"}
                \/ /\ i \notin HeldBy(r) /\ rows'[i] = rows[i]
                \/ /\ rows[i].status = "given_up" /\ rows'[i].status = "deleted"
                   /\ \E j \in HeldBy(r) : j > i /\ rows[j].anime = rows[i].anime
  <2> DEFINE x == rows[i]
             st == IF i \in cyc[r].applied THEN "synced" ELSE IF i \in cyc[r].refused THEN "given_up" ELSE "pending"
             y == [x EXCEPT !.by = "none", !.status = st]
             z == [x EXCEPT !.status = "deleted"]
             earlier == /\ rows[i].status = "given_up"
                        /\ \E j \in HeldBy(r) \cap cyc[r].applied : j > i /\ rows[j].anime = rows[i].anime
  <2>1. rows'[i] = IF i \in HeldBy(r) THEN y ELSE IF earlier THEN z ELSE x
    BY DEF AfterAnswer
  <2>2. x \in Row
    BY <1>2
  <2>3. st \in {"synced", "given_up", "pending"} /\ (i \in cyc[r].applied <=> st = "synced")
    OBVIOUS
  <2> HIDE DEF x, st
  <2>4. y \in Row /\ y.anime = x.anime /\ y.by = "none" /\ y.status = st
    BY <2>2, <2>3 DEF Row, Statuses
  <2>5. z \in Row /\ z.anime = x.anime /\ z.status = "deleted"
    BY <2>2 DEF Row, Statuses
  <2> HIDE DEF y, z
  <2>6. CASE i \in HeldBy(r)
    BY <1>3, <2>1, <2>3, <2>4, <2>6 DEF x
  <2>7. CASE i \notin HeldBy(r) /\ earlier
    BY <2>1, <2>5, <2>7 DEF x
  <2>8. CASE i \notin HeldBy(r) /\ ~earlier
    BY <2>1, <2>2, <2>8 DEF x
  <2> QED BY <2>6, <2>7, <2>8
<1>5. rows' \in [1..Len(rows) -> Row]
  <2>1. rows' = [i \in RowIds |-> rows'[i]]
    BY DEF AfterAnswer
  <2> HIDE DEF Row
  <2> QED BY <1>4, <2>1 DEF RowIds
<1>6. rows' \in Seq(Row) /\ Len(rows') = Len(rows)
  <2> HIDE DEF Row
  <2> QED BY <1>1, <1>5, RowFn
<1>7. RowsInPlace
  BY <1>4, <1>6 DEF RowsInPlace, RowIds
<1> QED BY <1>4, <1>7

\* What the history of older snapshots holds is animes.
LEMMA DriftType ==
  ASSUME TypeOK, NEW table
  PROVE  /\ DriftAfterMerge(table) \subseteq Animes
         /\ \A n : \A written \in SUBSET Animes : DriftAfter(written, table, n) \subseteq Animes
<1>1. drift \subseteq Animes
  BY DEF TypeOK
<1>2. Revived(table) \subseteq Animes
  BY DEF Revived
<1>3. DriftAfterMerge(table) \subseteq Animes
  BY <1>1, <1>2 DEF DriftAfterMerge
<1>4. ASSUME NEW n, NEW written \in SUBSET Animes PROVE DriftAfter(written, table, n) \subseteq Animes
  BY <1>3 DEF DriftAfter
<1> QED BY <1>3, <1>4

\* A heal writes the animes of its snapshot that have no unacknowledged edit.
LEMMA HealWriteTypes ==
  ASSUME TypeOK, heal.upto <= Len(feed), HealWrite
  PROVE  /\ TypeOK' /\ heal'.pc = "idle" /\ heal'.upto = 0
         /\ \A a \in Animes : IF Exists(a, heal.upto) /\ a \notin UnackedAnimes
                              THEN local'[a] = Healed(a, heal.upto) ELSE local'[a] = local[a]
<1> DEFINE n == heal.upto
           written == {a \in Animes : Exists(a, n)} \ UnackedAnimes
<1>1. /\ local' = [a \in Animes |-> IF a \in written THEN Healed(a, n) ELSE local[a]]
      /\ drift' = DriftAfter(written, local', n)
      /\ heal' = NoFetch
      /\ UNCHANGED <<feed, rows, staged, cursor, paired, cyc, keep, pairing, unpaired>>
  BY DEF HealWrite
<1>2. n \in 0..Len(feed)
  <2>1. n \in 0..MaxFeed /\ Len(feed) \in Nat
    BY DEF TypeOK, Fetch
  <2> QED BY <2>1, RemoteMergeAssumption
<1>3. \A a \in written : Healed(a, n) \in Anime
  BY <1>2, HealedIs
<1>4. local' \in [Animes -> Anime]
  <2>1. local \in [Animes -> Anime]
    BY DEF TypeOK
  <2> HIDE DEF Anime, written
  <2> QED BY <1>1, <1>3, <2>1
<1>5. drift' \subseteq Animes
  <2>1. written \in SUBSET Animes
    OBVIOUS
  <2> HIDE DEF written
  <2> QED BY <1>1, <2>1, DriftType
<1>6. NoFetch \in Fetch /\ NoFetch.pc = "idle" /\ NoFetch.upto = 0
  BY RemoteMergeAssumption DEF NoFetch, Fetch
<1>7. TypeOK'
  BY <1>1, <1>4, <1>5, <1>6 DEF TypeOK
<1>8. \A a \in Animes : IF Exists(a, n) /\ a \notin UnackedAnimes
                        THEN local'[a] = Healed(a, n) ELSE local'[a] = local[a]
  BY <1>1
<1> QED BY <1>1, <1>6, <1>7, <1>8

\* The user keeps the bridge's state: unless the anime is claimed, its edits are dropped and
\* the snapshot, or the deletion, is written.
LEMMA KeepBridgeTypes ==
  ASSUME TypeOK, NEW a \in Animes, keep[a].upto <= Len(feed), KeepBridgeWrite(a)
  PROVE  /\ TypeOK' /\ keep'[a] = NoFetch /\ \A b \in Animes \ {a} : keep'[b] = keep[b]
         /\ UNCHANGED <<feed, staged, cursor, paired, cyc, heal, pairing, unpaired>>
         /\ \/ Claimed(a) /\ UNCHANGED <<rows, local, drift>>
            \/ /\ ~Claimed(a) /\ RowsInPlace
               /\ \A i \in RowIds : \/ rows'[i] = rows[i] /\ (rows[i].anime # a \/ rows[i].status = "synced")
                                    \/ rows[i].anime = a /\ rows'[i].status = "deleted"
               /\ \A b \in Animes \ {a} : local'[b] = local[b]
               /\ local'[a] = IF Exists(a, keep[a].upto) THEN Healed(a, keep[a].upto) ELSE NoAnime
               /\ drift' = DriftAfter({a}, local', keep[a].upto)
<1>1. /\ keep' = [keep EXCEPT ![a] = NoFetch]
      /\ UNCHANGED <<feed, staged, cursor, paired, cyc, heal, pairing, unpaired>>
  BY DEF KeepBridgeWrite
<1>2. keep' \in [Animes -> Fetch] /\ keep'[a] = NoFetch /\ \A b \in Animes \ {a} : keep'[b] = keep[b]
  <2>1. keep \in [Animes -> Fetch] /\ NoFetch \in Fetch
    BY RemoteMergeAssumption DEF TypeOK, NoFetch, Fetch
  <2> HIDE DEF Fetch, NoFetch
  <2> QED BY <1>1, <2>1
<1>3. CASE Claimed(a)
  <2>1. UNCHANGED <<rows, local, drift>>
    BY <1>3 DEF KeepBridgeWrite
  <2>2. TypeOK'
    BY <1>1, <1>2, <2>1 DEF TypeOK
  <2> QED BY <1>1, <1>2, <1>3, <2>1, <2>2
<1>4. CASE ~Claimed(a)
  <2> DEFINE n == keep[a].upto
             ids == {i \in RowIds : rows[i].anime = a /\ rows[i].status # "synced"}
  <2>1. /\ rows' = Settled(ids, "deleted")
        /\ local' = [local EXCEPT ![a] = IF Exists(a, n) THEN Healed(a, n) ELSE NoAnime]
        /\ drift' = DriftAfter({a}, local', n)
    BY <1>4 DEF KeepBridgeWrite
  <2>2. n \in 0..Len(feed)
    <3>1. n \in 0..MaxFeed /\ Len(feed) \in Nat
      BY DEF TypeOK, Fetch
    <3> QED BY <3>1, RemoteMergeAssumption
  <2>3. "deleted" \in Statuses
    BY DEF Statuses
  <2> HIDE DEF ids
  <2>4. /\ RowsInPlace
        /\ \A i \in RowIds : i \in ids => rows'[i].status = "deleted"
        /\ \A i \in RowIds : i \notin ids => rows'[i] = rows[i]
    BY <2>1, <2>3, SettledRows
  <2>5. \A i \in RowIds : \/ rows'[i] = rows[i] /\ (rows[i].anime # a \/ rows[i].status = "synced")
                          \/ rows[i].anime = a /\ rows'[i].status = "deleted"
    BY <2>4 DEF ids
  <2> DEFINE x == IF Exists(a, n) THEN Healed(a, n) ELSE NoAnime
  <2>6. x \in Anime
    <3>1. NoAnime \in Anime
      BY RemoteMergeAssumption DEF NoAnime, Anime, Values
    <3>2. Exists(a, n) => Healed(a, n) \in Anime
      BY <2>2, HealedIs
    <3> QED BY <3>1, <3>2
  <2>7. local' = [local EXCEPT ![a] = x] /\ local \in [Animes -> Anime]
    BY <2>1 DEF TypeOK
  <2> HIDE DEF x
  <2>8. local' \in [Animes -> Anime] /\ local'[a] = x /\ \A b \in Animes \ {a} : local'[b] = local[b]
    <3> HIDE DEF Anime
    <3> QED BY <2>6, <2>7
  <2>9. drift' \subseteq Animes
    BY <2>1, DriftType
  <2>10. rows' \in Seq(Row) /\ Len(rows') <= MaxRow
    BY <2>4 DEF RowsInPlace, TypeOK
  <2>11. TypeOK'
    BY <1>1, <1>2, <2>8, <2>9, <2>10 DEF TypeOK
  <2> QED BY <1>1, <1>2, <1>4, <2>1, <2>4, <2>5, <2>8, <2>11 DEF x
<1> QED BY <1>3, <1>4

\* Unpairing deletes the queue, the stage and the tokens.
LEMMA UnpairTypes ==
  ASSUME TypeOK, Unpair
  PROVE  TypeOK' /\ RowsInPlace /\ (\A i \in RowIds : rows'[i].status = "deleted") /\ \A a \in Animes : TokenOnly(a)
<1>1. /\ paired' = FALSE /\ unpaired' = unpaired + 1 /\ unpaired < MaxUnpair
      /\ cursor' = 0 /\ staged' = {}
      /\ rows' = Settled(RowIds, "deleted")
      /\ local' = [a \in Animes |-> [local[a] EXCEPT !.token = 0]]
      /\ UNCHANGED <<feed, cyc, heal, keep, pairing, drift>>
  BY DEF Unpair
<1>2. "deleted" \in Statuses
  BY DEF Statuses
<1>3. RowsInPlace /\ \A i \in RowIds : rows'[i].status = "deleted"
  BY <1>1, <1>2, SettledRows
<1>4. ASSUME NEW a \in Animes PROVE local'[a] \in Anime /\ TokenOnly(a)
  <2> DEFINE x == local[a]
  <2>1. x \in Anime /\ 0 \in 0..MaxFeed
    BY RemoteMergeAssumption DEF TypeOK
  <2>2. local'[a] = [x EXCEPT !.token = 0]
    BY <1>1
  <2> HIDE DEF x
  <2>3. [x EXCEPT !.token = 0] \in Anime /\ [x EXCEPT !.token = 0].here = x.here
        /\ [x EXCEPT !.token = 0].guard = x.guard /\ \A f \in Known : [x EXCEPT !.token = 0][f] = x[f]
    BY <2>1 DEF Anime, Known
  <2> QED BY <2>2, <2>3 DEF TokenOnly, x
<1>5. local' \in [Animes -> Anime]
  <2>1. local' = [a \in Animes |-> local'[a]]
    BY <1>1
  <2> HIDE DEF Anime
  <2> QED BY <1>4, <2>1
<1>6. unpaired' \in 0..MaxUnpair
  BY <1>1, RemoteMergeAssumption DEF TypeOK
<1>7. cursor' \in 0..Len(feed')
  BY <1>1 DEF TypeOK
<1>8. TypeOK'
  BY <1>1, <1>3, <1>5, <1>6, <1>7 DEF TypeOK, RowsInPlace
<1> QED BY <1>3, <1>4, <1>8

\* A pairing writes the animes of its snapshot.
LEMMA PairWriteTypes ==
  ASSUME TypeOK, pairing.upto <= Len(feed), PairWrite
  PROVE  /\ TypeOK' /\ pairing.upto \in 0..Len(feed) /\ pairing'.pc = "idle"
         /\ \A a \in Animes :
              IF Exists(a, pairing.upto)
              THEN /\ local'[a].here /\ local'[a].guard = local[a].guard
                   /\ \A f \in Known : local'[a][f] = Snapshot(a, pairing.upto)[f]
              ELSE local'[a] = local[a]
<1> DEFINE n == pairing.upto
<1>1. /\ pairing' = NoFetch /\ paired' = TRUE /\ cursor' = 0
      /\ local' = [a \in Animes |-> IF a \in {b \in Animes : Exists(b, n)}
           THEN Upserted(local[a], Snapshot(a, n), 0, LastChange(a, n)) ELSE local[a]]
      /\ UNCHANGED <<feed, rows, staged, cyc, heal, keep, unpaired, drift>>
  BY DEF PairWrite
<1>2. n \in 0..Len(feed) /\ Len(feed) \in Nat /\ Len(feed) <= MaxFeed
  <2>1. n \in 0..MaxFeed /\ Len(feed) \in Nat /\ Len(feed) <= MaxFeed
    BY DEF TypeOK, Fetch
  <2> QED BY <2>1, RemoteMergeAssumption
<1>3. ASSUME NEW a \in Animes, Exists(a, n)
      PROVE  /\ local'[a] \in Anime
             /\ local'[a].here /\ local'[a].guard = local[a].guard
             /\ \A f \in Known : local'[a][f] = Snapshot(a, n)[f]
  <2>1. local'[a] = Upserted(local[a], Snapshot(a, n), 0, LastChange(a, n))
    BY <1>1, <1>3
  <2>2. Snapshot(a, n) \in Content /\ LastChange(a, n) \in FeedIds
    BY <1>2, <1>3, SnapshotIs
  <2>3. local[a] \in Anime /\ 0 \in 0..MaxFeed /\ LastChange(a, n) \in 0..MaxFeed
    BY <1>2, <2>2, RemoteMergeAssumption DEF TypeOK, FeedIds
  <2>4. Upserted(local[a], Snapshot(a, n), 0, LastChange(a, n)).guard = local[a].guard
    BY <2>2, <2>3, UpsertedIsAnime
  <2> QED BY <2>1, <2>2, <2>3, <2>4, UpsertedIsAnime
<1>4. \A a \in Animes : ~Exists(a, n) => local'[a] = local[a]
  BY <1>1
<1>5. local' \in [Animes -> Anime]
  <2>1. local' = [a \in Animes |-> local'[a]] /\ local \in [Animes -> Anime]
    BY <1>1 DEF TypeOK
  <2>2. \A a \in Animes : local'[a] \in Anime
    BY <1>3, <1>4, <2>1
  <2> HIDE DEF Anime
  <2> QED BY <2>1, <2>2
<1>6. NoFetch \in Fetch /\ NoFetch.pc = "idle"
  BY RemoteMergeAssumption DEF NoFetch, Fetch
<1>7. TypeOK'
  BY <1>1, <1>2, <1>5, <1>6 DEF TypeOK
<1> QED BY <1>1, <1>2, <1>3, <1>4, <1>6, <1>7

\* What a pass makes of every anime.
LEMMA PassOverAll ==
  ASSUME TypeOK, NothingAfterDelete, NEW changes \in SUBSET FeedIds,
         \A a \in Animes : ~local[a].here => local[a].guard = 0
  PROVE  /\ Merged(changes) \in Tables
         /\ \A a \in Animes : PassFacts(a, changes, Len(feed), Merged(changes)[a])
<1>1. \A a \in Animes : Merged(changes) \in Tables /\ PassFacts(a, changes, Len(feed), Merged(changes)[a])
  BY PassMerges
<1>2. Animes # {}
  BY RemoteMergeAssumption
<1> QED BY <1>1, <1>2

\* What a pass stages again: the changes of the animes with an unacknowledged edit, unless it
\* also has the anime's deletion.
LEMMA KeptIs ==
  ASSUME TypeOK, NothingAfterDelete, NEW changes \in SUBSET FeedIds
  PROVE  /\ KeptDeferred(changes) \subseteq changes
         /\ \A c \in KeptDeferred(changes) : /\ feed[c].anime \in UnackedAnimes
                                             /\ DeletesIn(feed[c].anime, changes) = {}
         /\ \A a \in UnackedAnimes : DeletesIn(a, changes) = {} =>
              OfIn(a, changes) \subseteq KeptDeferred(changes)
<1>1. KeptDeferred(changes) \subseteq changes
  BY DEF KeptDeferred
<1>2. ASSUME NEW c \in KeptDeferred(changes)
      PROVE  feed[c].anime \in UnackedAnimes /\ DeletesIn(feed[c].anime, changes) = {}
  <2>1. c \in changes /\ Decision(c) = "defer_outbox" /\ c \in FeedIds /\ c \in Nat
    BY ChangeType DEF KeptDeferred, FeedIds
  <2>2. feed[c].type # "delete" /\ feed[c].anime \in UnackedAnimes
    BY <2>1, Decided
  <2>3. ASSUME NEW d \in DeletesIn(feed[c].anime, changes) PROVE FALSE
    <3>1. d \in changes /\ feed[d].anime = feed[c].anime /\ feed[d].type = "delete" /\ d \in FeedIds /\ d \in Nat
      BY DEF DeletesIn, FeedIds
    <3>2. ~(d >= c)
      BY <3>1 DEF KeptDeferred
    <3>3. d \in 1..(c - 1)
      BY <2>1, <3>1, <3>2 DEF FeedIds
    <3> QED BY <2>1, <3>1, <3>3 DEF NothingAfterDelete
  <2> QED BY <2>2, <2>3
<1>3. ASSUME NEW a \in UnackedAnimes, DeletesIn(a, changes) = {}, NEW c \in OfIn(a, changes)
      PROVE  c \in KeptDeferred(changes)
  <2>1. c \in changes /\ feed[c].anime = a /\ c \in FeedIds
    BY DEF OfIn
  <2>2. feed[c].type # "delete"
    BY <1>3, <2>1 DEF DeletesIn
  <2>3. Decision(c) = "defer_outbox"
    BY <2>1, <2>2, Decided
  <2>4. \A d \in changes : ~(feed[d].type = "delete" /\ feed[d].anime = feed[c].anime /\ d >= c)
    BY <1>3, <2>1 DEF DeletesIn
  <2> QED BY <2>1, <2>3, <2>4 DEF KeptDeferred
<1> QED BY <1>1, <1>2, <1>3

\* The table shows of an anime what x shows.
ShownAs(a, x) == /\ local'[a].here = x.here /\ local'[a].guard = x.guard
                 /\ \A f \in Known : local'[a][f] = x[f]

\* A drain.
LEMMA DrainTypes ==
  ASSUME TypeOK, NothingAfterDelete, \A a \in Animes : ~local[a].here => local[a].guard = 0, Drain
  PROVE  /\ TypeOK' /\ staged \subseteq FeedIds /\ staged' = KeptDeferred(staged)
         /\ drift' = DriftAfterMerge(local')
         /\ UNCHANGED <<feed, rows, cursor, paired, cyc, heal, keep, pairing, unpaired>>
         /\ \A a \in Animes : PassFacts(a, staged, Len(feed), local'[a])
<1>1. /\ local' = Merged(staged) /\ staged' = KeptDeferred(staged) /\ drift' = DriftAfterMerge(local')
      /\ UNCHANGED <<feed, rows, cursor, paired, cyc, heal, keep, pairing, unpaired>>
  BY DEF Drain
<1>2. staged \in SUBSET FeedIds
  BY DEF TypeOK, FeedIds
<1>3. local' \in [Animes -> Anime] /\ \A a \in Animes : PassFacts(a, staged, Len(feed), local'[a])
  BY <1>1, <1>2, PassOverAll DEF Tables
<1>4. staged' \subseteq 1..Len(feed')
  <2>1. KeptDeferred(staged) \subseteq staged
    BY <1>2, KeptIs
  <2> QED BY <1>1, <1>2, <2>1 DEF FeedIds
<1>5. drift' \subseteq Animes
  BY <1>1, DriftType
<1>6. TypeOK'
  BY <1>1, <1>3, <1>4, <1>5 DEF TypeOK
<1> QED BY <1>1, <1>2, <1>3, <1>6

\* The page of an answer is of the changelog, and the cursor only moves forward, over it.
LEMMA PageIs ==
  ASSUME TypeOK, RequestsBehind, NEW r \in Runtimes, cyc[r].pc = "answered"
  PROVE  /\ Page(r) \subseteq FeedIds /\ Forward(r) \in 0..Len(feed) /\ cursor <= Forward(r)
         /\ cyc[r].since \in Nat /\ cyc[r].upto \in Nat /\ cyc[r].upto <= Len(feed)
         /\ paired => cyc[r].upto <= Forward(r) /\ (Forward(r) = cursor \/ Forward(r) = cyc[r].upto)
         /\ cursor \in Nat
<1>1. cyc[r] \in Cycle /\ Len(feed) \in Nat /\ cursor \in 0..Len(feed)
  BY DEF TypeOK
<1>2. cyc[r].since \in Nat /\ cyc[r].upto \in Nat /\ cyc[r].upto <= Len(feed)
  BY <1>1, RemoteMergeAssumption DEF Cycle, RequestsBehind
<1>3. Page(r) \subseteq FeedIds
  BY <1>1, <1>2 DEF Page, FeedIds
<1>4. Forward(r) = IF paired /\ cyc[r].upto > cursor THEN cyc[r].upto ELSE cursor
  BY DEF Forward
<1> QED BY <1>1, <1>2, <1>3, <1>4

\* What every answer does to the rows, the cursor and the request.
LEMMA EndTypes ==
  ASSUME TypeOK, RequestsBehind, NEW r \in Runtimes, cyc[r].pc = "answered", EndCycle(r)
  PROVE  /\ rows' \in Seq(Row) /\ Len(rows') <= MaxRow
         /\ cursor' \in 0..Len(feed') /\ cyc' \in [Runtimes -> Cycle] /\ cyc'[r] = NoCycle
         /\ \A q \in Runtimes \ {r} : cyc'[q] = cyc[q]
<1>1. /\ rows' = AfterAnswer(r) /\ cursor' = Forward(r) /\ cyc' = [cyc EXCEPT ![r] = NoCycle]
      /\ feed' = feed
  BY DEF EndCycle
<1>2. cyc[r].send \subseteq RowIds
  BY DEF RequestsBehind
<1>3. RowsInPlace
  BY <1>1, <1>2, AnswerRows
<1>4. rows' \in Seq(Row) /\ Len(rows') <= MaxRow
  BY <1>3 DEF RowsInPlace, TypeOK
<1>5. cyc' \in [Runtimes -> Cycle] /\ cyc'[r] = NoCycle /\ \A q \in Runtimes \ {r} : cyc'[q] = cyc[q]
  <2>1. cyc \in [Runtimes -> Cycle] /\ NoCycle \in Cycle
    BY RemoteMergeAssumption DEF TypeOK, NoCycle, Cycle
  <2> HIDE DEF Cycle, NoCycle
  <2> QED BY <1>1, <2>1
<1>6. cursor' \in 0..Len(feed')
  BY <1>1, PageIs
<1> QED BY <1>4, <1>5, <1>6

\* An answer to the JS cycle: what it pulled is merged with what is staged.
LEMMA ApplyTypes ==
  ASSUME TypeOK, NothingAfterDelete, \A a \in Animes : ~local[a].here => local[a].guard = 0,
         RequestsBehind, ApplyAnswer, NEW changes, changes = staged \cup Page("js")
  PROVE  /\ TypeOK' /\ changes \in SUBSET FeedIds /\ staged' = KeptDeferred(changes)
         /\ \E table \in Tables : /\ drift' = DriftAfterMerge(table)
                                  /\ \A a \in Animes : /\ ShownAs(a, table[a])
                                                       /\ PassFacts(a, changes, Len(feed), table[a])
<1> DEFINE table == Merged(changes)
<1>1. /\ local' = WithTokens(table, "js") /\ staged' = KeptDeferred(changes) /\ drift' = DriftAfterMerge(table)
      /\ EndCycle("js") /\ cyc["js"].pc = "answered" /\ "js" \in Runtimes
  BY DEF ApplyAnswer, Runtimes
<1>2. changes \in SUBSET FeedIds
  <2>1. Page("js") \subseteq FeedIds
    BY <1>1, PageIs
  <2>2. staged \subseteq FeedIds
    BY DEF TypeOK, FeedIds
  <2> QED BY <2>1, <2>2
<1>3. table \in Tables /\ \A a \in Animes : PassFacts(a, changes, Len(feed), table[a])
  BY <1>2, PassOverAll
<1> HIDE DEF table
<1>4. cyc["js"].upto <= Len(feed)
  BY <1>1, PageIs
<1>5. /\ local' \in Tables
      /\ \A a \in Animes : ShownAs(a, table[a])
  BY <1>1, <1>3, <1>4, TokensGiven DEF ShownAs
<1>6. UNCHANGED <<feed, paired, heal, keep, pairing, unpaired>>
  BY <1>1 DEF EndCycle
<1>7. /\ rows' \in Seq(Row) /\ Len(rows') <= MaxRow
      /\ cursor' \in 0..Len(feed') /\ cyc' \in [Runtimes -> Cycle]
  BY <1>1, EndTypes
<1>8. staged' \subseteq 1..Len(feed')
  <2>1. KeptDeferred(changes) \subseteq changes
    BY <1>2, KeptIs
  <2> QED BY <1>1, <1>2, <1>6, <2>1 DEF FeedIds
<1>9. drift' \subseteq Animes
  BY <1>1, DriftType
<1>10. TypeOK'
  BY <1>5, <1>6, <1>7, <1>8, <1>9 DEF TypeOK, Tables
<1> QED BY <1>1, <1>2, <1>3, <1>5, <1>10

\* An answer to the native cycle: what it pulled is staged.
LEMMA StageTypes ==
  ASSUME TypeOK, RequestsBehind, StageAnswer
  PROVE  /\ TypeOK' /\ staged' = staged \cup Page("native") /\ staged' \subseteq FeedIds
         /\ \A a \in Animes : TokenOnly(a)
<1>1. /\ local' = WithTokens(local, "native") /\ staged' = staged \cup Page("native") /\ drift' = drift
      /\ EndCycle("native") /\ cyc["native"].pc = "answered" /\ "native" \in Runtimes
  BY DEF StageAnswer, Runtimes
<1>2. cyc["native"].upto <= Len(feed) /\ Page("native") \subseteq FeedIds
  BY <1>1, PageIs
<1>3. staged' \subseteq FeedIds
  BY <1>1, <1>2 DEF TypeOK, FeedIds
<1>4. local' \in Tables /\ \A a \in Animes : TokenOnly(a)
  <2>1. local \in Tables
    BY DEF TypeOK, Tables
  <2> QED BY <1>1, <1>2, <2>1, TokensGiven DEF TokenOnly
<1>5. UNCHANGED <<feed, paired, heal, keep, pairing, unpaired>>
  BY <1>1 DEF EndCycle
<1>6. /\ rows' \in Seq(Row) /\ Len(rows') <= MaxRow
      /\ cursor' \in 0..Len(feed') /\ cyc' \in [Runtimes -> Cycle]
  BY <1>1, EndTypes
<1>7. TypeOK'
  BY <1>1, <1>3, <1>4, <1>5, <1>6 DEF TypeOK, Tables, FeedIds
<1> QED BY <1>1, <1>3, <1>4, <1>7

(***************************************************************************)
(* What a step of the bridge keeps.                                        *)
(***************************************************************************)
\* While nothing is added to the changelog, the bridge has what it had.
LEMMA SameBridge ==
  ASSUME feed' = feed
  PROVE  /\ \A a : (Exists(a, Len(feed)))' <=> Exists(a, Len(feed))
         /\ \A a : Deletes(a)' = Deletes(a)
         /\ FeedIds' = FeedIds
         /\ NothingAfterDelete => NothingAfterDelete'
<1>1. ASSUME NEW a PROVE (Exists(a, Len(feed)))' <=> Exists(a, Len(feed))
  <2>1. LastChange(a, Len(feed)) = LastIn(feed, a, Len(feed)) /\ (LastChange(a, Len(feed)))' = LastIn(feed', a, Len(feed'))
    BY DEF LastChange, LastIn
  <2>2. (LastChange(a, Len(feed)))' = LastChange(a, Len(feed))
    BY <2>1
  <2> QED BY <2>2 DEF Exists
<1>2. ASSUME NEW a PROVE Deletes(a)' = Deletes(a)
  BY DEF Deletes, DeletesIn, FeedIds
<1>3. FeedIds' = FeedIds
  BY DEF FeedIds
<1>4. NothingAfterDelete => NothingAfterDelete'
  BY DEF NothingAfterDelete, FeedIds
<1> QED BY <1>1, <1>2, <1>3, <1>4

\* What the bridge has deleted it does not have after the step.
LEMMA StaysGone ==
  ASSUME TypeOK, NothingAfterDelete, FeedKept, NothingAfterDelete', NEW a, NEW c \in FeedIds, feed[c].anime = a,
         ~Exists(a, Len(feed))
  PROVE  ~(Exists(a, Len(feed)))'
<1> DEFINE m == Len(feed')
           k == LastIn(feed', a, m)
<1>1. /\ Len(feed) \in Nat /\ m \in Nat /\ Len(feed) <= m
      /\ \A i \in FeedIds : feed'[i] = feed[i]
  BY DEF FeedKept
<1>2. LastChange(a, Len(feed)) \in Deletes(a)
  <2>1. Len(feed) \in 0..Len(feed) /\ c \in 1..Len(feed)
    BY <1>1 DEF FeedIds
  <2> QED BY <2>1, LastIsThere
<1>3. PICK d \in FeedIds : feed[d].anime = a /\ feed[d].type = "delete"
  BY <1>2 DEF Deletes, DeletesIn
<1>4. d \in 1..m /\ feed'[d].anime = a /\ feed'[d].type = "delete" /\ d \in Nat
  BY <1>1, <1>3 DEF FeedIds
<1> HIDE DEF m
<1>5. d <= k /\ k \in 1..m /\ feed'[k].anime = a
  BY <1>1, <1>4, LastInIs
<1> HIDE DEF k
<1>6. k = d
  <2>1. SUFFICES ASSUME k # d PROVE FALSE
    OBVIOUS
  <2>2. d \in 1..(k - 1) /\ k \in FeedIds'
    BY <1>1, <1>4, <1>5, <2>1 DEF FeedIds, m
  <2> QED BY <1>4, <1>5, <2>2 DEF NothingAfterDelete
<1>7. (LastChange(a, Len(feed)))' = k
  BY DEF LastChange, LastIn, k, m
<1> QED BY <1>4, <1>6, <1>7 DEF Exists

\* The changelog that has grown by changes of animes the bridge still had, or never had.
LEMMA NothingAfterGrows ==
  ASSUME TypeOK, NothingAfterDelete, FeedKept,
         \A k \in FeedIds' : \/ k \in FeedIds
                             \/ \A c \in 1..(k - 1) : feed'[c].anime = feed'[k].anime => feed'[c].type # "delete"
  PROVE  NothingAfterDelete'
<1>1. SUFFICES ASSUME NEW k \in FeedIds', NEW c \in 1..(k - 1), feed'[c].anime = feed'[k].anime
               PROVE  feed'[c].type # "delete"
  BY DEF NothingAfterDelete
<1>2. CASE k \in FeedIds
  <2>1. c \in FeedIds /\ feed'[c] = feed[c] /\ feed'[k] = feed[k]
    BY <1>2 DEF FeedKept, FeedIds
  <2> QED BY <1>1, <1>2, <2>1 DEF NothingAfterDelete
<1>3. CASE k \notin FeedIds
  BY <1>1, <1>3
<1> QED BY <1>2, <1>3

\* The bridge has no deletion of an anime it has, or never had.
LEMMA NoDeletion ==
  ASSUME TypeOK, NothingAfterDelete, NEW a, Exists(a, Len(feed)) \/ LastChange(a, Len(feed)) = 0
  PROVE  \A c \in FeedIds : feed[c].anime = a => feed[c].type # "delete"
<1>1. SUFFICES ASSUME NEW c \in FeedIds, feed[c].anime = a, feed[c].type = "delete" PROVE FALSE
  OBVIOUS
<1>2. c \in Deletes(a) /\ Len(feed) \in Nat /\ c <= Len(feed) /\ Len(feed) \in 0..Len(feed) /\ c \in 1..Len(feed)
  BY <1>1 DEF Deletes, DeletesIn, FeedIds, TypeOK
<1>3. ~Exists(a, Len(feed))
  BY <1>2, DeletedIsGone
<1>4. LastChange(a, Len(feed)) # 0
  BY <1>1, <1>2, LastChangeIs
<1> QED BY <1>3, <1>4

\* The edits an answer applied are still awaited after a step that leaves the answer, and
\* adds no held row and no guard.
LEMMA EchoesStay ==
  ASSUME TypeOK, FeedKept, EchoesAwaited, RowsInPlace, TypeOK',
         \A q \in Runtimes : cyc'[q].pc = "answered" => cyc'[q] = cyc[q] /\ cyc[q].send \subseteq RowIds,
         \A q \in Runtimes : \A i \in RowIds :
           cyc'[q].pc = "answered" /\ rows'[i].status = "processing" /\ rows'[i].by = q =>
             /\ rows[i].status = "processing" /\ rows[i].by = q
             /\ rows[i].anime \in Animes => local'[rows[i].anime].guard <= local[rows[i].anime].guard
  PROVE  EchoesAwaited'
<1>1. SUFFICES ASSUME NEW q \in Runtimes, cyc'[q].pc = "answered", NEW i \in (HeldBy(q))' \cap cyc'[q].applied
               PROVE  \E k \in FeedIds' : /\ cyc'[q].since < k /\ k <= cyc'[q].upto
                         /\ feed'[k].anime = rows'[i].anime /\ feed'[k].type = "update"
                         /\ "seen" \in feed'[k].fields /\ feed'[k].snap.seen = EditValue(i)
                         /\ local'[rows'[i].anime].guard < k
  BY DEF EchoesAwaited
<1>2. cyc'[q] = cyc[q] /\ i \in cyc[q].send /\ i \in RowIds /\ rows'[i].status = "processing" /\ rows'[i].by = q
  BY <1>1 DEF HeldBy
<1> DEFINE a == rows[i].anime
<1>3. rows'[i].anime = a
  BY <1>2 DEF RowsInPlace
<1>4. a \in Animes
  <2>1. rows \in Seq(Row) /\ i \in 1..Len(rows)
    BY <1>2 DEF TypeOK, RowIds
  <2>2. rows[i] \in Row
    BY <2>1
  <2> QED BY <2>2 DEF Row
<1>5. rows[i].status = "processing" /\ rows[i].by = q /\ local'[a].guard <= local[a].guard
  BY <1>1, <1>2, <1>4
<1>6. i \in HeldBy(q) \cap cyc[q].applied
  BY <1>1, <1>2, <1>5 DEF HeldBy
<1>7. cyc[q].pc = "answered"
  BY <1>1, <1>2
<1>8. PICK k \in FeedIds : /\ cyc[q].since < k /\ k <= cyc[q].upto
                         /\ feed[k].anime = a /\ feed[k].type = "update"
                         /\ "seen" \in feed[k].fields /\ feed[k].snap.seen = EditValue(i)
                         /\ local[a].guard < k
  BY <1>6, <1>7 DEF EchoesAwaited
<1>9. k \in FeedIds' /\ feed'[k] = feed[k] /\ k \in Nat
  BY FeedStays
<1>10. local[a].guard \in Nat /\ local'[a].guard \in Nat
  <2>1. local[a] \in Anime /\ local'[a] \in Anime
    BY <1>4 DEF TypeOK
  <2> QED BY <2>1, RemoteMergeAssumption DEF Anime
<1>11. local'[a].guard < k
  BY <1>5, <1>8, <1>9, <1>10
<1> QED BY <1>2, <1>3, <1>8, <1>9, <1>11

\* A request after a step of the bridge: as it was, or answered with the whole changelog, where
\* the edits it applied come last.
BridgeAnswered(q) ==
  \/ cyc'[q] = cyc[q]
  \/ /\ cyc[q].pc = "asked" /\ cyc'[q].pc = "answered" /\ cyc'[q].upto = Len(feed)'
     /\ cyc'[q].since = cyc[q].since /\ cyc'[q].send = cyc[q].send
     /\ \A i \in cyc'[q].applied : /\ i \in RowIds
                                   /\ \E k \in FeedIds' : k > Len(feed) /\ Echoes(feed', k, i)

\* The numbers of the state are numbers.
LEMMA Numbers ==
  ASSUME TypeOK
  PROVE  /\ Len(feed) \in Nat /\ cursor \in Nat /\ cursor <= Len(feed) /\ Len(rows) \in Nat
         /\ \A q \in Runtimes : /\ cyc[q].since \in Nat /\ cyc[q].upto \in Nat
                                /\ cyc[q].pc \in {"idle", "asked", "answered"}
         /\ heal.upto \in Nat /\ pairing.upto \in Nat /\ \A a \in Animes : keep[a].upto \in Nat
         /\ \A a \in Animes : local[a].guard \in Nat /\ local[a].here \in BOOLEAN
         /\ \A i \in RowIds : rows[i].anime \in Animes
         /\ staged \subseteq FeedIds /\ staged \subseteq Nat
<1>1. Len(feed) \in Nat /\ cursor \in Nat /\ cursor <= Len(feed) /\ Len(rows) \in Nat /\ rows \in Seq(Row)
  BY DEF TypeOK
<1>2. \A q \in Runtimes : /\ cyc[q].since \in Nat /\ cyc[q].upto \in Nat
                          /\ cyc[q].pc \in {"idle", "asked", "answered"}
  <2>1. \A q \in Runtimes : cyc[q] \in Cycle
    BY DEF TypeOK
  <2> QED BY <2>1, RemoteMergeAssumption DEF Cycle
<1>3. heal.upto \in Nat /\ pairing.upto \in Nat /\ \A a \in Animes : keep[a].upto \in Nat
  <2>1. heal \in Fetch /\ pairing \in Fetch /\ \A a \in Animes : keep[a] \in Fetch
    BY DEF TypeOK
  <2> QED BY <2>1, RemoteMergeAssumption DEF Fetch
<1>4. \A a \in Animes : local[a].guard \in Nat /\ local[a].here \in BOOLEAN
  <2>1. \A a \in Animes : local[a] \in Anime
    BY DEF TypeOK
  <2> QED BY <2>1, RemoteMergeAssumption DEF Anime
<1>5. \A i \in RowIds : rows[i].anime \in Animes
  <2>1. \A i \in RowIds : rows[i] \in Row
    BY <1>1 DEF RowIds
  <2> QED BY <2>1 DEF Row
<1>6. staged \subseteq FeedIds /\ staged \subseteq Nat
  BY DEF TypeOK, FeedIds
<1> QED BY <1>1, <1>2, <1>3, <1>4, <1>5, <1>6

\* The guards are behind the changelog.
LEMMA GuardsBehind ==
  ASSUME TypeOK, ComesFromFeed
  PROVE  \A a \in Animes : local[a].guard <= Len(feed)
<1>1. SUFFICES ASSUME NEW a \in Animes PROVE local[a].guard <= Len(feed)
  OBVIOUS
<1>2. Len(feed) \in Nat
  BY Numbers
<1>3. CASE local[a].guard = 0
  BY <1>2, <1>3
<1>4. CASE local[a].guard # 0
  BY <1>2, <1>4 DEF ComesFromFeed, FeedIds
<1> QED BY <1>3, <1>4

\* A step of the bridge keeps the invariant.
LEMMA BridgeKeeps ==
  ASSUME MergeInv, TypeOK', FeedKept, NothingAfterDelete',
         UNCHANGED <<local, rows, staged, cursor, paired, heal, keep, pairing, unpaired, drift>>,
         \A q \in Runtimes : BridgeAnswered(q)
  PROVE  MergeInv'
<1>0. /\ TypeOK /\ NothingAfterDelete /\ ComesFromFeed /\ RequestsBehind
      /\ UnpairedIsQuiet /\ PairingIsAlone /\ StagedIsBehind /\ EchoesAwaited
      /\ GuardShows /\ CursorShows
  BY DEF MergeInv
<1>1. /\ Len(feed) \in Nat /\ Len(feed)' \in Nat /\ Len(feed) <= Len(feed)'
      /\ FeedIds \subseteq FeedIds' /\ \A k \in FeedIds : feed'[k] = feed[k]
      /\ RowIds' = RowIds /\ staged \subseteq FeedIds /\ FeedIds \subseteq Nat
  BY <1>0, Numbers DEF FeedKept, FeedIds, RowIds
<1>2. ComesFromFeed'
  <2>1. \A a \in Animes : local'[a].here => \E c \in FeedIds' : feed'[c].anime = a
    BY <1>0, <1>1 DEF ComesFromFeed
  <2>2. \A a \in Animes : local'[a].guard # 0 => local'[a].guard \in FeedIds' /\ feed'[local'[a].guard].anime = a
    BY <1>0, <1>1 DEF ComesFromFeed
  <2>3. \A i \in RowIds' : \E c \in FeedIds' : feed'[c].anime = rows'[i].anime
    BY <1>0, <1>1 DEF ComesFromFeed
  <2> QED BY <1>0, <2>1, <2>2, <2>3 DEF ComesFromFeed
<1>3. RequestsBehind'
  <2>1. ASSUME NEW q \in Runtimes
        PROVE  /\ cyc'[q].send \subseteq RowIds'
               /\ cyc'[q].pc # "idle" => cyc'[q].since <= Len(feed)' /\ (paired' => cyc'[q].since <= cursor')
               /\ cyc'[q].pc = "answered" => cyc'[q].since <= cyc'[q].upto /\ cyc'[q].upto <= Len(feed)'
    <3>1. /\ cyc[q].since \in Nat /\ cyc[q].upto \in Nat
          /\ cyc[q].send \subseteq RowIds
          /\ cyc[q].pc # "idle" => cyc[q].since <= Len(feed) /\ (paired => cyc[q].since <= cursor)
          /\ cyc[q].pc = "answered" => cyc[q].since <= cyc[q].upto /\ cyc[q].upto <= Len(feed)
      BY <1>0, Numbers DEF RequestsBehind
    <3>2. CASE cyc'[q] = cyc[q]
      BY <1>1, <3>1, <3>2
    <3>3. CASE cyc'[q] # cyc[q]
      <4>1. /\ cyc[q].pc = "asked" /\ cyc'[q].pc = "answered" /\ cyc'[q].upto = Len(feed)'
            /\ cyc'[q].since = cyc[q].since /\ cyc'[q].send = cyc[q].send
        BY <3>3 DEF BridgeAnswered
      <4> QED BY <1>1, <3>1, <4>1
    <3> QED BY <3>2, <3>3
  <2>2. heal'.upto <= Len(feed)'
    BY <1>0, <1>1, Numbers DEF RequestsBehind
  <2>3. ASSUME NEW a \in Animes
        PROVE  /\ keep'[a].upto <= Len(feed)'
               /\ keep'[a].pc = "fetched" => \E c \in 1..keep'[a].upto : feed'[c].anime = a
    <3>1. keep[a].upto \in Nat /\ keep[a].upto <= Len(feed) /\ keep'[a] = keep[a]
      BY <1>0, Numbers DEF RequestsBehind
    <3>2. ASSUME keep[a].pc = "fetched" PROVE \E c \in 1..keep[a].upto : feed'[c].anime = a
      <4>1. PICK c \in 1..keep[a].upto : feed[c].anime = a
        BY <1>0, <3>2 DEF RequestsBehind
      <4>2. c \in FeedIds
        BY <1>1, <3>1 DEF FeedIds
      <4> QED BY <1>1, <4>1, <4>2
    <3> QED BY <1>1, <3>1, <3>2
  <2> QED BY <2>1, <2>2, <2>3 DEF RequestsBehind
<1>4. UnpairedIsQuiet'
  <2>1. SUFFICES ASSUME ~paired
                 PROVE  /\ \A i \in RowIds : rows[i].status = "deleted"
                        /\ \A c1, c2 \in staged : \A e \in FeedIds' : c1 <= e /\ e <= c2 => e \in staged
                        /\ staged # {} => cyc'["native"].pc = "idle"
    BY <1>1 DEF UnpairedIsQuiet
  <2>2. ASSUME NEW c1 \in staged, NEW c2 \in staged, NEW e \in FeedIds', c1 <= e, e <= c2 PROVE e \in staged
    <3>1. e \in FeedIds
      BY <1>1, <2>2 DEF FeedIds
    <3> QED BY <1>0, <2>1, <2>2, <3>1 DEF UnpairedIsQuiet
  <2>3. ASSUME staged # {} PROVE cyc'["native"].pc = "idle"
    <3>1. cyc["native"].pc = "idle" /\ "native" \in Runtimes
      BY <1>0, <2>1, <2>3 DEF UnpairedIsQuiet, Runtimes
    <3> QED BY <3>1 DEF BridgeAnswered
  <2> QED BY <1>0, <2>1, <2>2, <2>3 DEF UnpairedIsQuiet
<1>5. PairingIsAlone'
  <2>1. SUFFICES ASSUME pairing.pc = "fetched"
                 PROVE  /\ ~paired /\ pairing.upto <= Len(feed)'
                        /\ \A r \in Runtimes : cyc'[r].pc = "idle"
                        /\ heal.pc = "idle" /\ \A a \in Animes : keep[a].pc = "idle"
                        /\ \A c \in staged : c <= pairing.upto
                        /\ \A a \in Animes : local[a].guard <= pairing.upto
                        /\ \A a \in Animes : local[a].here => \E c \in 1..pairing.upto : feed'[c].anime = a
    BY DEF PairingIsAlone
  <2>2. \A r \in Runtimes : cyc'[r].pc = "idle"
    BY <1>0, <2>1 DEF PairingIsAlone, BridgeAnswered
  <2>3. pairing.upto \in Nat /\ pairing.upto <= Len(feed)
    BY <1>0, <2>1, Numbers DEF PairingIsAlone
  <2>4. ASSUME NEW a \in Animes, local[a].here PROVE \E c \in 1..pairing.upto : feed'[c].anime = a
    <3>1. PICK c \in 1..pairing.upto : feed[c].anime = a
      BY <1>0, <2>1, <2>4 DEF PairingIsAlone
    <3>2. c \in FeedIds
      BY <1>1, <2>3 DEF FeedIds
    <3> QED BY <1>1, <3>1, <3>2
  <2> QED BY <1>0, <1>1, <2>1, <2>2, <2>3, <2>4 DEF PairingIsAlone
<1>6. StagedIsBehind'
  <2>1. SUFFICES ASSUME paired, NEW c \in staged, ~(c <= cursor)
                 PROVE  /\ cursor = 0
                        /\ heal.pc = "fetched" => c <= heal.upto
                        /\ \A a \in Animes : keep[a].pc = "fetched" => c <= keep[a].upto
                        /\ \A r \in Runtimes : cyc'[r].pc = "answered" => c <= cyc'[r].upto
    BY DEF StagedIsBehind
  <2>2. ASSUME NEW r \in Runtimes, cyc'[r].pc = "answered" PROVE c <= cyc'[r].upto
    <3>1. CASE cyc'[r] = cyc[r]
      BY <1>0, <2>1, <2>2, <3>1 DEF StagedIsBehind
    <3>2. CASE cyc'[r].upto = Len(feed)'
      BY <1>1, <3>2 DEF FeedIds
    <3> QED BY <3>1, <3>2 DEF BridgeAnswered
  <2> QED BY <1>0, <2>1, <2>2 DEF StagedIsBehind
<1>7. EchoesAwaited'
  <2>1. SUFFICES ASSUME NEW q \in Runtimes, cyc'[q].pc = "answered", NEW i \in (HeldBy(q))' \cap cyc'[q].applied
                 PROVE  \E k \in FeedIds' : /\ cyc'[q].since < k /\ k <= cyc'[q].upto
                           /\ feed'[k].anime = rows[i].anime /\ feed'[k].type = "update"
                           /\ "seen" \in feed'[k].fields /\ feed'[k].snap.seen = EditValue(i)
                           /\ local[rows[i].anime].guard < k
    BY DEF EchoesAwaited
  <2>2. CASE cyc'[q] = cyc[q]
    <3>1. i \in HeldBy(q) \cap cyc[q].applied /\ cyc[q].pc = "answered"
      BY <2>1, <2>2 DEF HeldBy
    <3>2. PICK k \in FeedIds : /\ cyc[q].since < k /\ k <= cyc[q].upto
                           /\ feed[k].anime = rows[i].anime /\ feed[k].type = "update"
                           /\ "seen" \in feed[k].fields /\ feed[k].snap.seen = EditValue(i)
                           /\ local[rows[i].anime].guard < k
      BY <1>0, <3>1 DEF EchoesAwaited
    <3> QED BY <1>1, <2>2, <3>2
  <2>3. CASE cyc'[q] # cyc[q]
    <3>1. /\ cyc[q].pc = "asked" /\ cyc'[q].upto = Len(feed)' /\ cyc'[q].since = cyc[q].since
          /\ i \in RowIds /\ \E k \in FeedIds' : k > Len(feed) /\ Echoes(feed', k, i)
      BY <2>1, <2>3 DEF BridgeAnswered
    <3>2. PICK k \in FeedIds' : k > Len(feed) /\ Echoes(feed', k, i)
      BY <3>1
    <3>3. Echoes(feed', k, i) => /\ feed'[k].anime = rows[i].anime /\ feed'[k].type = "update"
                                 /\ "seen" \in feed'[k].fields /\ feed'[k].snap.seen = EditValue(i)
      BY DEF Echoes
    <3>4. cyc[q].since \in Nat /\ cyc[q].since <= Len(feed)
      BY <1>0, <3>1, Numbers DEF RequestsBehind
    <3>5. rows[i].anime \in Animes
      BY <1>0, <3>1, Numbers
    <3>6. local[rows[i].anime].guard \in Nat /\ local[rows[i].anime].guard <= Len(feed)
      BY <1>0, <3>5, Numbers, GuardsBehind
    <3>7. k \in Nat /\ k <= Len(feed)'
      BY <1>1 DEF FeedIds
    <3>8. cyc'[q].since < k /\ k <= cyc'[q].upto /\ local[rows[i].anime].guard < k
      BY <1>1, <3>1, <3>2, <3>4, <3>6, <3>7
    <3> QED BY <3>2, <3>3, <3>8
  <2> QED BY <2>2, <2>3
<1>8. GuardShows' /\ CursorShows'
  <2>1. \A a \in Animes : local'[a].here = local[a].here /\ local'[a].guard = local[a].guard
    OBVIOUS
  <2>2. ASSUME NEW a \in Animes, NEW f \in Known, NEW e \in FeedIds, Kept(a, f, e) PROVE Kept(a, f, e)'
    <3>1. CASE Covered(a, f, e)
      BY <3>1, CoveredStays DEF Kept
    <3>2. CASE f = "seen" /\ Own(a)
      <4>1. Own(a)'
        BY <1>1, <3>2 DEF Own
      <4> QED BY <3>2, <4>1 DEF Kept
    <3> QED BY <2>2, <3>1, <3>2 DEF Kept
  <2>3. \A r \in Runtimes : cyc'[r].pc = "answered" =>
           \/ cyc[r].pc = "answered" /\ cyc'[r].upto = cyc[r].upto
           \/ Len(feed) <= cyc'[r].upto
    BY <1>1 DEF BridgeAnswered
  <2>4. \A r \in Runtimes : cyc'[r].upto \in Nat
    <3>1. \A r \in Runtimes : cyc[r].upto \in Nat
      BY <1>0, Numbers
    <3> QED BY <1>1, <3>1 DEF BridgeAnswered
  <2>5. ASSUME NEW a \in drift, ~Exists(a, Len(feed)) PROVE ~(Exists(a, Len(feed)))'
    <3>1. a \in Animes /\ local[a].here
      BY <1>0 DEF ComesFromFeed, TypeOK
    <3>2. \E c \in FeedIds : feed[c].anime = a
      BY <1>0, <3>1 DEF ComesFromFeed
    <3> QED BY <1>0, <2>5, <3>2, StaysGone
  <2>6. \A a \in Animes : local[a].guard <= Len(feed)
    BY <1>0, GuardsBehind
  <2> QED BY <1>0, <2>1, <2>2, <2>3, <2>4, <2>5, <2>6, QuietStep
<1> QED BY <1>2, <1>3, <1>4, <1>5, <1>6, <1>7, <1>8 DEF MergeInv

\* The other devices.
LEMMA OthersKeep ==
  ASSUME MergeInv, NEW a \in Animes, BridgeEdit(a) \/ BridgeCreates(a) \/ BridgeDeletes(a)
  PROVE  MergeInv'
<1>0. TypeOK /\ NothingAfterDelete
  BY DEF MergeInv
<1>1. TypeOK' /\ FeedKept
  BY <1>0, BridgeTypes
<1>2. /\ UNCHANGED <<local, rows, staged, cursor, paired, heal, keep, pairing, unpaired, drift>>
      /\ cyc' = cyc
  BY DEF BridgeEdit, BridgeCreates, BridgeDeletes
<1>3. PICK x \in Change : /\ feed' = Append(feed, x) /\ Len(feed) < MaxFeed /\ x.anime = a
                          /\ Exists(a, Len(feed)) \/ LastChange(a, Len(feed)) = 0
  BY <1>0, EditedIs, CreatedIs, RemovedIs
<1>4. Len(feed)' = Len(feed) + 1 /\ feed'[Len(feed) + 1] = x
  BY <1>0, <1>3, OneMoreChange
<1>5. NothingAfterDelete'
  <2>1. ASSUME NEW k \in FeedIds', k \notin FeedIds, NEW c \in 1..(k - 1), feed'[c].anime = feed'[k].anime
        PROVE  feed'[c].type # "delete"
    <3>1. Len(feed) \in Nat
      BY <1>0, Numbers
    <3>2. k = Len(feed) + 1
      BY <1>4, <2>1, <3>1 DEF FeedIds
    <3>3. c \in FeedIds /\ feed'[c] = feed[c] /\ feed[c].anime = a
      BY <1>1, <1>3, <1>4, <2>1, <3>1, <3>2 DEF FeedIds, FeedKept
    <3> QED BY <1>0, <1>3, <3>3, NoDeletion
  <2> QED BY <1>0, <1>1, <2>1, NothingAfterGrows
<1>6. \A q \in Runtimes : BridgeAnswered(q)
  BY <1>2 DEF BridgeAnswered
<1> QED BY <1>1, <1>2, <1>5, <1>6, BridgeKeeps

\* The answer of the bridge.
LEMMA AnswersKeep ==
  ASSUME MergeInv, NEW r \in Runtimes, BridgeAnswers(r)
  PROVE  MergeInv'
<1>0. TypeOK /\ NothingAfterDelete /\ RequestsBehind
  BY DEF MergeInv
<1>1. \A q \in Runtimes : cyc[q].send \subseteq RowIds
  BY <1>0 DEF RequestsBehind
<1>2. /\ TypeOK' /\ FeedKept
      /\ cyc'[r].pc = "answered" /\ cyc'[r].upto = Len(feed)' /\ cyc'[r].since = cyc[r].since
      /\ cyc'[r].send = cyc[r].send
      /\ \A q \in Runtimes \ {r} : cyc'[q] = cyc[q]
      /\ \A k \in FeedIds' : k \in FeedIds \/ (Exists(feed'[k].anime, Len(feed)) /\ feed'[k].type = "update")
      /\ \A i \in cyc'[r].applied : /\ i \in HeldBy(r) /\ i \in RowIds
                                    /\ \E k \in FeedIds' : k > Len(feed) /\ Echoes(feed', k, i)
  BY <1>0, <1>1, BridgeAnswersTypes
<1>3. UNCHANGED <<local, rows, staged, cursor, paired, heal, keep, pairing, unpaired, drift>>
      /\ cyc[r].pc = "asked"
  BY DEF BridgeAnswers
<1>4. NothingAfterDelete'
  <2>1. ASSUME NEW k \in FeedIds', k \notin FeedIds, NEW c \in 1..(k - 1), feed'[c].anime = feed'[k].anime
        PROVE  feed'[c].type # "delete"
    <3>1. Exists(feed'[k].anime, Len(feed))
      BY <1>2, <2>1
    <3>2. c \in FeedIds'
      BY <1>2, <2>1 DEF FeedIds, FeedKept
    <3>3. CASE c \in FeedIds
      <4>1. feed'[c] = feed[c]
        BY <1>2, <3>3 DEF FeedKept
      <4> QED BY <1>0, <2>1, <3>1, <3>3, <4>1, NoDeletion
    <3>4. CASE c \notin FeedIds
      BY <1>2, <3>2, <3>4
    <3> QED BY <3>3, <3>4
  <2> QED BY <1>0, <1>2, <2>1, NothingAfterGrows
<1>5. \A q \in Runtimes : BridgeAnswered(q)
  BY <1>2, <1>3 DEF BridgeAnswered
<1> QED BY <1>2, <1>3, <1>4, <1>5, BridgeKeeps

(***************************************************************************)
(* What the queue, the requests and the fetches keep.                      *)
(***************************************************************************)
\* A request after such a step: as it was, over, or sent from the cursor.
Requested(q) == \/ cyc'[q] = cyc[q]
                \/ cyc'[q] = NoCycle
                \/ paired /\ cyc'[q].pc = "asked" /\ cyc'[q].since = cursor /\ cyc'[q].send \subseteq RowIds

\* A pairing, after such a step: as it was, or fetched while nothing else is under way.
PairingStarts ==
  \/ pairing' = pairing
  \/ /\ ~paired /\ pairing'.upto = Len(feed) /\ heal'.pc = "idle"
     /\ \A r \in Runtimes : cyc'[r].pc = "idle"
     /\ \A a \in Animes : keep'[a].pc = "idle"

\* A step that moves rows without dropping one, ends or sends a request, or fetches.
LEMMA QueueKeeps ==
  ASSUME MergeInv, TypeOK', UNCHANGED <<feed, staged, cursor, paired, drift>>,
         pairing.pc # "fetched", RowsInPlace, \A a \in Animes : TokenOnly(a),
         \A i \in RowIds : rows[i].status \in Unsettled => rows'[i].status \in Unsettled,
         ~paired => \A i \in RowIds : rows[i].status = "deleted" => rows'[i].status = "deleted",
         \A q \in Runtimes : Requested(q),
         \A q \in Runtimes : \A i \in RowIds :
           cyc'[q].pc = "answered" /\ rows'[i].status = "processing" /\ rows'[i].by = q =>
             rows[i].status = "processing" /\ rows[i].by = q,
         heal' = heal \/ heal'.upto = Len(feed),
         \A a \in Animes : \/ keep'[a] = keep[a] \/ keep'[a] = NoFetch
                           \/ keep'[a].upto = Len(feed) /\ \E c \in FeedIds : feed[c].anime = a,
         PairingStarts
  PROVE  MergeInv'
<1>0. /\ TypeOK /\ NothingAfterDelete /\ ComesFromFeed /\ RequestsBehind
      /\ UnpairedIsQuiet /\ PairingIsAlone /\ StagedIsBehind /\ EchoesAwaited
      /\ GuardShows /\ CursorShows
  BY DEF MergeInv
<1>1. /\ FeedKept /\ NothingAfterDelete' /\ FeedIds' = FeedIds
      /\ \A a : (Exists(a, Len(feed)))' <=> Exists(a, Len(feed))
  BY <1>0, SameFeed, SameBridge
<1>2. /\ Len(feed) \in Nat /\ cursor \in Nat /\ cursor <= Len(feed) /\ RowIds' = RowIds
      /\ FeedIds = 1..Len(feed) /\ staged \subseteq FeedIds
  BY <1>0, Numbers DEF RowsInPlace, FeedIds
<1>3. \A a \in Animes : local'[a].here = local[a].here /\ local'[a].guard = local[a].guard
  BY DEF TokenOnly
<1>4. NoCycle.pc = "idle" /\ NoCycle.send = {} /\ NoCycle.since = 0 /\ NoFetch.pc = "idle" /\ NoFetch.upto = 0
  BY DEF NoCycle, NoFetch
<1>5. ComesFromFeed'
  <2>1. \A i \in RowIds : rows'[i].anime = rows[i].anime
    BY DEF RowsInPlace
  <2>2. \A a \in drift : a \in Animes
    BY <1>0 DEF TypeOK
  <2> QED BY <1>0, <1>1, <1>2, <1>3, <2>1, <2>2 DEF ComesFromFeed
<1>6. RequestsBehind'
  <2>1. ASSUME NEW q \in Runtimes
        PROVE  /\ cyc'[q].send \subseteq RowIds'
               /\ cyc'[q].pc # "idle" => cyc'[q].since <= Len(feed)' /\ (paired' => cyc'[q].since <= cursor')
               /\ cyc'[q].pc = "answered" => cyc'[q].since <= cyc'[q].upto /\ cyc'[q].upto <= Len(feed)'
    <3>1. CASE cyc'[q] = cyc[q]
      BY <1>0, <1>2, <3>1 DEF RequestsBehind
    <3>2. CASE cyc'[q] = NoCycle
      BY <1>4, <3>2
    <3>3. CASE paired /\ cyc'[q].pc = "asked" /\ cyc'[q].since = cursor /\ cyc'[q].send \subseteq RowIds
      BY <1>2, <3>3
    <3> QED BY <3>1, <3>2, <3>3 DEF Requested
  <2>2. heal'.upto <= Len(feed)'
    BY <1>0, <1>2 DEF RequestsBehind
  <2>3. ASSUME NEW a \in Animes
        PROVE  /\ keep'[a].upto <= Len(feed)'
               /\ keep'[a].pc = "fetched" => \E c \in 1..keep'[a].upto : feed'[c].anime = a
    BY <1>0, <1>2, <1>4 DEF RequestsBehind
  <2> QED BY <2>1, <2>2, <2>3 DEF RequestsBehind
<1>7. UnpairedIsQuiet'
  <2>1. SUFFICES ASSUME ~paired
                 PROVE  /\ \A i \in RowIds : rows'[i].status = "deleted"
                        /\ \A c1, c2 \in staged : \A e \in FeedIds : c1 <= e /\ e <= c2 => e \in staged
                        /\ staged # {} => cyc'["native"].pc = "idle"
    BY <1>1, <1>2 DEF UnpairedIsQuiet
  <2>2. "native" \in Runtimes
    BY DEF Runtimes
  <2>3. staged # {} => cyc'["native"].pc = "idle"
    BY <1>0, <1>4, <2>1, <2>2 DEF UnpairedIsQuiet, Requested
  <2> QED BY <1>0, <2>1, <2>3 DEF UnpairedIsQuiet
<1>8. PairingIsAlone'
  <2>1. SUFFICES ASSUME pairing'.pc = "fetched"
                 PROVE  /\ ~paired /\ pairing'.upto <= Len(feed)
                        /\ \A r \in Runtimes : cyc'[r].pc = "idle"
                        /\ heal'.pc = "idle" /\ \A a \in Animes : keep'[a].pc = "idle"
                        /\ \A c \in staged : c <= pairing'.upto
                        /\ \A a \in Animes : local'[a].guard <= pairing'.upto
                        /\ \A a \in Animes : local'[a].here => \E c \in 1..pairing'.upto : feed[c].anime = a
    BY DEF PairingIsAlone
  <2>2. /\ ~paired /\ pairing'.upto = Len(feed) /\ heal'.pc = "idle"
        /\ \A r \in Runtimes : cyc'[r].pc = "idle"
        /\ \A a \in Animes : keep'[a].pc = "idle"
    BY <2>1 DEF PairingStarts
  <2>3. \A a \in Animes : local'[a].guard <= Len(feed)
    BY <1>0, <1>3, GuardsBehind
  <2>4. \A a \in Animes : local'[a].here => \E c \in 1..Len(feed) : feed[c].anime = a
    BY <1>0, <1>2, <1>3 DEF ComesFromFeed
  <2> QED BY <1>2, <2>2, <2>3, <2>4
<1>9. StagedIsBehind'
  <2>1. SUFFICES ASSUME paired, NEW c \in staged, ~(c <= cursor)
                 PROVE  /\ cursor = 0
                        /\ heal'.pc = "fetched" => c <= heal'.upto
                        /\ \A a \in Animes : keep'[a].pc = "fetched" => c <= keep'[a].upto
                        /\ \A r \in Runtimes : cyc'[r].pc = "answered" => c <= cyc'[r].upto
    BY DEF StagedIsBehind
  <2>2. c <= Len(feed)
    BY <1>2
  <2>3. \A r \in Runtimes : cyc'[r].pc = "answered" => c <= cyc'[r].upto
    BY <1>0, <1>4, <2>1 DEF StagedIsBehind, Requested
  <2>4. heal'.pc = "fetched" => c <= heal'.upto
    BY <1>0, <2>1, <2>2 DEF StagedIsBehind
  <2>5. \A a \in Animes : keep'[a].pc = "fetched" => c <= keep'[a].upto
    BY <1>0, <1>4, <2>1, <2>2 DEF StagedIsBehind
  <2> QED BY <1>0, <2>1, <2>3, <2>4, <2>5 DEF StagedIsBehind
<1>10. EchoesAwaited'
  <2>1. \A q \in Runtimes : cyc'[q].pc = "answered" => cyc'[q] = cyc[q] /\ cyc[q].send \subseteq RowIds
    BY <1>0, <1>4 DEF Requested, RequestsBehind
  <2>2. ASSUME NEW a \in Animes PROVE local'[a].guard <= local[a].guard
    <3>1. local[a].guard \in Nat
      BY <1>0, Numbers
    <3> QED BY <1>3, <3>1
  <2> QED BY <1>0, <1>1, <2>1, <2>2, EchoesStay
<1>11. GuardShows' /\ CursorShows'
  <2>2. ASSUME NEW a \in Animes, NEW f \in Known, NEW e \in FeedIds, Kept(a, f, e) PROVE Kept(a, f, e)'
    <3>0. local'[a].here = local[a].here /\ local'[a][f] = local[a][f]
      BY DEF TokenOnly
    <3>1. CASE Covered(a, f, e)
      BY <1>1, <3>0, <3>1, CoveredStays DEF Kept
    <3>2. CASE f = "seen" /\ Own(a)
      <4>1. local'[a].seen = local[a].seen
        BY DEF TokenOnly, Known
      <4>2. \A i \in RowIds : /\ rows'[i].anime = rows[i].anime
                              /\ rows[i].anime = a /\ rows[i].status \in Unsettled => rows'[i].status \in Unsettled
        BY DEF RowsInPlace
      <4>3. Own(a)'
        BY <1>2, <3>2, <4>1, <4>2, OwnStays
      <4> QED BY <3>2, <4>3 DEF Kept
    <3> QED BY <2>2, <3>1, <3>2 DEF Kept
  <2>3. \A r \in Runtimes : cyc'[r].pc = "answered" =>
           \/ cyc[r].pc = "answered" /\ cyc'[r].upto = cyc[r].upto
           \/ Len(feed) <= cyc'[r].upto
    BY <1>4 DEF Requested
  <2>4. \A r \in Runtimes : cyc'[r].upto \in Nat
    <3>1. \A r \in Runtimes : cyc'[r] \in Cycle
      BY DEF TypeOK
    <3> QED BY <3>1, RemoteMergeAssumption DEF Cycle
  <2>6. \A a \in Animes : local[a].guard <= Len(feed)
    BY <1>0, GuardsBehind
  <2> QED BY <1>0, <1>1, <1>3, <2>2, <2>3, <2>4, <2>6, QuietStep
<1> QED BY <1>1, <1>5, <1>6, <1>7, <1>8, <1>9, <1>10, <1>11 DEF MergeInv

\* Rows and requests that stay.
LEMMA SameQueue ==
  ASSUME TypeOK
  PROVE  /\ rows' = rows => RowsInPlace
         /\ cyc' = cyc => \A q \in Runtimes : Requested(q)
         /\ local' = local => \A a \in Animes : TokenOnly(a)
         /\ pairing' = pairing => PairingStarts
<1>1. rows \in Seq(Row)
  BY DEF TypeOK
<1>2. rows' = rows => RowsInPlace
  BY <1>1 DEF RowsInPlace, RowIds
<1> QED BY <1>2 DEF Requested, TokenOnly, PairingStarts

\* A claim.
LEMMA BeginKeeps ==
  ASSUME MergeInv, NEW r \in Runtimes, Begin(r)
  PROVE  MergeInv'
<1>0. TypeOK /\ PairingIsAlone
  BY DEF MergeInv
<1>1. /\ TypeOK' /\ RowsInPlace
      /\ \A i \in RowIds : \/ rows'[i] = rows[i]
                           \/ /\ rows[i].status = "pending" /\ rows'[i].status = "processing"
                              /\ rows'[i].by = r
      /\ cyc'[r].pc = "asked" /\ cyc'[r].since = cursor /\ cyc'[r].send \subseteq RowIds
      /\ \A q \in Runtimes \ {r} : cyc'[q] = cyc[q]
  BY <1>0, BeginTypes
<1>2. /\ UNCHANGED <<feed, local, staged, cursor, paired, heal, keep, pairing, unpaired, drift>>
      /\ paired
  BY DEF Begin
<1>3. pairing.pc # "fetched"
  BY <1>0, <1>2 DEF PairingIsAlone
<1>4. \A a \in Animes : TokenOnly(a)
  BY <1>0, <1>2, SameQueue
<1>5. \A i \in RowIds : rows[i].status \in Unsettled => rows'[i].status \in Unsettled
  BY <1>1 DEF Unsettled, Unacked
<1>6. \A q \in Runtimes : Requested(q)
  BY <1>1, <1>2 DEF Requested
<1>7. \A q \in Runtimes : \A i \in RowIds :
           cyc'[q].pc = "answered" /\ rows'[i].status = "processing" /\ rows'[i].by = q =>
             rows[i].status = "processing" /\ rows[i].by = q
  BY <1>1
<1>8. PairingStarts
  BY <1>0, <1>2, SameQueue
<1> QED BY <1>1, <1>2, <1>3, <1>4, <1>5, <1>6, <1>7, <1>8, QueueKeeps

\* A token is fetched, or the anime is found to be gone.
LEMMA FetchBaseKeeps ==
  ASSUME MergeInv, NEW r \in Runtimes, FetchBase(r)
  PROVE  MergeInv'
<1>0. TypeOK /\ PairingIsAlone /\ RequestsBehind /\ UnpairedIsQuiet
  BY DEF MergeInv
<1>1. cyc[r].send \subseteq RowIds
  BY <1>0 DEF RequestsBehind
<1>2. /\ TypeOK' /\ RowsInPlace /\ \A a \in Animes : TokenOnly(a)
      /\ \A i \in RowIds : \/ rows'[i] = rows[i]
                           \/ rows[i].status \in Unacked /\ rows'[i].status = "given_up"
      /\ \E i \in RowIds : rows[i].status = "processing"
  BY <1>0, <1>1, FetchBaseTypes
<1>3. UNCHANGED <<feed, staged, cursor, paired, cyc, heal, keep, pairing, unpaired, drift>>
  BY DEF FetchBase
<1>4. paired
  BY <1>0, <1>2 DEF UnpairedIsQuiet
<1>5. pairing.pc # "fetched"
  BY <1>0, <1>4 DEF PairingIsAlone
<1>6. \A i \in RowIds : rows[i].status \in Unsettled => rows'[i].status \in Unsettled
  BY <1>2 DEF Unsettled, Unacked
<1>7. (\A q \in Runtimes : Requested(q)) /\ PairingStarts
  BY <1>0, <1>3, SameQueue
<1>8. \A q \in Runtimes : \A i \in RowIds :
           cyc'[q].pc = "answered" /\ rows'[i].status = "processing" /\ rows'[i].by = q =>
             rows[i].status = "processing" /\ rows[i].by = q
  BY <1>2
<1> QED BY <1>2, <1>3, <1>4, <1>5, <1>6, <1>7, <1>8, QueueKeeps

\* A request is released.
LEMMA FailKeeps ==
  ASSUME MergeInv, NEW r \in Runtimes, Fail(r)
  PROVE  MergeInv'
<1>0. TypeOK /\ PairingIsAlone
  BY DEF MergeInv
<1>1. /\ TypeOK' /\ RowsInPlace /\ cyc'[r] = NoCycle
      /\ \A q \in Runtimes \ {r} : cyc'[q] = cyc[q]
      /\ \A i \in RowIds : \/ rows'[i] = rows[i]
                           \/ i \in HeldBy(r) /\ rows'[i].status = "pending"
  BY <1>0, FailTypes
<1>2. /\ UNCHANGED <<feed, local, staged, cursor, paired, heal, keep, pairing, unpaired, drift>>
      /\ cyc[r].pc # "idle"
  BY DEF Fail
<1>3. pairing.pc # "fetched"
  BY <1>0, <1>2 DEF PairingIsAlone
<1>4. (\A a \in Animes : TokenOnly(a)) /\ PairingStarts
  BY <1>0, <1>2, SameQueue
<1>5. \A i \in RowIds : /\ rows[i].status \in Unsettled => rows'[i].status \in Unsettled
                        /\ rows[i].status = "deleted" => rows'[i].status = "deleted"
  BY <1>1 DEF Unsettled, Unacked, HeldBy
<1>6. \A q \in Runtimes : Requested(q)
  BY <1>1 DEF Requested
<1>7. \A q \in Runtimes : \A i \in RowIds :
           cyc'[q].pc = "answered" /\ rows'[i].status = "processing" /\ rows'[i].by = q =>
             rows[i].status = "processing" /\ rows[i].by = q
  BY <1>1
<1> QED BY <1>1, <1>2, <1>3, <1>4, <1>5, <1>6, <1>7, QueueKeeps

\* The user keeps the local state.
LEMMA KeepLocalKeeps ==
  ASSUME MergeInv, NEW a \in Animes, KeepLocal(a)
  PROVE  MergeInv'
<1>0. TypeOK /\ PairingIsAlone /\ UnpairedIsQuiet
  BY DEF MergeInv
<1>1. /\ TypeOK' /\ RowsInPlace /\ \A b \in Animes : TokenOnly(b)
      /\ \A i \in RowIds : \/ rows'[i] = rows[i]
                           \/ rows[i].status = "given_up" /\ rows'[i].status = "pending"
      /\ \E i \in RowIds : rows[i].status = "given_up"
  BY <1>0, KeepLocalTypes
<1>2. UNCHANGED <<feed, staged, cursor, paired, cyc, heal, keep, pairing, unpaired, drift>>
  BY DEF KeepLocal
<1>3. paired
  BY <1>0, <1>1 DEF UnpairedIsQuiet
<1>4. pairing.pc # "fetched"
  BY <1>0, <1>3 DEF PairingIsAlone
<1>5. \A i \in RowIds : rows[i].status \in Unsettled => rows'[i].status \in Unsettled
  BY <1>1 DEF Unsettled, Unacked
<1>6. (\A q \in Runtimes : Requested(q)) /\ PairingStarts
  BY <1>0, <1>2, SameQueue
<1>7. \A q \in Runtimes : \A i \in RowIds :
           cyc'[q].pc = "answered" /\ rows'[i].status = "processing" /\ rows'[i].by = q =>
             rows[i].status = "processing" /\ rows[i].by = q
  BY <1>1
<1> QED BY <1>1, <1>2, <1>3, <1>4, <1>5, <1>6, <1>7, QueueKeeps

\* The three fetches.
LEMMA FetchesKeep ==
  ASSUME MergeInv, HealFetch \/ PairFetch \/ \E a \in Animes : KeepBridgeFetch(a)
  PROVE  MergeInv'
<1>0. TypeOK /\ PairingIsAlone /\ ComesFromFeed
  BY DEF MergeInv
<1>1. UNCHANGED <<feed, local, rows, staged, cursor, paired, cyc, unpaired, drift>>
  BY DEF HealFetch, PairFetch, KeepBridgeFetch
<1>2. TypeOK'
  BY <1>0, FetchTypes
<1>3. RowsInPlace /\ (\A a \in Animes : TokenOnly(a)) /\ \A q \in Runtimes : Requested(q)
  BY <1>0, <1>1, SameQueue
<1>4. pairing.pc # "fetched" /\ PairingStarts
  <2>1. CASE HealFetch \/ \E a \in Animes : KeepBridgeFetch(a)
    <3>1. paired /\ pairing' = pairing
      BY <2>1 DEF HealFetch, KeepBridgeFetch
    <3> QED BY <1>0, <3>1, SameQueue DEF PairingIsAlone
  <2>2. CASE PairFetch
    BY <2>2 DEF PairFetch, PairingStarts
  <2> QED BY <2>1, <2>2
<1>5. heal' = heal \/ heal'.upto = Len(feed)
  BY DEF HealFetch, PairFetch, KeepBridgeFetch
<1>6. ASSUME NEW a \in Animes
      PROVE  \/ keep'[a] = keep[a]
             \/ keep'[a].upto = Len(feed) /\ \E c \in FeedIds : feed[c].anime = a
  <2>1. CASE HealFetch \/ PairFetch
    BY <2>1 DEF HealFetch, PairFetch
  <2>2. CASE \E b \in Animes : KeepBridgeFetch(b)
    <3>1. PICK b \in Animes : KeepBridgeFetch(b)
      BY <2>2
    <3>2. keep'[b] = [pc |-> "fetched", upto |-> Len(feed)] /\ \A c \in Animes \ {b} : keep'[c] = keep[c]
      BY <1>0, <3>1, FetchTypes
    <3>3. \E i \in RowIds : rows[i].anime = b
      BY <3>1 DEF KeepBridgeFetch, GivenUp
    <3>4. \E c \in FeedIds : feed[c].anime = b
      BY <1>0, <3>3 DEF ComesFromFeed
    <3> QED BY <3>2, <3>4
  <2> QED BY <2>1, <2>2
<1> QED BY <1>1, <1>2, <1>3, <1>4, <1>5, <1>6, QueueKeeps

\* The user's edit is what the table shows of the anime, and unsettled.
LEMMA LocalEditKeeps ==
  ASSUME MergeInv, NEW a \in Animes, LocalEdit(a)
  PROVE  MergeInv'
<1>0. /\ TypeOK /\ NothingAfterDelete /\ ComesFromFeed /\ RequestsBehind
      /\ UnpairedIsQuiet /\ PairingIsAlone /\ StagedIsBehind /\ EchoesAwaited
      /\ GuardShows /\ CursorShows
  BY DEF MergeInv
<1>1. /\ TypeOK' /\ rows' \in Seq(Row) /\ Len(rows') = Len(rows) + 1
      /\ \A i \in RowIds : rows'[i] = rows[i]
      /\ rows'[Len(rows) + 1].anime = a /\ rows'[Len(rows) + 1].status = "pending"
      /\ local'[a] = [local[a] EXCEPT !.seen = EditValue(Len(rows) + 1)]
      /\ \A b \in Animes \ {a} : local'[b] = local[b]
  BY <1>0, LocalEditTypes
<1>2. /\ UNCHANGED <<feed, staged, cursor, paired, cyc, heal, keep, pairing, unpaired, drift>>
      /\ paired /\ local[a].here
  BY DEF LocalEdit
<1>3. /\ FeedKept /\ NothingAfterDelete' /\ FeedIds' = FeedIds
      /\ \A b : (Exists(b, Len(feed)))' <=> Exists(b, Len(feed))
  BY <1>0, <1>2, SameFeed, SameBridge
<1>4. Len(rows) \in Nat /\ RowIds' = RowIds \cup {Len(rows) + 1} /\ Len(rows) + 1 \notin RowIds /\ RowIds \subseteq Nat
      /\ \A i \in RowIds : i <= Len(rows) + 1
  <2>1. Len(rows) \in Nat
    BY <1>0, Numbers
  <2> QED BY <1>1, <2>1 DEF RowIds
<1>5. /\ local'[a].seen = EditValue(Len(rows) + 1) /\ local'[a].note = local[a].note
      /\ local'[a].here = local[a].here /\ local'[a].guard = local[a].guard
  <2>1. local[a] \in Anime
    BY <1>0 DEF TypeOK
  <2> QED BY <1>1, <2>1 DEF Anime
<1>6. \A b \in Animes : local'[b].here = local[b].here /\ local'[b].guard = local[b].guard
  BY <1>1, <1>5
<1>7. ComesFromFeed'
  <2>1. \A i \in RowIds' : \E c \in FeedIds : feed[c].anime = rows'[i].anime
    BY <1>0, <1>1, <1>2, <1>4 DEF ComesFromFeed
  <2>2. \A b \in drift : b \in Animes
    BY <1>0 DEF TypeOK
  <2> QED BY <1>0, <1>2, <1>3, <1>6, <2>1, <2>2 DEF ComesFromFeed
<1>8. RequestsBehind'
  <2>1. \A q \in Runtimes : cyc'[q].send \subseteq RowIds'
    BY <1>0, <1>2, <1>4 DEF RequestsBehind
  <2> QED BY <1>0, <1>2, <2>1 DEF RequestsBehind
<1>9. UnpairedIsQuiet' /\ PairingIsAlone' /\ StagedIsBehind'
  BY <1>0, <1>2 DEF UnpairedIsQuiet, PairingIsAlone, StagedIsBehind
<1>10. EchoesAwaited'
  <2>1. SUFFICES ASSUME NEW q \in Runtimes, cyc[q].pc = "answered", NEW i \in (HeldBy(q))' \cap cyc[q].applied
                 PROVE  \E k \in FeedIds : /\ cyc[q].since < k /\ k <= cyc[q].upto
                           /\ feed[k].anime = rows'[i].anime /\ feed[k].type = "update"
                           /\ "seen" \in feed[k].fields /\ feed[k].snap.seen = EditValue(i)
                           /\ local'[rows'[i].anime].guard < k
    BY <1>2, <1>3 DEF EchoesAwaited
  <2>2. i \in cyc[q].send /\ i \in RowIds /\ rows'[i].status = "processing" /\ rows'[i].by = q
    BY <1>0, <1>2, <2>1 DEF HeldBy, RequestsBehind
  <2>3. rows'[i] = rows[i]
    BY <1>1, <2>2
  <2>4. i \in HeldBy(q) \cap cyc[q].applied
    BY <2>1, <2>2, <2>3 DEF HeldBy
  <2>5. rows[i].anime \in Animes
    BY <1>0, <2>2, Numbers
  <2>6. local'[rows[i].anime].guard = local[rows[i].anime].guard
    BY <1>6, <2>5
  <2>7. \E k \in FeedIds : /\ cyc[q].since < k /\ k <= cyc[q].upto
                           /\ feed[k].anime = rows[i].anime /\ feed[k].type = "update"
                           /\ "seen" \in feed[k].fields /\ feed[k].snap.seen = EditValue(i)
                           /\ local[rows[i].anime].guard < k
    BY <1>0, <2>1, <2>4 DEF EchoesAwaited
  <2> QED BY <2>3, <2>6, <2>7
<1>11. Own(a)'
  <2>1. \A i \in RowIds' : i <= Len(rows) + 1
    BY <1>4
  <2>2. "pending" \in Unsettled
    BY DEF Unsettled, Unacked
  <2> QED BY <1>1, <1>4, <1>5, <2>1, <2>2 DEF Own
<1>12. ASSUME NEW b \in Animes, NEW f \in Known, NEW e \in FeedIds, Kept(b, f, e) PROVE Kept(b, f, e)'
  <2>1. CASE b = a /\ f = "seen"
    BY <1>11, <2>1 DEF Kept
  <2>2. CASE ~(b = a /\ f = "seen")
    <3>1. local'[b][f] = local[b][f] /\ local'[b].here = local[b].here
      BY <1>1, <1>5, <2>2 DEF Known
    <3>2. CASE Covered(b, f, e)
      BY <1>3, <3>1, <3>2, CoveredStays DEF Kept
    <3>3. CASE f = "seen" /\ Own(b)
      <4>1. b # a /\ local'[b].seen = local[b].seen
        BY <1>1, <2>2, <3>3
      <4>2. PICK j \in RowIds : /\ rows[j].anime = b /\ rows[j].status \in Unsettled
                                /\ local[b].seen = EditValue(j)
                                /\ \A i \in RowIds : rows[i].anime = b => i <= j
        BY <3>3 DEF Own
      <4>3. \A i \in RowIds' : rows'[i].anime = b => i <= j
        BY <1>1, <1>4, <4>1, <4>2
      <4>4. j \in RowIds' /\ rows'[j] = rows[j]
        BY <1>1, <1>4
      <4>5. Own(b)'
        BY <4>1, <4>2, <4>3, <4>4 DEF Own
      <4> QED BY <3>3, <4>5 DEF Kept
    <3> QED BY <1>12, <3>2, <3>3 DEF Kept
  <2> QED BY <2>1, <2>2
<1>13. GuardShows' /\ CursorShows'
  <2>1. \A r \in Runtimes : cyc'[r].upto \in Nat
    BY <1>0, <1>2, Numbers
  <2>2. \A b \in Animes : local[b].guard <= Len(feed)
    BY <1>0, GuardsBehind
  <2> QED BY <1>0, <1>2, <1>3, <1>6, <1>12, <2>1, <2>2, QuietStep
<1> QED BY <1>1, <1>3, <1>7, <1>8, <1>9, <1>10, <1>13 DEF MergeInv

\* Unpairing.
LEMMA UnpairKeeps ==
  ASSUME MergeInv, Unpair
  PROVE  MergeInv'
<1>0. /\ TypeOK /\ NothingAfterDelete /\ ComesFromFeed /\ RequestsBehind
      /\ PairingIsAlone
  BY DEF MergeInv
<1>1. TypeOK' /\ RowsInPlace /\ (\A i \in RowIds : rows'[i].status = "deleted") /\ \A a \in Animes : TokenOnly(a)
  BY <1>0, UnpairTypes
<1>2. /\ UNCHANGED <<feed, cyc, heal, keep, pairing, drift>> /\ ~paired' /\ staged' = {} /\ paired
  BY DEF Unpair
<1>3. /\ NothingAfterDelete' /\ FeedIds' = FeedIds
  BY <1>0, <1>2, SameBridge
<1>4. ComesFromFeed'
  <2>1. \A i \in RowIds' : \E c \in FeedIds : feed[c].anime = rows'[i].anime
    BY <1>0, <1>1 DEF ComesFromFeed, RowsInPlace
  <2>2. \A b \in drift : b \in Animes
    BY <1>0 DEF TypeOK
  <2>3. \A b \in Animes : local'[b].here = local[b].here /\ local'[b].guard = local[b].guard
    BY <1>1 DEF TokenOnly
  <2> QED BY <1>0, <1>2, <1>3, <2>1, <2>2, <2>3 DEF ComesFromFeed
<1>5. RequestsBehind'
  <2>1. RowIds' = RowIds
    BY <1>1 DEF RowsInPlace
  <2> QED BY <1>0, <1>2, <2>1 DEF RequestsBehind
<1>6. UnpairedIsQuiet'
  BY <1>1, <1>2 DEF UnpairedIsQuiet, RowsInPlace
<1>7. PairingIsAlone'
  BY <1>0, <1>2 DEF PairingIsAlone
<1>8. StagedIsBehind' /\ GuardShows' /\ CursorShows'
  BY <1>2 DEF StagedIsBehind, GuardShows, CursorShows
<1>9. EchoesAwaited'
  <2>1. SUFFICES ASSUME NEW q \in Runtimes, NEW i \in (HeldBy(q))' PROVE FALSE
    BY DEF EchoesAwaited
  <2>2. i \in cyc[q].send /\ rows'[i].status = "processing"
    BY <1>2, <2>1 DEF HeldBy
  <2>3. i \in RowIds
    BY <1>0, <2>2 DEF RequestsBehind
  <2> QED BY <1>1, <2>2, <2>3
<1> QED BY <1>1, <1>3, <1>4, <1>5, <1>6, <1>7, <1>8, <1>9 DEF MergeInv

(***************************************************************************)
(* What writing a snapshot keeps.                                          *)
(***************************************************************************)
\* An anime that shows the snapshot of the first n changes shows every one of them.
LEMMA SnapshotCovers ==
  ASSUME TypeOK, feed' = feed, NEW a \in Animes, NEW n \in 0..Len(feed), Exists(a, n),
         local'[a].here, \A f \in Known : local'[a][f] = Snapshot(a, n)[f],
         NEW f \in Known, NEW e \in 1..n, feed[e].anime = a
  PROVE  Covered(a, f, e)'
<1>1. PICK k \in FeedIds : /\ feed[k].anime = a /\ feed[k].type # "delete" /\ Snapshot(a, n) = feed[k].snap
                          /\ e <= k
  BY SnapshotIs
<1>2. FeedIds' = FeedIds
  BY DEF FeedIds
<1>3. Shows(a, f, k)'
  BY <1>1 DEF Shows
<1> QED BY <1>1, <1>2, <1>3 DEF Covered

\* What has been shown of an anime that is not written stays shown.
LEMMA KeptSame ==
  ASSUME TypeOK, feed' = feed, RowsInPlace, NEW a \in Animes, NEW f \in Known, NEW e \in FeedIds, Kept(a, f, e),
         local'[a].here = local[a].here, \A g \in Known : local'[a][g] = local[a][g],
         \A i \in RowIds : rows[i].anime = a => rows'[i] = rows[i]
  PROVE  Kept(a, f, e)'
<1>1. FeedKept
  BY SameFeed
<1>2. CASE Covered(a, f, e)
  BY <1>1, <1>2, CoveredStays DEF Kept
<1>3. CASE f = "seen" /\ Own(a)
  <2>1. local'[a].seen = local[a].seen
    BY DEF Known
  <2>2. RowIds' = RowIds
        /\ \A i \in RowIds : /\ rows'[i].anime = rows[i].anime
                             /\ rows[i].anime = a /\ rows[i].status \in Unsettled => rows'[i].status \in Unsettled
    BY DEF RowsInPlace
  <2>3. Own(a)'
    BY <1>3, <2>1, <2>2, OwnStays
  <2> QED BY <1>3, <2>3 DEF Kept
<1> QED BY <1>2, <1>3 DEF Kept

\* What is to be deleted is still to be deleted.
LEMMA DoomedSame ==
  ASSUME UNCHANGED <<feed, staged, cursor, cyc>>, NEW a, Doomed(a)
  PROVE  Doomed(a)'
<1>1. Deletes(a)' = Deletes(a)
  BY SameBridge
<1> QED BY <1>1 DEF Doomed

\* The animes an older snapshot or change has come over.
LEMMA DriftIs ==
  ASSUME NEW table, NEW written, NEW n, NEW a
  PROVE  /\ a \in DriftAfterMerge(table) <=>
              /\ table[a].here
              /\ a \in drift \/ (a \in Animes /\ ~local[a].here /\ ~Exists(a, Len(feed)))
         /\ a \in DriftAfter(written, table, n) <=>
              \/ a \in DriftAfterMerge(table) /\ (a \in written => ~Exists(a, Len(feed)))
              \/ a \in written /\ (local[a].guard > n \/ LastChange(a, cursor) > n)
<1>1. a \in DriftAfterMerge(table) <=>
              /\ table[a].here
              /\ a \in drift \/ (a \in Animes /\ ~local[a].here /\ ~Exists(a, Len(feed)))
  BY DEF DriftAfterMerge, Revived
<1>2. a \in DriftAfter(written, table, n) <=>
              \/ a \in DriftAfterMerge(table) /\ (a \in written => ~Exists(a, Len(feed)))
              \/ a \in written /\ (local[a].guard > n \/ LastChange(a, cursor) > n)
  BY DEF DriftAfter
<1> QED BY <1>1, <1>2

\* A snapshot of the first n changes, written over some animes, keeps both claims.
LEMMA SnapshotKeeps ==
  ASSUME MergeInv, UNCHANGED <<feed, staged, cursor, paired, cyc>>, RowsInPlace,
         NEW n \in 0..Len(feed), NEW written \in SUBSET Animes,
         drift' = DriftAfter(written, local', n),
         \A a \in written : IF Exists(a, n)
           THEN /\ local'[a].here /\ local'[a].guard = local[a].guard
                /\ \A f \in Known : local'[a][f] = Snapshot(a, n)[f]
           ELSE local'[a] = NoAnime /\ \E c \in 1..n : feed[c].anime = a,
         \A a \in Animes \ written : /\ local'[a] = local[a]
                                     /\ \A i \in RowIds : rows[i].anime = a => rows'[i] = rows[i],
         paired => \A c \in staged : c <= cursor \/ (cursor = 0 /\ c <= n)
  PROVE  GuardShows' /\ CursorShows' /\ \A a \in drift' : local'[a].here
<1>0. /\ TypeOK /\ NothingAfterDelete /\ ComesFromFeed
      /\ GuardShows /\ CursorShows
  BY DEF MergeInv
<1>1. /\ Len(feed) \in Nat /\ n \in Nat /\ n <= Len(feed) /\ FeedIds = 1..Len(feed) /\ FeedIds' = FeedIds
      /\ cursor \in Nat /\ cursor <= Len(feed) /\ staged \subseteq FeedIds
      /\ \A a \in Animes : local[a].guard \in Nat /\ local[a].here \in BOOLEAN
  BY <1>0, Numbers, SameBridge DEF FeedIds
<1>2. /\ NoAnime.here = FALSE /\ NoAnime.guard = 0
      /\ \A a : (Exists(a, Len(feed)))' <=> Exists(a, Len(feed))
      /\ \A a : Deletes(a)' = Deletes(a)
  BY SameBridge DEF NoAnime
<1>3. ASSUME NEW a \in written, ~Exists(a, n)
      PROVE  /\ LastChange(a, n) \in Deletes(a) /\ ~local'[a].here /\ local'[a].guard = 0
             /\ ~(local[a].guard > n) /\ ~(LastChange(a, cursor) > n)
  <2>1. PICK c \in 1..n : feed[c].anime = a
    BY <1>3
  <2>2. LastChange(a, n) \in Deletes(a) /\ LastChange(a, n) \in 1..n
    BY <1>0, <1>3, <2>1, LastIsThere
  <2>3. PICK d \in 1..n : d \in FeedIds /\ feed[d].anime = a /\ feed[d].type = "delete"
    BY <2>2 DEF Deletes, DeletesIn
  <2>4. \A k \in FeedIds : feed[k].anime = a => ~(k > n)
    <3>1. SUFFICES ASSUME NEW k \in FeedIds, feed[k].anime = a, k > n PROVE FALSE
      OBVIOUS
    <3>2. d \in 1..(k - 1)
      BY <1>1, <3>1
    <3> QED BY <1>0, <2>3, <3>1, <3>2 DEF NothingAfterDelete
  <2>5. ~(local[a].guard > n)
    <3>1. a \in Animes
      OBVIOUS
    <3>2. local[a].guard # 0 => local[a].guard \in FeedIds /\ feed[local[a].guard].anime = a
      BY <1>0, <3>1 DEF ComesFromFeed
    <3> QED BY <1>1, <2>4, <3>2
  <2>6. ~(LastChange(a, cursor) > n)
    <3>1. LastChange(a, cursor) # 0 => LastChange(a, cursor) \in 1..cursor /\ feed[LastChange(a, cursor)].anime = a
      BY <1>1, LastChangeIs
    <3>2. LastChange(a, cursor) # 0 => LastChange(a, cursor) \in FeedIds
      BY <1>1, <3>1
    <3> QED BY <1>1, <2>4, <3>1, <3>2
  <2> QED BY <1>2, <1>3, <2>2, <2>5, <2>6
<1>4. ASSUME NEW a \in drift' PROVE local'[a].here
  <2>1. \/ a \in DriftAfterMerge(local') /\ (a \in written => ~Exists(a, Len(feed)))
        \/ a \in written /\ (local[a].guard > n \/ LastChange(a, cursor) > n)
    BY DriftIs
  <2>2. CASE a \in DriftAfterMerge(local')
    BY <2>2, DriftIs
  <2>3. CASE a \in written /\ (local[a].guard > n \/ LastChange(a, cursor) > n)
    BY <1>3, <2>3
  <2> QED BY <2>1, <2>2, <2>3
<1>5. ASSUME NEW a \in Animes \ written, a \notin drift' PROVE a \notin drift
  <2>1. a \notin DriftAfterMerge(local')
    BY <1>5, DriftIs
  <2>2. a \in drift => local[a].here
    BY <1>0 DEF ComesFromFeed
  <2> QED BY <2>1, <2>2, DriftIs
<1>6. ASSUME NEW a \in written, Exists(a, n), NEW f \in Known, NEW e \in 1..n, feed[e].anime = a
      PROVE  Covered(a, f, e)'
  BY <1>0, <1>6, SnapshotCovers
<1>7. ASSUME NEW a \in Animes \ written, NEW f \in Known, NEW e \in FeedIds, Kept(a, f, e)
      PROVE  Kept(a, f, e)'
  <2>1. local'[a].here = local[a].here /\ (\A g \in Known : local'[a][g] = local[a][g])
        /\ \A i \in RowIds : rows[i].anime = a => rows'[i] = rows[i]
    OBVIOUS
  <2> QED BY <1>0, <1>7, <2>1, KeptSame
<1>8. GuardShows'
  <2>1. SUFFICES ASSUME paired, NEW a \in Animes, a \notin drift' PROVE Doomed(a)' \/ GuardShown(a)'
    BY DEF GuardShows
  <2>2. CASE a \in written /\ Exists(a, n)
    <3>1. ~(local[a].guard > n)
      BY <2>1, <2>2, DriftIs
    <3>2. ASSUME NEW f \in Known, NEW e \in FeedIds, e <= local'[a].guard, Touches(e, a, f)'
          PROVE  Kept(a, f, e)'
      <4>1. e \in 1..n /\ feed[e].anime = a
        BY <1>1, <2>2, <3>1, <3>2 DEF Touches
      <4> QED BY <1>6, <2>2, <4>1 DEF Kept
    <3> QED BY <1>1, <3>2 DEF GuardShown
  <2>3. CASE a \in written /\ ~Exists(a, n)
    <3>1. local'[a].guard = 0 /\ \A e \in FeedIds : ~(e <= 0)
      BY <1>1, <1>3, <2>3
    <3> QED BY <1>1, <3>1 DEF GuardShown
  <2>4. CASE a \notin written
    <3>1. a \notin drift
      BY <1>5, <2>1, <2>4
    <3>2. Doomed(a) \/ GuardShown(a)
      BY <1>0, <2>1, <3>1 DEF GuardShows
    <3>3. ASSUME GuardShown(a), NEW f \in Known, NEW e \in FeedIds, e <= local'[a].guard, Touches(e, a, f)'
          PROVE  Kept(a, f, e)'
      <4>1. Touches(e, a, f) /\ e <= local[a].guard
        BY <2>1, <2>4, <3>3 DEF Touches
      <4> QED BY <1>7, <2>4, <3>3, <4>1 DEF GuardShown
    <3> QED BY <1>1, <3>2, <3>3, DoomedSame DEF GuardShown
  <2> QED BY <2>2, <2>3, <2>4
<1>9. CursorShows'
  <2>1. SUFFICES ASSUME paired, NEW a \in Animes, a \notin drift' \/ Exists(a, Len(feed))
                 PROVE  Gone(a)' \/ Doomed(a)' \/ Accounted(a)'
    BY <1>2 DEF CursorShows
  <2>2. CASE a \in written /\ ~Exists(a, n)
    <3>1. LastChange(a, n) \in Deletes(a) /\ ~local'[a].here
      BY <1>3, <2>2
    <3> QED BY <1>2, <3>1 DEF Gone
  <2>3. CASE ~(a \in written /\ ~Exists(a, n))
    <3>1. a \notin drift \/ Exists(a, Len(feed))
      <4>1. CASE a \in written
        BY <2>1, <2>3, <4>1, DriftIs
      <4>2. CASE a \notin written
        BY <1>5, <2>1, <4>2
      <4> QED BY <4>1, <4>2
    <3>2. Gone(a) \/ Doomed(a) \/ Accounted(a)
      BY <1>0, <2>1, <3>1 DEF CursorShows
    <3>3. ASSUME Gone(a) PROVE Gone(a)'
      <4>1. CASE a \in written
        <5>1. local'[a].here /\ ~local[a].here
          BY <2>3, <3>3, <4>1 DEF Gone
        <5>2. ~Exists(a, Len(feed))
          <6>1. PICK d \in Deletes(a) : TRUE
            BY <3>3 DEF Gone
          <6>2. Len(feed) \in 0..Len(feed) /\ d <= Len(feed)
            BY <1>1, <6>1 DEF Deletes, DeletesIn
          <6> QED BY <1>0, <6>1, <6>2, DeletedIsGone
        <5>3. a \in DriftAfterMerge(local')
          BY <5>1, <5>2, DriftIs
        <5>4. a \in drift'
          BY <5>2, <5>3, DriftIs
        <5> QED BY <2>1, <5>2, <5>4
      <4>2. CASE a \notin written
        BY <1>2, <3>3, <4>2 DEF Gone
      <4> QED BY <4>1, <4>2
    <3>4. local'[a].guard = local[a].guard
      BY <2>3
    <3>5. ASSUME Accounted(a), NEW e \in FeedIds, Touching(e, a)', Reached(a, e)'
          PROVE  e \in staged \/ e <= local[a].guard \/ Under(a, e)'
      <4>1. Touching(e, a) /\ Reached(a, e)
        BY <3>5 DEF Touching, Names, Reached
      <4>2. CASE Under(a, e)
        <5>1. cursor = 0 /\ \A c \in staged : feed[c].anime = a => e < c
          BY <4>2 DEF Under
        <5>2. ASSUME NEW f \in Known, Touches(e, a, f)' PROVE Kept(a, f, e)'
          <6>1. Touches(e, a, f) /\ feed[e].anime = a
            BY <5>2 DEF Touches
          <6>2. CASE a \in written
            <7>1. PICK c \in staged : feed[c].anime = a /\ e <= c
              BY <1>1, <4>1, <5>1 DEF Reached
            <7>2. c <= cursor \/ c <= n
              BY <2>1
            <7>3. e \in 1..n
              BY <1>1, <5>1, <7>1, <7>2
            <7> QED BY <1>6, <2>3, <6>1, <6>2, <7>3 DEF Kept
          <6>3. CASE a \notin written
            <7>1. Kept(a, f, e)
              BY <4>2, <6>1 DEF Under
            <7> QED BY <1>7, <6>3, <7>1
          <6> QED BY <6>2, <6>3
        <5> QED BY <5>1, <5>2 DEF Under
      <4> QED BY <3>5, <4>1, <4>2 DEF Accounted
    <3>6. Accounted(a) => Accounted(a)'
      BY <1>1, <3>4, <3>5 DEF Accounted
    <3> QED BY <3>2, <3>3, <3>6, DoomedSame
  <2> QED BY <2>2, <2>3
<1> QED BY <1>4, <1>8, <1>9

\* What a written snapshot keeps of the rest.
LEMMA SnapshotKeepsRest ==
  ASSUME MergeInv, TypeOK', UNCHANGED <<feed, staged, cursor, paired, cyc, pairing, unpaired>>, RowsInPlace,
         pairing.pc # "fetched",
         \A a \in Animes : /\ local'[a].guard = local[a].guard \/ local'[a].guard = 0
                           /\ local'[a].here => local[a].here \/ \E c \in FeedIds : feed[c].anime = a
                           /\ ~local'[a].here => local'[a].guard = 0,
         \A a \in drift' : local'[a].here,
         \A i \in RowIds : \/ rows'[i] = rows[i] \/ rows'[i].status = "deleted",
         heal' = heal \/ heal' = NoFetch,
         \A a \in Animes : keep'[a] = keep[a] \/ keep'[a] = NoFetch,
         GuardShows' /\ CursorShows'
  PROVE  MergeInv'
<1>0. /\ TypeOK /\ NothingAfterDelete /\ ComesFromFeed /\ RequestsBehind
      /\ UnpairedIsQuiet /\ PairingIsAlone /\ StagedIsBehind /\ EchoesAwaited
  BY DEF MergeInv
<1>1. NothingAfterDelete' /\ FeedIds' = FeedIds /\ FeedKept /\ RowIds' = RowIds
      /\ \A i \in RowIds : rows'[i].anime = rows[i].anime
  BY <1>0, SameBridge, SameFeed DEF RowsInPlace
<1>2. NoFetch.pc = "idle" /\ NoFetch.upto = 0 /\ Len(feed) \in Nat
  BY <1>0, Numbers DEF NoFetch
<1>3. ComesFromFeed'
  <2>1. \A i \in RowIds : \E c \in FeedIds : feed[c].anime = rows'[i].anime
    BY <1>0, <1>1 DEF ComesFromFeed
  <2>2. \A a \in Animes : local'[a].here => \E c \in FeedIds : feed[c].anime = a
    BY <1>0 DEF ComesFromFeed
  <2>3. \A a \in Animes : local'[a].guard # 0 => local'[a].guard \in FeedIds /\ feed[local'[a].guard].anime = a
    BY <1>0 DEF ComesFromFeed
  <2> QED BY <1>1, <2>1, <2>2, <2>3 DEF ComesFromFeed
<1>4. RequestsBehind'
  <2>1. heal'.upto <= Len(feed)
    BY <1>0, <1>2 DEF RequestsBehind
  <2>2. ASSUME NEW a \in Animes
        PROVE  keep'[a].upto <= Len(feed) /\ (keep'[a].pc = "fetched" => \E c \in 1..keep'[a].upto : feed[c].anime = a)
    BY <1>0, <1>2 DEF RequestsBehind
  <2> QED BY <1>0, <1>1, <2>1, <2>2 DEF RequestsBehind
<1>5. UnpairedIsQuiet'
  BY <1>0, <1>1 DEF UnpairedIsQuiet
<1>6. PairingIsAlone'
  BY DEF PairingIsAlone
<1>7. StagedIsBehind'
  BY <1>0, <1>2 DEF StagedIsBehind
<1>8. EchoesAwaited'
  <2>1. \A q \in Runtimes : cyc'[q].pc = "answered" => cyc'[q] = cyc[q] /\ cyc[q].send \subseteq RowIds
    BY <1>0 DEF RequestsBehind
  <2>2. ASSUME NEW a \in Animes PROVE local'[a].guard <= local[a].guard
    <3>1. local[a].guard \in Nat
      BY <1>0, Numbers
    <3> QED BY <3>1
  <2>3. \A q \in Runtimes : \A i \in RowIds :
           rows'[i].status = "processing" /\ rows'[i].by = q => rows[i].status = "processing" /\ rows[i].by = q
    OBVIOUS
  <2> QED BY <1>0, <1>1, <2>1, <2>2, <2>3, EchoesStay
<1> QED BY <1>0, <1>1, <1>3, <1>4, <1>5, <1>6, <1>7, <1>8 DEF MergeInv

\* A heal.
LEMMA HealKeeps ==
  ASSUME MergeInv, HealWrite
  PROVE  MergeInv'
<1>0. /\ TypeOK /\ RequestsBehind /\ PairingIsAlone /\ StagedIsBehind /\ ComesFromFeed
  BY DEF MergeInv
<1> DEFINE n == heal.upto
           written == {a \in Animes : Exists(a, n)} \ UnackedAnimes
<1>1. n \in 0..Len(feed) /\ Len(feed) \in Nat
  BY <1>0, Numbers DEF RequestsBehind
<1>2. /\ UNCHANGED <<feed, rows, staged, cursor, paired, cyc, keep, pairing, unpaired>>
      /\ drift' = DriftAfter(written, local', n) /\ heal' = NoFetch /\ heal.pc = "fetched"
  BY DEF HealWrite
<1>3. TypeOK' /\ \A a \in Animes : IF Exists(a, n) /\ a \notin UnackedAnimes
                              THEN local'[a] = Healed(a, n) ELSE local'[a] = local[a]
  BY <1>0, <1>1, HealWriteTypes
<1>4. RowsInPlace
  BY <1>0, <1>2, SameQueue
<1>5. pairing.pc # "fetched"
  BY <1>0, <1>2 DEF PairingIsAlone
<1>6. written \in SUBSET Animes /\ \A a \in written : Exists(a, n)
  OBVIOUS
<1>7. \A a \in Animes \ written : local'[a] = local[a]
  BY <1>3
<1>8. ASSUME NEW a \in written
      PROVE  /\ local'[a].here /\ local'[a].guard = local[a].guard
             /\ \A f \in Known : local'[a][f] = Snapshot(a, n)[f]
             /\ \E c \in FeedIds : feed[c].anime = a
  <2>1. local'[a] = Healed(a, n) /\ a \in Animes /\ Exists(a, n)
    BY <1>3
  <2>2. \E c \in FeedIds : feed[c].anime = a
    BY <1>0, <1>1, <2>1, SnapshotIs
  <2> HIDE DEF n
  <2> QED BY <1>0, <1>1, <2>1, <2>2, HealedIs
<1>9. paired => \A c \in staged : c <= cursor \/ (cursor = 0 /\ c <= n)
  BY <1>0, <1>2 DEF StagedIsBehind
<1> HIDE DEF written, n
<1>10. GuardShows' /\ CursorShows' /\ \A a \in drift' : local'[a].here
  BY <1>1, <1>2, <1>4, <1>6, <1>7, <1>8, <1>9, SnapshotKeeps
<1>11. ASSUME NEW a \in Animes
       PROVE  /\ local'[a].guard = local[a].guard
              /\ local'[a].here => local[a].here \/ \E c \in FeedIds : feed[c].anime = a
              /\ ~local'[a].here => local'[a].guard = 0
  <2>1. CASE a \in written
    BY <1>8, <2>1
  <2>2. CASE a \notin written
    BY <1>0, <1>7, <2>2 DEF ComesFromFeed
  <2> QED BY <2>1, <2>2
<1> QED BY <1>2, <1>3, <1>4, <1>5, <1>10, <1>11, SnapshotKeepsRest

\* The user keeps the bridge's state.
LEMMA KeepBridgeKeeps ==
  ASSUME MergeInv, NEW a \in Animes, KeepBridgeWrite(a)
  PROVE  MergeInv'
<1>0. /\ TypeOK /\ RequestsBehind /\ PairingIsAlone /\ StagedIsBehind /\ ComesFromFeed
  BY DEF MergeInv
<1>1. keep[a].upto <= Len(feed) /\ keep[a].pc = "fetched" /\ pairing.pc # "fetched"
  BY <1>0 DEF RequestsBehind, PairingIsAlone, KeepBridgeWrite
<1>2. /\ TypeOK' /\ keep'[a] = NoFetch /\ \A b \in Animes \ {a} : keep'[b] = keep[b]
      /\ UNCHANGED <<feed, staged, cursor, paired, cyc, heal, pairing, unpaired>>
      /\ \/ Claimed(a) /\ UNCHANGED <<rows, local, drift>>
         \/ /\ ~Claimed(a) /\ RowsInPlace
            /\ \A i \in RowIds : \/ rows'[i] = rows[i] /\ (rows[i].anime # a \/ rows[i].status = "synced")
                                 \/ rows[i].anime = a /\ rows'[i].status = "deleted"
            /\ \A b \in Animes \ {a} : local'[b] = local[b]
            /\ local'[a] = IF Exists(a, keep[a].upto) THEN Healed(a, keep[a].upto) ELSE NoAnime
            /\ drift' = DriftAfter({a}, local', keep[a].upto)
  BY <1>0, <1>1, KeepBridgeTypes
<1>3. \A b \in Animes : keep'[b] = keep[b] \/ keep'[b] = NoFetch
  BY <1>2
<1>4. CASE UNCHANGED <<rows, local, drift>>
  <2>1. RowsInPlace /\ (\A b \in Animes : TokenOnly(b)) /\ (\A q \in Runtimes : Requested(q)) /\ PairingStarts
    BY <1>0, <1>2, <1>4, SameQueue
  <2> QED BY <1>1, <1>2, <1>3, <1>4, <2>1, QueueKeeps
<1>5. CASE ~UNCHANGED <<rows, local, drift>>
  <2> DEFINE n == keep[a].upto
  <2>1. n \in 0..Len(feed) /\ Len(feed) \in Nat
    BY <1>0, <1>1, Numbers
  <2>2. /\ RowsInPlace
        /\ \A i \in RowIds : \/ rows'[i] = rows[i] /\ (rows[i].anime # a \/ rows[i].status = "synced")
                             \/ rows[i].anime = a /\ rows'[i].status = "deleted"
        /\ \A b \in Animes \ {a} : local'[b] = local[b]
        /\ local'[a] = IF Exists(a, n) THEN Healed(a, n) ELSE NoAnime
        /\ drift' = DriftAfter({a}, local', n)
    BY <1>2, <1>5
  <2>3. \E c \in 1..n : feed[c].anime = a
    BY <1>0, <1>1 DEF RequestsBehind
  <2>4. {a} \in SUBSET Animes
    OBVIOUS
  <2> HIDE DEF n
  <2>5. ASSUME Exists(a, n)
        PROVE  /\ local'[a].here /\ local'[a].guard = local[a].guard
               /\ \A f \in Known : local'[a][f] = Snapshot(a, n)[f]
    BY <1>0, <2>1, <2>2, <2>5, HealedIs
  <2>6. \A b \in {a} : IF Exists(b, n)
           THEN /\ local'[b].here /\ local'[b].guard = local[b].guard
                /\ \A f \in Known : local'[b][f] = Snapshot(b, n)[f]
           ELSE local'[b] = NoAnime /\ \E c \in 1..n : feed[c].anime = b
    BY <2>2, <2>3, <2>5
  <2>7. \A b \in Animes \ {a} : /\ local'[b] = local[b]
                                /\ \A i \in RowIds : rows[i].anime = b => rows'[i] = rows[i]
    BY <2>2
  <2>8. paired => \A c \in staged : c <= cursor \/ (cursor = 0 /\ c <= n)
    BY <1>0, <1>1 DEF StagedIsBehind, n
  <2>9. GuardShows' /\ CursorShows' /\ \A b \in drift' : local'[b].here
    BY <1>2, <2>1, <2>2, <2>4, <2>6, <2>7, <2>8, SnapshotKeeps
  <2>10. ASSUME NEW b \in Animes
         PROVE  /\ local'[b].guard = local[b].guard \/ local'[b].guard = 0
                /\ local'[b].here => local[b].here \/ \E c \in FeedIds : feed[c].anime = b
                /\ ~local'[b].here => local'[b].guard = 0
    <3>1. CASE b = a /\ Exists(a, n)
      <4>1. \E c \in FeedIds : feed[c].anime = a
        BY <2>1, <2>3 DEF FeedIds
      <4> QED BY <2>5, <3>1, <4>1
    <3>2. CASE b = a /\ ~Exists(a, n)
      BY <2>2, <3>2 DEF NoAnime
    <3>3. CASE b # a
      BY <1>0, <2>2, <3>3 DEF ComesFromFeed
    <3> QED BY <3>1, <3>2, <3>3
  <2>11. \A i \in RowIds : \/ rows'[i] = rows[i] \/ rows'[i].status = "deleted"
    BY <2>2
  <2> QED BY <1>1, <1>2, <1>3, <2>2, <2>9, <2>10, <2>11, SnapshotKeepsRest
<1> QED BY <1>4, <1>5

\* A pairing.
LEMMA PairKeeps ==
  ASSUME MergeInv, PairWrite
  PROVE  MergeInv'
<1>0. /\ TypeOK /\ NothingAfterDelete /\ ComesFromFeed /\ RequestsBehind
      /\ UnpairedIsQuiet /\ PairingIsAlone /\ StagedIsBehind /\ EchoesAwaited
  BY DEF MergeInv
<1> DEFINE n == pairing.upto
<1>1. /\ ~paired /\ n <= Len(feed)
      /\ \A r \in Runtimes : cyc[r].pc = "idle"
      /\ heal.pc = "idle" /\ \A a \in Animes : keep[a].pc = "idle"
      /\ \A c \in staged : c <= n
      /\ \A a \in Animes : local[a].guard <= n
      /\ \A a \in Animes : local[a].here => \E c \in 1..n : feed[c].anime = a
  BY <1>0 DEF PairWrite, PairingIsAlone
<1>2. /\ paired' /\ cursor' = 0 /\ pairing' = NoFetch
      /\ UNCHANGED <<feed, rows, staged, cyc, heal, keep, unpaired, drift>>
  BY DEF PairWrite
<1>3. /\ TypeOK' /\ n \in 0..Len(feed) /\ pairing'.pc = "idle"
      /\ \A a \in Animes :
              IF Exists(a, n)
              THEN /\ local'[a].here /\ local'[a].guard = local[a].guard
                   /\ \A f \in Known : local'[a][f] = Snapshot(a, n)[f]
              ELSE local'[a] = local[a]
  BY <1>0, <1>1, PairWriteTypes
<1> HIDE DEF n
<1>4. /\ NothingAfterDelete' /\ FeedIds' = FeedIds /\ FeedKept /\ RowIds' = RowIds
      /\ \A a : Deletes(a)' = Deletes(a)
  BY <1>0, <1>2, SameBridge, SameFeed DEF RowIds
<1>5. /\ Len(feed) \in Nat /\ n \in Nat /\ FeedIds = 1..Len(feed) /\ staged \subseteq FeedIds
      /\ \A a \in Animes : local[a].guard \in Nat
  BY <1>0, <1>3, Numbers DEF FeedIds
<1>6. \A a \in Animes : local'[a].guard = local[a].guard
  BY <1>3
<1>7. ComesFromFeed'
  <2>1. ASSUME NEW a \in Animes, local'[a].here PROVE \E c \in FeedIds : feed[c].anime = a
    <3>1. CASE Exists(a, n)
      BY <1>0, <1>3, <3>1, SnapshotIs
    <3>2. CASE ~Exists(a, n)
      BY <1>0, <1>3, <2>1, <3>2 DEF ComesFromFeed
    <3> QED BY <3>1, <3>2
  <2>2. \A a \in Animes : ~local'[a].here => local'[a].guard = 0
    BY <1>0, <1>3 DEF ComesFromFeed
  <2>3. \A a \in drift : local'[a].here
    BY <1>0, <1>3 DEF ComesFromFeed, TypeOK
  <2>4. \A i \in RowIds : \E c \in FeedIds : feed[c].anime = rows'[i].anime
    BY <1>0, <1>2 DEF ComesFromFeed
  <2> QED BY <1>0, <1>2, <1>4, <1>6, <2>1, <2>2, <2>3, <2>4 DEF ComesFromFeed
<1>8. RequestsBehind'
  BY <1>0, <1>1, <1>2, <1>4 DEF RequestsBehind
<1>9. UnpairedIsQuiet' /\ PairingIsAlone' /\ EchoesAwaited'
  BY <1>1, <1>2, <1>3 DEF UnpairedIsQuiet, PairingIsAlone, EchoesAwaited
<1>10. StagedIsBehind'
  BY <1>1, <1>2 DEF StagedIsBehind
<1>11. ASSUME NEW a \in Animes, Exists(a, n), NEW f \in Known, NEW e \in 1..n, feed[e].anime = a
       PROVE  Kept(a, f, e)'
  <2>1. Covered(a, f, e)'
    BY <1>0, <1>2, <1>3, <1>11, SnapshotCovers
  <2> QED BY <2>1 DEF Kept
<1>12. ASSUME NEW a \in Animes, ~Exists(a, n), NEW c \in 1..n, feed[c].anime = a
       PROVE  Doomed(a)'
  <2>1. LastChange(a, n) \in Deletes(a)
    BY <1>0, <1>3, <1>12, LastIsThere
  <2>2. \E d \in Deletes(a) : TRUE
    BY <2>1
  <2> QED BY <1>1, <1>2, <1>4, <2>2 DEF Doomed
<1>13. GuardShows'
  <2>1. SUFFICES ASSUME NEW a \in Animes PROVE Doomed(a)' \/ GuardShown(a)'
    BY DEF GuardShows
  <2>2. CASE Exists(a, n)
    <3>1. ASSUME NEW f \in Known, NEW e \in FeedIds, e <= local'[a].guard, Touches(e, a, f)'
          PROVE  Kept(a, f, e)'
      <4>1. e \in 1..n /\ feed[e].anime = a
        BY <1>1, <1>2, <1>5, <1>6, <3>1 DEF Touches
      <4> QED BY <1>11, <2>2, <4>1
    <3> QED BY <1>4, <3>1 DEF GuardShown
  <2>3. CASE ~Exists(a, n) /\ local[a].here
    BY <1>1, <1>12, <2>3
  <2>4. CASE ~Exists(a, n) /\ ~local[a].here
    <3>1. local'[a].guard = 0
      BY <1>0, <1>3, <2>4 DEF ComesFromFeed
    <3>2. \A e \in FeedIds : ~(e <= 0)
      BY <1>5
    <3> QED BY <1>4, <3>1, <3>2 DEF GuardShown
  <2> QED BY <2>2, <2>3, <2>4
<1>14. CursorShows'
  <2>1. SUFFICES ASSUME NEW a \in Animes, ~(Doomed(a)') PROVE Accounted(a)'
    BY DEF CursorShows
  <2>2. SUFFICES ASSUME NEW e \in FeedIds, Touching(e, a)', Reached(a, e)', e \notin staged
                 PROVE  Under(a, e)'
    BY <1>2, <1>4 DEF Accounted
  <2>3. PICK c \in staged : feed[c].anime = a /\ e <= c
    <3>1. ~(e <= 0)
      BY <1>5
    <3> QED BY <1>2, <2>2, <3>1 DEF Reached
  <2>4. c \in 1..n /\ e \in 1..n
    BY <1>1, <1>5, <2>3
  <2>5. Exists(a, n)
    BY <1>12, <2>1, <2>3, <2>4
  <2>6. ASSUME NEW c1 \in staged, feed[c1].anime = a PROVE e < c1
    <3>1. SUFFICES ASSUME c1 <= e PROVE FALSE
      BY <1>5
    <3> QED BY <1>0, <1>1, <2>2, <2>3, <3>1 DEF UnpairedIsQuiet
  <2>7. ASSUME NEW f \in Known, Touches(e, a, f)' PROVE Kept(a, f, e)'
    <3>1. feed[e].anime = a
      BY <1>2, <2>7 DEF Touches
    <3> QED BY <1>11, <2>4, <2>5, <3>1
  <2> QED BY <1>2, <2>6, <2>7 DEF Under
<1> QED BY <1>3, <1>4, <1>7, <1>8, <1>9, <1>10, <1>13, <1>14 DEF MergeInv

(***************************************************************************)
(* A merge pass.                                                           *)
(***************************************************************************)
\* What a pass needs of its changes: they have what is staged, and with each of them, and with
\* the cursor it leaves, all that comes before or was reached already.
PassReaches(changes) ==
  \A a \in Animes : \A e \in FeedIds :
    feed[e].anime = a /\ (e <= cursor' \/ \E c \in changes : feed[c].anime = a /\ e <= c)
      => e \in changes \/ Reached(a, e)
PassFromStart(changes) ==
  cursor = 0 => \/ cursor' = 0 /\ changes = staged /\ rows' = rows
                \/ \A c \in staged : \A e \in FeedIds : e <= c => e \in changes
PassDooms(a, changes) == Doomed(a) => Doomed(a)' \/ DeletesIn(a, changes) # {}
\* The rows a pass leaves: those of an anime without an unacknowledged edit are as they were, and
\* what is kept behind the guard is kept where the anime is.
PassRows(a) ==
  /\ a \notin UnackedAnimes => \A i \in RowIds : rows[i].anime = a => rows'[i] = rows[i]
  /\ local'[a].here = local[a].here /\ (\A f \in Known : local'[a][f] = local[a][f]) =>
       \A f \in Known : \A e \in FeedIds : e <= local[a].guard /\ Kept(a, f, e) => Kept(a, f, e)'
\* An anime a step finds deleted at the bridge and inserts all the same drifts.
PassDrifts(a) ==
  a \in drift' <=> local'[a].here /\ (a \in drift \/ (~local[a].here /\ ~Exists(a, Len(feed))))

\* A change the pass applied is shown after it.
LEMMA PassCovers ==
  ASSUME TypeOK, feed' = feed, NEW changes \in SUBSET FeedIds, NEW a \in Animes, NEW x, ShownAs(a, x),
         NEW f \in Known, NEW e \in FeedIds, NEW from \in Nat, NEW n, x.here,
         FromPass(a, f, changes, from, n, x), DeletesIn(a, changes) = {},
         \A k \in OfIn(a, changes) : from <= k => e <= k
  PROVE  Covered(a, f, e)'
<1>1. PICK k \in OfIn(a, changes) : from <= k /\ x[f] = feed[k].snap[f]
  BY DEF FromPass
<1>2. k \in FeedIds /\ feed[k].anime = a /\ k \in changes /\ e <= k
  BY <1>1 DEF OfIn
<1>3. feed[k].type # "delete"
  BY <1>2 DEF DeletesIn
<1>4. local'[a].here /\ local'[a][f] = feed'[k].snap[f] /\ feed'[k].anime = a /\ feed'[k].type # "delete"
  BY <1>1, <1>2, <1>3 DEF ShownAs
<1>5. k \in FeedIds'
  BY <1>2 DEF FeedIds
<1> QED BY <1>2, <1>4, <1>5 DEF Covered, Shows

\* Without a deletion in the pass, an anime with an unacknowledged edit stays, and its changes
\* are staged.
LEMMA PassDefers ==
  ASSUME MergeInv, paired, feed' = feed, RowsInPlace, NEW changes \in SUBSET FeedIds, staged \subseteq changes,
         staged' = KeptDeferred(changes), PassReaches(changes), PassFromStart(changes),
         NEW a \in Animes, a \in UnackedAnimes, PassDooms(a, changes), PassRows(a),
         local'[a].here = local[a].here, local'[a].guard = local[a].guard,
         \A f \in Known : local'[a][f] = local[a][f],
         DeletesIn(a, changes) = {}
  PROVE  /\ GuardShown(a) => GuardShown(a)'
         /\ Accounted(a) => Accounted(a)'
<1>1. TypeOK /\ NothingAfterDelete
  BY DEF MergeInv
<1>2. FeedIds' = FeedIds /\ FeedKept /\ \A e : \A f : Touches(e, a, f)' <=> Touches(e, a, f)
  BY <1>1, SameFeed DEF FeedIds, Touches
<1>3. ASSUME GuardShown(a) PROVE GuardShown(a)'
  <2>1. SUFFICES ASSUME NEW f \in Known, NEW e \in FeedIds, e <= local[a].guard, Touches(e, a, f)
                 PROVE  Kept(a, f, e)'
    BY <1>2 DEF GuardShown
  <2>2. Kept(a, f, e)
    BY <1>3, <2>1 DEF GuardShown
  <2> QED BY <2>1, <2>2 DEF PassRows
<1>4. ASSUME Accounted(a) PROVE Accounted(a)'
  <2>1. SUFFICES ASSUME NEW e \in FeedIds, Touching(e, a), Reached(a, e)', e \notin staged', ~(e <= local[a].guard)
                 PROVE  Under(a, e)'
    <3>1. \A e : Touching(e, a)' <=> Touching(e, a)
      BY DEF Touching, Names
    <3> QED BY <1>2, <3>1 DEF Accounted
  <2>2. OfIn(a, changes) \subseteq staged' /\ staged' \subseteq changes
    BY <1>1, KeptIs
  <2>3. feed[e].anime = a /\ e \notin changes
    BY <2>1, <2>2 DEF Touching, OfIn
  <2>4. e <= cursor' \/ \E c \in changes : feed[c].anime = a /\ e <= c
    BY <2>1, <2>2 DEF Reached
  <2>5. Reached(a, e)
    BY <2>3, <2>4 DEF PassReaches
  <2>6. Under(a, e)
    BY <1>4, <2>1, <2>3, <2>5 DEF Accounted
  <2>7. cursor = 0
    BY <2>6 DEF Under
  <2>8. e \in Nat /\ e # 0
    BY <1>1, Numbers DEF FeedIds
  <2>9. PICK c \in staged : feed[c].anime = a /\ e <= c
    BY <2>5, <2>7, <2>8 DEF Reached
  <2>10. cursor' = 0 /\ changes = staged /\ rows' = rows
    BY <2>3, <2>7, <2>9 DEF PassFromStart
  <2>11. ASSUME NEW f \in Known, Touches(e, a, f)' PROVE Kept(a, f, e)'
    <3>1. Kept(a, f, e)
      BY <1>2, <2>6, <2>11 DEF Under
    <3>2. \A i \in RowIds : rows[i].anime = a => rows'[i] = rows[i]
      BY <2>10
    <3> QED BY <1>1, <3>1, <3>2, KeptSame
  <2>12. \A o \in staged' : feed'[o].anime = a => e < o
    BY <2>2, <2>6, <2>10 DEF Under
  <2> QED BY <2>10, <2>11, <2>12 DEF Under
<1> QED BY <1>3, <1>4

\* Without a deletion in the pass, what was kept of an anime it writes is kept, or what the
\* pass applied is shown.
LEMMA PassKeepsKept ==
  ASSUME TypeOK, feed' = feed, RowsInPlace, NEW changes \in SUBSET FeedIds,
         NEW a \in Animes, a \notin UnackedAnimes, PassRows(a),
         NEW x, ShownAs(a, x), PassOver(a, changes, Len(feed), x), DeletesIn(a, changes) = {},
         NEW f \in Known, NEW e \in FeedIds, Kept(a, f, e),
         \A k \in OfIn(a, changes) : local[a].guard + 1 <= k => e <= k
  PROVE  Kept(a, f, e)'
<1>0. local[a].guard \in Nat /\ local[a].guard + 1 \in Nat
  BY Numbers
<1>1. CASE x[f] = local[a][f] /\ x.here = local[a].here
  <2>0. FeedKept
    BY SameFeed
  <2>1. local'[a][f] = local[a][f] /\ local'[a].here = local[a].here
    BY <1>1 DEF ShownAs
  <2>2. CASE Covered(a, f, e)
    BY <2>0, <2>1, <2>2, CoveredStays DEF Kept
  <2>3. CASE f = "seen" /\ Own(a)
    <3>1. \A i \in RowIds : /\ rows'[i].anime = rows[i].anime
                            /\ rows[i].anime = a /\ rows[i].status \in Unsettled
                                 => rows'[i].status \in Unsettled
      BY DEF RowsInPlace, PassRows
    <3>2. local'[a].seen = local[a].seen /\ RowIds' = RowIds
      BY <2>1, <2>3 DEF RowsInPlace
    <3>3. Own(a)'
      BY <2>3, <3>1, <3>2, OwnStays
    <3> QED BY <2>3, <3>3 DEF Kept
  <2> QED BY <2>2, <2>3 DEF Kept
<1>2. CASE x.here /\ FromPass(a, f, changes, local[a].guard + 1, Len(feed), x)
  <2>1. Covered(a, f, e)'
    BY <1>0, <1>2, PassCovers
  <2> QED BY <2>1 DEF Kept
<1> QED BY <1>1, <1>2 DEF PassOver

\* Without a deletion in the pass, an anime it may write shows every change up to its new guard.
LEMMA PassShows ==
  ASSUME MergeInv, paired, feed' = feed, RowsInPlace, NEW changes \in SUBSET FeedIds, staged \subseteq changes,
         PassReaches(changes), PassFromStart(changes),
         NEW a \in Animes, a \notin UnackedAnimes, PassRows(a), PassDrifts(a),
         NEW x, ShownAs(a, x), PassOver(a, changes, Len(feed), x), DeletesIn(a, changes) = {},
         a \notin drift', ~Doomed(a)
  PROVE  GuardShown(a)'
<1>1. TypeOK /\ NothingAfterDelete
  BY DEF MergeInv
<1>2. FeedIds' = FeedIds /\ FeedKept /\ \A e : \A f : Touches(e, a, f)' <=> Touches(e, a, f)
  BY <1>1, SameFeed DEF FeedIds, Touches
<1>3. local'[a].here = x.here /\ local'[a].guard = x.guard /\ (local[a].here => x.here)
  BY DEF ShownAs, PassOver
<1>4. a \notin drift
  <2>1. a \in drift => local[a].here
    BY DEF MergeInv, ComesFromFeed
  <2> QED BY <2>1, <1>3 DEF PassDrifts
<1>5. GuardShown(a)
  BY <1>4 DEF MergeInv, GuardShows
<1>6. local[a].guard \in Nat /\ local[a].guard + 1 \in Nat
  BY <1>1, Numbers
<1>7. SUFFICES ASSUME NEW f \in Known, NEW e \in FeedIds, e <= x.guard, Touches(e, a, f)
               PROVE  Kept(a, f, e)'
  BY <1>2, <1>3 DEF GuardShown
<1>8. e \in Nat /\ e # 0 /\ feed[e].anime = a /\ Touching(e, a) /\ (feed[e].type # "update" \/ f \in feed[e].fields)
  BY <1>1, <1>7, Numbers, TouchesIsTouching DEF FeedIds, Touches
<1>9. \A k \in OfIn(a, changes) : k \in Nat
  BY <1>1, Numbers DEF OfIn, FeedIds
<1>10. CASE e <= local[a].guard
  <2>1. Kept(a, f, e)
    BY <1>5, <1>7, <1>10 DEF GuardShown
  <2>2. \A k \in OfIn(a, changes) : local[a].guard + 1 <= k => e <= k
    BY <1>6, <1>8, <1>9, <1>10
  <2> QED BY <1>1, <2>1, <2>2, PassKeepsKept
<1>11. CASE ~(e <= local[a].guard)
  <2>1. x.guard \in OfIn(a, changes) /\ x.here
    BY <1>7, <1>11 DEF PassOver
  <2>2. CASE e \in changes
    <3>1. e \in OfIn(a, changes) /\ e <= Len(feed) /\ local[a].guard < e
      BY <1>1, <1>6, <1>8, <1>11, <2>2, Numbers DEF OfIn, FeedIds
    <3>2. feed[e].type # "update" \/ Names(e) # {}
      BY <1>8 DEF Touching
    <3>3. FromPass(a, f, changes, e, Len(feed), x)
      BY <1>8, <3>1, <3>2 DEF PassOver
    <3>4. Covered(a, f, e)'
      BY <1>1, <1>8, <2>1, <3>3, PassCovers
    <3> QED BY <3>4 DEF Kept
  <2>3. CASE e \notin changes
    <3>1. \E c \in changes : feed[c].anime = a /\ e <= c
      BY <1>7, <2>1 DEF OfIn
    <3>2. Reached(a, e)
      BY <1>8, <2>3, <3>1 DEF PassReaches
    <3>3. ~Gone(a)
      <4>1. SUFFICES ASSUME Gone(a) PROVE FALSE
        OBVIOUS
      <4>2. PICK d \in Deletes(a) : TRUE
        BY <4>1 DEF Gone
      <4>3. d \in FeedIds /\ d <= Len(feed) /\ Len(feed) \in 0..Len(feed)
        BY <1>1, <4>2, Numbers DEF Deletes, DeletesIn, FeedIds
      <4>4. ~Exists(a, Len(feed))
        BY <1>1, <4>2, <4>3, DeletedIsGone
      <4> QED BY <1>3, <2>1, <4>1, <4>4 DEF Gone, PassDrifts
    <3>4. Accounted(a)
      BY <1>4, <3>3 DEF MergeInv, CursorShows
    <3>5. Under(a, e)
      BY <1>8, <1>11, <2>3, <3>2, <3>4 DEF Accounted
    <3>6. cursor = 0 /\ Kept(a, f, e)
      BY <1>7, <3>5 DEF Under
    <3>7. PICK c \in staged : feed[c].anime = a /\ e <= c
      BY <1>8, <3>2, <3>6 DEF Reached
    <3>8. changes = staged
      BY <2>3, <3>6, <3>7 DEF PassFromStart
    <3>9. \A k \in OfIn(a, changes) : local[a].guard + 1 <= k => e <= k
      <4>1. \A o \in staged : feed[o].anime = a => e < o
        BY <3>5 DEF Under
      <4>2. \A k \in OfIn(a, changes) : e < k
        BY <3>8, <4>1 DEF OfIn
      <4> QED BY <1>8, <1>9, <4>2
    <3> QED BY <1>1, <3>6, <3>9, PassKeepsKept
  <2> QED BY <2>2, <2>3
<1> QED BY <1>10, <1>11

\* Without a deletion in the pass, every change of an anime it may write is staged still, or
\* behind its new guard.
LEMMA PassAccounts ==
  ASSUME MergeInv, paired, feed' = feed, RowsInPlace, NEW changes \in SUBSET FeedIds, staged \subseteq changes,
         staged' = KeptDeferred(changes), PassReaches(changes), PassFromStart(changes),
         NEW a \in Animes, a \notin UnackedAnimes,
         NEW x, ShownAs(a, x), PassOver(a, changes, Len(feed), x), x.guard \in Nat, DeletesIn(a, changes) = {},
         Accounted(a)
  PROVE  Accounted(a)'
<1>1. TypeOK /\ NothingAfterDelete
  BY DEF MergeInv
<1>2. FeedIds' = FeedIds /\ \A e : Touching(e, a)' <=> Touching(e, a)
  BY DEF FeedIds, Touching, Names
<1>3. local[a].guard \in Nat /\ local[a].guard <= x.guard /\ local'[a].guard = x.guard
  <2>1. local[a].guard \in Nat
    BY <1>1, Numbers
  <2> QED BY <2>1 DEF PassOver, ShownAs
<1>4. SUFFICES ASSUME NEW e \in FeedIds, Touching(e, a), Reached(a, e)', ~(e <= x.guard)
               PROVE  FALSE
  BY <1>2, <1>3 DEF Accounted
<1>5. e \in Nat /\ e # 0 /\ e <= Len(feed) /\ feed[e].anime = a /\ (feed[e].type # "update" \/ Names(e) # {})
  BY <1>1, <1>4, Numbers DEF FeedIds, Touching
<1>6. ~(e <= local[a].guard)
  BY <1>3, <1>4, <1>5
<1>7. e \notin changes
  <2>1. SUFFICES ASSUME e \in changes PROVE FALSE
    OBVIOUS
  <2>2. e \in OfIn(a, changes) /\ local[a].guard < e
    BY <1>3, <1>5, <1>6, <2>1 DEF OfIn
  <2> QED BY <1>4, <1>5, <2>2 DEF PassOver
<1>8. staged' \subseteq changes /\ \A c \in staged' : feed[c].anime # a
  BY <1>1, KeptIs
<1>9. e <= cursor'
  BY <1>4, <1>8 DEF Reached
<1>10. Reached(a, e)
  BY <1>5, <1>7, <1>9 DEF PassReaches
<1>11. Under(a, e)
  BY <1>4, <1>6, <1>7, <1>10 DEF Accounted
<1>12. cursor = 0
  BY <1>11 DEF Under
<1>13. PICK c \in staged : feed[c].anime = a /\ e <= c
  BY <1>5, <1>10, <1>12 DEF Reached
<1>14. cursor' = 0
  BY <1>7, <1>12, <1>13 DEF PassFromStart
<1> QED BY <1>5, <1>9, <1>14

\* A pass keeps both claims of an anime.
LEMMA PassClaims ==
  ASSUME MergeInv, paired, feed' = feed, RowsInPlace, NEW changes \in SUBSET FeedIds, staged \subseteq changes,
         staged' = KeptDeferred(changes), PassReaches(changes), PassFromStart(changes),
         NEW a \in Animes, PassRows(a), PassDrifts(a), PassDooms(a, changes),
         NEW x, ShownAs(a, x), PassFacts(a, changes, Len(feed), x)
  PROVE  /\ a \notin drift' => Doomed(a)' \/ GuardShown(a)'
         /\ a \notin drift' \/ Exists(a, Len(feed))' => Gone(a)' \/ Doomed(a)' \/ Accounted(a)'
<1>1. TypeOK /\ NothingAfterDelete
  BY DEF MergeInv
<1>2. FeedIds' = FeedIds /\ (Exists(a, Len(feed))' <=> Exists(a, Len(feed))) /\ Deletes(a)' = Deletes(a)
  BY SameBridge
<1>3. Len(feed) \in Nat /\ x.guard \in Nat
  BY <1>1, RemoteMergeAssumption, Numbers DEF PassFacts, Anime
<1>4. CASE DeletesIn(a, changes) # {}
  <2>1. PICK d \in DeletesIn(a, changes) : TRUE
    BY <1>4
  <2>2. d \in Deletes(a) /\ d <= Len(feed)
    BY <1>3, <2>1 DEF DeletesIn, Deletes, FeedIds
  <2>3. x = NoAnime
    BY <2>1, <2>2 DEF PassFacts
  <2>4. ~local'[a].here /\ local'[a].guard = 0
    BY <2>3 DEF ShownAs, NoAnime
  <2>5. Gone(a)'
    BY <1>2, <2>2, <2>4 DEF Gone
  <2>6. \A e \in FeedIds : ~(e <= 0)
    BY <1>3 DEF FeedIds
  <2>7. GuardShown(a)'
    BY <1>2, <2>4, <2>6 DEF GuardShown
  <2> QED BY <2>5, <2>7
<1>5. CASE DeletesIn(a, changes) = {}
  <2>0. \A d \in DeletesIn(a, changes) : ~(d <= Len(feed))
    BY <1>5
  <2>1. IF a \in UnackedAnimes THEN x = local[a] ELSE PassOver(a, changes, Len(feed), x)
    BY <2>0 DEF PassFacts
  <2>2. local[a].here => local'[a].here
    BY <2>1 DEF ShownAs, PassOver
  <2>3. a \in drift => a \in drift'
    <3>1. a \in drift => local[a].here
      BY DEF MergeInv, ComesFromFeed
    <3> QED BY <2>2, <3>1 DEF PassDrifts
  <2>4. Doomed(a) => Doomed(a)'
    BY <1>5 DEF PassDooms
  <2>5. ASSUME a \notin drift', ~Doomed(a) PROVE GuardShown(a)'
    <3>1. GuardShown(a)
      BY <2>3, <2>5 DEF MergeInv, GuardShows
    <3>2. CASE a \in UnackedAnimes
      <4>1. local'[a].here = local[a].here /\ local'[a].guard = local[a].guard
            /\ \A f \in Known : local'[a][f] = local[a][f]
        BY <2>1, <3>2 DEF ShownAs
      <4> QED BY <1>5, <3>1, <3>2, <4>1, PassDefers
    <3>3. CASE a \notin UnackedAnimes
      BY <1>1, <1>5, <2>1, <2>5, <3>3, PassShows
    <3> QED BY <3>2, <3>3
  <2>6. ASSUME a \notin drift' \/ Exists(a, Len(feed)), ~Doomed(a)
        PROVE  Gone(a)' \/ Accounted(a)'
    <3>1. Gone(a) \/ Accounted(a)
      BY <2>3, <2>6 DEF MergeInv, CursorShows
    <3>2. CASE Accounted(a) /\ a \in UnackedAnimes
      <4>1. local'[a].here = local[a].here /\ local'[a].guard = local[a].guard
            /\ \A f \in Known : local'[a][f] = local[a][f]
        BY <2>1, <3>2 DEF ShownAs
      <4> QED BY <1>5, <3>2, <4>1, PassDefers
    <3>3. CASE Accounted(a) /\ a \notin UnackedAnimes
      BY <1>3, <1>5, <2>1, <3>3, PassAccounts
    <3>4. CASE Gone(a)
      <4>1. PICK d \in Deletes(a) : TRUE
        BY <3>4 DEF Gone
      <4>2. d \in FeedIds /\ d <= Len(feed) /\ Len(feed) \in 0..Len(feed)
        BY <1>3, <4>1 DEF Deletes, DeletesIn, FeedIds
      <4>3. ~Exists(a, Len(feed))
        BY <1>1, <4>1, <4>2, DeletedIsGone
      <4>4. ~local'[a].here
        BY <2>6, <3>4, <4>3 DEF Gone, PassDrifts
      <4> QED BY <1>2, <3>4, <4>4 DEF Gone
    <3> QED BY <3>1, <3>2, <3>3, <3>4
  <2> QED BY <1>2, <2>4, <2>5, <2>6
<1> QED BY <1>4, <1>5

\* The rest a pass does to an anime: what the table has is in the changelog, a guard only moves
\* to a change of the anime in the pass, and what is inserted is in the pass too.
LEMMA PassComes ==
  ASSUME TypeOK, ComesFromFeed, NEW changes \in SUBSET FeedIds,
         NEW a \in Animes, NEW x, ShownAs(a, x), PassFacts(a, changes, Len(feed), x)
  PROVE  /\ local'[a].here => local[a].here \/ \E c \in changes : feed[c].anime = a
         /\ local'[a].here => \E c \in FeedIds : feed[c].anime = a
         /\ ~local'[a].here => local'[a].guard = 0
         /\ \/ local'[a].guard = 0 \/ local'[a].guard = local[a].guard
            \/ local'[a].guard \in changes /\ feed[local'[a].guard].anime = a
         /\ a \in UnackedAnimes => local'[a].guard <= local[a].guard
<1>0. x.guard \in Nat /\ Len(feed) \in Nat /\ local[a].guard \in Nat
  BY RemoteMergeAssumption, Numbers DEF PassFacts, Anime
<1>1. ~x.here => x.guard = 0
  BY DEF PassFacts
<1>2. x = NoAnime \/ (a \in UnackedAnimes /\ x = local[a]) \/ (a \notin UnackedAnimes /\ PassOver(a, changes, Len(feed), x))
  BY DEF PassFacts
<1>3. ASSUME x.here PROVE local[a].here \/ \E c \in changes : feed[c].anime = a
  <2>1. CASE x = NoAnime
    BY <1>3, <2>1 DEF NoAnime
  <2>2. CASE x = local[a]
    BY <1>3, <2>2
  <2>3. CASE PassOver(a, changes, Len(feed), x)
    <3>1. \/ x["seen"] = local[a]["seen"] /\ x.here = local[a].here
          \/ FromPass(a, "seen", changes, local[a].guard + 1, Len(feed), x)
      BY <2>3 DEF PassOver, Known
    <3> QED BY <1>3, <3>1 DEF FromPass, OfIn
  <2> QED BY <1>2, <2>1, <2>2, <2>3
<1>4. \/ x.guard = 0 \/ x.guard = local[a].guard
      \/ x.guard \in changes /\ feed[x.guard].anime = a
  BY <1>2 DEF PassOver, OfIn, NoAnime
<1>5. a \in UnackedAnimes => x.guard <= local[a].guard
  BY <1>0, <1>2 DEF NoAnime
<1>6. local'[a].here => \E c \in FeedIds : feed[c].anime = a
  <2>1. local[a].here => \E c \in FeedIds : feed[c].anime = a
    BY DEF ComesFromFeed
  <2> QED BY <1>3, <2>1 DEF ShownAs
<1> QED BY <1>1, <1>3, <1>4, <1>5, <1>6 DEF ShownAs

\* The rows of an answer: the edit the table shows is still the user's, or the change it became
\* is in the changelog, later than the guard.
LEMMA AnswerLeaves ==
  ASSUME MergeInv, NEW r \in Runtimes, cyc[r].pc = "answered", rows' = AfterAnswer(r), feed' = feed,
         NEW a \in Animes
  PROVE  PassRows(a)
<1>1. TypeOK /\ EchoesAwaited /\ cyc[r].send \subseteq RowIds
  BY DEF MergeInv, RequestsBehind
<1>2. /\ RowsInPlace
      /\ \A i \in RowIds :
              \/ /\ i \in HeldBy(r) /\ rows[i].status = "processing"
                 /\ rows'[i].by = "none"
                 /\ \/ i \in cyc[r].applied /\ rows'[i].status = "synced"
                    \/ i \notin cyc[r].applied /\ rows'[i].status \in {"given_up", "pending"}
              \/ /\ i \notin HeldBy(r) /\ rows'[i] = rows[i]
              \/ /\ rows[i].status = "given_up" /\ rows'[i].status = "deleted"
                 /\ \E j \in HeldBy(r) : j > i /\ rows[j].anime = rows[i].anime
  BY <1>1, AnswerRows
<1>3. \A j \in HeldBy(r) : j \in RowIds /\ rows[j].status = "processing" /\ rows[j].anime \in UnackedAnimes
  BY <1>1 DEF HeldBy, UnackedAnimes, Unacked
<1>4. FeedKept /\ Len(rows) \in Nat
  BY <1>1, SameFeed, Numbers
<1>5. ASSUME a \notin UnackedAnimes, NEW i \in RowIds, rows[i].anime = a PROVE rows'[i] = rows[i]
  <2>1. i \notin HeldBy(r)
    BY <1>3, <1>5
  <2>2. ~\E j \in HeldBy(r) : j > i /\ rows[j].anime = rows[i].anime
    BY <1>3, <1>5
  <2> QED BY <1>2, <2>1, <2>2
<1>6. ASSUME local'[a].here = local[a].here, \A f \in Known : local'[a][f] = local[a][f],
             NEW f \in Known, NEW e \in FeedIds, e <= local[a].guard, Kept(a, f, e)
      PROVE  Kept(a, f, e)'
  <2>0. local'[a][f] = local[a][f]
    BY <1>6
  <2>1. CASE Covered(a, f, e)
    BY <1>4, <1>6, <2>0, <2>1, CoveredStays DEF Kept
  <2>2. CASE f = "seen" /\ Own(a)
    <3>1. PICK j \in RowIds : /\ rows[j].anime = a /\ rows[j].status \in Unsettled
                            /\ local[a].seen = EditValue(j)
                            /\ \A i \in RowIds : rows[i].anime = a => i <= j
      BY <2>2 DEF Own
    <3>2. ~\E i \in HeldBy(r) : i > j /\ rows[i].anime = rows[j].anime
      BY <1>3, <1>4, <3>1 DEF RowIds
    <3>3. CASE rows'[j].status \in Unsettled
      <4>1. local'[a].seen = EditValue(j)
        BY <2>0, <2>2, <3>1
      <4>2. j \in RowIds' /\ rows'[j].anime = a /\ \A i \in RowIds' : rows'[i].anime = a => i <= j
        BY <1>2, <3>1 DEF RowsInPlace
      <4>3. \E k \in RowIds' : /\ rows'[k].anime = a /\ rows'[k].status \in Unsettled
                            /\ local'[a].seen = EditValue(k)
                            /\ \A i \in RowIds' : rows'[i].anime = a => i <= k
        BY <3>3, <4>1, <4>2
      <4>4. Own(a)'
        BY <4>3 DEF Own, EditValue
      <4> QED BY <2>2, <4>4 DEF Kept
    <3>4. CASE rows'[j].status \notin Unsettled
      <4>1. j \in HeldBy(r) \cap cyc[r].applied
        <5>1. rows'[j] # rows[j]
          BY <3>1, <3>4
        <5>2. j \in HeldBy(r)
          BY <1>2, <3>1, <3>2, <5>1
        <5>3. "given_up" \in Unsettled /\ "pending" \in Unsettled
          BY DEF Unsettled, Unacked
        <5>4. rows[j].status # "given_up"
          BY <1>3, <5>2
        <5> QED BY <1>2, <3>1, <3>4, <5>2, <5>3, <5>4
      <4>2. PICK k \in FeedIds : /\ cyc[r].since < k /\ k <= cyc[r].upto
                         /\ feed[k].anime = rows[j].anime /\ feed[k].type = "update"
                         /\ "seen" \in feed[k].fields /\ feed[k].snap.seen = EditValue(j)
                         /\ local[rows[j].anime].guard < k
        BY <1>1, <4>1 DEF EchoesAwaited
      <4>3. e \in Nat /\ k \in Nat /\ local[a].guard \in Nat /\ e # 0
        BY <1>1, Numbers DEF FeedIds
      <4>4. local[a].here
        <5>1. local[a].guard # 0
          BY <1>6, <4>3
        <5> QED BY <5>1 DEF MergeInv, ComesFromFeed
      <4>5. feed'[k].anime = a /\ feed'[k].type # "delete" /\ feed'[k].snap[f] = local'[a][f] /\ local'[a].here
        BY <1>6, <2>0, <2>2, <3>1, <4>2, <4>4
      <4>6. e <= k /\ k \in FeedIds'
        BY <1>6, <3>1, <4>2, <4>3 DEF FeedIds
      <4>7. Covered(a, f, e)'
        BY <4>5, <4>6 DEF Covered, Shows
      <4> QED BY <4>7 DEF Kept
    <3> QED BY <3>3, <3>4
  <2> QED BY <1>6, <2>1, <2>2 DEF Kept
<1> QED BY <1>5, <1>6 DEF PassRows

\* After an answer nothing more is held by its runtime; the others hold what they held, and
\* what the user dropped stays dropped.
LEMMA AnswerHolds ==
  ASSUME TypeOK, RequestsBehind, NEW r \in Runtimes, cyc[r].pc = "answered", EndCycle(r)
  PROVE  /\ RowsInPlace /\ cyc'[r] = NoCycle /\ \A q \in Runtimes \ {r} : cyc'[q] = cyc[q]
         /\ \A q \in Runtimes : cyc'[q].pc # "idle" => q # r /\ cyc'[q] = cyc[q]
         /\ \A q \in Runtimes : \A i \in RowIds :
              cyc'[q].pc = "answered" /\ rows'[i].status = "processing" /\ rows'[i].by = q =>
                rows[i].status = "processing" /\ rows[i].by = q
         /\ \A i \in RowIds : rows[i].status = "deleted" => rows'[i].status = "deleted"
         /\ cursor' = Forward(r) /\ cursor' \in Nat
         /\ UNCHANGED <<feed, paired, heal, keep, pairing, unpaired>>
<1>1. /\ rows' = AfterAnswer(r) /\ cursor' = Forward(r) /\ cyc[r].send \subseteq RowIds
      /\ UNCHANGED <<feed, paired, heal, keep, pairing, unpaired>>
  BY DEF EndCycle, RequestsBehind
<1>2. /\ RowsInPlace
      /\ \A i \in RowIds :
              \/ /\ i \in HeldBy(r) /\ rows[i].status = "processing"
                 /\ rows'[i].by = "none"
                 /\ \/ i \in cyc[r].applied /\ rows'[i].status = "synced"
                    \/ i \notin cyc[r].applied /\ rows'[i].status \in {"given_up", "pending"}
              \/ /\ i \notin HeldBy(r) /\ rows'[i] = rows[i]
              \/ /\ rows[i].status = "given_up" /\ rows'[i].status = "deleted"
                 /\ \E j \in HeldBy(r) : j > i /\ rows[j].anime = rows[i].anime
  BY <1>1, AnswerRows
<1>3. cyc'[r] = NoCycle /\ \A q \in Runtimes \ {r} : cyc'[q] = cyc[q]
  BY EndTypes
<1>4. cursor' \in Nat
  <2>1. Forward(r) \in 0..Len(feed) /\ Len(feed) \in Nat
    BY PageIs, Numbers
  <2> QED BY <1>1, <2>1
<1>5. \A q \in Runtimes : cyc'[q].pc # "idle" => q # r /\ cyc'[q] = cyc[q]
  BY <1>3 DEF NoCycle
<1>6. "none" \notin Runtimes
  BY DEF Runtimes
<1>7. ASSUME NEW q \in Runtimes, NEW i \in RowIds, rows'[i].status = "processing", rows'[i].by = q
      PROVE  rows[i].status = "processing" /\ rows[i].by = q
  <2>1. rows'[i].by # "none"
    BY <1>6, <1>7
  <2> QED BY <1>2, <1>7, <2>1
<1>8. ASSUME NEW i \in RowIds, rows[i].status = "deleted" PROVE rows'[i].status = "deleted"
  BY <1>2, <1>8
<1> QED BY <1>1, <1>2, <1>3, <1>4, <1>5, <1>7, <1>8

\* A pass keeps what the table has of the changelog.
LEMMA PassKeepsComes ==
  ASSUME TypeOK, ComesFromFeed, feed' = feed, RowsInPlace, NEW changes \in SUBSET FeedIds,
         \A a \in Animes : PassDrifts(a), drift' \subseteq Animes,
         \A a \in Animes : \E x : ShownAs(a, x) /\ PassFacts(a, changes, Len(feed), x)
  PROVE  /\ ComesFromFeed'
         /\ \A a \in Animes :
              /\ local'[a].here => local[a].here \/ \E c \in changes : feed[c].anime = a
              /\ \/ local'[a].guard = 0 \/ local'[a].guard = local[a].guard
                 \/ local'[a].guard \in changes
              /\ a \in UnackedAnimes => local'[a].guard <= local[a].guard
<1>1. ASSUME NEW a \in Animes
      PROVE  /\ local'[a].here => local[a].here \/ \E c \in changes : feed[c].anime = a
             /\ local'[a].here => \E c \in FeedIds : feed[c].anime = a
             /\ ~local'[a].here => local'[a].guard = 0
             /\ \/ local'[a].guard = 0 \/ local'[a].guard = local[a].guard
                \/ local'[a].guard \in changes /\ feed[local'[a].guard].anime = a
             /\ a \in UnackedAnimes => local'[a].guard <= local[a].guard
  <2>1. PICK x : ShownAs(a, x) /\ PassFacts(a, changes, Len(feed), x)
    OBVIOUS
  <2> QED BY <2>1, PassComes
<1>2. FeedIds' = FeedIds
  BY DEF FeedIds
<1>3. \A a \in drift' : local'[a].here
  BY DEF PassDrifts
<1>4. \A i \in RowIds' : \E c \in FeedIds' : feed'[c].anime = rows'[i].anime
  BY <1>2 DEF ComesFromFeed, RowsInPlace
<1>5. \A a \in Animes : local'[a].guard # 0 => local'[a].guard \in FeedIds /\ feed[local'[a].guard].anime = a
  BY <1>1 DEF ComesFromFeed
<1>6. ComesFromFeed'
  BY <1>1, <1>2, <1>3, <1>4, <1>5 DEF ComesFromFeed
<1> QED BY <1>1, <1>6

\* A drain.
LEMMA DrainKeeps ==
  ASSUME MergeInv, Drain
  PROVE  MergeInv'
<1>1. TypeOK /\ NothingAfterDelete /\ ComesFromFeed /\ RequestsBehind /\ EchoesAwaited
      /\ \A a \in Animes : ~local[a].here => local[a].guard = 0
  BY DEF MergeInv, ComesFromFeed
<1>2. /\ TypeOK' /\ staged \subseteq FeedIds /\ staged' = KeptDeferred(staged)
      /\ drift' = DriftAfterMerge(local')
      /\ UNCHANGED <<feed, rows, cursor, paired, cyc, heal, keep, pairing, unpaired>>
      /\ \A a \in Animes : PassFacts(a, staged, Len(feed), local'[a])
  BY <1>1, DrainTypes
<1>3. RowsInPlace /\ FeedKept /\ NothingAfterDelete'
  BY <1>1, <1>2, SameQueue, SameFeed, SameBridge
<1>4. \A a \in Animes : ShownAs(a, local'[a])
  BY DEF ShownAs
<1>5. \A a \in Animes : PassDrifts(a)
  <2>1. SUFFICES ASSUME NEW a \in Animes PROVE PassDrifts(a)
    OBVIOUS
  <2>2. PICK table : table = local'
    OBVIOUS
  <2>3. a \in DriftAfterMerge(table) <=>
              /\ table[a].here
              /\ a \in drift \/ (a \in Animes /\ ~local[a].here /\ ~Exists(a, Len(feed)))
    BY DriftIs
  <2> QED BY <1>2, <2>2, <2>3 DEF PassDrifts
<1>6. drift' \subseteq Animes
  BY <1>2 DEF TypeOK
<1>7. \A a \in Animes : \E x : ShownAs(a, x) /\ PassFacts(a, staged, Len(feed), x)
  BY <1>2, <1>4
<1>8. /\ ComesFromFeed'
      /\ \A a \in Animes :
              /\ local'[a].here => local[a].here \/ \E c \in staged : feed[c].anime = a
              /\ \/ local'[a].guard = 0 \/ local'[a].guard = local[a].guard
                 \/ local'[a].guard \in staged
              /\ a \in UnackedAnimes => local'[a].guard <= local[a].guard
  BY <1>1, <1>2, <1>3, <1>5, <1>6, <1>7, PassKeepsComes
<1>9. /\ staged' \subseteq staged /\ \A c \in staged' : feed[c].anime \in UnackedAnimes
  BY <1>1, <1>2, KeptIs
<1>10. ASSUME paired, NEW a \in Animes
       PROVE  /\ a \notin drift' => Doomed(a)' \/ GuardShown(a)'
              /\ a \notin drift' \/ Exists(a, Len(feed))' => Gone(a)' \/ Doomed(a)' \/ Accounted(a)'
  <2>1. PassReaches(staged)
    BY <1>2 DEF PassReaches, Reached
  <2>2. PassFromStart(staged)
    BY <1>2 DEF PassFromStart
  <2>3. PassDooms(a, staged)
    <3>1. SUFFICES ASSUME Doomed(a), DeletesIn(a, staged) = {} PROVE Doomed(a)'
      BY DEF PassDooms
    <3>2. PICK d \in Deletes(a) :
             \/ d \in staged
             \/ cursor = 0 /\ \A r \in Runtimes : cyc[r].pc = "answered" => d <= cyc[r].upto
      BY <3>1 DEF Doomed
    <3>3. d \notin staged
      BY <3>1, <3>2 DEF Deletes, DeletesIn
    <3>4. d \in Deletes(a)'
      BY <1>2, <3>2 DEF Deletes, DeletesIn, FeedIds
    <3> QED BY <1>2, <3>2, <3>3, <3>4 DEF Doomed
  <2>4. PassRows(a)
    <3>1. \A i \in RowIds : rows[i].anime = a => rows'[i] = rows[i]
      BY <1>2
    <3> QED BY <1>1, <1>2, <1>3, <3>1, KeptSame DEF PassRows
  <2> QED BY <1>2, <1>3, <1>4, <1>5, <1>10, <2>1, <2>2, <2>3, <2>4, PassClaims
<1>11. GuardShows' /\ CursorShows'
  BY <1>2, <1>10 DEF GuardShows, CursorShows
<1>12. RequestsBehind'
  BY <1>1, <1>2 DEF RequestsBehind, RowIds
<1>13. UnpairedIsQuiet'
  <2>1. SUFFICES ASSUME ~paired PROVE UnpairedIsQuiet'
    BY <1>2 DEF UnpairedIsQuiet
  <2>2. \A i \in RowIds : rows[i].status = "deleted"
    BY <2>1 DEF MergeInv, UnpairedIsQuiet
  <2>3. UnackedAnimes = {}
    BY <2>2 DEF UnackedAnimes, Unacked
  <2>4. staged' = {}
    BY <1>9, <2>3
  <2> QED BY <1>2, <2>2, <2>4 DEF UnpairedIsQuiet, RowIds
<1>14. PairingIsAlone'
  <2>1. SUFFICES ASSUME pairing.pc = "fetched" PROVE PairingIsAlone'
    BY <1>2 DEF PairingIsAlone
  <2>2. /\ ~paired /\ pairing.upto <= Len(feed)
        /\ \A r \in Runtimes : cyc[r].pc = "idle"
        /\ heal.pc = "idle" /\ \A a \in Animes : keep[a].pc = "idle"
        /\ \A c \in staged : c <= pairing.upto
        /\ \A a \in Animes : local[a].guard <= pairing.upto
        /\ \A a \in Animes : local[a].here => \E c \in 1..pairing.upto : feed[c].anime = a
    BY <2>1 DEF MergeInv, PairingIsAlone
  <2>3. pairing.upto \in Nat /\ \A c \in staged : c \in 1..pairing.upto
    BY <1>1, <1>2, <2>2, Numbers DEF FeedIds
  <2>4. \A a \in Animes : local'[a].guard <= pairing.upto
    BY <1>8, <2>2, <2>3
  <2>5. \A a \in Animes : local'[a].here => \E c \in 1..pairing.upto : feed[c].anime = a
    BY <1>8, <2>2, <2>3
  <2> QED BY <1>2, <1>9, <2>2, <2>4, <2>5 DEF PairingIsAlone
<1>15. StagedIsBehind'
  <2>1. StagedIsBehind
    BY DEF MergeInv
  <2> QED BY <1>2, <1>9, <2>1 DEF StagedIsBehind
<1>16. EchoesAwaited'
  <2>1. \A q \in Runtimes : cyc'[q].pc = "answered" => cyc'[q] = cyc[q] /\ cyc[q].send \subseteq RowIds
    BY <1>1, <1>2 DEF RequestsBehind
  <2>2. ASSUME NEW q \in Runtimes, NEW i \in RowIds, cyc'[q].pc = "answered",
               rows'[i].status = "processing", rows'[i].by = q
        PROVE  /\ rows[i].status = "processing" /\ rows[i].by = q
               /\ rows[i].anime \in Animes => local'[rows[i].anime].guard <= local[rows[i].anime].guard
    <3>1. rows[i].status = "processing" /\ rows[i].by = q
      BY <1>2, <2>2
    <3>2. rows[i].anime \in UnackedAnimes
      BY <3>1 DEF UnackedAnimes, Unacked
    <3> QED BY <1>8, <3>1, <3>2
  <2> QED BY <1>1, <1>2, <1>3, <2>1, <2>2, EchoesStay
<1> QED BY <1>2, <1>3, <1>8, <1>11, <1>12, <1>13, <1>14, <1>15, <1>16 DEF MergeInv

\* While paired, a page goes on from where the cursor was: what comes before one of its changes
\* is in it or was passed, and so is all that the cursor passes with it.
LEMMA PageReaches ==
  ASSUME TypeOK, RequestsBehind, NEW r \in Runtimes, cyc[r].pc = "answered", paired, NEW e \in FeedIds
  PROVE  /\ \A c \in Page(r) : e <= c => e \in Page(r) \/ e <= cursor
         /\ e <= Forward(r) => e \in Page(r) \/ e <= cursor
         /\ cursor = 0 /\ e <= cyc[r].upto => e \in Page(r)
<1>1. /\ cyc[r].since \in Nat /\ cyc[r].upto \in Nat /\ e \in Nat /\ e # 0 /\ cursor \in Nat /\ Len(feed) \in Nat
      /\ Forward(r) = cursor \/ Forward(r) = cyc[r].upto
  BY PageIs, Numbers DEF FeedIds
<1>2. cyc[r].since <= cursor
  BY DEF RequestsBehind
<1>3. e \in Page(r) <=> cyc[r].since < e /\ e <= cyc[r].upto
  BY <1>1 DEF Page
<1>4. ASSUME NEW c \in Page(r), e <= c PROVE e <= cyc[r].upto
  BY <1>1, <1>4 DEF Page
<1> QED BY <1>1, <1>2, <1>3, <1>4

\* The parts of the invariant an answer keeps whatever it merged.
LEMMA EndKeepsRest ==
  ASSUME MergeInv, NEW r \in Runtimes, cyc[r].pc = "answered", EndCycle(r), TypeOK',
         staged' \subseteq staged \cup Page(r),
         ~paired => staged' = {} \/ (r = "native" /\ staged' = staged \cup Page(r)),
         \A a \in Animes : a \in UnackedAnimes => local'[a].guard <= local[a].guard
  PROVE  /\ RequestsBehind' /\ UnpairedIsQuiet' /\ PairingIsAlone' /\ StagedIsBehind' /\ EchoesAwaited'
         /\ NothingAfterDelete' /\ RowsInPlace /\ FeedKept
<1>1. TypeOK /\ NothingAfterDelete /\ RequestsBehind /\ EchoesAwaited
  BY DEF MergeInv
<1>2. /\ RowsInPlace /\ cyc'[r] = NoCycle /\ \A q \in Runtimes \ {r} : cyc'[q] = cyc[q]
      /\ \A q \in Runtimes : cyc'[q].pc # "idle" => q # r /\ cyc'[q] = cyc[q]
      /\ \A q \in Runtimes : \A i \in RowIds :
              cyc'[q].pc = "answered" /\ rows'[i].status = "processing" /\ rows'[i].by = q =>
                rows[i].status = "processing" /\ rows[i].by = q
      /\ \A i \in RowIds : rows[i].status = "deleted" => rows'[i].status = "deleted"
      /\ cursor' = Forward(r) /\ cursor' \in Nat
      /\ UNCHANGED <<feed, paired, heal, keep, pairing, unpaired>>
  BY <1>1, AnswerHolds
<1>3. NothingAfterDelete' /\ FeedKept /\ FeedIds' = FeedIds
  BY <1>1, <1>2, SameFeed, SameBridge
<1>4. /\ Page(r) \subseteq FeedIds /\ cursor <= Forward(r) /\ cursor \in Nat
      /\ cyc[r].since \in Nat /\ cyc[r].upto \in Nat /\ cyc[r].upto <= Len(feed)
      /\ paired => cyc[r].upto <= Forward(r)
  BY <1>1, PageIs
<1>5. \A q \in Runtimes : cyc[q].since \in Nat /\ cyc[q].upto \in Nat
  BY <1>1, Numbers
<1>6. RequestsBehind'
  <2>1. \A q \in Runtimes : cyc'[q].send \subseteq RowIds'
    <3>1. NoCycle.send = {}
      BY DEF NoCycle
    <3>2. RowIds' = RowIds
      BY <1>2 DEF RowsInPlace
    <3>3. \A q \in Runtimes : cyc[q].send \subseteq RowIds
      BY <1>1 DEF RequestsBehind
    <3> QED BY <1>2, <3>1, <3>2, <3>3
  <2>2. \A q \in Runtimes : cyc'[q].pc # "idle" => cyc'[q].since <= Len(feed) /\ (paired => cyc'[q].since <= cursor')
    <3>1. SUFFICES ASSUME NEW q \in Runtimes, cyc'[q].pc # "idle"
                   PROVE  cyc'[q].since <= Len(feed) /\ (paired => cyc'[q].since <= cursor')
      OBVIOUS
    <3>2. cyc'[q] = cyc[q]
      BY <1>2, <3>1
    <3>3. cyc[q].since <= Len(feed) /\ (paired => cyc[q].since <= cursor)
      BY <1>1, <3>1, <3>2 DEF RequestsBehind
    <3> QED BY <1>2, <1>4, <1>5, <3>2, <3>3
  <2>3. \A q \in Runtimes : cyc'[q].pc = "answered" => cyc'[q].since <= cyc'[q].upto /\ cyc'[q].upto <= Len(feed)
    BY <1>1, <1>2 DEF RequestsBehind
  <2>4. /\ heal.upto <= Len(feed)
        /\ \A a \in Animes : /\ keep[a].upto <= Len(feed)
                             /\ keep[a].pc = "fetched" => \E c \in 1..keep[a].upto : feed[c].anime = a
    BY <1>1 DEF RequestsBehind
  <2> QED BY <1>2, <2>1, <2>2, <2>3, <2>4 DEF RequestsBehind
<1>7. UnpairedIsQuiet'
  <2>1. SUFFICES ASSUME ~paired PROVE UnpairedIsQuiet'
    BY <1>2 DEF UnpairedIsQuiet
  <2>2. /\ \A i \in RowIds : rows[i].status = "deleted"
        /\ staged # {} => cyc["native"].pc = "idle"
    BY <2>1 DEF MergeInv, UnpairedIsQuiet
  <2>3. \A i \in RowIds' : rows'[i].status = "deleted"
    BY <1>2, <2>2 DEF RowsInPlace
  <2>4. CASE staged' = {}
    BY <1>2, <2>3, <2>4 DEF UnpairedIsQuiet
  <2>5. CASE r = "native" /\ staged' = staged \cup Page(r)
    <3>1. staged' = Page(r)
      BY <2>2, <2>5
    <3>2. cyc'["native"].pc = "idle"
      BY <1>2, <2>5 DEF NoCycle
    <3>3. ASSUME NEW c1 \in staged', NEW c2 \in staged', NEW e \in FeedIds, c1 <= e, e <= c2 PROVE e \in staged'
      <4>1. e \in Nat
        BY <1>1, Numbers DEF FeedIds
      <4> QED BY <1>4, <3>1, <3>3, <4>1 DEF Page
    <3> QED BY <1>2, <1>3, <2>3, <3>2, <3>3 DEF UnpairedIsQuiet
  <2> QED BY <2>1, <2>4, <2>5
<1>8. PairingIsAlone'
  <2>1. pairing.pc # "fetched"
    BY DEF MergeInv, PairingIsAlone
  <2> QED BY <1>2, <2>1 DEF PairingIsAlone
<1>9. StagedIsBehind'
  <2>1. SUFFICES ASSUME paired, NEW c \in staged' PROVE c <= cursor'
    BY <1>2 DEF StagedIsBehind
  <2>2. c \in Nat
    BY <1>1, <1>4, Numbers DEF FeedIds
  <2>3. CASE c \in Page(r)
    BY <1>2, <1>4, <2>1, <2>2, <2>3 DEF Page
  <2>4. CASE c \in staged
    <3>1. c <= cursor \/ c <= cyc[r].upto
      BY <2>1, <2>4 DEF MergeInv, StagedIsBehind
    <3> QED BY <1>2, <1>4, <2>1, <2>2, <3>1
  <2> QED BY <2>3, <2>4
<1>10. EchoesAwaited'
  <2>1. \A q \in Runtimes : cyc'[q].pc = "answered" => cyc'[q] = cyc[q] /\ cyc[q].send \subseteq RowIds
    <3>1. \A q \in Runtimes : cyc'[q].pc = "answered" => cyc'[q] = cyc[q]
      BY <1>2
    <3> QED BY <1>1, <3>1 DEF RequestsBehind
  <2>2. ASSUME NEW q \in Runtimes, NEW i \in RowIds, cyc'[q].pc = "answered",
               rows'[i].status = "processing", rows'[i].by = q
        PROVE  /\ rows[i].status = "processing" /\ rows[i].by = q
               /\ rows[i].anime \in Animes => local'[rows[i].anime].guard <= local[rows[i].anime].guard
    <3>1. rows[i].status = "processing" /\ rows[i].by = q
      BY <1>2, <2>2
    <3>2. rows[i].anime \in UnackedAnimes
      BY <3>1 DEF UnackedAnimes, Unacked
    <3> QED BY <3>1, <3>2
  <2> QED BY <1>1, <1>2, <1>3, <2>1, <2>2, EchoesStay
<1> QED BY <1>2, <1>3, <1>6, <1>7, <1>8, <1>9, <1>10

\* An answer to the JS cycle.
LEMMA ApplyKeeps ==
  ASSUME MergeInv, ApplyAnswer
  PROVE  MergeInv'
<1>1. TypeOK /\ NothingAfterDelete /\ ComesFromFeed /\ RequestsBehind /\ EchoesAwaited
      /\ \A a \in Animes : ~local[a].here => local[a].guard = 0
  BY DEF MergeInv, ComesFromFeed
<1>2. PICK changes : changes = staged \cup Page("js")
  OBVIOUS
<1>3. cyc["js"].pc = "answered" /\ EndCycle("js") /\ "js" \in Runtimes
  BY DEF ApplyAnswer, Runtimes
<1>4. /\ TypeOK' /\ changes \in SUBSET FeedIds /\ staged' = KeptDeferred(changes)
      /\ \E table \in Tables : /\ drift' = DriftAfterMerge(table)
                               /\ \A a \in Animes : /\ ShownAs(a, table[a])
                                                    /\ PassFacts(a, changes, Len(feed), table[a])
  BY <1>1, <1>2, ApplyTypes
<1>5. PICK table \in Tables : /\ drift' = DriftAfterMerge(table)
                              /\ \A a \in Animes : /\ ShownAs(a, table[a])
                                                   /\ PassFacts(a, changes, Len(feed), table[a])
  BY <1>4
<1>6. /\ RowsInPlace
      /\ \A i \in RowIds : rows[i].status = "deleted" => rows'[i].status = "deleted"
      /\ rows' = AfterAnswer("js") /\ cursor' = Forward("js")
      /\ \A q \in Runtimes : cyc'[q].pc # "idle" => q # "js" /\ cyc'[q] = cyc[q]
      /\ UNCHANGED <<feed, paired, heal, keep, pairing, unpaired>>
  <2>1. rows' = AfterAnswer("js")
    BY <1>3 DEF EndCycle
  <2> QED BY <1>1, <1>3, <2>1, AnswerHolds
<1>7. \A a \in Animes : PassDrifts(a)
  <2>1. SUFFICES ASSUME NEW a \in Animes PROVE PassDrifts(a)
    OBVIOUS
  <2>2. a \in DriftAfterMerge(table) <=>
              /\ table[a].here
              /\ a \in drift \/ (a \in Animes /\ ~local[a].here /\ ~Exists(a, Len(feed)))
    BY DriftIs
  <2>3. local'[a].here = table[a].here
    BY <1>5 DEF ShownAs
  <2> QED BY <1>5, <2>2, <2>3 DEF PassDrifts
<1>8. drift' \subseteq Animes
  BY <1>4 DEF TypeOK
<1>9. \A a \in Animes : \E x : ShownAs(a, x) /\ PassFacts(a, changes, Len(feed), x)
  BY <1>5
<1>10. /\ ComesFromFeed'
       /\ \A a \in Animes : a \in UnackedAnimes => local'[a].guard <= local[a].guard
  BY <1>1, <1>4, <1>6, <1>7, <1>8, <1>9, PassKeepsComes
<1>11. staged' \subseteq changes /\ \A c \in staged' : feed[c].anime \in UnackedAnimes
  BY <1>1, <1>4, KeptIs
<1>12. ~paired => staged' = {}
  <2>1. SUFFICES ASSUME ~paired PROVE staged' = {}
    OBVIOUS
  <2>2. \A i \in RowIds : rows[i].status = "deleted"
    BY <2>1 DEF MergeInv, UnpairedIsQuiet
  <2>3. UnackedAnimes = {}
    BY <2>2 DEF UnackedAnimes, Unacked
  <2> QED BY <1>11, <2>3
<1>13. /\ RequestsBehind' /\ UnpairedIsQuiet' /\ PairingIsAlone' /\ StagedIsBehind' /\ EchoesAwaited'
       /\ NothingAfterDelete'
  BY <1>2, <1>3, <1>4, <1>10, <1>11, <1>12, EndKeepsRest
<1>14. ASSUME paired, NEW a \in Animes
       PROVE  /\ a \notin drift' => Doomed(a)' \/ GuardShown(a)'
              /\ a \notin drift' \/ Exists(a, Len(feed))' => Gone(a)' \/ Doomed(a)' \/ Accounted(a)'
  <2>0. \A e \in FeedIds :
          /\ \A c \in Page("js") : e <= c => e \in Page("js") \/ e <= cursor
          /\ e <= Forward("js") => e \in Page("js") \/ e <= cursor
          /\ cursor = 0 /\ e <= cyc["js"].upto => e \in Page("js")
    BY <1>1, <1>3, <1>14, PageReaches
  <2>1. PassReaches(changes)
    <3>1. SUFFICES ASSUME NEW b \in Animes, NEW e \in FeedIds, feed[e].anime = b,
                          e <= cursor' \/ \E c \in changes : feed[c].anime = b /\ e <= c
                   PROVE  e \in changes \/ Reached(b, e)
      BY DEF PassReaches
    <3>2. CASE e <= cursor'
      BY <1>2, <1>6, <2>0, <3>2 DEF Reached
    <3>3. CASE \E c \in changes : feed[c].anime = b /\ e <= c
      BY <1>2, <2>0, <3>3 DEF Reached
    <3> QED BY <3>1, <3>2, <3>3
  <2>2. PassFromStart(changes)
    <3>1. SUFFICES ASSUME cursor = 0, NEW c \in staged, NEW e \in FeedIds, e <= c PROVE e \in changes
      BY DEF PassFromStart
    <3>2. c <= cyc["js"].upto
      <4>1. c \in Nat /\ c # 0
        BY <1>1, Numbers DEF FeedIds
      <4> QED BY <1>3, <1>14, <3>1, <4>1 DEF MergeInv, StagedIsBehind
    <3>3. e <= cyc["js"].upto
      <4>1. e \in Nat /\ c \in Nat /\ cyc["js"].upto \in Nat
        BY <1>1, <1>3, Numbers DEF FeedIds
      <4> QED BY <3>1, <3>2, <4>1
    <3> QED BY <1>2, <2>0, <3>1, <3>3
  <2>3. PassDooms(a, changes)
    <3>1. SUFFICES ASSUME Doomed(a) PROVE DeletesIn(a, changes) # {}
      BY DEF PassDooms
    <3>2. PICK d \in Deletes(a) :
             \/ d \in staged
             \/ cursor = 0 /\ \A r \in Runtimes : cyc[r].pc = "answered" => d <= cyc[r].upto
      BY <3>1 DEF Doomed
    <3>3. d \in FeedIds /\ feed[d].anime = a /\ feed[d].type = "delete"
      BY DEF Deletes, DeletesIn
    <3>4. d \in changes
      BY <1>2, <1>3, <2>0, <3>2, <3>3
    <3> QED BY <3>3, <3>4 DEF DeletesIn
  <2>4. PassRows(a)
    BY <1>3, <1>6, AnswerLeaves
  <2>5. ShownAs(a, table[a]) /\ PassFacts(a, changes, Len(feed), table[a])
    BY <1>5
  <2>6. staged \subseteq changes
    BY <1>2
  <2>7. PassDrifts(a)
    BY <1>7
  <2> HIDE DEF PassDooms, PassRows
  <2> QED BY <1>4, <1>6, <1>14, <2>1, <2>2, <2>3, <2>4, <2>5, <2>6, <2>7, PassClaims
<1>15. GuardShows' /\ CursorShows'
  BY <1>6, <1>14 DEF GuardShows, CursorShows
<1> QED BY <1>4, <1>10, <1>13, <1>15 DEF MergeInv

\* An answer to the native cycle.
LEMMA StageKeeps ==
  ASSUME MergeInv, StageAnswer
  PROVE  MergeInv'
<1>1. TypeOK /\ NothingAfterDelete /\ ComesFromFeed /\ RequestsBehind /\ EchoesAwaited
  BY DEF MergeInv
<1>2. cyc["native"].pc = "answered" /\ EndCycle("native") /\ "native" \in Runtimes /\ drift' = drift
  BY DEF StageAnswer, Runtimes
<1>3. /\ TypeOK' /\ staged' = staged \cup Page("native") /\ staged' \subseteq FeedIds
      /\ \A a \in Animes : TokenOnly(a)
  BY <1>1, StageTypes
<1>4. /\ RowsInPlace
      /\ rows' = AfterAnswer("native") /\ cursor' = Forward("native")
      /\ \A q \in Runtimes : cyc'[q].pc # "idle" => q # "native" /\ cyc'[q] = cyc[q]
      /\ UNCHANGED <<feed, paired, heal, keep, pairing, unpaired>>
  <2>1. rows' = AfterAnswer("native")
    BY <1>2 DEF EndCycle
  <2> QED BY <1>1, <1>2, <2>1, AnswerHolds
<1>5. \A a \in Animes : local'[a].guard = local[a].guard /\ local[a].guard \in Nat
  BY <1>1, <1>3, Numbers DEF TokenOnly
<1>6. \A a \in Animes : a \in UnackedAnimes => local'[a].guard <= local[a].guard
  BY <1>5
<1>7. /\ RequestsBehind' /\ UnpairedIsQuiet' /\ PairingIsAlone' /\ StagedIsBehind' /\ EchoesAwaited'
      /\ NothingAfterDelete' /\ FeedKept
  BY <1>2, <1>3, <1>6, EndKeepsRest
<1>8. FeedIds' = FeedIds /\ \A a : Deletes(a)' = Deletes(a) /\ (Exists(a, Len(feed))' <=> Exists(a, Len(feed)))
  BY <1>4, SameBridge
<1>9. ComesFromFeed'
  <2>1. drift \subseteq Animes
    BY <1>1 DEF TypeOK
  <2> QED BY <1>1, <1>2, <1>3, <1>4, <1>8, <2>1 DEF ComesFromFeed, TokenOnly, RowsInPlace
<1>10. ASSUME paired, NEW a \in Animes
       PROVE  /\ Doomed(a) => Doomed(a)'
              /\ GuardShown(a) => GuardShown(a)'
              /\ Gone(a) => Gone(a)'
              /\ Accounted(a) => Accounted(a)'
  <2>0. \A e \in FeedIds :
          /\ \A c \in Page("native") : e <= c => e \in Page("native") \/ e <= cursor
          /\ e <= Forward("native") => e \in Page("native") \/ e <= cursor
          /\ cursor = 0 /\ e <= cyc["native"].upto => e \in Page("native")
    BY <1>1, <1>2, <1>10, PageReaches
  <2>1. TokenOnly(a) /\ PassRows(a)
    BY <1>2, <1>3, <1>4, AnswerLeaves
  <2>2. ASSUME Doomed(a) PROVE Doomed(a)'
    <3>1. PICK d \in Deletes(a) :
             \/ d \in staged
             \/ cursor = 0 /\ \A r \in Runtimes : cyc[r].pc = "answered" => d <= cyc[r].upto
      BY <2>2 DEF Doomed
    <3>2. d \in FeedIds
      BY DEF Deletes, DeletesIn
    <3>3. d \in staged'
      BY <1>2, <1>3, <2>0, <3>1, <3>2
    <3> QED BY <1>8, <3>1, <3>3 DEF Doomed
  <2>3. ASSUME GuardShown(a) PROVE GuardShown(a)'
    <3>1. SUFFICES ASSUME NEW f \in Known, NEW e \in FeedIds, e <= local[a].guard, Touches(e, a, f)
                   PROVE  Kept(a, f, e)'
      BY <1>4, <1>5, <1>8 DEF GuardShown, Touches
    <3>2. Kept(a, f, e)
      BY <2>3, <3>1 DEF GuardShown
    <3> QED BY <2>1, <3>1, <3>2 DEF PassRows, TokenOnly
  <2>4. ASSUME Gone(a) PROVE Gone(a)'
    BY <1>8, <2>1, <2>4 DEF Gone, TokenOnly
  <2>5. ASSUME Accounted(a) PROVE Accounted(a)'
    <3>1. SUFFICES ASSUME NEW e \in FeedIds, Touching(e, a), Reached(a, e)', e \notin staged', ~(e <= local[a].guard)
                   PROVE  FALSE
      <4>1. \A e : Touching(e, a)' <=> Touching(e, a)
        BY <1>4 DEF Touching, Names
      <4> QED BY <1>5, <1>8, <4>1 DEF Accounted
    <3>2. e \notin staged /\ e \notin Page("native")
      BY <1>3, <3>1
    <3>3. Reached(a, e)
      <4>1. e <= cursor' \/ \E c \in staged' : feed[c].anime = a /\ e <= c
        BY <1>4, <3>1 DEF Reached
      <4>2. CASE e <= cursor'
        BY <1>4, <2>0, <3>2, <4>2 DEF Reached
      <4>3. CASE \E c \in staged' : feed[c].anime = a /\ e <= c
        BY <1>3, <2>0, <3>2, <4>3 DEF Reached
      <4> QED BY <4>1, <4>2, <4>3
    <3>4. Under(a, e)
      BY <2>5, <3>1, <3>2, <3>3 DEF Accounted
    <3>5. cursor = 0 /\ e \in Nat /\ e # 0
      BY <1>1, <3>4, Numbers DEF Under, FeedIds
    <3>6. PICK c \in staged : feed[c].anime = a /\ e <= c
      BY <3>3, <3>5 DEF Reached
    <3>7. c \in Nat /\ c # 0 /\ cyc["native"].upto \in Nat
      BY <1>1, <1>2, Numbers DEF FeedIds
    <3>8. c <= cyc["native"].upto
      BY <1>2, <1>10, <3>5, <3>6, <3>7 DEF MergeInv, StagedIsBehind
    <3>9. e <= cyc["native"].upto
      BY <3>5, <3>6, <3>7, <3>8
    <3> QED BY <2>0, <3>2, <3>5, <3>9
  <2> QED BY <2>2, <2>3, <2>4, <2>5
<1>11. GuardShows' /\ CursorShows'
  <2>1. paired => \A a \in Animes \ drift : Doomed(a) \/ GuardShown(a)
    BY DEF MergeInv, GuardShows
  <2>2. paired => \A a \in Animes : (a \notin drift \/ Exists(a, Len(feed))) =>
              Gone(a) \/ Doomed(a) \/ Accounted(a)
    BY DEF MergeInv, CursorShows
  <2>3. GuardShows'
    BY <1>2, <1>4, <1>10, <2>1 DEF GuardShows
  <2>4. CursorShows'
    BY <1>2, <1>4, <1>8, <1>10, <2>2 DEF CursorShows
  <2> QED BY <2>3, <2>4
<1> QED BY <1>3, <1>7, <1>9, <1>11 DEF MergeInv

\* The changelog of a bridge that holds some animes: one creation of each.
LEMMA StartFeed ==
  ASSUME NEW held \in SUBSET Animes, Cardinality(held) <= MaxFeed,
         feed = [n \in 1..Cardinality(held) |->
                 [anime |-> SetToSeq(held)[n], type |-> "create", fields |-> {},
                  snap |-> [f \in Known |-> n]]]
  PROVE  /\ feed \in Seq(Change) /\ Len(feed) <= MaxFeed /\ Len(feed) \in Nat
         /\ \A k \in FeedIds : feed[k].type = "create"
<1> DEFINE m == Cardinality(held)
           h == SetToSeq(held)
<1>1. IsFiniteSet(held)
  BY RemoteMergeAssumption, FS_Subset
<1>2. m \in Nat /\ ExistsBijection(1..m, held)
  BY <1>1, FS_CardinalityType
<1>3. h \in [1..m -> held]
  <2>1. PICK f \in [1..m -> held] : IsInjective(f)
    BY <1>2 DEF ExistsBijection, Bijection, Injection
  <2>2. h = CHOOSE g \in [1..m -> held] : IsInjective(g)
    BY DEF SetToSeq
  <2> HIDE DEF h, m
  <2> QED BY <2>1, <2>2
<1> HIDE DEF h, m
<1> DEFINE made(n) == [anime |-> h[n], type |-> "create", fields |-> {}, snap |-> [f \in Known |-> n]]
<1>4. feed = [n \in 1..m |-> made(n)]
  BY DEF h, m
<1>5. m <= MaxFeed
  BY DEF m
<1>6. ASSUME NEW n \in 1..m
      PROVE  made(n) \in Change /\ made(n).type = "create"
  <2>1. h[n] \in Animes
    BY <1>3
  <2>2. n \in Values
    BY <1>2, <1>5, RemoteMergeAssumption DEF Values
  <2>3. [f \in Known |-> n] \in Content
    BY <2>2 DEF Content
  <2>4. ASSUME NEW b \in Animes, NEW s \in Content
        PROVE  [anime |-> b, type |-> "create", fields |-> {}, snap |-> s] \in Change
    BY DEF Change
  <2>5. made(n) \in Change
    BY <2>1, <2>3, <2>4
  <2> QED BY <2>5
<1> HIDE DEF made
<1>7. feed \in [1..m -> Change] /\ \A k \in 1..m : feed[k].type = "create"
  BY <1>4, <1>6
<1>8. feed \in Seq(Change) /\ Len(feed) = m
  BY <1>2, <1>7, RowFn
<1>9. \A k \in FeedIds : feed[k].type = "create"
  BY <1>7, <1>8 DEF FeedIds
<1> QED BY <1>2, <1>5, <1>8, <1>9

\* A phone just paired satisfies the invariant.
LEMMA InitMerges == Init => MergeInv
<1> SUFFICES ASSUME Init PROVE MergeInv
  OBVIOUS
<1>1. /\ feed \in Seq(Change) /\ Len(feed) <= MaxFeed /\ Len(feed) \in Nat
      /\ \A k \in FeedIds : feed[k].type = "create"
  <2>1. PICK held \in {s \in SUBSET Animes : Cardinality(s) <= MaxFeed} :
       feed = [n \in 1..Cardinality(held) |->
                 [anime |-> SetToSeq(held)[n], type |-> "create", fields |-> {},
                  snap |-> [f \in Known |-> n]]]
    BY DEF Init
  <2> QED BY <2>1, StartFeed
<1>2. /\ local = [a \in Animes |->
           IF Exists(a, Len(feed))
           THEN Upserted(NoAnime, Snapshot(a, Len(feed)), 0, LastChange(a, Len(feed)))
           ELSE NoAnime]
      /\ rows = <<>> /\ staged = {} /\ cursor = 0 /\ paired = TRUE
      /\ cyc = [r \in Runtimes |-> NoCycle]
      /\ heal = NoFetch /\ keep = [a \in Animes |-> NoFetch] /\ pairing = NoFetch
      /\ unpaired = 0 /\ drift = {}
  BY DEF Init
<1>3. MaxFeed \in Nat /\ MaxRow \in Nat /\ MaxUnpair \in Nat
  BY RemoteMergeAssumption
<1>4. NoAnime \in Anime /\ NoAnime.guard = 0 /\ ~NoAnime.here
  BY <1>3 DEF NoAnime, Anime, Values
<1>5. ASSUME NEW a \in Animes
      PROVE  /\ local[a] \in Anime /\ local[a].guard = 0
             /\ local[a].here => \E c \in FeedIds : feed[c].anime = a
  <2>1. CASE Exists(a, Len(feed))
    <3>1. LastChange(a, Len(feed)) \in 1..Len(feed) /\ feed[LastChange(a, Len(feed))].anime = a
      BY <1>1, <2>1, LastChangeIs DEF Exists
    <3>2. feed[LastChange(a, Len(feed))] \in Change
      BY <1>1, <3>1
    <3>3. Snapshot(a, Len(feed)) \in Content /\ LastChange(a, Len(feed)) \in 0..MaxFeed /\ 0 \in 0..MaxFeed
      BY <1>1, <1>3, <3>1, <3>2 DEF Snapshot, Change
    <3>4. local[a] = Upserted(NoAnime, Snapshot(a, Len(feed)), 0, LastChange(a, Len(feed)))
      BY <1>2, <2>1
    <3>5. local[a] \in Anime /\ local[a].guard = 0
      BY <1>4, <3>3, <3>4, UpsertedIsAnime
    <3> QED BY <3>1, <3>5 DEF FeedIds
  <2>2. CASE ~Exists(a, Len(feed))
    <3>1. local[a] = NoAnime
      BY <1>2, <2>2
    <3> QED BY <1>4, <3>1
  <2> QED BY <2>1, <2>2
<1>6. NoCycle \in Cycle /\ NoCycle.pc = "idle" /\ NoCycle.send = {}
  BY <1>3 DEF NoCycle, Cycle
<1>7. NoFetch \in Fetch /\ NoFetch.pc = "idle" /\ NoFetch.upto = 0
  BY <1>3 DEF NoFetch, Fetch
<1>8. local \in [Animes -> Anime]
  <2>1. DOMAIN local = Animes /\ local = [a \in Animes |-> local[a]]
    BY <1>2
  <2> QED BY <1>5, <2>1
<1>9. rows \in Seq(Row) /\ Len(rows) = 0
  BY <1>2
<1>10. TypeOK
  <2>1. cyc \in [Runtimes -> Cycle]
    BY <1>2, <1>6
  <2>2. keep \in [Animes -> Fetch] /\ heal \in Fetch /\ pairing \in Fetch
    BY <1>2, <1>7
  <2>3. unpaired \in 0..MaxUnpair /\ drift \subseteq Animes /\ paired \in BOOLEAN
        /\ cursor \in 0..Len(feed) /\ staged \subseteq 1..Len(feed) /\ Len(rows) <= MaxRow
    BY <1>1, <1>2, <1>3, <1>9
  <2> QED BY <1>1, <1>8, <1>9, <2>1, <2>2, <2>3 DEF TypeOK
<1>11. NothingAfterDelete
  <2>1. \A k \in FeedIds : \A c \in 1..(k - 1) : feed[c].type # "delete"
    BY <1>1 DEF FeedIds
  <2> QED BY <2>1 DEF NothingAfterDelete
<1>12. RowIds = {}
  BY <1>9 DEF RowIds
<1>13. ComesFromFeed
  BY <1>2, <1>5, <1>12 DEF ComesFromFeed
<1>14. RequestsBehind
  BY <1>1, <1>2, <1>6, <1>7, <1>12 DEF RequestsBehind
<1>15. UnpairedIsQuiet /\ PairingIsAlone /\ StagedIsBehind
  BY <1>2, <1>7 DEF UnpairedIsQuiet, PairingIsAlone, StagedIsBehind
<1>16. EchoesAwaited
  BY <1>2, <1>6 DEF EchoesAwaited
<1>17. \A e \in FeedIds : e \in Nat /\ ~(e <= 0)
  BY <1>1 DEF FeedIds
<1>18. GuardShows
  BY <1>5, <1>17 DEF GuardShows, GuardShown
<1>19. CursorShows
  <2>1. \A a \in Animes : \A e \in FeedIds : ~Reached(a, e)
    BY <1>2, <1>17 DEF Reached
  <2> QED BY <2>1 DEF CursorShows, Accounted
<1> QED BY <1>10, <1>11, <1>13, <1>14, <1>15, <1>16, <1>18, <1>19 DEF MergeInv

\* A step that changes nothing keeps the invariant.
LEMMA StutterMerges == MergeInv /\ UNCHANGED vars => MergeInv'
<1> SUFFICES ASSUME MergeInv, UNCHANGED vars PROVE MergeInv'
  OBVIOUS
<1>1. UNCHANGED <<feed, local, rows, staged, cursor, paired, cyc, heal, keep, pairing, unpaired, drift>>
  BY DEF vars
<1>2. TypeOK' /\ NothingAfterDelete' /\ ComesFromFeed' /\ RequestsBehind'
  BY <1>1 DEF MergeInv, TypeOK, NothingAfterDelete, ComesFromFeed, RequestsBehind, FeedIds, RowIds
<1>3. UnpairedIsQuiet' /\ PairingIsAlone' /\ StagedIsBehind'
  BY <1>1 DEF MergeInv, UnpairedIsQuiet, PairingIsAlone, StagedIsBehind, FeedIds, RowIds
<1>4. EchoesAwaited'
  BY <1>1 DEF MergeInv, EchoesAwaited, FeedIds, HeldBy, EditValue
<1>5. \A a \in Animes : (Gone(a)' <=> Gone(a)) /\ (Doomed(a)' <=> Doomed(a))
  BY <1>1 DEF Gone, Doomed, Deletes, DeletesIn, FeedIds
<1>6. \A a, f, e : Kept(a, f, e)' <=> Kept(a, f, e)
  BY <1>1 DEF Kept, Own, Covered, Shows, FeedIds, RowIds, EditValue
<1>7. \A a \in Animes : (GuardShown(a)' <=> GuardShown(a)) /\ (Exists(a, Len(feed))' <=> Exists(a, Len(feed)))
  BY <1>1, <1>6, SameBridge DEF GuardShown, FeedIds, Touches
<1>8. \A a \in Animes : Accounted(a)' <=> Accounted(a)
  BY <1>1, <1>6 DEF Accounted, FeedIds, Reached, Under, Touches, Touching, Names
<1>9. GuardShows' /\ CursorShows'
  BY <1>1, <1>5, <1>7, <1>8 DEF MergeInv, GuardShows, CursorShows
<1> QED BY <1>2, <1>3, <1>4, <1>9 DEF MergeInv

\* Every step keeps the invariant.
LEMMA NextMerges == MergeInv /\ [Next]_vars => MergeInv'
<1> SUFFICES ASSUME MergeInv, [Next]_vars PROVE MergeInv'
  OBVIOUS
<1>1. ASSUME NEW a \in Animes, BridgeEdit(a) \/ BridgeCreates(a) \/ BridgeDeletes(a)
      PROVE  MergeInv'
  BY <1>1, OthersKeep
<1>2. ASSUME NEW a \in Animes, LocalEdit(a) PROVE MergeInv'
  BY <1>2, LocalEditKeeps
<1>3. ASSUME NEW a \in Animes, KeepLocal(a) PROVE MergeInv'
  BY <1>3, KeepLocalKeeps
<1>4. ASSUME NEW a \in Animes, KeepBridgeFetch(a) PROVE MergeInv'
  BY <1>4, FetchesKeep
<1>5. ASSUME NEW a \in Animes, KeepBridgeWrite(a) PROVE MergeInv'
  BY <1>5, KeepBridgeKeeps
<1>6. ASSUME NEW r \in Runtimes, Begin(r) PROVE MergeInv'
  BY <1>6, BeginKeeps
<1>7. ASSUME NEW r \in Runtimes, FetchBase(r) PROVE MergeInv'
  BY <1>7, FetchBaseKeeps
<1>8. ASSUME NEW r \in Runtimes, BridgeAnswers(r) PROVE MergeInv'
  BY <1>8, AnswersKeep
<1>9. ASSUME NEW r \in Runtimes, Fail(r) PROVE MergeInv'
  BY <1>9, FailKeeps
<1>10. CASE ApplyAnswer
  BY <1>10, ApplyKeeps
<1>11. CASE StageAnswer
  BY <1>11, StageKeeps
<1>12. CASE Drain
  BY <1>12, DrainKeeps
<1>13. CASE HealFetch \/ PairFetch
  BY <1>13, FetchesKeep
<1>14. CASE HealWrite
  BY <1>14, HealKeeps
<1>15. CASE Unpair
  BY <1>15, UnpairKeeps
<1>16. CASE PairWrite
  BY <1>16, PairKeeps
<1>17. CASE UNCHANGED vars
  BY <1>17, StutterMerges
<1> QED BY <1>1, <1>2, <1>3, <1>4, <1>5, <1>6, <1>7, <1>8, <1>9, <1>10, <1>11, <1>12, <1>13,
           <1>14, <1>15, <1>16, <1>17 DEF Next

\* The invariant that every step of the merges, the cycles, the heal, the resolutions and the
\* pairing keeps.
THEOREM MergeInvariant == Spec => []MergeInv
  BY InitMerges, NextMerges, PTL DEF Spec

\* The state is of its type: the cursor and what is staged stay inside the changelog, and a
\* guard or a token names a change of it.
THEOREM RemoteMergeTypes == Spec => []TypeOK
<1>1. MergeInv => TypeOK
  BY DEF MergeInv
<1> QED BY <1>1, MergeInvariant, PTL

\* A remote change skipped because the user's edit of the anime is unacknowledged is never lost
\* behind the cursor (ADR 009 R-16): what the cursor has passed is shown, staged, or under an
\* unsettled edit of the user, for any animes, changes, edits and interleaving.
THEOREM NothingIsLost == Spec => []NothingLostBehindCursor
  BY NothingLost, MergeInvariant, PTL

(***************************************************************************)
(* The user's unacknowledged edit.                                         *)
(***************************************************************************)
\* What one step does to the edit of a row.
UntouchedRow(i) ==
  LET a == rows[i].anime IN
  /\ rows[i].status \in Unacked /\ rows'[i].status \in Unacked
  /\ local[a].here /\ local'[a].here
  => local'[a].seen = local[a].seen \/ Len(rows') > Len(rows)
Untouched == \A i \in RowIds : UntouchedRow(i)

\* A pass leaves an anime with an unacknowledged edit as it is, or deletes it.
LEMMA PassLeavesEdit ==
  ASSUME NEW a \in Animes, a \in UnackedAnimes, NEW changes, NEW n, NEW x,
         PassFacts(a, changes, n, x), ShownAs(a, x), local'[a].here
  PROVE  local'[a].seen = local[a].seen
<1>1. x = NoAnime \/ x = local[a]
  BY DEF PassFacts
<1>2. x.here /\ local'[a]["seen"] = x["seen"]
  BY DEF ShownAs, Known
<1> QED BY <1>1, <1>2 DEF NoAnime

\* No step of the merges, of the cycles or of the heal touches it.
LEMMA StepLeavesEdits ==
  ASSUME MergeInv, [Next]_vars
  PROVE  Untouched
<1>0. TypeOK /\ NothingAfterDelete /\ ComesFromFeed /\ RequestsBehind /\ PairingIsAlone /\ UnpairedIsQuiet
      /\ \A a \in Animes : ~local[a].here => local[a].guard = 0
  BY DEF MergeInv, ComesFromFeed
<1>1. SUFFICES ASSUME NEW i \in RowIds, rows[i].status \in Unacked, rows'[i].status \in Unacked,
                      local'[rows[i].anime].here, ~(Len(rows') > Len(rows))
               PROVE  local'[rows[i].anime].seen = local[rows[i].anime].seen
  BY DEF Untouched, UntouchedRow
<1>2. PICK b \in Animes : b = rows[i].anime
  BY <1>0, Numbers
<1>3. b \in UnackedAnimes
  BY <1>1, <1>2 DEF UnackedAnimes
<1>4. "deleted" \notin Unacked /\ "given_up" \notin Unacked
  BY DEF Unacked
<1>5. TokenOnly(b) => local'[b].seen = local[b].seen
  BY DEF TokenOnly, Known
<1>6. SUFFICES local'[b].seen = local[b].seen
  BY <1>2
<1>7. ASSUME NEW a \in Animes, BridgeEdit(a) \/ BridgeCreates(a) \/ BridgeDeletes(a) \/ KeepBridgeFetch(a)
      PROVE  local'[b].seen = local[b].seen
  BY <1>7 DEF BridgeEdit, BridgeCreates, BridgeDeletes, KeepBridgeFetch
<1>8. ASSUME NEW a \in Animes, LocalEdit(a) PROVE FALSE
  <2>1. Len(rows') = Len(rows) + 1 /\ Len(rows) \in Nat
    BY <1>0, <1>8, LocalEditTypes, Numbers
  <2> QED BY <1>1, <2>1
<1>9. ASSUME NEW a \in Animes, KeepLocal(a) PROVE local'[b].seen = local[b].seen
  BY <1>0, <1>5, <1>9, KeepLocalTypes
<1>10. ASSUME NEW a \in Animes, KeepBridgeWrite(a) PROVE local'[b].seen = local[b].seen
  <2>1. keep[a].upto <= Len(feed)
    BY <1>0 DEF RequestsBehind
  <2>2. \/ Claimed(a) /\ UNCHANGED <<rows, local, drift>>
        \/ /\ ~Claimed(a) /\ RowsInPlace
           /\ \A j \in RowIds : \/ rows'[j] = rows[j] /\ (rows[j].anime # a \/ rows[j].status = "synced")
                                \/ rows[j].anime = a /\ rows'[j].status = "deleted"
           /\ \A c \in Animes \ {a} : local'[c] = local[c]
    BY <1>0, <1>10, <2>1, KeepBridgeTypes
  <2>3. rows[i].status # "synced"
    BY <1>1 DEF Unacked
  <2> QED BY <1>1, <1>2, <1>4, <2>2, <2>3
<1>11. ASSUME NEW r \in Runtimes, Begin(r) \/ BridgeAnswers(r) \/ Fail(r)
       PROVE  local'[b].seen = local[b].seen
  BY <1>11 DEF Begin, BridgeAnswers, Fail
<1>12. ASSUME NEW r \in Runtimes, FetchBase(r) PROVE local'[b].seen = local[b].seen
  <2>1. cyc[r].send \subseteq RowIds
    BY <1>0 DEF RequestsBehind
  <2> QED BY <1>0, <1>5, <1>12, <2>1, FetchBaseTypes
<1>13. CASE ApplyAnswer
  <2>1. PICK changes : changes = staged \cup Page("js")
    OBVIOUS
  <2>2. \E table \in Tables : /\ drift' = DriftAfterMerge(table)
                              /\ \A a \in Animes : /\ ShownAs(a, table[a])
                                                   /\ PassFacts(a, changes, Len(feed), table[a])
    BY <1>0, <1>13, <2>1, ApplyTypes
  <2>3. PICK table \in Tables : \A a \in Animes : /\ ShownAs(a, table[a])
                                                  /\ PassFacts(a, changes, Len(feed), table[a])
    BY <2>2
  <2> QED BY <1>1, <1>2, <1>3, <2>3, PassLeavesEdit
<1>14. CASE StageAnswer
  BY <1>0, <1>5, <1>14, StageTypes
<1>15. CASE Drain
  <2>1. PassFacts(b, staged, Len(feed), local'[b])
    BY <1>0, <1>15, DrainTypes
  <2>2. ShownAs(b, local'[b])
    BY DEF ShownAs
  <2> QED BY <1>1, <1>2, <1>3, <2>1, <2>2, PassLeavesEdit
<1>16. CASE HealFetch \/ PairFetch
  BY <1>16 DEF HealFetch, PairFetch
<1>17. CASE HealWrite
  <2>1. heal.upto <= Len(feed)
    BY <1>0 DEF RequestsBehind
  <2> QED BY <1>0, <1>3, <1>17, <2>1, HealWriteTypes
<1>18. CASE Unpair
  BY <1>0, <1>5, <1>18, UnpairTypes
<1>19. CASE PairWrite
  <2>1. ~paired
    BY <1>0, <1>19 DEF PairingIsAlone, PairWrite
  <2>2. rows[i].status = "deleted"
    BY <1>0, <2>1 DEF UnpairedIsQuiet
  <2> QED BY <1>1, <1>4, <2>2
<1>20. CASE UNCHANGED vars
  BY <1>20 DEF vars
<1> QED BY <1>7, <1>8, <1>9, <1>10, <1>11, <1>12, <1>13, <1>14, <1>15, <1>16, <1>17, <1>18, <1>19, <1>20 DEF Next

\* No merge, drain, heal or answer touches the user's unacknowledged edit: only a newer edit, a
\* deletion at the bridge or the user's own choice replaces what the user sees.
THEOREM UnackedEditIsUntouched == Spec => UnackedEditUntouched
<1>1. MergeInv /\ [Next]_vars => [Untouched]_vars
  BY StepLeavesEdits
<1>2. Spec => [][Untouched]_vars
  BY <1>1, MergeInvariant, PTL DEF Spec
<1>3. [][Untouched]_vars <=> UnackedEditUntouched
  BY DEF Untouched, UntouchedRow, UnackedEditUntouched
<1> QED BY <1>2, <1>3

=============================================================================

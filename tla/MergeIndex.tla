----------------------------- MODULE MergeIndex -----------------------------
(***************************************************************************)
(* The data side of a distributed search: how the words of a query are     *)
(* shared out among the merge servers (CommonSearch::DispatchData), what a *)
(* merge server finds (Searcher::Merge), how the answers are merged        *)
(* (CommonSearch::MergeThreadsResult) and ranked (Searcher::Rank).         *)
(*                                                                         *)
(* A query maps word ids to weights.  A result list holds entries          *)
(* [pic, sim, pow] in ascending order of pic.  std::list iterators are     *)
(* positions; Len + 1 is end().  Weights are integers.                     *)
(***************************************************************************)
EXTENDS Integers, Sequences, FiniteSets, SequencesExt

CONSTANTS
  Index,    \* Index[w]: the postings of word w as [pic, weight, near]; near:
            \*   some descriptor is within he_threshold_ of the query's
  EndPics   \* what reading pic_id_ at end() of result_similar_ may give

Pics == UNION {{Index[w][i].pic : i \in DOMAIN Index[w]} : w \in DOMAIN Index}

\* The indexer sorts the postings of a word by picture (scripts/indexer), and
\* a word that has none is not in the hint file.
ASSUME IndexAssumption ==
  \A w \in DOMAIN Index :
    /\ Index[w] # <<>>
    /\ \A i \in DOMAIN Index[w] : Index[w][i].weight \in Nat \ {0}
    /\ \A i, j \in DOMAIN Index[w] : i < j => Index[w][i].pic < Index[w][j].pic

\* Behind the list header lie query_pow_ and the mutex: its lock word is what
\* the code reads as a picture id, and no picture has such an id.
ASSUME EndAssumption == EndPics # {} /\ EndPics \subseteq Int \ Pics

Ascending(S) ==
  [i \in 1..Cardinality(S) |-> CHOOSE x \in S : Cardinality({y \in S : y < x}) = i - 1]
Sum(S, f(_)) == MapThenSumSet(f, S)

(* DispatchData *)

\* Mutant: the last word of a range is not taken for one of its words.
RangeHalfOpen(conf, c, w) ==
  Min({d \in c..Len(conf) : w \in conf[d].first..(conf[d].last - 1)} \cup {Len(conf) + 1})

\* The first range from c on that has word w, or end().
RangeOf(conf, c, w) ==
  Min({d \in c..Len(conf) : w \in conf[d].first..conf[d].last} \cup {Len(conf) + 1})

\* Mutant: a new server for every word.
DispatchEach(conf, words) == [i \in 1..Cardinality(words) |-> {Ascending(words)[i]}]

\* The iterator over the ranges only moves forward, and each range it stops at
\* gets the words it has there.  With no range for a word the iterator is at
\* end(): this and all later words are dropped.
DispatchData(conf, words) ==
  LET ws == Ascending(words)
      at[i \in 0..Len(ws)] == IF i = 0 THEN 1 ELSE RangeOf(conf, at[i - 1], ws[i])
      used == Ascending({at[i] : i \in DOMAIN ws} \ {Len(conf) + 1})
  IN [k \in DOMAIN used |-> {ws[i] : i \in {j \in DOMAIN ws : at[j] = used[k]}}]

(* Searcher *)

\* Mutant: stops behind the entry of the picture.
SeekPast(list, from, p) ==
  LET stop == {k \in from..Len(list) : list[k].pic > p}
  IN IF stop = {} THEN Len(list) + 1 ELSE Min(stop)

\* Where an iterator that starts at from stops: the first entry that is not
\* below pic p, or end().
Seek(list, from, p) ==
  LET stop == {k \in from..Len(list) : list[k].pic >= p}
  IN IF stop = {} THEN Len(list) + 1 ELSE Min(stop)

At(list, k, p) == k <= Len(list) /\ list[k].pic = p

AddTo(list, k, e) == [list EXCEPT ![k].sim = @ + e.sim, ![k].pow = @ + e.pow]

\* An entry joins the one of its picture or goes in before the iterator, which
\* ends up behind it either way.
Place(st, k, e) ==
  [list |-> IF At(st.list, k, e.pic) THEN AddTo(st.list, k, e)
                                     ELSE InsertAt(st.list, k, e),
   pos |-> k + 1]

\* One posting: without a near descriptor it counts for nothing.
MergeItem(st, item, q) ==
  LET k == Seek(st.list, st.pos, item.pic)
  IN IF item.near
     THEN Place(st, k, [pic |-> item.pic, sim |-> item.weight * q,
                        pow |-> item.weight * item.weight])
     ELSE [st EXCEPT !.pos = IF At(st.list, k, item.pic) THEN k + 1 ELSE k]

MergeBucketResult(list, w, q) ==
  IF w \notin DOMAIN Index
  THEN list
  ELSE FoldLeft(LAMBDA st, item : MergeItem(st, item, q),
                [list |-> list, pos |-> 1], Index[w]).list

\* What a merge server answers for some of the words of a query.
SearcherMerge(query, words) ==
  FoldLeft(LAMBDA list, w : MergeBucketResult(list, w, query[w]),
           <<>>, Ascending(words))

QueryPow(query, words) == Sum(words \cap DOMAIN Index, LAMBDA w : query[w] * query[w])

(* MergeThreadsResult *)

\* At end() the code compares with g, which it reads behind the list: below
\* the picture, it moves on, from end() to the first entry.
MergeAnswer(st, e, g) ==
  LET from == IF st.pos > Len(st.list) /\ g < e.pic THEN 1 ELSE st.pos
  IN Place(st, Seek(st.list, from, e.pic), e)

MergeThreadsResult(list, answer, g) ==
  IF list = <<>>
  THEN answer
  ELSE FoldLeft(LAMBDA st, e : MergeAnswer(st, e, g),
                [list |-> list, pos |-> 1], answer).list

(* Rank *)

\* sim / sqrt(pow * query_pow), as the fraction of its square; a picture is
\* kept when it is above 0.1.  The order of the reply is that of the values.
Rank(list, querypow) ==
  {[pic |-> e.pic, num |-> e.sim * e.sim, den |-> e.pow * querypow] :
     e \in {x \in ToSet(list) : /\ x.pow > 0 /\ querypow > 0
                                /\ 100 * x.sim * x.sim > x.pow * querypow}}

-----------------------------------------------------------------------------
(* What a search should find, without lists and iterators *)

NearPostings(words, p) ==
  {x \in (words \cap DOMAIN Index) \X (1..Cardinality(Pics)) :
     x[2] \in DOMAIN Index[x[1]] /\ Index[x[1]][x[2]].pic = p /\ Index[x[1]][x[2]].near}

Found(query, words) ==
  {[pic |-> p,
    sim |-> Sum(NearPostings(words, p), LAMBDA x : Index[x[1]][x[2]].weight * query[x[1]]),
    pow |-> Sum(NearPostings(words, p), LAMBDA x : Index[x[1]][x[2]].weight * Index[x[1]][x[2]].weight)]
   : p \in {p \in Pics : NearPostings(words, p) # {}}}

IsAscending(list) == \A i, j \in DOMAIN list : i < j => list[i].pic < list[j].pic

=============================================================================

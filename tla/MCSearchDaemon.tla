--------------------------- MODULE MCSearchDaemon ---------------------------
(***************************************************************************)
(* searchd with a vocabulary of six words, four pictures and three merge   *)
(* servers.                                                                *)
(***************************************************************************)
EXTENDS SearchDaemon

CONSTANTS e1, e2, r1, r2, t1, t2, t3, t4

One == <<e1>>
Two == <<e1, e2>>

Post(p, w, n) == [pic |-> p, weight |-> w, near |-> n]
MCIndex == (1 :> <<Post(11, 2, TRUE), Post(13, 1, TRUE)>>)
        @@ (2 :> <<Post(11, 1, FALSE), Post(12, 1, TRUE)>>)
        @@ (3 :> <<Post(11, 1, TRUE), Post(12, 3, TRUE), Post(14, 2, TRUE)>>)
        @@ (4 :> <<Post(14, 1, FALSE)>>)
        @@ (6 :> <<Post(11, 3, TRUE), Post(14, 1, TRUE)>>)

\* Word 5 belongs to two ranges, as the boundaries do in conf/searchd.conf.
MCRanges == <<[first |-> 0, last |-> 2], [first |-> 3, last |-> 5],
              [first |-> 5, last |-> 7]>>

\* r1 goes to all three servers, and has a word the index does not know (5)
\* and one that no range covers (9).  r2 may find nothing.
LongQuery == [w \in {1, 2, 3, 5, 6, 9} |-> IF w = 2 THEN 2 ELSE 1]
MCQuery == (r1 :> LongQuery) @@ (r2 :> (4 :> 1))

\* One server each.
ShortQuery == (r1 :> (1 :> 1 @@ 2 :> 2)) @@ (r2 :> (3 :> 1))

\* What the lock word of io_mutex_ reads as, and a value above every picture.
MCEndPics == {1, 99}
=============================================================================

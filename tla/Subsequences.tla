---------------------------- MODULE Subsequences ----------------------------
(***************************************************************************)
(* Parts of a list, in the order of the list.  What a filter keeps: the    *)
(* elements at some of its positions, without the recursion of SelectSeq;  *)
(* and the pages of a find, which payload answers with at most limit       *)
(* documents each.                                                         *)
(***************************************************************************)
EXTENDS Naturals, Sequences, FiniteSets, FiniteSetsExt

\* How many positions there are up to i, and the n-th of them.
Rank(I, i) == Cardinality({j \in I : j <= i})
Nth(I, n) == CHOOSE i \in I : Rank(I, i) = n

\* The elements of s at the positions I.
Picked(s, I) == [n \in 1 .. Cardinality(I) |-> s[Nth(I, n)]]

\* The elements of s that are in S.
Among(s, S) == Picked(s, {i \in DOMAIN s : s[i] \in S})

\* Page i of a find over a list, and how many pages there are.
Page(list, limit, i) == SubSeq(list, (i - 1) * limit + 1, Min({i * limit, Len(list)}))
PagesOf(list, limit) == (Len(list) + limit - 1) \div limit
=============================================================================

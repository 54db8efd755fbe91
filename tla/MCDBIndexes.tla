----------------------------- MODULE MCDBIndexes -----------------------------
EXTENDS DBIndexes, TLC

CONSTANTS s1, s2, d1, d2, d3, d4

\* Two documents that ask for the same key under two names, one alone, and one that
\* asks for what the latter has, of a collection that is not served.
Wanted == (d1 :> [name |-> "first", key |-> "title"]) @@ (d2 :> [name |-> "second", key |-> "title"])
             @@ (d3 :> [name |-> "third", key |-> "author"]) @@ (d4 :> [name |-> "third", key |-> "author"])
SlugIndex == <<[name |-> "slug_1", key |-> "slug"]>>
UpdatedAtIndex == [name |-> "updatedAt_-1", key |-> "updatedAt"]

\* Servers are alike.
Symmetry == Permutations(Servers)
=============================================================================

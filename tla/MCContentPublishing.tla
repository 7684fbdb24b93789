------------------------- MODULE MCContentPublishing -------------------------
(* Small instances of content publishing.                                  *)
EXTENDS ContentPublishing, TLC

CONSTANTS d1, r1, r2, s1, s2, t1, t2

\* Two posts may come to be on the first site; the second has one, made by hand,
\* with the number of the first site's first.
SitePosts == {<<s1, 1>>, <<s1, 2>>, <<s2, 1>>}
HandMade  == {<<s2, 1>>}
FirstSite == [d \in Drafts |-> s1]

Symmetry == Permutations(Threads) \cup Permutations(Requests)
=============================================================================

------------------------ MODULE MCRecommendationStore ------------------------
(***************************************************************************)
(* Instances of RecommendationStore for TLC.                               *)
(***************************************************************************)
EXTENDS RecommendationStore

CONSTANTS matilda, bfg, anonymous

\* Two books in either order, a book without an author twice, and alone.
SomeLists == {<<>>, <<matilda, bfg>>, <<bfg, matilda>>, <<anonymous, anonymous>>}
ShortList == {<<anonymous>>}
==============================================================================

--------------------------- MODULE MCFamilyRecords ---------------------------
(***************************************************************************)
(* Instances of FamilyRecords for TLC.                                     *)
(***************************************************************************)
EXTENDS FamilyRecords, TLC

CONSTANT dragons

Nothing == [f \in Fields |-> {}]
None    == [f \in {} |-> {}]
Changes(tool, adds, removes) ==
  [tool |-> tool, add |-> adds @@ Nothing, remove |-> removes @@ Nothing, replace |-> FALSE]

\* A genre moves from one list to the other; it is named in the other one only;
\* the requester has a concern.
Likes    == Changes("update_genre_preference", [preferred_genres |-> {dragons}],
                    [disliked_genres |-> {dragons}])
Dislikes == Changes("update_genre_preference", [disliked_genres |-> {dragons}], None)
Concern  == Changes("update_member_profile", [concerns |-> {dragons}], None)

SomeEdits == {Likes, Dislikes, Concern}

Symmetric == Permutations(Threads)
==============================================================================

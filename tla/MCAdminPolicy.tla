--------------------------- MODULE MCAdminPolicy ----------------------------
EXTENDS AdminPolicy

TextMarks == {"/", "*", "\n", "\\", " ", Quote}

(* Every text of at most four characters, and every directive with two     *)
(* before it and three after it.                                           *)
Texts ==
    BoundedSeq(Characters, 4)
    \cup {s \o <<Include, " ">> \o t : s \in BoundedSeq(TextMarks, 2), t \in BoundedSeq(Characters, 3)}

PolicySymmetry == Permutations(Developers) \cup Permutations(Admins)

(* A header in a comment and one in a spliced directive; a directive that  *)
(* has no blank behind the word.                                           *)
Submitted ==
    {<<"/", "/", Include, " ", "<b>", "\n", Include, "\\", "\n", " ", "<a>">>, <<Include, "<b>">>}
=============================================================================

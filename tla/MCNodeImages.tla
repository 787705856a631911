--------------------------- MODULE MCNodeImages ---------------------------
(* Two tags of one repository, and an image whose text another one ends with. *)
EXTENDS NodeImages

MCRepositoryOf(i) == IF i \in {"zac:1", "zac:2"} THEN "zac" ELSE i
MCEnds(i) == IF i = "zac:2" THEN {"zac:2", "my-zac:2"} ELSE {i}
=============================================================================

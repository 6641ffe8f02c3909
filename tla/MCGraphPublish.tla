--------------------------- MODULE MCGraphPublish ---------------------------
(* The instances of GraphPublish that TLC checks: a project "app" whose    *)
(* reference to X moves between its own files and another project, and     *)
(* whose documentation refers to a library it comes to depend on; and a    *)
(* project "lib" that refers back, and declares X and the module M.        *)
EXTENDS GraphPublish, TLC

Item(kind, name) == [kind |-> kind, name |-> name]

\* The files of "app" in the order of git.
README == 1 :> {Item("reference", "M")}
Pom == 2 :> {Item("dependency", "M")}
Imports == 3 :> {Item("mention", "X")}
Class == 4 :> {Item("declaration", "Y"), Item("reference", "X")}
Declares == 5 :> {Item("declaration", "X")}

MCTree ==
  [p \in {"app", "lib"} |->
    IF p = "app"
    THEN (1 :> (README @@ Class @@ Declares))
           @@ (2 :> (README @@ Pom @@ Imports @@ Class @@ Declares))
           @@ (3 :> (README @@ 3 :> {} @@ Class))
    ELSE 1 :> (1 :> {Item("declaration", "X"), Item("module", "M"), Item("reference", "Y")})]

Symmetry == Permutations(Builders)

MCTime == [c \in 1..3 |-> c]

MCCitation == [r \in {"note"} |-> [project |-> "app", file |-> 4, name |-> "Y", commit |-> 1]]
=============================================================================

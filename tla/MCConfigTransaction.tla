------------------------ MODULE MCConfigTransaction ------------------------
(* The instances of ConfigTransaction that TLC checks.                     *)
EXTENDS ConfigTransaction

(* Two batches on the same two files, listed in opposite orders: a setup   *)
(* writes them, the migration of a global install removes them.            *)
MCPlan == [p |-> <<1, 2>>, q |-> <<2, 1>>]
MCTarget == [p |-> "generated", q |-> "absent"]
MCName == [f \in Files |-> f]
MCFinal == [p |-> "promote", q |-> "plugin"]
MCVersions == <<"edit1">>

(* Two connects of one project.                                            *)
SamePlan == [p |-> <<1, 2>>, q |-> <<1, 2>>]
SameTarget == [p |-> "generated", q |-> "generated"]
NoFinal == [p |-> "none", q |-> "none"]
NoVersions == <<>>

(* Connects of two projects, which keep their backups in one home.         *)
ApartPlan == [p |-> <<1>>, q |-> <<2>>]
OneName == [f \in Files |-> "settings"]
=============================================================================

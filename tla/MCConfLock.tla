----------------------------- MODULE MCConfLock -----------------------------
(* Instances of ConfLock for TLC.                                          *)
EXTENDS ConfLock, TLC

CONSTANTS p1, p2, p3

(* A manager that takes the cache down again, and an application that      *)
(* saves what it wrote.                                                    *)
ManagerAndApp == p1 :> { "init", "write_parameter", "add_table_row", "release" }
              @@ p2 :> { "init", "write_table_parameter", "delete_table_row", "flash", "uninit" }

(* Three applications that stay.                                           *)
ThreeApps == p1 :> { "init" } @@ p2 :> { "init", "flash" } @@ p3 :> { "init", "write_parameter" }
=============================================================================

---------------------------- MODULE MCConfTable -----------------------------
(* Instances of ConfTable for TLC.                                         *)
EXTENDS ConfTable, TLC

CONSTANTS factoryVal, userVal

(* Two applications with one row each, of one and of two columns; the      *)
(* second also has a plain parameter.                                      *)
PlainParas == <<0, 1>>
OneRowEach == <<1, 1>>
Columns == <<1, 2>>
FreshFile == << Line("app", 1), Line("app", 2), Line("para", factoryVal) >>

(* A call without a value, and one with fewer values than columns.         *)
RowArrays == { << >>, <<userVal>> }

OneAndAll == { <<2, 1, 2>>, <<1, 1, 0>> }
=============================================================================

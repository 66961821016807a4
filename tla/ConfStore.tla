----------------------------- MODULE ConfStore ------------------------------
(* What conflib promises its callers: a store of parameters and of table   *)
(* rows, the operations on it and what they return. How the rows and       *)
(* values are kept in a pool of nodes is not visible here; that the pool   *)
(* has a size is.                                                          *)
EXTENDS Integers, FiniteSets, Sequences, FiniteSetsExt

CONSTANTS
  Apps,      \* application ids, positive numbers
  AppParas,  \* number of plain parameters of each application
  RowMax,    \* number of rows its table may have
  RowParas,  \* number of parameters of a row; 0: no table
  Values,    \* parameter values
  Empty,     \* the empty string
  MaxTabNum, \* rows and
  MaxParaNum \* values the store has room for

VARIABLES
  store,  \* what is in the cache: parameters and rows by application
  ret     \* what the last call returned

UsedRows(s) == MapThenSumSet(LAMBDA a : Cardinality(DOMAIN s[a].rows), DOMAIN s)
UsedParas(s) ==
  MapThenSumSet(LAMBDA a : Len(s[a].paras)
                           + MapThenSumSet(LAMBDA r : Len(s[a].rows[r]), DOMAIN s[a].rows),
                DOMAIN s)

Min2(m, n) == IF m <= n THEN m ELSE n
FirstGap(rows) == Min({ i \in 1 .. Cardinality(DOMAIN rows) + 1 : i \notin DOMAIN rows })

(* The row an application asks for holds its values, and empty ones for    *)
(* those it left out, as far as there is room.                             *)
NewRow(a, vals, room) ==
  [ j \in 1 .. Min2(RowParas[a], room) |-> IF j <= Len(vals) THEN vals[j] ELSE Empty ]

CanAdd(s, a, r, vals) ==
  /\ a \in DOMAIN s /\ RowParas[a] > 0
  /\ r \in 0 .. RowMax[a] /\ r \notin DOMAIN s[a].rows
  /\ vals # << >>
  /\ UsedRows(s) < MaxTabNum

Added(s, a, r, vals) ==
  LET i == IF r > 0 THEN r ELSE FirstGap(s[a].rows)
      new == NewRow(a, vals, MaxParaNum - UsedParas(s))
  IN  [ s EXCEPT ![a].rows = [ k \in DOMAIN @ \cup { i } |-> IF k = i THEN new ELSE @[k] ] ]
-----------------------------------------------------------------------------
Answer(r) == ret' = r

Fail == Answer(-1) /\ UNCHANGED store

WriteParameter(a, p, v) ==
  \/ /\ a \in DOMAIN store /\ p \in DOMAIN store[a].paras
     /\ store' = [ store EXCEPT ![a].paras[p] = v ]
     /\ Answer(0)
  \/ ~(a \in DOMAIN store /\ p \in DOMAIN store[a].paras) /\ Fail

HasTableParameter(a, r, p) ==
  /\ a \in DOMAIN store
  /\ r \in DOMAIN store[a].rows
  /\ p \in DOMAIN store[a].rows[r]

WriteTableParameter(a, r, p, v) ==
  \/ /\ HasTableParameter(a, r, p)
     /\ store' = [ store EXCEPT ![a].rows[r][p] = v ]
     /\ Answer(0)
  \/ ~HasTableParameter(a, r, p) /\ Fail

(* A row that found no room for all its values stays, and the call fails.  *)
AddTableRow(a, r, vals) ==
  \/ /\ CanAdd(store, a, r, vals)
     /\ store' = Added(store, a, r, vals)
     /\ Answer(IF MaxParaNum - UsedParas(store) >= RowParas[a] THEN 0 ELSE -1)
  \/ ~CanAdd(store, a, r, vals) /\ Fail

DeleteTableRow(a, r) ==
  \/ /\ a \in DOMAIN store /\ r \in DOMAIN store[a].rows
     /\ store' = [ store EXCEPT ![a].rows = [ k \in DOMAIN @ \ { r } |-> @[k] ] ]
     /\ Answer(0)
  \/ ~(a \in DOMAIN store /\ r \in DOMAIN store[a].rows) /\ Fail

(* What is saved and read back is what there was.                          *)
SaveAndInit == Answer(0) /\ UNCHANGED store

Rows == 0 .. Max({ RowMax[a] : a \in Apps }) + 1
Paras == 0 .. Max({ RowParas[a] : a \in Apps } \cup { AppParas[a] : a \in Apps }) + 1

Next ==
  \/ \E a \in Apps, p \in Paras, v \in Values : WriteParameter(a, p, v)
  \/ \E a \in Apps, r \in Rows, p \in Paras, v \in Values : WriteTableParameter(a, r, p, v)
  \/ \E a \in Apps, r \in Rows : DeleteTableRow(a, r)
  \/ \E a \in Apps, r \in Rows : \E vals \in UNION { [ 1 .. n -> Values ] : n \in Paras } :
       AddTableRow(a, r, vals)
  \/ SaveAndInit

Init == ret = 0 /\ DOMAIN store \subseteq Apps

Spec == Init /\ [][Next]_<<store, ret>>
=============================================================================

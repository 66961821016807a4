----------------------------- MODULE ConfTable ------------------------------
(* The parameter table of conflib (conflib/configapi.c) as it lies in the  *)
(* shared memory: arrays of application, row and parameter nodes that      *)
(* refer to each other by offset. The calls that write hold the semaphore  *)
(* and are one step each; a reader takes no lock, and is one step for      *)
(* every node it looks at.                                                 *)
EXTENDS Integers, Sequences, FiniteSets, SequencesExt

CONSTANTS
  Apps,        \* entityInfoArray: application ids,
  AppParas,    \* app_maxnum - 1: plain parameters,
  RowMax,      \* row_maxnum,
  RowParas,    \* row_end - 1; 0 when row_paras is NULL
  Values,      \* parameter values
  Empty,       \* the empty string
  DefaultFile, \* the lines of default.conf
  RowValues,   \* the arrays of values handed to config_api_add_table_row
  Reads        \* what is read: application, row and parameter (0: the row)

VARIABLES
  cache,  \* the nodes in the shared memory
  ret,    \* what the last writing call returned
  rd,     \* the reader
  store   \* what the cache stands for; it is determined by it

vars == <<cache, ret, rd, store>>

NIL == 0     \* offset 0
FREE == -1   \* the id of an unused node

(* init_Param: one node for everything the entity table allows.            *)
TableApps == { a \in Apps : RowParas[a] > 0 }
MaxAppNum == Cardinality(Apps)
MaxTabNum == MapThenSumSet(LAMBDA a : RowMax[a], TableApps)
MaxParaNum == MapThenSumSet(LAMBDA a : AppParas[a], Apps)
              + MapThenSumSet(LAMBDA a : RowParas[a] * RowMax[a], TableApps)

(* GET_ROW_ID and GET_PARA_ID                                              *)
RowId(a, r) == a * 65536 + r * 256
ParaId(a, r, p) == a * 65536 + r * 256 + p

(* The nodes a loop over a list visits: up to the end or an unused node.   *)
RECURSIVE List(_, _)
List(first, nodes) ==
  IF first = NIL \/ nodes[first].id = FREE THEN << >>
  ELSE << first >> \o List(nodes[first].next, nodes)

(* find_free_node: the unused nodes in the order in which it hands them out *)
FreeNodes(nodes) ==
  LET free == { n \in DOMAIN nodes : nodes[n].id = FREE }
  IN  [ k \in 1 .. Cardinality(free) |->
          CHOOSE n \in free : Cardinality({ m \in free : m < n }) = k - 1 ]

(* The node of application a, if it has one.                               *)
AppNode(c, a) ==
  { n \in DOMAIN c.app : c.app[n].id = a /\ \A m \in 1 .. n - 1 : c.app[m].id \notin { a, FREE } }
-----------------------------------------------------------------------------
(* The file: a line names an application, opens a row or gives a value.    *)

Line(k, v) == [ kind |-> k, val |-> v ]

(* init_node                                                               *)
InitNode ==
  [ app |-> [ n \in 1 .. MaxAppNum |-> [ id |-> FREE, para |-> NIL, row |-> NIL ] ],
    row |-> [ n \in 1 .. MaxTabNum |-> [ id |-> FREE, next |-> NIL, para |-> NIL ] ],
    para |-> [ n \in 1 .. MaxParaNum |-> [ id |-> FREE, next |-> NIL, val |-> Empty ] ] ]

(* build_para_table: nodes are used in the order of the lines. The state   *)
(* holds the last node of each kind, those the next line is linked to, and *)
(* the numbers of the current row and of the next parameter.               *)
BuildLine(s, line) ==
  CASE ~s.ok -> s
    [] s.ok /\ line.kind = "app" ->
         [ s EXCEPT !.ok = line.val \in Apps, !.app = @ + 1, !.rowNum = 0, !.parameter = 1,
                    !.prePara = NIL, !.preRow = NIL, !.c.app[s.app + 1].id = line.val ]
    [] s.ok /\ line.kind = "row" ->
         LET linked == [ s EXCEPT !.ok = line.val > 0, !.row = @ + 1, !.preRow = s.row + 1,
                                  !.rowNum = line.val, !.parameter = 1, !.prePara = NIL,
                                  !.c.row[s.row + 1].id = RowId(s.c.app[s.app].id, line.val) ]
         IN  IF s.preRow # NIL
             THEN [ linked EXCEPT !.c.row[s.preRow].next = s.row + 1 ]
             ELSE [ linked EXCEPT !.c.app[s.app].row = s.row + 1 ]
    [] s.ok /\ line.kind = "para" ->
         LET new == [ id |-> ParaId(s.c.app[s.app].id, s.rowNum, s.parameter),
                      next |-> NIL, val |-> line.val ]
             linked == [ s EXCEPT !.para = @ + 1, !.prePara = s.para + 1, !.parameter = @ + 1,
                                  !.c.para[s.para + 1] = new ]
         IN  IF s.prePara # NIL THEN [ linked EXCEPT !.c.para[s.prePara].next = s.para + 1 ]
             ELSE IF s.preRow # NIL THEN [ linked EXCEPT !.c.row[s.preRow].para = s.para + 1 ]
             ELSE [ linked EXCEPT !.c.app[s.app].para = s.para + 1 ]

BuildParaTable(lines) ==
  FoldLeft(BuildLine,
           [ c |-> InitNode, ok |-> TRUE, app |-> 0, row |-> 0, para |-> 0, preRow |-> NIL,
             prePara |-> NIL, rowNum |-> 0, parameter |-> 1 ],
           lines)

(* config_api_write_to_flash: the lines it prints                          *)
ParaLines(c, first) ==
  LET l == List(first, c.para) IN [ i \in 1 .. Len(l) |-> Line("para", c.para[l[i]].val) ]

RowLines(c, n) == << Line("row", (c.row[n].id \div 256) % 256) >> \o ParaLines(c, c.row[n].para)

AppLines(c, n) ==
  << Line("app", c.app[n].id) >> \o ParaLines(c, c.app[n].para)
  \o FlattenSeq([ i \in 1 .. Len(List(c.app[n].row, c.row)) |->
                    RowLines(c, List(c.app[n].row, c.row)[i]) ])

FileOf(c) ==
  FlattenSeq([ n \in 1 .. Cardinality({ m \in DOMAIN c.app : c.app[m].id # FREE }) |->
                 AppLines(c, n) ])

ASSUME TableAssumption ==
  /\ IsFiniteSet(Apps) /\ Apps \subseteq 1 .. 255
  /\ AppParas \in [ Apps -> Nat ]
  /\ RowMax \in [ Apps -> 0 .. 254 ] /\ RowParas \in [ Apps -> 0 .. 255 ]
  /\ BuildParaTable(DefaultFile).ok
-----------------------------------------------------------------------------
(* The calls that write. Each gives the new cache and the value returned.  *)

Result(c, r) == [ c |-> c, ret |-> r ]

(* The parameter with that id in a list of nodes: the first that matches.  *)
FindPara(c, first, id) ==
  { n \in Range(List(first, c.para)) : c.para[n].id = id }

FindRow(c, a, r) ==
  UNION { { n \in Range(List(c.app[m].row, c.row)) : c.row[n].id = RowId(a, r) } :
            m \in AppNode(c, a) }

SetPara(c, nodes, v) ==
  IF nodes = {} THEN Result(c, -1)
  ELSE Result([ c EXCEPT !.para[CHOOSE n \in nodes : TRUE].val = v ], 0)

WriteParameter(c, a, p, v) ==
  SetPara(c, UNION { FindPara(c, c.app[n].para, ParaId(a, 0, p)) : n \in AppNode(c, a) }, v)

WriteTableParameter(c, a, r, p, v) ==
  SetPara(c, UNION { FindPara(c, c.row[n].para, ParaId(a, r, p)) : n \in FindRow(c, a, r) }, v)

(* Where a row goes: the number of rows it comes after and its number. A   *)
(* caller that does not care (r = 0) gets the first gap.                   *)
Position(c, rows, a, r) ==
  LET leading(P(_)) == Cardinality({ k \in DOMAIN rows : \A j \in 1 .. k : P(j) })
      before == leading(LAMBDA j : c.row[rows[j]].id < RowId(a, r))
      inOrder == leading(LAMBDA j : c.row[rows[j]].id = RowId(a, j))
  IN  IF r > 0 THEN [ after |-> before, index |-> r ]
      ELSE [ after |-> inOrder, index |-> inOrder + 1 ]

(* Node f becomes what follows node k of the row list of application node n *)
LinkRow(c, n, rows, k, f) ==
  IF k > 0 THEN [ c EXCEPT !.row[rows[k]].next = f ] ELSE [ c EXCEPT !.app[n].row = f ]

(* Mutant: the rows behind the new one are not linked to it.               *)
NewRowAtEnd(c, n, rows, pos, a, vals) ==
  LET f == FreeNodes(c.row)[1]
      at == SubSeq(FreeNodes(c.para), 1, Min({ RowParas[a], Len(FreeNodes(c.para)) }))
      m == Len(at)
      para == [ x \in DOMAIN c.para |->
                  IF x \notin Range(at) THEN c.para[x]
                  ELSE LET j == CHOOSE i \in 1 .. m : at[i] = x
                       IN  [ id |-> ParaId(a, pos.index, j),
                             next |-> IF j < m THEN at[j + 1] ELSE NIL,
                             val |-> IF j <= Len(vals) THEN vals[j] ELSE Empty ] ]
      row == [ id |-> RowId(a, pos.index), next |-> NIL, para |-> IF m > 0 THEN at[1] ELSE NIL ]
  IN  Result([ LinkRow(c, n, rows, pos.after, f) EXCEPT !.row[f] = row, !.para = para ],
             IF m = RowParas[a] THEN 0 ELSE -1)

(* add_row_tail, then add_para_tail for every parameter of the row: when   *)
(* the nodes run out the row stays with those it has.                      *)
NewRow(c, n, rows, pos, a, vals) ==
  LET f == FreeNodes(c.row)[1]
      last == IF pos.after < Len(rows) THEN rows[pos.after + 1] ELSE NIL
      free == FreeNodes(c.para)
      m == Min({ RowParas[a], Len(free) })
      at == [ j \in 1 .. m |-> free[j] ]
      para == [ x \in DOMAIN c.para |->
                  IF x \notin Range(at) THEN c.para[x]
                  ELSE LET j == CHOOSE i \in 1 .. m : at[i] = x
                       IN  [ id |-> ParaId(a, pos.index, j),
                             next |-> IF j < m THEN at[j + 1] ELSE NIL,
                             val |-> IF j <= Len(vals) THEN vals[j] ELSE Empty ] ]
      row == [ id |-> RowId(a, pos.index), next |-> last, para |-> IF m > 0 THEN at[1] ELSE NIL ]
  IN  Result([ LinkRow(c, n, rows, pos.after, f) EXCEPT !.row[f] = row, !.para = para ],
             IF m = RowParas[a] THEN 0 ELSE -1)

AddTableRow(c, a, r, vals) ==
  IF AppNode(c, a) = {} \/ RowParas[a] = 0 \/ r > RowMax[a] \/ r < 0 THEN Result(c, -1)
  ELSE LET n == CHOOSE m \in AppNode(c, a) : TRUE
           rows == List(c.app[n].row, c.row)
           pos == Position(c, rows, a, r)
           exists == /\ r > 0 /\ pos.after < Len(rows)
                     /\ c.row[rows[pos.after + 1]].id = RowId(a, r)
       IN  IF exists \/ vals = << >> \/ FreeNodes(c.row) = << >> THEN Result(c, -1)
           ELSE NewRow(c, n, rows, pos, a, vals)

(* Mutant: the parameters of the row keep their ids.                       *)
DeleteTableRowOnly(c, a, r) ==
  IF AppNode(c, a) = {} THEN Result(c, -1)
  ELSE LET n == CHOOSE m \in AppNode(c, a) : TRUE
           rows == List(c.app[n].row, c.row)
           k == Position(c, rows, a, r).after
       IN  IF r = 0 \/ k = Len(rows) \/ c.row[rows[k + 1]].id # RowId(a, r) THEN Result(c, -1)
           ELSE LET x == rows[k + 1]
                IN  Result([ LinkRow(c, n, rows, k, c.row[x].next) EXCEPT
                               !.row[x] = [ id |-> FREE, next |-> NIL, para |-> NIL ] ], 0)

(* The row and its parameters are given back; a parameter node keeps its   *)
(* next.                                                                   *)
DeleteTableRow(c, a, r) ==
  IF AppNode(c, a) = {} THEN Result(c, -1)
  ELSE LET n == CHOOSE m \in AppNode(c, a) : TRUE
           rows == List(c.app[n].row, c.row)
           k == Position(c, rows, a, r).after
       IN  IF r = 0 \/ k = Len(rows) \/ c.row[rows[k + 1]].id # RowId(a, r) THEN Result(c, -1)
           ELSE LET x == rows[k + 1]
                    freed == Range(List(c.row[x].para, c.para))
                    unlinked == LinkRow(c, n, rows, k, c.row[x].next)
                IN  Result([ unlinked EXCEPT
                               !.row[x] = [ id |-> FREE, next |-> NIL, para |-> NIL ],
                               !.para = [ y \in DOMAIN @ |->
                                            IF y \in freed
                                            THEN [ @[y] EXCEPT !.id = FREE, !.val = Empty ]
                                            ELSE @[y] ] ],
                           0)
-----------------------------------------------------------------------------
(* The store a cache stands for.                                           *)
ValuesOf(c, first) ==
  LET l == List(first, c.para) IN [ i \in 1 .. Len(l) |-> c.para[l[i]].val ]

StoreOf(c) ==
  [ a \in { x \in Apps : AppNode(c, x) # {} } |->
      LET n == CHOOSE m \in AppNode(c, a) : TRUE
          rows == Range(List(c.app[n].row, c.row))
      IN  [ paras |-> ValuesOf(c, c.app[n].para),
            rows |-> [ r \in { (c.row[x].id \div 256) % 256 : x \in rows } |->
                         ValuesOf(c, c.row[CHOOSE x \in rows : c.row[x].id = RowId(a, r)].para) ] ] ]

-----------------------------------------------------------------------------
(* The state machine                                                       *)

Rows == 0 .. Max({ RowMax[a] : a \in Apps }) + 1
Paras == 1 .. Max({ RowParas[a] : a \in Apps } \cup { AppParas[a] : a \in Apps })

NoRead == [ pc |-> "idle", a |-> 0, r |-> 0, p |-> 0, node |-> NIL, got |-> << >>, ok |-> FALSE ]

Init ==
  /\ cache = BuildParaTable(DefaultFile).c
  /\ ret = 0
  /\ rd = NoRead
  /\ store = StoreOf(cache)

Call(res) ==
  /\ cache' = res.c
  /\ ret' = res.ret
  /\ store' = StoreOf(res.c)
  /\ UNCHANGED rd

config_api_write_parameter ==
  \E a \in Apps, p \in Paras, v \in Values : Call(WriteParameter(cache, a, p, v))

config_api_write_table_parameter ==
  \E a \in Apps, r \in Rows, p \in Paras, v \in Values :
    Call(WriteTableParameter(cache, a, r, p, v))

config_api_add_table_row ==
  \E a \in Apps, r \in Rows, vals \in RowValues : Call(AddTableRow(cache, a, r, vals))

config_api_delete_table_row ==
  \E a \in Apps, r \in Rows : Call(DeleteTableRow(cache, a, r))

(* config_api_write_to_flash, and init_library of a process that comes     *)
(* before the next change. Whatever is changed in between is lost with it, *)
(* so later calls of init_library lead to no other table.                  *)
SaveAndInit ==
  LET built == BuildParaTable(FileOf(cache))
  IN  Call(Result(built.c, IF built.ok THEN 0 ELSE -1))

(* config_api_read_table_parameter, and config_api_read_table_row (p = 0): *)
(* the application's node never moves, the rows are walked.                *)
ReadStart ==
  /\ rd.pc \in { "idle", "done" }
  /\ \E t \in Reads : \E n \in AppNode(cache, t[1]) :
       rd' = [ NoRead EXCEPT !.pc = "row", !.a = t[1], !.r = t[2], !.p = t[3],
                             !.node = cache.app[n].row ]
  /\ UNCHANGED <<cache, ret, store>>

Ended(nodes) == rd.node # NIL => nodes[rd.node].id = FREE
Done(ok) == rd' = [ rd EXCEPT !.pc = "done", !.ok = ok, !.node = NIL ]

ReadRow ==
  /\ rd.pc = "row"
  /\ \/ Ended(cache.row) /\ Done(FALSE)
     \/ /\ ~Ended(cache.row)
        /\ rd' = IF cache.row[rd.node].id = RowId(rd.a, rd.r)
                 THEN [ rd EXCEPT !.pc = "para", !.node = cache.row[rd.node].para ]
                 ELSE [ rd EXCEPT !.node = cache.row[rd.node].next ]
  /\ UNCHANGED <<cache, ret, store>>

ReadPara ==
  /\ rd.pc = "para"
  /\ LET n == cache.para[rd.node]
         found == n.id = ParaId(rd.a, rd.r, rd.p)
     IN  \/ Ended(cache.para) /\ Done(rd.p = 0)
         \/ /\ ~Ended(cache.para) /\ rd.p > 0 /\ found
            /\ rd' = [ rd EXCEPT !.pc = "done", !.ok = TRUE, !.node = NIL, !.got = << n.val >> ]
         \/ /\ ~Ended(cache.para) /\ rd.p > 0 /\ ~found
            /\ rd' = [ rd EXCEPT !.node = n.next ]
         \/ /\ ~Ended(cache.para) /\ rd.p = 0
            /\ rd' = [ rd EXCEPT !.node = n.next, !.got = Append(@, n.val) ]
  /\ UNCHANGED <<cache, ret, store>>

Next ==
  \/ config_api_write_parameter
  \/ config_api_write_table_parameter
  \/ config_api_add_table_row
  \/ config_api_delete_table_row
  \/ SaveAndInit
  \/ ReadStart \/ ReadRow \/ ReadPara

Spec == Init /\ [][Next]_vars
-----------------------------------------------------------------------------
(* Properties                                                              *)

Store == INSTANCE ConfStore WITH store <- store, ret <- ret

(* The nodes implement the store: whatever rows were added and deleted     *)
(* before, no node is lost or used twice, every row is found under its     *)
(* number, a row without a number gets the first free one, each call       *)
(* returns whether it did what it was asked, and what was saved is read    *)
(* back.                                                                   *)
ImplementsStore == Store!Spec

(* A reader that takes no lock while others write: a parameter it returns  *)
(* is the one asked for, with the value it has at that moment.             *)
ReadIsCurrent ==
  [][ rd.pc = "para" /\ rd.p > 0 /\ rd'.pc = "done" /\ rd'.ok =>
        /\ rd.r \in DOMAIN store[rd.a].rows
        /\ rd.p \in DOMAIN store[rd.a].rows[rd.r]
        /\ rd'.got = << store[rd.a].rows[rd.r][rd.p] >> ]_vars
=============================================================================

---------------------------- MODULE SchemaProofs ----------------------------
(***************************************************************************)
(* Proofs about Schema: what the announcements of a table leave its devices*)
(* with, and what the checks of messages have seen.                        *)
(***************************************************************************)
EXTENDS Schema, Counting

-----------------------------------------------------------------------------
(* What a device makes of a log.  FoldLeft reads it by a function on the sets of *)
(* positions, which takes the greatest position of a set last.                   *)

Latest(s) == Max(s)

IsView(view, log, t, D) ==
  view = [s \in SUBSET D |->
            IF s = {} THEN NoTable ELSE Heed(view[s \ {Latest(s)}], log[Latest(s)], t)]

\* The view of a log is the value of that function at the set of all positions.
LEMMA ViewIs ==
  ASSUME NEW log, NEW t
  PROVE  View(log, t) = (CHOOSE view : IsView(view, log, t, DOMAIN log))[DOMAIN log]
BY Zenon DEF View, FoldLeft, MapThenFoldSet, IsView, Latest

\* The greatest of a nonempty set of positions.
LEMMA LatestOne ==
  ASSUME NEW n \in Nat, NEW s \in SUBSET (1..n), s # {}
  PROVE  Latest(s) \in s /\ \A y \in s : y <= Latest(s)
<1>1. s \in SUBSET (0..n)
  OBVIOUS
<1>2. PICK x \in s : \A y \in s : y <= x
  BY <1>1, GreatestElement
<1>3. \A x1 \in s : (\A y \in s : y <= x1) <=> (\A y \in s : x1 >= y)
  OBVIOUS
<1>4. \E x1 \in s : \A y \in s : x1 >= y
  BY <1>2, <1>3
<1>5. QED
  BY <1>3, <1>4, Zenon DEF Latest, Max

\* The function exists, for a log of any length.
LEMMA ViewExists ==
  ASSUME NEW n \in Nat, NEW log, NEW t
  PROVE  \E view : IsView(view, log, t, 1..n)
<1> DEFINE D == 1..n
           Step(view) == [s \in SUBSET D |->
             IF s = {} THEN NoTable ELSE Heed(view[s \ {Latest(s)}], log[Latest(s)], t)]
           Right(view, k) == \A s \in SUBSET D : Cardinality(s) <= k => view[s] = Step(view)[s]
           Bad == {k \in Nat : ~\E view : Right(Step(view), k)}
<1>1. \A s \in SUBSET D : /\ IsFiniteSet(s) /\ Cardinality(s) \in Nat
                          /\ Cardinality(s) <= Cardinality(D)
                          /\ Cardinality(s) = 0 => s = {}
  <2>1. IsFiniteSet(D)
    BY FS_Interval
  <2>2. QED
    BY <2>1, FS_Subset, FS_CardinalityType, FS_EmptySet
<1>2. \A s \in SUBSET D : s # {} => /\ s \ {Latest(s)} \in SUBSET D
                                    /\ Cardinality(s \ {Latest(s)}) = Cardinality(s) - 1
  BY <1>1, LatestOne, FS_RemoveElement
<1>3. ASSUME Bad # {}
      PROVE  FALSE
  <2>1. PICK k \in Bad : \A m \in Bad : k <= m
    BY <1>3, LeastElement
  <2>2. CASE k = 0
    <3> DEFINE none == [s \in SUBSET D |-> NoTable]
    <3>1. ASSUME NEW s \in SUBSET D, Cardinality(s) <= 0
          PROVE  Step(none)[s] = Step(Step(none))[s]
      <4>1. s = {}
        <5>1. Cardinality(s) \in Nat /\ Cardinality(s) <= 0 /\ (Cardinality(s) = 0 => s = {})
          BY <1>1, <3>1
        <5>2. QED
          BY <5>1
      <4>2. QED
        BY <4>1
    <3>2. Right(Step(none), 0)
      BY <3>1
    <3>3. QED
      BY <2>2, <3>2
  <2>3. CASE k # 0
    <3>1. k - 1 \in Nat /\ k - 1 \notin Bad
      <4> HIDE DEF Right
      <4>1. k \in Nat /\ k - 1 \in Nat /\ ~(k <= k - 1)
        BY <2>3
      <4> HIDE DEF Bad
      <4>2. QED
        BY <2>1, <4>1
    <3>2. PICK view : Right(Step(view), k - 1)
      BY <3>1
    <3>3. ASSUME NEW s \in SUBSET D, Cardinality(s) <= k
          PROVE  Step(Step(view))[s] = Step(Step(Step(view)))[s]
      <4>1. CASE s = {}
        BY <4>1
      <4>2. CASE s # {}
        <5>1. /\ s \ {Latest(s)} \in SUBSET D
              /\ Cardinality(s \ {Latest(s)}) <= k - 1
          <6>1. /\ s \ {Latest(s)} \in SUBSET D
                /\ Cardinality(s \ {Latest(s)}) = Cardinality(s) - 1
            BY <1>2, <4>2
          <6>2. Cardinality(s) \in Nat /\ Cardinality(s) <= k /\ k \in Nat
            BY <1>1, <3>3
          <6>3. QED
            BY <6>1, <6>2
        <5>2. Step(view)[s \ {Latest(s)}] = Step(Step(view))[s \ {Latest(s)}]
          BY <3>2, <5>1
        <5> HIDE DEF D, Right
        <5>3. QED
          BY <4>2, <5>2
      <4>3. QED
        BY <4>1, <4>2
    <3>4. Right(Step(Step(view)), k)
      BY <3>3
    <3>5. QED
      BY <3>4
  <2>4. QED
    BY <2>2, <2>3
<1>4. Cardinality(D) \in Nat /\ Cardinality(D) \notin Bad
  BY <1>1, <1>3
<1>5. PICK view : Right(Step(view), Cardinality(D))
  BY <1>4
<1>6. \A s \in SUBSET D : Step(view)[s] = Step(Step(view))[s]
  BY <1>1, <1>5
<1>7. Step(view) = Step(Step(view))
  BY <1>6, Zenon
<1>8. QED
  BY <1>7 DEF IsView

\* Two logs that begin alike look alike as far as they do.
LEMMA ViewsAgree ==
  ASSUME NEW m \in Nat, NEW n \in Nat, n <= m, NEW t,
         NEW log, NEW longer, \A i \in 1..n : longer[i] = log[i],
         NEW f, IsView(f, log, t, 1..n), NEW g, IsView(g, longer, t, 1..m)
  PROVE  f[1..n] = g[1..n]
<1> DEFINE D == 1..n
           Bad == {s \in SUBSET D : f[s] # g[s]}
           Sizes == {Cardinality(s) : s \in Bad}
<1>1. \A s \in SUBSET D : IsFiniteSet(s) /\ Cardinality(s) \in Nat
  <2>1. IsFiniteSet(D)
    BY FS_Interval
  <2>2. QED
    BY <2>1, FS_Subset, FS_CardinalityType
<1>2. ASSUME Bad # {}
      PROVE  FALSE
  <2>1. Sizes \in SUBSET Nat /\ Sizes # {}
    BY <1>1, <1>2
  <2>2. PICK s \in Bad : \A r \in Bad : Cardinality(s) <= Cardinality(r)
    <3>1. PICK k \in Sizes : \A l \in Sizes : k <= l
      BY <2>1, LeastElement
    <3>2. PICK s \in Bad : k = Cardinality(s)
      BY <3>1
    <3>3. \A r \in Bad : Cardinality(r) \in Sizes
      OBVIOUS
    <3>4. QED
      BY <3>1, <3>2, <3>3
  <2>3. s \in SUBSET (1..n) /\ s \in SUBSET (1..m)
    OBVIOUS
  <2>4. /\ f[s] = IF s = {} THEN NoTable ELSE Heed(f[s \ {Latest(s)}], log[Latest(s)], t)
        /\ g[s] = IF s = {} THEN NoTable ELSE Heed(g[s \ {Latest(s)}], longer[Latest(s)], t)
    BY <2>3, Zenon DEF IsView
  <2>5. s # {}
    BY <2>4
  <2>6. Latest(s) \in s
    BY <2>3, <2>5, LatestOne
  <2>7. s \ {Latest(s)} \in SUBSET D /\ Cardinality(s \ {Latest(s)}) = Cardinality(s) - 1
    BY <1>1, <2>6, FS_RemoveElement
  <2>8. s \ {Latest(s)} \notin Bad
    <3>1. Cardinality(s) \in Nat
      BY <1>1
    <3>2. ~(Cardinality(s) <= Cardinality(s \ {Latest(s)}))
      BY <2>7, <3>1
    <3>3. QED
      BY <2>2, <3>2
  <2>9. f[s \ {Latest(s)}] = g[s \ {Latest(s)}] /\ longer[Latest(s)] = log[Latest(s)]
    BY <2>3, <2>6, <2>7, <2>8
  <2>10. QED
    BY <2>4, <2>5, <2>9
<1>3. QED
  BY <1>2

\* A device that has heard of nothing has no table.
LEMMA EmptyView ==
  ASSUME NEW t
  PROVE  View(<<>>, t) = NoTable
<1>1. PICK view : view = CHOOSE v : IsView(v, <<>>, t, 1..0)
  OBVIOUS
<1>2. IsView(view, <<>>, t, 1..0)
  BY <1>1, ViewExists
<1>3. DOMAIN <<>> = 1..0 /\ 1..0 = {}
  OBVIOUS
<1>4. view[1..0] = NoTable
  BY <1>2, <1>3 DEF IsView
<1>5. QED
  BY <1>1, <1>3, <1>4, ViewIs

\* One more announcement is heeded last.
LEMMA ViewAppend ==
  ASSUME NEW S, NEW log \in Seq(S), NEW ask \in S, NEW t
  PROVE  View(Append(log, ask), t) = Heed(View(log, t), ask, t)
<1> DEFINE n == Len(log)
           longer == Append(log, ask)
<1>1. /\ n \in Nat /\ n + 1 \in Nat /\ n <= n + 1
      /\ DOMAIN log = 1..n /\ DOMAIN longer = 1..(n + 1)
      /\ longer[n + 1] = ask /\ \A i \in 1..n : longer[i] = log[i]
  OBVIOUS
<1>2. PICK f : f = CHOOSE v : IsView(v, log, t, 1..n)
  OBVIOUS
<1>3. PICK g : g = CHOOSE v : IsView(v, longer, t, 1..(n + 1))
  OBVIOUS
<1> HIDE DEF n, longer
<1>4. IsView(f, log, t, 1..n)
  BY <1>1, <1>2, ViewExists
<1>5. IsView(g, longer, t, 1..(n + 1))
  BY <1>1, <1>3, ViewExists
<1>6. f[1..n] = g[1..n]
  BY <1>1, <1>4, <1>5, ViewsAgree
<1>7. /\ 1..(n + 1) # {} /\ (1..(n + 1)) \ {n + 1} = 1..n
      /\ n + 1 \in 1..(n + 1) /\ 1..(n + 1) \in SUBSET (1..(n + 1))
  BY <1>1
<1>8. Latest(1..(n + 1)) = n + 1
  <2>1. Latest(1..(n + 1)) \in 1..(n + 1) /\ n + 1 <= Latest(1..(n + 1))
    BY <1>1, <1>7, LatestOne
  <2>2. QED
    BY <1>1, <2>1
<1>9. g[1..(n + 1)] = Heed(g[1..n], ask, t)
  <2>1. g[1..(n + 1)] = Heed(g[(1..(n + 1)) \ {Latest(1..(n + 1))}], longer[Latest(1..(n + 1))], t)
    BY <1>5, <1>7, Zenon DEF IsView
  <2>2. QED
    BY <1>1, <1>7, <1>8, <2>1
<1>10. View(log, t) = f[1..n] /\ View(longer, t) = g[1..(n + 1)]
  BY <1>1, <1>2, <1>3, ViewIs
<1>11. View(longer, t) = Heed(View(log, t), ask, t)
  BY <1>6, <1>9, <1>10
<1>12. QED
  BY <1>11 DEF longer

-----------------------------------------------------------------------------
(* The inductive invariant *)

TableRows == [declared : BOOLEAN, columns : [Columns -> Defs \cup {NoColumn}]]

LegalAsks == {ask \in Asks : ask.table \in Tables}

\* A call that is under way knows what it was asked.
CallRows == {[pc |-> "idle"], [pc |-> "done"]}
            \cup [pc : {"store", "insert", "seq", "append", "cast"}, ask : LegalAsks]

WriteRows == {[pc |-> "idle"], [pc |-> "dropped"]}
             \cup [pc : {"columns", "accepted", "dropped"}, op : {"upsert", "delete"},
                   table : Tables, payload : [Columns -> Values], met : SUBSET TableRows]

TypesInv ==
  /\ tables \in [Tables -> TableRows]
  /\ call \in [Calls -> CallRows]
  /\ \A h \in Calls : call[h].pc = "insert" => call[h].ask.op = "column_add"
  /\ stream \in Seq(LegalAsks) /\ live \in Seq(LegalAsks)
  /\ write \in [Writes -> WriteRows]

\* A check under way has met the table as it is now.
MetInv == \A w \in Writes : write[w].pc = "columns" => tables[write[w].table] \in write[w].met

\* Of a table that is not muddled at most one change is being announced, and what a
\* device is missing is that change.
PendingInv ==
  \A t \in Tables : t \notin muddled =>
    \A h \in Calls : Announcing(h, t) =>
      /\ \A g \in Calls : Announcing(g, t) => g = h
      /\ call[h].pc \in {"seq", "append"} => Apply(View(stream, t), call[h].ask) = tables[t]
      /\ call[h].pc = "cast" => View(stream, t) = tables[t]
      /\ Apply(View(live, t), call[h].ask) = tables[t]

Inv == TypesInv /\ NoOrphanColumns /\ MetInv /\ AcceptedFits /\ PendingInv /\ DevicesAgree

-----------------------------------------------------------------------------
(* Rows and requests *)

\* An absent and an empty table are rows; only the empty one is declared.
LEMMA NewRowTyped ==
  /\ NoTable \in TableRows /\ NewTable \in TableRows
  /\ NewTable.declared /\ ~NoTable.declared
BY DEF NoTable, NewTable, TableRows

\* What the operation of a request says of its fields.
LEMMA AskFields ==
  ASSUME NEW ask \in LegalAsks
  PROVE  /\ ask.table \in Tables /\ ask.op \in Ops
         /\ ask.op \in {"column_add", "column_delete"} => ask.column \in Columns
         /\ ask.op = "column_add" => ask.def \in Defs
<1>1. ask \in Asks /\ ask.table \in Tables
  BY DEF LegalAsks
<1>2. CASE ask \in [op : {"table_create", "table_delete"}, table : Tables \cup Reserved]
  BY <1>1, <1>2 DEF Ops
<1>3. CASE ask \in [op : {"column_delete"}, table : Tables, column : Columns]
  BY <1>1, <1>3 DEF Ops
<1>4. CASE ask \in [op : {"column_add"}, table : Tables, column : Columns, def : Defs]
  BY <1>1, <1>4 DEF Ops
<1>5. QED
  BY <1>1, <1>2, <1>3, <1>4 DEF Asks

\* A request leaves a row of the table.
LEMMA ColumnTyped ==
  ASSUME NEW row \in TableRows, NEW c \in Columns, NEW d \in Defs \cup {NoColumn}
  PROVE  [row EXCEPT !.columns[c] = d] \in TableRows
BY DEF TableRows

\* A call under way has a request.
LEMMA CallFields ==
  ASSUME TypesInv, NEW h \in Calls, call[h].pc \notin {"idle", "done"}
  PROVE  /\ call[h] \in [pc : {"store", "insert", "seq", "append", "cast"}, ask : LegalAsks]
         /\ call[h].ask \in LegalAsks /\ call[h].ask.table \in Tables
         /\ tables[call[h].ask.table] \in TableRows
<1>1. call[h] \in CallRows
  BY DEF TypesInv
<1>2. call[h] \in [pc : {"store", "insert", "seq", "append", "cast"}, ask : LegalAsks]
  BY <1>1 DEF CallRows
<1>3. call[h].ask \in LegalAsks /\ call[h].ask.table \in Tables
  BY <1>2, AskFields
<1>4. QED
  BY <1>2, <1>3 DEF TypesInv

\* So does a message under validation.
LEMMA WriteFields ==
  ASSUME TypesInv, NEW w \in Writes, write[w].pc \in {"columns", "accepted"}
  PROVE  write[w] \in [pc : {"columns", "accepted", "dropped"}, op : {"upsert", "delete"},
                       table : Tables, payload : [Columns -> Values], met : SUBSET TableRows]
<1>1. write[w] \in WriteRows
  BY DEF TypesInv
<1>2. QED
  BY <1>1 DEF WriteRows

-----------------------------------------------------------------------------
(* Steps that leave the tables alone *)

\* A device's view of a table does not depend on announcements of another.
LEMMA OtherView ==
  ASSUME NEW log \in Seq(LegalAsks), NEW ask \in LegalAsks, NEW t, ask.table # t
  PROVE  View(Append(log, ask), t) = View(log, t)
BY ViewAppend DEF Heed

\* An announcement of a table is applied to what the device has of it.
LEMMA OwnView ==
  ASSUME NEW log \in Seq(LegalAsks), NEW ask \in LegalAsks
  PROVE  View(Append(log, ask), ask.table) = Apply(View(log, ask.table), ask)
BY ViewAppend DEF Heed

\* Initially nothing is declared and nothing announced.
LEMMA InitInv ==
  ASSUME SchemaInit
  PROVE  Inv
<1>1. TypesInv
  BY NewRowTyped DEF SchemaInit, TypesInv, CallRows, WriteRows
<1>2. NoOrphanColumns /\ MetInv /\ AcceptedFits
  BY DEF SchemaInit, NoOrphanColumns, MetInv, AcceptedFits
<1>3. PendingInv
  BY DEF SchemaInit, PendingInv, Announcing
<1>4. DevicesAgree
  BY EmptyView DEF SchemaInit, DevicesAgree
<1>5. QED
  BY <1>1, <1>2, <1>3, <1>4 DEF Inv

\* A change is committed together with its own announcement, which is then the one
\* change the devices still lack, unless others were under way: then the table is muddled.
LEMMA CommitInv ==
  ASSUME Inv, NEW h \in Calls, NEW row \in TableRows,
         call[h].pc \in {"store", "insert"}, Commit(h, row),
         row.declared \/ row = NoTable,
         Apply(tables[call[h].ask.table], call[h].ask) = row
  PROVE  Inv'
<1> DEFINE ask == call[h].ask
           t0 == ask.table
<1>1. ask \in LegalAsks /\ t0 \in Tables
  BY CallFields DEF Inv
<1>2. call' = [call EXCEPT ![h].pc = "seq"]
  BY DEF Commit
<1>3. tables' = [tables EXCEPT ![t0] = row] /\ UNCHANGED <<stream, live>>
  BY DEF Commit
<1>4. /\ call'[h].pc = "seq" /\ call'[h].ask = ask
      /\ call'[h] \in CallRows
      /\ \A g \in Calls \ {h} : call'[g] = call[g]
      /\ call' \in [Calls -> CallRows]
  <2>1. PICK r \in [pc : {"store", "insert", "seq", "append", "cast"}, ask : LegalAsks] : r = call[h]
    BY CallFields DEF Inv
  <2>2. [r EXCEPT !.pc = "seq"] \in CallRows /\ [r EXCEPT !.pc = "seq"].ask = r.ask
        /\ [r EXCEPT !.pc = "seq"].pc = "seq"
    BY DEF CallRows
  <2>3. call \in [Calls -> CallRows]
    BY DEF Inv, TypesInv
  <2>4. call' = [call EXCEPT ![h] = [r EXCEPT !.pc = "seq"]]
    BY <1>2, <2>1, <2>3
  <2>5. QED
    BY <2>1, <2>2, <2>3, <2>4
<1>5. /\ tables' \in [Tables -> TableRows] /\ tables'[t0] = row
      /\ \A t \in Tables \ {t0} : tables'[t] = tables[t]
  BY <1>1, <1>3 DEF Inv, TypesInv
<1>6. /\ write' \in [Writes -> WriteRows]
      /\ \A w \in Writes : write[w].pc # "columns" => write'[w] = write[w]
      /\ \A w \in Writes : write[w].pc = "columns" =>
           /\ write'[w].pc = "columns" /\ write'[w].table = write[w].table
           /\ write[w].met \subseteq write'[w].met
           /\ write[w].table = t0 => row \in write'[w].met
  <2>1. \A w \in Writes : write'[w] =
          IF write[w].pc = "columns" /\ write[w].table = t0
          THEN [write[w] EXCEPT !.met = @ \cup {row}] ELSE write[w]
    BY DEF Commit
  <2>2. ASSUME NEW w \in Writes, write[w].pc = "columns"
        PROVE  /\ write'[w].pc = "columns" /\ write'[w].table = write[w].table
               /\ write[w].met \subseteq write'[w].met
               /\ write[w].table = t0 => row \in write'[w].met
               /\ write'[w] \in WriteRows
    <3>1. PICK r \in [pc : {"columns", "accepted", "dropped"}, op : {"upsert", "delete"},
                       table : Tables, payload : [Columns -> Values], met : SUBSET TableRows] :
             r = write[w]
      BY <2>2, WriteFields DEF Inv
    <3>2. r \in WriteRows /\ [r EXCEPT !.met = @ \cup {row}] \in WriteRows
      BY DEF WriteRows
    <3>3. QED
      BY <2>1, <2>2, <3>1, <3>2
  <2>3. write' = [w \in Writes |-> write'[w]]
    BY DEF Commit
  <2>4. \A w \in Writes : write[w].pc # "columns" => write'[w] = write[w] /\ write[w] \in WriteRows
    BY <2>1 DEF Inv, TypesInv
  <2>5. QED
    BY <2>2, <2>3, <2>4
<1>7. TypesInv'
  BY <1>3, <1>4, <1>5, <1>6 DEF TypesInv, Inv
<1>8. NoOrphanColumns'
  BY <1>5 DEF Inv, NoOrphanColumns
<1>9. MetInv'
  <2> SUFFICES ASSUME NEW w \in Writes, write'[w].pc = "columns"
               PROVE  tables'[write'[w].table] \in write'[w].met
    BY DEF MetInv
  <2>1. write[w].pc = "columns"
    BY <1>6
  <2>2. write[w].table \in Tables /\ tables[write[w].table] \in write[w].met
    BY <2>1, WriteFields DEF Inv, MetInv
  <2>3. QED
    BY <1>5, <1>6, <2>1, <2>2
<1>10. AcceptedFits'
  <2>1. \A w \in Writes : write'[w].pc = "accepted" => write'[w] = write[w]
    BY <1>6
  <2>2. QED
    BY <2>1 DEF AcceptedFits, Inv
<1>11. /\ muddled \subseteq muddled'
       /\ t0 \notin muddled' => \A g \in Calls \ {h} : ~Announcing(g, t0)
  BY DEF Commit
<1>12. ~\E t : Announcing(h, t)
  BY DEF Announcing
<1>13. /\ \A g \in Calls \ {h} : \A t : Announcing(g, t)' <=> Announcing(g, t)
       /\ \A t : Announcing(h, t)' <=> t = t0
  BY <1>4 DEF Announcing
<1>14. PendingInv'
  <2> SUFFICES ASSUME NEW t \in Tables, t \notin muddled', NEW g \in Calls, Announcing(g, t)'
               PROVE  /\ \A i \in Calls : Announcing(i, t)' => i = g
                      /\ call'[g].pc \in {"seq", "append"} => Apply(View(stream, t), call'[g].ask) = tables'[t]
                      /\ call'[g].pc = "cast" => View(stream, t) = tables'[t]
                      /\ Apply(View(live, t), call'[g].ask) = tables'[t]
    BY <1>3 DEF PendingInv
  <2>1. CASE t = t0
    <3>1. g = h /\ \A i \in Calls : Announcing(i, t)' => i = h
      BY <1>11, <1>13, <2>1
    <3>2. View(stream, t) = tables[t] /\ View(live, t) = tables[t]
      BY <1>1, <1>11, <1>12, <2>1 DEF Inv, DevicesAgree
    <3>3. Apply(tables[t], call'[g].ask) = tables'[t] /\ call'[g].pc = "seq"
      BY <1>4, <1>5, <2>1, <3>1
    <3>4. QED
      BY <3>1, <3>2, <3>3
  <2>2. CASE t # t0
    <3>1. g # h /\ Announcing(g, t) /\ call'[g] = call[g] /\ tables'[t] = tables[t]
      BY <1>4, <1>5, <1>13, <2>2
    <3>2. \A i \in Calls : Announcing(i, t)' => Announcing(i, t)
      BY <1>13, <2>2
    <3>3. QED
      BY <1>11, <3>1, <3>2 DEF Inv, PendingInv
  <2>3. QED
    BY <2>1, <2>2
<1>15. DevicesAgree'
  <2> SUFFICES ASSUME NEW t \in Tables, t \notin muddled', ~\E g \in Calls : Announcing(g, t)'
               PROVE  View(stream, t) = tables'[t] /\ View(live, t) = tables'[t]
    BY <1>3 DEF DevicesAgree
  <2>1. t # t0 /\ \A g \in Calls : ~Announcing(g, t)
    BY <1>12, <1>13
  <2>2. QED
    BY <1>5, <1>11, <2>1 DEF Inv, DevicesAgree
<1>16. QED
  BY <1>7, <1>8, <1>9, <1>10, <1>14, <1>15 DEF Inv

\* A step of a call that announces nothing, before and after.
LEMMA QuietInv ==
  ASSUME Inv, NEW h \in Calls, NEW row \in CallRows,
         call' = [call EXCEPT ![h] = row], row.pc = "insert" => row.ask.op = "column_add",
         call[h].pc \notin {"seq", "append", "cast"}, row.pc \notin {"seq", "append", "cast"},
         UNCHANGED <<tables, stream, live, muddled, write>>
  PROVE  Inv'
<1>1. /\ call' \in [Calls -> CallRows] /\ call'[h] = row
      /\ \A g \in Calls \ {h} : call'[g] = call[g]
  BY DEF Inv, TypesInv
<1>2. \A g \in Calls, t \in Tables : Announcing(g, t)' <=> Announcing(g, t)
  BY <1>1 DEF Announcing
<1>3. \A g \in Calls, t \in Tables : Announcing(g, t) => call'[g] = call[g]
  BY <1>1 DEF Announcing
<1>4. TypesInv'
  BY <1>1 DEF Inv, TypesInv
<1>5. NoOrphanColumns' /\ MetInv' /\ AcceptedFits'
  BY DEF Inv, NoOrphanColumns, MetInv, AcceptedFits
<1>6. PendingInv'
  <2> SUFFICES ASSUME NEW t \in Tables, t \notin muddled, NEW g \in Calls, Announcing(g, t)'
               PROVE  /\ \A i \in Calls : Announcing(i, t)' => i = g
                      /\ call'[g].pc \in {"seq", "append"} => Apply(View(stream, t), call'[g].ask) = tables[t]
                      /\ call'[g].pc = "cast" => View(stream, t) = tables[t]
                      /\ Apply(View(live, t), call'[g].ask) = tables[t]
    BY DEF PendingInv
  <2>1. Announcing(g, t) /\ call'[g] = call[g]
    BY <1>2, <1>3
  <2>2. QED
    BY <1>2, <2>1 DEF Inv, PendingInv
<1>7. DevicesAgree'
  BY <1>2 DEF Inv, DevicesAgree
<1>8. QED
  BY <1>4, <1>5, <1>6, <1>7 DEF Inv

\* A refused call is done.
LEMMA FailsInv ==
  ASSUME Inv, NEW h \in Calls, call[h].pc \in {"idle", "store", "insert"}, Fails(h)
  PROVE  Inv'
<1>1. [pc |-> "done"] \in CallRows
  BY DEF CallRows
<1>2. QED
  BY <1>1, QuietInv DEF Fails, Refuse

\* A request arrives.
LEMMA BeginInv ==
  ASSUME Inv, NEW h \in Calls, NEW ask \in Asks, Begin(h, ask)
  PROVE  Inv'
<1>1. CASE ValidTableName(ask.table)
  <2>1. ask \in LegalAsks
    <3>1. ask.table \in Tables \cup Reserved
      BY DEF Asks
    <3>2. QED
      BY <1>1, <3>1 DEF LegalAsks, ValidTableName
  <2>2. PICK row : row = [pc |-> "store", ask |-> ask]
    OBVIOUS
  <2>3. row \in CallRows /\ row.pc = "store"
    BY <2>1, <2>2 DEF CallRows
  <2>4. QED
    BY <1>1, <2>2, <2>3, QuietInv DEF Begin
<1>2. CASE ~ValidTableName(ask.table)
  BY <1>2, FailsInv DEF Begin, Fails
<1>3. QED
  BY <1>1, <1>2

\* A column is asked for; its parent is there.
LEMMA AddColumnInv ==
  ASSUME Inv, NEW h \in Calls, AddColumn(h)
  PROVE  Inv'
<1>1. CASE Before(h).declared
  <2>1. PICK r \in [pc : {"store", "insert", "seq", "append", "cast"}, ask : LegalAsks] : r = call[h]
    BY CallFields DEF Inv, AddColumn, Asked
  <2>2. PICK row : row = [r EXCEPT !.pc = "insert"]
    OBVIOUS
  <2>3. row \in CallRows /\ row.pc = "insert" /\ row.ask = r.ask
    BY <2>1, <2>2 DEF CallRows
  <2>4. call' = [call EXCEPT ![h] = row]
    BY <1>1, <2>1, <2>2 DEF AddColumn, Inv, TypesInv
  <2>5. /\ call[h].pc = "store" /\ r.ask.op = "column_add"
        /\ UNCHANGED <<tables, stream, live, muddled, write>>
    BY <1>1, <2>1 DEF AddColumn, Asked
  <2>6. QED
    BY <2>3, <2>4, <2>5, QuietInv
<1>2. CASE ~Before(h).declared
  BY <1>2, FailsInv DEF AddColumn, Asked
<1>3. QED
  BY <1>1, <1>2

\* The four statements that change a table, each of which the call will announce.
LEMMA StoreInv ==
  ASSUME Inv, NEW h \in Calls,
         CreateTable(h) \/ DeleteTable(h) \/ InsertColumn(h) \/ DeleteColumn(h)
  PROVE  Inv'
<1>1. call[h].pc \in {"store", "insert"}
  BY DEF CreateTable, DeleteTable, InsertColumn, DeleteColumn, Asked
<1>2. PICK ask \in LegalAsks : ask = call[h].ask
  BY <1>1, CallFields DEF Inv
<1>3. PICK old \in TableRows : old = tables[ask.table]
  BY <1>1, <1>2, CallFields DEF Inv
<1>4. Before(h) = old /\ (~old.declared => old = NoTable)
  BY <1>2, <1>3, AskFields DEF Before, Inv, NoOrphanColumns
<1>5. CASE Fails(h)
  BY <1>1, <1>5, FailsInv
<1>6. CASE CreateTable(h) /\ ~Fails(h)
  <2>1. ask.op = "table_create" /\ ~old.declared /\ Commit(h, NewTable)
    BY <1>2, <1>4, <1>6 DEF CreateTable, Asked
  <2>2. Apply(old, ask) = NewTable
    BY <2>1 DEF Apply
  <2>3. QED
    BY <1>1, <1>2, <1>3, <2>1, <2>2, NewRowTyped, CommitInv
<1>7. CASE DeleteTable(h) /\ ~Fails(h)
  <2>1. ask.op = "table_delete" /\ Commit(h, NoTable)
    BY <1>2, <1>7 DEF DeleteTable, Asked
  <2>2. Apply(old, ask) = NoTable
    BY <2>1 DEF Apply
  <2>3. QED
    BY <1>1, <1>2, <1>3, <2>1, <2>2, NewRowTyped, CommitInv
<1>8. CASE InsertColumn(h) /\ ~Fails(h)
  <2>1. ask.op = "column_add"
    BY <1>2, <1>8 DEF InsertColumn, Inv, TypesInv
  <2>2. PICK row : row = [old EXCEPT !.columns[ask.column] = ask.def]
    OBVIOUS
  <2>3. old.declared /\ Commit(h, row)
    BY <1>2, <1>4, <1>8, <2>2 DEF InsertColumn
  <2>4. row \in TableRows /\ row.declared
    <3>1. ask.column \in Columns /\ ask.def \in Defs
      BY <2>1, AskFields
    <3>2. row \in TableRows
      BY <2>2, <3>1, ColumnTyped
    <3>3. QED
      BY <2>2, <2>3, <3>2 DEF TableRows
  <2>5. Apply(old, ask) = row
    BY <2>1, <2>2 DEF Apply
  <2>6. QED
    BY <1>1, <1>2, <1>3, <2>3, <2>4, <2>5, CommitInv
<1>9. CASE DeleteColumn(h) /\ ~Fails(h)
  <2>1. /\ ask.op = "column_delete"
        /\ old.columns[ask.column] # NoColumn
        /\ Commit(h, [old EXCEPT !.columns[ask.column] = NoColumn])
    BY <1>2, <1>4, <1>9 DEF DeleteColumn, Asked
  <2>2. PICK row : row = [old EXCEPT !.columns[ask.column] = NoColumn]
    OBVIOUS
  <2>3. ask.column \in Columns
    BY <2>1, AskFields
  <2>4. old.declared
    <3>1. NoTable.columns[ask.column] = NoColumn
      BY <2>3 DEF NoTable
    <3>2. QED
      BY <1>4, <2>1, <3>1
  <2>5. row \in TableRows /\ row.declared
    <3>1. row \in TableRows
      BY <2>2, <2>3, ColumnTyped
    <3>2. QED
      BY <2>2, <2>4, <3>1 DEF TableRows
  <2>6. Apply(old, ask) = row
    BY <2>1, <2>2 DEF Apply
  <2>7. Commit(h, row)
    BY <2>1, <2>2
  <2>8. QED
    BY <1>1, <1>2, <1>3, <2>5, <2>6, <2>7, CommitInv
<1>10. QED
  BY <1>5, <1>6, <1>7, <1>8, <1>9

\* A step of an announcement: it reaches only the views of its own table.  When the call
\* goes on it is still the change that is missing, when it returns nothing is missing.
LEMMA AnnounceInv ==
  ASSUME Inv, NEW h \in Calls, NEW row \in CallRows, NEW ask \in LegalAsks,
         call[h].pc \in {"seq", "append", "cast"}, call[h].ask = ask,
         call' = [call EXCEPT ![h] = row],
         row.pc = "done" \/ (row.pc \in {"append", "cast"} /\ row.ask = ask),
         UNCHANGED <<tables, write>>, muddled \subseteq muddled',
         stream' \in Seq(LegalAsks), live' \in Seq(LegalAsks),
         \A t \in Tables : t # ask.table =>
           View(stream', t) = View(stream, t) /\ View(live', t) = View(live, t),
         ask.table \notin muddled' =>
           /\ row.pc = "append" => Apply(View(stream', ask.table), ask) = tables[ask.table]
           /\ row.pc \in {"cast", "done"} => View(stream', ask.table) = tables[ask.table]
           /\ row.pc # "done" => Apply(View(live', ask.table), ask) = tables[ask.table]
           /\ row.pc = "done" => View(live', ask.table) = tables[ask.table]
  PROVE  Inv'
<1> DEFINE t0 == ask.table
<1>1. /\ call' \in [Calls -> CallRows] /\ call'[h] = row
      /\ \A g \in Calls \ {h} : call'[g] = call[g]
  BY DEF Inv, TypesInv
<1>2. /\ \A g \in Calls \ {h} : \A t : Announcing(g, t)' <=> Announcing(g, t)
      /\ \A t : Announcing(h, t) <=> t = t0
      /\ \A t : Announcing(h, t)' <=> (t = t0 /\ row.pc # "done")
  BY <1>1 DEF Announcing
<1>3. TypesInv'
  BY <1>1 DEF Inv, TypesInv
<1>4. NoOrphanColumns' /\ MetInv' /\ AcceptedFits'
  BY DEF Inv, NoOrphanColumns, MetInv, AcceptedFits
<1>5. t0 \in Tables
  BY AskFields
<1>6. t0 \notin muddled' => \A g \in Calls \ {h} : ~Announcing(g, t0)
  BY <1>2, <1>5 DEF Inv, PendingInv
<1>7. PendingInv'
  <2> SUFFICES ASSUME NEW t \in Tables, t \notin muddled', NEW g \in Calls, Announcing(g, t)'
               PROVE  /\ \A i \in Calls : Announcing(i, t)' => i = g
                      /\ call'[g].pc \in {"seq", "append"} => Apply(View(stream', t), call'[g].ask) = tables[t]
                      /\ call'[g].pc = "cast" => View(stream', t) = tables[t]
                      /\ Apply(View(live', t), call'[g].ask) = tables[t]
    BY DEF PendingInv
  <2>1. CASE t = t0
    <3>1. g = h /\ \A i \in Calls : Announcing(i, t)' => i = h
      BY <1>2, <1>6, <2>1
    <3>2. call'[g] = row /\ row.pc # "done"
      BY <1>1, <1>2, <3>1
    <3>3. QED
      BY <2>1, <3>1, <3>2
  <2>2. CASE t # t0
    <3>1. g # h
      BY <1>2, <2>2
    <3>2. Announcing(g, t) /\ call'[g] = call[g]
      BY <1>1, <1>2, <3>1
    <3>3. \A i \in Calls : Announcing(i, t)' => Announcing(i, t)
      BY <1>2, <2>2
    <3>4. View(stream', t) = View(stream, t) /\ View(live', t) = View(live, t)
      BY <2>2
    <3>5. t \notin muddled
      OBVIOUS
    <3>6. QED
      BY <3>2, <3>3, <3>4, <3>5 DEF Inv, PendingInv
  <2>3. QED
    BY <2>1, <2>2
<1>8. DevicesAgree'
  <2> SUFFICES ASSUME NEW t \in Tables, t \notin muddled', ~\E g \in Calls : Announcing(g, t)'
               PROVE  View(stream', t) = tables[t] /\ View(live', t) = tables[t]
    BY DEF DevicesAgree
  <2>1. CASE t = t0
    <3>1. row.pc = "done"
      BY <1>2, <2>1
    <3>2. QED
      BY <2>1, <3>1
  <2>2. CASE t # t0
    <3>1. \A g \in Calls : ~Announcing(g, t)
      BY <1>2, <2>2
    <3>2. View(stream', t) = View(stream, t) /\ View(live', t) = View(live, t)
      BY <2>2
    <3>3. t \notin muddled
      OBVIOUS
    <3>4. QED
      BY <3>1, <3>2, <3>3 DEF Inv, DevicesAgree
  <2>3. QED
    BY <2>1, <2>2
<1>9. QED
  BY <1>3, <1>4, <1>7, <1>8 DEF Inv

\* The three steps of broadcastSchema and the ways each ends.
LEMMA BroadcastInv ==
  ASSUME Inv, NEW h \in Calls, broadcastSchema(h)
  PROVE  Inv'
<1>1. call[h].pc \in {"seq", "append", "cast"} /\ UNCHANGED <<tables, write>>
  BY DEF broadcastSchema
<1>2. PICK r \in [pc : {"store", "insert", "seq", "append", "cast"}, ask : LegalAsks] : r = call[h]
  BY <1>1, CallFields DEF Inv
<1>3. PICK ask \in LegalAsks : ask = call[h].ask
  BY <1>2
<1> DEFINE t0 == ask.table
<1>4. t0 \in Tables /\ call \in [Calls -> CallRows]
  BY AskFields DEF Inv, TypesInv
<1>5. /\ stream \in Seq(LegalAsks) /\ live \in Seq(LegalAsks)
      /\ Append(stream, ask) \in Seq(LegalAsks) /\ Append(live, ask) \in Seq(LegalAsks)
  BY DEF Inv, TypesInv
<1>6. \A t \in Tables : t # t0 => /\ View(Append(stream, ask), t) = View(stream, t)
                                   /\ View(Append(live, ask), t) = View(live, t)
  BY <1>5, OtherView
<1>7. /\ View(Append(stream, ask), t0) = Apply(View(stream, t0), ask)
      /\ View(Append(live, ask), t0) = Apply(View(live, t0), ask)
  BY <1>5, OwnView
<1>8. t0 \notin muddled =>
        /\ call[h].pc \in {"seq", "append"} => Apply(View(stream, t0), ask) = tables[t0]
        /\ call[h].pc = "cast" => View(stream, t0) = tables[t0]
        /\ Apply(View(live, t0), ask) = tables[t0]
  <2>1. Announcing(h, t0)
    BY <1>1, <1>3 DEF Announcing
  <2>2. QED
    BY <1>3, <1>4, <2>1 DEF Inv, PendingInv
<1>9. PICK over : over = [pc |-> "done"]
  OBVIOUS
<1>10. over \in CallRows /\ over.pc = "done"
  BY <1>9 DEF CallRows
<1>11. CASE call[h].pc = "seq" /\ call' = [call EXCEPT ![h].pc = "append"]
  <2>1. PICK row : row = [r EXCEPT !.pc = "append"]
    OBVIOUS
  <2>2. row \in CallRows /\ row.pc = "append" /\ row.ask = ask
    BY <1>2, <1>3, <2>1 DEF CallRows
  <2>3. call' = [call EXCEPT ![h] = row]
    BY <1>2, <1>4, <1>11, <2>1
  <2>4. stream' = stream /\ live' = live /\ muddled \subseteq muddled'
    BY <1>11 DEF broadcastSchema, GiveUpAnnouncing
  <2>5. ask.table \notin muddled' => /\ Apply(View(stream', ask.table), ask) = tables[ask.table]
                                   /\ Apply(View(live', ask.table), ask) = tables[ask.table]
    BY <1>8, <1>11, <2>4
  <2>6. \A t \in Tables : t # ask.table =>
          View(stream', t) = View(stream, t) /\ View(live', t) = View(live, t)
    BY <2>4
  <2>7. stream' \in Seq(LegalAsks) /\ live' \in Seq(LegalAsks) /\ muddled \subseteq muddled'
    BY <1>5, <2>4
  <2>8. QED
    BY <1>1, <1>3, <2>2, <2>3, <2>5, <2>6, <2>7, AnnounceInv
<1>12. CASE GiveUpAnnouncing(h) /\ call[h].pc \in {"seq", "append"}
  <2>1. call' = [call EXCEPT ![h] = over]
    BY <1>9, <1>12 DEF GiveUpAnnouncing, Refuse
  <2>2. muddled \subseteq muddled' /\ ask.table \in muddled'
    BY <1>3, <1>12 DEF GiveUpAnnouncing
  <2>3. stream' \in {stream, Append(stream, ask)} /\ live' = live
    BY <1>3, <1>12 DEF broadcastSchema
  <2>4. stream' \in Seq(LegalAsks) /\ live' \in Seq(LegalAsks)
    BY <1>5, <2>3
  <2>5. \A t \in Tables : t # ask.table =>
          View(stream', t) = View(stream, t) /\ View(live', t) = View(live, t)
    BY <1>6, <2>3
  <2>6. QED
    BY <1>1, <1>3, <1>10, <2>1, <2>2, <2>4, <2>5, AnnounceInv
<1>13. CASE call[h].pc = "append" /\ ~GiveUpAnnouncing(h)
  <2>1. PICK row : row = [r EXCEPT !.pc = "cast"]
    OBVIOUS
  <2>2. row \in CallRows /\ row.pc = "cast" /\ row.ask = ask
    BY <1>2, <1>3, <2>1 DEF CallRows
  <2>3. call' = [call EXCEPT ![h] = row]
    BY <1>2, <1>4, <1>13, <2>1 DEF broadcastSchema
  <2>4. stream' = Append(stream, ask) /\ live' = live /\ muddled' = muddled
    BY <1>3, <1>13 DEF broadcastSchema
  <2>5. View(stream', t0) = Apply(View(stream, t0), ask)
    BY <1>7, <2>4
  <2>6. t0 \notin muddled' => /\ View(stream', t0) = tables[t0]
                              /\ Apply(View(live', t0), ask) = tables[t0]
    BY <1>8, <1>13, <2>4, <2>5
  <2>7. \A t \in Tables : t # t0 =>
          View(stream', t) = View(stream, t) /\ View(live', t) = View(live, t)
    BY <1>6, <2>4
  <2>8. stream' \in Seq(LegalAsks) /\ live' \in Seq(LegalAsks) /\ muddled \subseteq muddled'
    BY <1>5, <2>4
  <2>9. QED
    BY <1>1, <1>3, <2>2, <2>3, <2>6, <2>7, <2>8, AnnounceInv
<1>14. CASE call[h].pc = "cast"
  <2>1. call' = [call EXCEPT ![h] = over]
    BY <1>9, <1>14 DEF broadcastSchema, Refuse
  <2>2. live' = Append(live, ask) /\ stream' = stream /\ muddled' = muddled
    BY <1>3, <1>14 DEF broadcastSchema
  <2>3. View(live', t0) = Apply(View(live, t0), ask)
    BY <1>7, <2>2
  <2>4. t0 \notin muddled' => View(stream', t0) = tables[t0] /\ View(live', t0) = tables[t0]
    BY <1>8, <1>14, <2>2, <2>3
  <2>5. \A t \in Tables : t # t0 =>
          View(stream', t) = View(stream, t) /\ View(live', t) = View(live, t)
    BY <1>6, <2>2
  <2>6. stream' \in Seq(LegalAsks) /\ live' \in Seq(LegalAsks) /\ muddled \subseteq muddled'
    BY <1>5, <2>2
  <2>7. QED
    BY <1>1, <1>3, <1>10, <2>1, <2>4, <2>5, <2>6, AnnounceInv
<1>15. call[h].pc = "seq" => call' = [call EXCEPT ![h].pc = "append"] \/ GiveUpAnnouncing(h)
  BY DEF broadcastSchema
<1>16. QED
  BY <1>1, <1>11, <1>12, <1>13, <1>14, <1>15

\* A crash: what was being announced is lost, and so are the checks under way.
LEMMA RestartInv ==
  ASSUME Inv, SchemaRestart
  PROVE  Inv'
<1>1. /\ UNCHANGED <<tables, stream, live>>
      /\ muddled' = muddled \cup {t \in Tables : \E h \in Calls : Announcing(h, t)}
      /\ call' = [h \in Calls |-> IF call[h].pc = "idle" THEN call[h] ELSE [pc |-> "done"]]
      /\ write' = [w \in Writes |-> IF write[w].pc = "columns" THEN [pc |-> "idle"] ELSE write[w]]
  BY DEF SchemaRestart
<1>2. \A h \in Calls : call'[h].pc \in {"idle", "done"} /\ call'[h] \in CallRows
  BY <1>1 DEF Inv, TypesInv, CallRows
<1>3. \A w \in Writes : /\ write'[w] \in WriteRows /\ write'[w].pc # "columns"
                        /\ write'[w].pc = "accepted" => write'[w] = write[w]
  BY <1>1 DEF Inv, TypesInv, WriteRows
<1>4. TypesInv'
  BY <1>1, <1>2, <1>3 DEF Inv, TypesInv
<1>5. NoOrphanColumns' /\ MetInv' /\ AcceptedFits'
  BY <1>1, <1>3 DEF Inv, NoOrphanColumns, MetInv, AcceptedFits
<1>6. PendingInv'
  BY <1>2 DEF PendingInv, Announcing
<1>7. DevicesAgree'
  <2>1. \A t \in Tables : t \notin muddled' => t \notin muddled /\ ~\E h \in Calls : Announcing(h, t)
    BY <1>1
  <2>2. QED
    BY <1>1, <2>1 DEF Inv, DevicesAgree
<1>8. QED
  BY <1>4, <1>5, <1>6, <1>7 DEF Inv

\* A step of one check: the rows of the others stay.
LEMMA CheckInv ==
  ASSUME Inv, NEW w \in Writes, NEW row \in WriteRows, write' = [write EXCEPT ![w] = row],
         UNCHANGED <<tables, call, stream, live, muddled>>,
         row.pc = "columns" => tables[row.table] \in row.met,
         row.pc = "accepted" => \E s \in row.met : \/ ~s.declared
                                                   \/ row.op = "delete"
                                                   \/ Fits(row.payload, s.columns)
  PROVE  Inv'
<1>1. /\ write' \in [Writes -> WriteRows] /\ write'[w] = row
      /\ \A v \in Writes \ {w} : write'[v] = write[v]
  BY DEF Inv, TypesInv
<1>2. TypesInv'
  BY <1>1 DEF Inv, TypesInv
<1>3. NoOrphanColumns' /\ MetInv'
  BY <1>1 DEF Inv, NoOrphanColumns, MetInv
<1>4. AcceptedFits'
  BY <1>1 DEF Inv, AcceptedFits
<1>5. PendingInv' /\ DevicesAgree'
  BY DEF Inv, PendingInv, DevicesAgree, Announcing
<1>6. QED
  BY <1>2, <1>3, <1>4, <1>5 DEF Inv

\* The first query.
LEMMA ReadTableInv ==
  ASSUME Inv, NEW w \in Writes, NEW op \in {"upsert", "delete"}, NEW t \in Tables \cup Reserved,
         NEW payload \in [Columns -> Values], ReadTable(w, op, t, payload)
  PROVE  Inv'
<1>1. CASE t \in Tables /\ tables[t].declared
  <2>1. PICK row : row = [pc |-> "columns", op |-> op, table |-> t, payload |-> payload,
                          met |-> {tables[t]}]
    OBVIOUS
  <2>2. write' = [write EXCEPT ![w] = row]
    BY <1>1, <2>1 DEF ReadTable
  <2>3. tables[t] \in TableRows
    BY <1>1 DEF Inv, TypesInv
  <2>4. row \in WriteRows /\ row.pc = "columns" /\ tables[row.table] \in row.met
    BY <1>1, <2>1, <2>3 DEF WriteRows
  <2>5. UNCHANGED <<tables, call, stream, live, muddled>>
    BY DEF ReadTable
  <2>6. QED
    BY <2>2, <2>4, <2>5, CheckInv
<1>2. CASE ~(t \in Tables /\ tables[t].declared)
  <2>1. PICK row : row = [pc |-> "dropped"]
    OBVIOUS
  <2>2. write' = [write EXCEPT ![w] = row] /\ UNCHANGED <<tables, call, stream, live, muddled>>
    BY <1>2, <2>1 DEF ReadTable
  <2>3. row \in WriteRows /\ row.pc = "dropped"
    BY <2>1 DEF WriteRows
  <2>4. QED
    BY <2>2, <2>3, CheckInv
<1>3. QED
  BY <1>1, <1>2

\* The second query reads the table as it is, which the check has met.
LEMMA ReadColumnsInv ==
  ASSUME Inv, NEW w \in Writes, ReadColumns(w)
  PROVE  Inv'
<1>1. PICK r \in [pc : {"columns", "accepted", "dropped"}, op : {"upsert", "delete"},
                  table : Tables, payload : [Columns -> Values], met : SUBSET TableRows] :
        r = write[w]
  BY WriteFields DEF Inv, ReadColumns
<1>2. PICK end \in {"accepted", "dropped"} :
        /\ end = IF r.op = "delete" \/ Fits(r.payload, listColumns(r.table))
                 THEN "accepted" ELSE "dropped"
        /\ write' = [write EXCEPT ![w].pc = end]
  BY <1>1 DEF ReadColumns
<1>3. PICK row : row = [r EXCEPT !.pc = end]
  OBVIOUS
<1>4. /\ row \in WriteRows /\ row.pc = end /\ row.op = r.op /\ row.table = r.table
      /\ row.payload = r.payload /\ row.met = r.met
  BY <1>3 DEF WriteRows
<1>5. write' = [write EXCEPT ![w] = row]
  BY <1>1, <1>2, <1>3 DEF Inv, TypesInv
<1>6. tables[r.table] \in r.met
  BY <1>1 DEF Inv, MetInv, ReadColumns
<1>7. row.pc = "accepted" => \E s \in row.met : \/ ~s.declared
                                                \/ row.op = "delete"
                                                \/ Fits(row.payload, s.columns)
  BY <1>2, <1>4, <1>6 DEF listColumns
<1>8. row.pc # "columns" /\ UNCHANGED <<tables, call, stream, live, muddled>>
  BY <1>4 DEF ReadColumns
<1>9. QED
  BY <1>4, <1>5, <1>7, <1>8, CheckInv

-----------------------------------------------------------------------------
(* Theorems *)

\* A step that changes nothing.
LEMMA StutterInv ==
  ASSUME Inv, UNCHANGED schemaVars
  PROVE  Inv'
<1>1. /\ tables' = tables /\ call' = call /\ stream' = stream /\ live' = live
      /\ muddled' = muddled /\ write' = write
  BY DEF schemaVars
<1>2. TypesInv' /\ NoOrphanColumns' /\ MetInv' /\ AcceptedFits'
  BY <1>1 DEF Inv, TypesInv, NoOrphanColumns, MetInv, AcceptedFits
<1>3. PendingInv' /\ DevicesAgree'
  BY <1>1 DEF Inv, PendingInv, DevicesAgree, Announcing
<1>4. QED
  BY <1>2, <1>3 DEF Inv

(* The inductive invariant: the types, and beside the three properties what a check
   under way has met and which change a table's devices are still missing. *)
THEOREM SchemaCorrect == SchemaSpec => []Inv
<1>1. SchemaInit => Inv
  BY InitInv
<1>2. Inv /\ [SchemaNext]_schemaVars => Inv'
  <2> SUFFICES ASSUME Inv, [SchemaNext]_schemaVars
               PROVE  Inv'
    OBVIOUS
  <2>1. ASSUME NEW h \in Calls, NEW ask \in Asks, Begin(h, ask)
        PROVE  Inv'
    BY <2>1, BeginInv
  <2>2. ASSUME NEW h \in Calls,
               CreateTable(h) \/ DeleteTable(h) \/ InsertColumn(h) \/ DeleteColumn(h)
        PROVE  Inv'
    BY <2>2, StoreInv
  <2>3. ASSUME NEW h \in Calls, AddColumn(h)
        PROVE  Inv'
    BY <2>3, AddColumnInv
  <2>4. ASSUME NEW h \in Calls, broadcastSchema(h)
        PROVE  Inv'
    BY <2>4, BroadcastInv
  <2>5. ASSUME NEW w \in Writes, NEW op \in {"upsert", "delete"}, NEW t \in Tables \cup Reserved,
               NEW p \in [Columns -> Values], ReadTable(w, op, t, p)
        PROVE  Inv'
    BY <2>5, ReadTableInv
  <2>6. ASSUME NEW w \in Writes, ReadColumns(w)
        PROVE  Inv'
    BY <2>6, ReadColumnsInv
  <2>7. CASE SchemaRestart
    BY <2>7, RestartInv
  <2>8. CASE UNCHANGED schemaVars
    BY <2>8, StutterInv
  <2>9. QED
    BY <2>1, <2>2, <2>3, <2>4, <2>5, <2>6, <2>7, <2>8 DEF SchemaNext
<1>3. QED
  BY <1>1, <1>2, PTL DEF SchemaSpec

(* A column is never left under a table that is not there: the lookup of AddColumn may
   be stale by the time it inserts, the foreign key is not (schema.go:253-273). *)
THEOREM NoColumnOrphaned == SchemaSpec => []NoOrphanColumns
<1>1. Inv => NoOrphanColumns
  BY DEF Inv
<1>2. QED
  BY <1>1, SchemaCorrect, PTL

(* However many calls announce at once, and however long the logs: a table that has no
   announcement under way, and none that failed or was overtaken, is on every device as
   it is in the database (handler/schema.go:198-231). *)
THEOREM DevicesConverge == SchemaSpec => []DevicesAgree
<1>1. Inv => DevicesAgree
  BY DEF Inv
<1>2. QED
  BY <1>1, SchemaCorrect, PTL

(* A message that passes fits its table as it was at some moment of the check, or the
   table went away under it (validateAgainstSchema, ws.go:267). *)
THEOREM OnlyFittingAccepted == SchemaSpec => []AcceptedFits
<1>1. Inv => AcceptedFits
  BY DEF Inv
<1>2. QED
  BY <1>1, SchemaCorrect, PTL

=============================================================================

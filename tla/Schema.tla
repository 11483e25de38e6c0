------------------------------- MODULE Schema -------------------------------
(***************************************************************************)
(* One user's declared tables (internal/store/schema.go), the HTTP calls   *)
(* that change them and then announce the change to the user's devices     *)
(* (internal/handler/schema.go), and the gate that checks a provider's     *)
(* message against them (validateAgainstSchema, internal/handler/ws.go).   *)
(*                                                                         *)
(* A change is committed first and announced afterwards in three steps,    *)
(* each of which may fail: a number from Redis, an entry in the user's     *)
(* stream, a broadcast to the live sockets.  Nothing orders the calls, so  *)
(* announcements may overtake each other.  A check reads the table and its *)
(* columns in two queries.                                                 *)
(***************************************************************************)
EXTENDS Integers, Sequences, SequencesExt

CONSTANTS
  Tables,      \* legal table names
  Columns,     \* legal column names
  Reserved,    \* table names that start with an underscore
  Defs,        \* column definitions that calls ask for: [type, required]
  Calls,       \* bound: HTTP calls to /schema
  Writes,      \* bound: upserts and deletes that arrive on /ws
  Values,      \* bound: JSON values of a payload; "absent" where it has no key
  SchemaFaults \* subset of {"redis", "crash"}

ColumnTypes == {"text", "number", "bool", "json"}

ASSUME SchemaAssumption ==
  /\ Reserved \cap Tables = {}
  /\ Defs \subseteq [type : ColumnTypes, required : BOOLEAN]
  /\ Values \subseteq {"absent", "null", "string", "number", "bool", "object"}

VARIABLES
  tables,   \* app_tables and app_columns
  call,     \* each HTTP call: what it asks and how far it is
  stream,   \* the user's Redis stream, schema entries only
  live,     \* what a socket that is connected all the time receives
  muddled,  \* tables with an announcement that failed or was overtaken
  write     \* each message under validation, with the schemas it has met

schemaVars == <<tables, call, stream, live, muddled, write>>

NoColumn == [type |-> "none", required |-> FALSE]
NoTable == [declared |-> FALSE, columns |-> [c \in Columns |-> NoColumn]]
NewTable == [NoTable EXCEPT !.declared = TRUE]

Ops == {"table_create", "table_delete", "column_add", "column_delete"}

SchemaInit ==
  /\ tables = [t \in Tables |-> NoTable]
  /\ call = [h \in Calls |-> [pc |-> "idle"]]
  /\ stream = <<>> /\ live = <<>>
  /\ muddled = {}
  /\ write = [w \in Writes |-> [pc |-> "idle"]]

-----------------------------------------------------------------------------
(* The calls.  What one is asked for is in the record of the call. *)

ValidTableName(t) == t \notin Reserved

Refuse(h) == call' = [call EXCEPT ![h] = [pc |-> "done"]]

\* A call that has committed and still has something to announce.
Announcing(h, t) == call[h].pc \in {"seq", "append", "cast"} /\ call[h].ask.table = t

\* The row is written, the checks under way will have met it, and the handler
\* goes on to broadcastSchema.
Commit(h, row) ==
  LET t == call[h].ask.table
  IN /\ tables' = [tables EXCEPT ![t] = row]
     /\ call' = [call EXCEPT ![h].pc = "seq"]
     /\ muddled' = IF \E g \in Calls \ {h} : Announcing(g, t) THEN muddled \cup {t} ELSE muddled
     /\ write' = [w \in Writes |->
          IF write[w].pc = "columns" /\ write[w].table = t
          THEN [write[w] EXCEPT !.met = @ \cup {row}] ELSE write[w]]
     /\ UNCHANGED <<stream, live>>

\* A request with a legal name reaches the store.
Begin(h, ask) ==
  /\ call[h].pc = "idle"
  /\ IF ValidTableName(ask.table)
     THEN call' = [call EXCEPT ![h] = [pc |-> "store", ask |-> ask]]
     ELSE Refuse(h)
  /\ UNCHANGED <<tables, stream, live, muddled, write>>

Asked(h, op) == call[h].pc = "store" /\ call[h].ask.op = op

Before(h) == tables[call[h].ask.table]

\* The store returned an error: nothing changes and nothing is announced.
Fails(h) == Refuse(h) /\ UNCHANGED <<tables, stream, live, muddled, write>>

\* PRIMARY KEY (user_id, name)
CreateTable(h) ==
  /\ Asked(h, "table_create")
  /\ IF Before(h).declared THEN Fails(h) ELSE Commit(h, NewTable)

\* Deletes the columns too; no rows affected is ErrTableNotFound.
DeleteTable(h) ==
  /\ Asked(h, "table_delete")
  /\ IF Before(h).declared THEN Commit(h, NoTable) ELSE Fails(h)

\* The parent is looked up first ...
AddColumn(h) ==
  /\ Asked(h, "column_add")
  /\ IF Before(h).declared
     THEN /\ call' = [call EXCEPT ![h].pc = "insert"]
          /\ UNCHANGED <<tables, stream, live, muddled, write>>
     ELSE Fails(h)

InsertColumnUnchecked(h) ==
  /\ call[h].pc = "insert"
  /\ IF Before(h).columns[call[h].ask.column] = NoColumn
     THEN Commit(h, [Before(h) EXCEPT !.columns[call[h].ask.column] = call[h].ask.def])
     ELSE Fails(h)

\* ... and the insert may still meet the foreign key or the primary key.
InsertColumn(h) ==
  /\ call[h].pc = "insert"
  /\ IF Before(h).declared /\ Before(h).columns[call[h].ask.column] = NoColumn
     THEN Commit(h, [Before(h) EXCEPT !.columns[call[h].ask.column] = call[h].ask.def])
     ELSE Fails(h)

DeleteColumnUnseen(h) ==
  /\ Asked(h, "column_delete")
  /\ IF Before(h).columns[call[h].ask.column] # NoColumn
     THEN /\ tables' = [tables EXCEPT ![call[h].ask.table].columns[call[h].ask.column] = NoColumn]
          /\ Refuse(h) /\ UNCHANGED <<stream, live, muddled, write>>
     ELSE Fails(h)

\* No rows affected is ErrColumnNotFound.
DeleteColumn(h) ==
  /\ Asked(h, "column_delete")
  /\ IF Before(h).columns[call[h].ask.column] # NoColumn
     THEN Commit(h, [Before(h) EXCEPT !.columns[call[h].ask.column] = NoColumn])
     ELSE Fails(h)

\* broadcastSchema gives up on the first error and only logs it.
GiveUpAnnouncing(h) ==
  /\ "redis" \in SchemaFaults
  /\ muddled' = muddled \cup {call[h].ask.table}
  /\ Refuse(h)

\* Seq.Next, Stream.Append, whose entry may be there in spite of an error, and
\* Hub.Broadcast.
broadcastSchema(h) ==
  /\ \/ /\ call[h].pc = "seq"
        /\ \/ call' = [call EXCEPT ![h].pc = "append"] /\ UNCHANGED muddled
           \/ GiveUpAnnouncing(h)
        /\ UNCHANGED <<stream, live>>
     \/ /\ call[h].pc = "append"
        /\ \/ /\ stream' = Append(stream, call[h].ask)
              /\ call' = [call EXCEPT ![h].pc = "cast"] /\ UNCHANGED muddled
           \/ GiveUpAnnouncing(h) /\ stream' \in {stream, Append(stream, call[h].ask)}
        /\ UNCHANGED live
     \/ /\ call[h].pc = "cast"
        /\ live' = Append(live, call[h].ask)
        /\ Refuse(h) /\ UNCHANGED <<stream, muddled>>
  /\ UNCHANGED <<tables, write>>

\* The process dies between two steps of a call.
SchemaRestart ==
  /\ "crash" \in SchemaFaults
  /\ \E h \in Calls : call[h].pc \notin {"idle", "done"}
  /\ muddled' = muddled \cup {t \in Tables : \E h \in Calls : Announcing(h, t)}
  /\ call' = [h \in Calls |-> IF call[h].pc = "idle" THEN call[h] ELSE [pc |-> "done"]]
  /\ write' = [w \in Writes |-> IF write[w].pc = "columns" THEN [pc |-> "idle"] ELSE write[w]]
  /\ UNCHANGED <<tables, stream, live>>

-----------------------------------------------------------------------------
(* The gate on /ws *)

JSONType(typ) ==
  CASE typ = "text" -> {"string"}
    [] typ = "number" -> {"number"}
    [] typ = "bool" -> {"bool"}
    [] typ = "json" -> {"string", "number", "bool", "object"}

checkColumnType(typ, value) == value = "null" \/ value \in JSONType(typ)

FitsIgnoringRequired(payload, columns) ==
  \A c \in Columns : (columns[c] # NoColumn /\ payload[c] # "absent")
                       => checkColumnType(columns[c].type, payload[c])

\* Required columns must be present, and what is present must have its type;
\* keys that are not columns pass.
Fits(payload, columns) ==
  \A c \in Columns : columns[c] # NoColumn =>
    /\ columns[c].required => payload[c] # "absent"
    /\ payload[c] # "absent" => checkColumnType(columns[c].type, payload[c])

\* GetTable, first query; a message for a reserved or unknown table is dropped.
\* So is one without an id, which is left out here.
ReadTable(w, op, t, payload) ==
  /\ write[w].pc = "idle"
  /\ write' = [write EXCEPT ![w] =
       IF t \in Tables /\ tables[t].declared
       THEN [pc |-> "columns", op |-> op, table |-> t, payload |-> payload, met |-> {tables[t]}]
       ELSE [pc |-> "dropped"]]
  /\ UNCHANGED <<tables, call, stream, live, muddled>>

listColumns(t) == tables[t].columns

ReadColumnsIgnoringRequired(w) ==
  /\ write[w].pc = "columns"
  /\ write' = [write EXCEPT ![w].pc =
       IF write[w].op = "delete"
          \/ FitsIgnoringRequired(write[w].payload, listColumns(write[w].table))
       THEN "accepted" ELSE "dropped"]
  /\ UNCHANGED <<tables, call, stream, live, muddled>>

\* GetTable, second query, and the rest of validateAgainstSchema; a delete
\* needs only the table.
ReadColumns(w) ==
  /\ write[w].pc = "columns"
  /\ write' = [write EXCEPT ![w].pc =
       IF write[w].op = "delete" \/ Fits(write[w].payload, listColumns(write[w].table))
       THEN "accepted" ELSE "dropped"]
  /\ UNCHANGED <<tables, call, stream, live, muddled>>

Asks == [op : {"table_create", "table_delete"}, table : Tables \cup Reserved]
        \cup [op : {"column_delete"}, table : Tables, column : Columns]
        \cup [op : {"column_add"}, table : Tables, column : Columns, def : Defs]

SchemaNext ==
  \/ \E h \in Calls :
       \/ \E ask \in Asks : Begin(h, ask)
       \/ CreateTable(h) \/ DeleteTable(h) \/ AddColumn(h) \/ InsertColumn(h) \/ DeleteColumn(h)
       \/ broadcastSchema(h)
  \/ \E w \in Writes :
       \/ \E op \in {"upsert", "delete"}, t \in Tables \cup Reserved, p \in [Columns -> Values] :
            ReadTable(w, op, t, p)
       \/ ReadColumns(w)
  \/ SchemaRestart

SchemaSpec == SchemaInit /\ [][SchemaNext]_schemaVars

-----------------------------------------------------------------------------
(* Properties *)

(* A column is never left under a table that is not there: AddColumn looks the
   table up and inserts later, and a DeleteTable may run in between; the foreign
   key decides (schema.go:253-273, store.go:148). *)
NoOrphanColumns ==
  \A t \in Tables : ~tables[t].declared => tables[t] = NoTable

\* What a device makes of an announcement.
Apply(table, ask) ==
  CASE ask.op = "table_create" -> IF table.declared THEN table ELSE NewTable
    [] ask.op = "table_delete" -> NoTable
    [] ask.op = "column_add" -> [table EXCEPT !.columns[ask.column] = ask.def]
    [] ask.op = "column_delete" -> [table EXCEPT !.columns[ask.column] = NoColumn]

\* An announcement of another table leaves this one alone.
Heed(table, ask, t) == IF ask.table = t THEN Apply(table, ask) ELSE table

View(log, t) == FoldLeft(LAMBDA table, ask : Heed(table, ask, t), NoTable, log)

(* Announcements are made after the change is committed, by calls that do not
   wait for each other, and an error is only logged (handler/schema.go:203).
   While no announcement of a table failed and none was overtaken by another
   change of that table, a device that follows the stream and one that is always
   connected both have the table exactly as the database has it, as soon as the
   calls have returned. *)
DevicesAgree ==
  \A t \in Tables : (t \notin muddled /\ ~ \E h \in Calls : Announcing(h, t)) =>
    View(stream, t) = tables[t] /\ View(live, t) = tables[t]

(* A message the gate accepts fits the declared schema of its table as it was at
   some moment of the check, unless the table was dropped during it: GetTable
   reads the table and then its columns, and in between anything may be changed
   (schema.go:168, ws.go:267). *)
AcceptedFits ==
  \A w \in Writes : write[w].pc = "accepted" =>
    \E s \in write[w].met :
      \/ ~s.declared
      \/ write[w].op = "delete"
      \/ Fits(write[w].payload, s.columns)
=============================================================================

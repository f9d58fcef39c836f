------------------------------ MODULE QuerySource ------------------------------
(***************************************************************************)
(* What a classic statement reads: the dataset and the datasets joined to  *)
(* it, each within the caller's scope (scope/scope.go, the joins of        *)
(* planner/planner.go, and FROM, JOIN and the scope predicates of          *)
(* sqlgen/sql_generator.go), and the row the engine makes of what the      *)
(* database answers (scanRow in exec/engine.go).                           *)
(*                                                                         *)
(* A dataset is a record: its table's name, the raw columns its metadata   *)
(* declares (none at all for a source without metadata), the columns the   *)
(* table has, whether it is versioned, which columns hold references and   *)
(* its rows.                                                               *)
(***************************************************************************)
EXTENDS RowAlgebra

CONSTANT
    Qualified        \* the names written with an alias: name -> [alias, column]

ASSUME QualifiedAssumption ==
    \A c \in DOMAIN Qualified : Qualified[c].column \notin DOMAIN Qualified

VARIABLES
    dataset,         \* the resolved dataset
    host             \* what the embedder wired: the caller's scope (a set of
                     \* columns), the scope of no caller, which the planner
                     \* is given, and the directories of the expander

-------------------------------------------------------------------------------
(***************************************************************************)
(* Names: a column of one of the tables, bare or after the table's alias.  *)
(***************************************************************************)
BareName(c) == IF c \in DOMAIN Qualified THEN Qualified[c].column ELSE c
NamesFor(alias, cols) ==
    cols \cup {c \in DOMAIN Qualified :
                  Qualified[c].alias = alias /\ Qualified[c].column \in cols}

JoinScoped(scope) == {c.name : c \in {d \in scope : d.joins}}

(***************************************************************************)
(* The plan of a join clause.  Its left column is always one of the first  *)
(* table, whatever alias it was written with.                              *)
(***************************************************************************)
Alias(j) == IF j.alias = "" THEN j.dataset.table ELSE j.alias
PlanJoin(j) ==
    [of |-> j.dataset, alias |-> Alias(j), at |-> 1, left |-> BareName(j.left),
     right |-> BareName(j.right), type |-> j.type,
     scoped |-> JoinScoped(host.unbound) \cap j.dataset.raw]
PlanJoins(joins) == [n \in DOMAIN joins |-> PlanJoin(joins[n])]

(***************************************************************************)
(* The tables of a statement, the dataset first.                           *)
(***************************************************************************)
Tables(joins) ==
    <<[alias |-> dataset.table, cols |-> dataset.columns]>>
        \o [n \in DOMAIN joins |-> [alias |-> joins[n].alias, cols |-> joins[n].of.columns]]
Owners(joins, c) ==
    {k \in DOMAIN Tables(joins) : c \in NamesFor(Tables(joins)[k].alias, Tables(joins)[k].cols)}

(***************************************************************************)
(* The scope predicates on the dataset itself, in WHERE.                   *)
(***************************************************************************)
DatasetHasColumn(d, c) == d.raw = {} \/ c \in d.raw
ScopedBy(d) == {c \in host.scope : c.required \/ DatasetHasColumn(d, c.name)}
Inside(row, scope) == \A c \in scope : Get(row, c.name) = c.value

(***************************************************************************)
(* JOIN.  A row of a joined statement is told by the places of its tables' *)
(* rows, its key, with no place for a table in which an outer join found   *)
(* no partner.  The scope predicates on the joined table are part of ON.   *)
(***************************************************************************)
NoRow == <<>>
NoPlace == 0
Sources(rows, joins) == <<rows>> \o [n \in DOMAIN joins |-> joins[n].of.rows]
RowsAt(sources, key) ==
    [k \in DOMAIN key |-> IF key[k] = NoPlace THEN NoRow ELSE sources[k][key[k]]]

OnKeys(j, t, row) ==
    LET key == Get(t[j.at], j.left)
    IN  key # Null /\ key = Get(row, j.right)
OnHolds(j, t, row) ==
    OnKeys(j, t, row) /\ Inside(row, {c \in host.scope : c.name \in j.scoped})

JoinedTo(sources, keys, j, width) ==
    LET Partners(key) ==
            {p \in DOMAIN j.of.rows : OnHolds(j, RowsAt(sources, key), j.of.rows[p])}
        paired == UNION {{Append(key, p) : p \in Partners(key)} : key \in keys}
        unpaired == {Append(key, NoPlace) : key \in {k \in keys : Partners(k) = {}}}
        alone == {[k \in 1..(width + 1) |-> IF k = width + 1 THEN p ELSE NoPlace] :
                     p \in {p \in DOMAIN j.of.rows : \A key \in keys : p \notin Partners(key)}}
    IN  paired \cup (IF j.type \in {"left", "full"} THEN unpaired ELSE {})
               \cup (IF j.type \in {"right", "full"} THEN alone ELSE {})

Keys(rows, joins) ==
    LET upTo[n \in 0..Len(joins)] ==
            IF n = 0 THEN {<<p>> : p \in DOMAIN rows}
            ELSE JoinedTo(Sources(rows, joins), upTo[n - 1], joins[n], n)
    IN  upTo[Len(joins)]

(***************************************************************************)
(* The rows come in the order of their places, table by table, and a row   *)
(* without a place after those with one.                                   *)
(***************************************************************************)
Earlier(key, other) ==
    \E n \in DOMAIN key :
        /\ \A m \in 1..(n - 1) : key[m] = other[m]
        /\ key[n] # other[n] /\ key[n] # NoPlace
        /\ other[n] = NoPlace \/ key[n] < other[n]
InOrder(rows) ==
    LET keys == DOMAIN rows
    IN  [n \in 1..Cardinality(keys) |->
            rows[CHOOSE key \in keys : Cardinality({k \in keys : Earlier(k, key)}) = n - 1]]

(***************************************************************************)
(* The names of a row.  Of several tables with a column of that name, the  *)
(* one that is given wins.                                                 *)
(***************************************************************************)
NamesIn(joins) ==
    UNION {NamesFor(table.alias, table.cols) : table \in Range(Tables(joins))}
NamedByFirst(joins, t) ==
    [c \in NamesIn(joins) |-> Get(t[Min(Owners(joins, c))], BareName(c))]
NamedByLast(joins, t) ==
    [c \in NamesIn(joins) |-> Get(t[Max(Owners(joins, c))], BareName(c))]

(***************************************************************************)
(* scanRow: a row has the bare names; a later column replaces an earlier   *)
(* one of the same name.                                                   *)
(***************************************************************************)
ScanRow(row, cols) ==
    [c \in {BareName(d) : d \in cols} |-> row[CHOOSE d \in cols : BareName(d) = c]]

(***************************************************************************)
(* FROM and JOIN of a statement that no database accepts: a cross join has *)
(* no ON, two tables need two names, and ON and WHERE need their columns.  *)
(***************************************************************************)
NoSuchSource(joins) ==
    LET names == [k \in DOMAIN Tables(joins) |-> Tables(joins)[k].alias]
    IN  \/ ~({c.name : c \in ScopedBy(dataset)} \subseteq dataset.columns)
        \/ \E n \in DOMAIN joins :
              \/ joins[n].type = "cross"
              \/ joins[n].left \notin dataset.columns
              \/ joins[n].right \notin joins[n].of.columns
        \/ Cardinality(Range(names)) # Len(names)

-------------------------------------------------------------------------------
(***************************************************************************)
(* What the caller may see of a dataset, and of one that is joined.        *)
(***************************************************************************)
Within(rows, scope) == Restrict(rows, {p \in DOMAIN rows : Inside(rows[p], scope)})
SeenIn(d) == Within(d.rows, {c \in host.scope : c.name \in d.columns})
Seen(d) == [d EXCEPT !.rows = SeenIn(d)]
SeenJoined(d) ==
    [d EXCEPT !.rows = Within(@, {c \in host.scope : c.joins /\ c.name \in d.columns})]
SeenThrough(joins) == [n \in DOMAIN joins |-> [joins[n] EXCEPT !.of = SeenJoined(@)]]

(***************************************************************************)
(* The join clauses as they are written: the left column is that of the    *)
(* table it names.                                                         *)
(***************************************************************************)
AsWritten(joins) ==
    LET plan == SeenThrough(PlanJoins(joins))
        owners(n) == Owners(SubSeq(plan, 1, n - 1), joins[n].left)
    IN  [n \in DOMAIN joins |->
            [plan[n] EXCEPT !.at = IF owners(n) = {} THEN 1 ELSE Min(owners(n))]]

(***************************************************************************)
(* When the scope reaches every table: its columns are declared where they *)
(* exist, the planner is told of them, and no outer join brings rows of a  *)
(* joined table past a dataset without a predicate of its own.             *)
(***************************************************************************)
ScopeReaches(joins) ==
    /\ \A c \in host.scope : c.name \in dataset.columns => c \in ScopedBy(dataset)
    /\ \A n \in DOMAIN joins :
          /\ \A c \in host.scope :
                c.joins /\ c.name \in joins[n].of.columns => c.name \in joins[n].scoped
          /\ joins[n].type \in {"right", "full"} /\ host.scope # {} => ScopedBy(dataset) # {}
===============================================================================

---------------------------- MODULE SearchPipeline ---------------------------
(***************************************************************************)
(* run_pipeline (src/search2/engine/core.py) and the commands it runs      *)
(* (src/search2/commands): a query is a list of stages, and each stage     *)
(* takes the data in one of three forms, a lazy QuerySet, a pandas         *)
(* DataFrame or a list of records, and leaves it in one of them.           *)
(*                                                                         *)
(* A row is a function from columns to values, a table a sequence of rows. *)
(* A QuerySet is what it adds to its SQL statement; Evaluate says which    *)
(* rows that statement gives.  Rows that compare equal keep the order of   *)
(* the table they come from.                                               *)
(***************************************************************************)
EXTENDS Integers, Sequences, FiniteSets
LOCAL INSTANCE TLC
LOCAL INSTANCE Functions
LOCAL Seqs == INSTANCE SequencesExt

CONSTANTS
  Tables,     \* what the model's table may hold
  Fields,     \* the model's fields
  DefaultModel, \* events.Event
  Viewable,   \* the models the user may query
  Commands,   \* the stages that are tried
  MaxStages,  \* bound: the number of stages
  Sample,     \* explode looks for keys in this many rows
  MaxRows     \* MAX_ROWS

VARIABLES
  table,    \* the rows in the database
  data,     \* `current` in run_pipeline
  stages    \* the stages that have run

searchVars == <<table, data, stages>>

-----------------------------------------------------------------------------
(* Values and rows *)

Val(i) == [v |-> i]
Null == [null |-> TRUE]
Map(f) == [map |-> f]
Arr(s) == [arr |-> s]
IsMap(x) == "map" \in DOMAIN x
IsArr(x) == "arr" \in DOMAIN x

\* row.get(f), and the step of get_nested into a JSON object.
Get(row, f) == IF f \in DOMAIN row THEN row[f] ELSE Null
AtPath(row, path) ==
  LET top == Get(row, path[1])
  IN IF Len(path) = 1 THEN top ELSE IF IsMap(top) THEN Get(top.map, path[2]) ELSE Null

Keep(row, fs) == Restrict(row, DOMAIN row \cap fs)
Merge(row, more) == [f \in DOMAIN row \cup DOMAIN more |->
                       IF f \in DOMAIN more THEN more[f] ELSE row[f]]
Fill(row, fs) == [f \in fs |-> Get(row, f)]
Columns(rows) == UNION {DOMAIN rows[i] : i \in DOMAIN rows}
Each(rows, Op(_)) == [i \in DOMAIN rows |-> Op(rows[i])]
FirstRows(rows, n) == SubSeq(rows, 1, IF n < Len(rows) THEN n ELSE Len(rows))
LastRows(rows, n) == SubSeq(rows, IF n < Len(rows) THEN Len(rows) - n + 1 ELSE 1, Len(rows))

\* A condition is a path, a lookup and a value.
Compares(v, op, val) ==
  CASE op = "exact" -> v = val
    [] op = "gte"   -> v # Null /\ v.v >= val.v
    [] op = "in"    -> v = val
Matches(row, c) == Compares(AtPath(row, c.path), c.op, c.val)
\* A comparison with NaN or None is false in a DataFrame.
FrameMatches(row, c) == row[c.path[1]] # Null /\ Matches(row, c)
\* exclude on a DataFrame turns the comparison round.
FrameExcludes(row, c) ==
  IF row[c.path[1]] = Null THEN c.op # "gte" ELSE ~Matches(row, c)

\* NULL is the least value of SQLite, and last in a DataFrame either way;
\* records with a descending key are sorted backwards by all of them.
NullsLeast(x, y, desc) ==
  IF desc THEN x # Null /\ (y = Null \/ x.v > y.v) ELSE y # Null /\ (x = Null \/ x.v < y.v)
NullsLast(x, y, desc) ==
  x # Null /\ (y = Null \/ (IF desc THEN x.v > y.v ELSE x.v < y.v))
Less(style, x, y, desc) ==
  CASE style = "sql" -> NullsLeast(x, y, desc)
    [] style = "frame" -> NullsLast(x, y, desc)
    [] style = "backwards" -> IF desc THEN NullsLast(x, y, TRUE) ELSE NullsLast(y, x, FALSE)

\* The rows by the keys, each a field and a direction; ties stay as they were.
SortedBy(rows, keys, style) ==
  LET before(i, j) ==
        \E k \in DOMAIN keys :
          /\ Less(style, Get(rows[i], keys[k].f), Get(rows[j], keys[k].f), keys[k].desc)
          /\ \A m \in 1..k - 1 : Get(rows[i], keys[m].f) = Get(rows[j], keys[m].f)
      ahead(i) == {j \in DOMAIN rows : before(j, i) \/ (j < i /\ ~before(i, j))}
  IN [k \in DOMAIN rows |-> rows[CHOOSE i \in DOMAIN rows : Cardinality(ahead(i)) = k - 1]]

\* The first row, or the last, of every value of the key.
Distinct(rows, fs, keep) ==
  LET same(i) == {j \in DOMAIN rows : \A f \in fs : Get(rows[j], f) = Get(rows[i], f)}
      kept == {i \in DOMAIN rows : \A j \in same(i) : IF keep = "last" THEN j <= i ELSE i <= j}
  IN [k \in 1..Cardinality(kept) |->
        rows[CHOOSE i \in kept : Cardinality({j \in kept : j <= i}) = k]]

\* Aggregates skip nulls; what the sum of nothing is depends on who adds up.
Aggregate(rows, a, ofNothing) ==
  LET known == SelectSeq(rows, LAMBDA r : Get(r, a.f) # Null)
      values == {known[i][a.f].v : i \in DOMAIN known}
      upTo[i \in 0..Len(known)] == IF i = 0 THEN 0 ELSE upTo[i - 1] + known[i][a.f].v
  IN CASE a.fn = "count" -> Val(Len(rows))
       [] a.fn = "max" -> IF known = <<>> THEN Null
                          ELSE Val(CHOOSE m \in values : \A v \in values : v <= m)
       [] a.fn = "sum" -> IF known = <<>> THEN ofNothing ELSE Val(upTo[Len(known)])

\* One row for every value of the keys, with the named aggregates.
GroupRows(rows, by, aggs, ofNothing) ==
  LET member(key) == SelectSeq(rows, LAMBDA r : \A f \in by : Get(r, f) = Get(key, f))
      group(key) == Merge([f \in by |-> Get(key, f)],
                          [out \in DOMAIN aggs |-> Aggregate(member(key), aggs[out], ofNothing)])
  IN Each(Distinct(rows, by, "first"), group)

-----------------------------------------------------------------------------
(* The three forms *)

Error == [kind |-> "error"]
Records(rows) == [kind |-> "records", rows |-> rows]
\* Every row of a DataFrame has every column.
Frame(rows, cols) == [kind |-> "df", cols |-> cols, rows |-> Each(rows, LAMBDA r : Fill(r, cols))]

NoLimit == 99
NoGroup == [by |-> {}, aggs |-> <<>>, having |-> {}]

\* Model.objects.all(): `rows` is what WHERE leaves, `known` the model's fields
\* and the annotations, `fields` the columns of SELECT.  With `values` it gives
\* dicts and else instances of the model; `cached` is one that was evaluated.
AllRows ==
  [kind |-> "qs", rows |-> table, known |-> Fields, fields |-> Fields, order |-> <<>>,
   distinct |-> FALSE, grouped |-> FALSE, group |-> NoGroup, limit |-> NoLimit,
   values |-> FALSE, cached |-> FALSE]

Sliced(q) == q.limit # NoLimit
Slice(q, n) == [q EXCEPT !.limit = IF n < @ THEN n ELSE @]
OrderFields(q) == {q.order[i].f : i \in DOMAIN q.order}

\* The rows of the statement.  Columns that are ordered by or selected take
\* part in GROUP BY, the first also in SELECT DISTINCT; LIMIT comes last.
Evaluate(q) ==
  LET key == q.group.by \cup ((OrderFields(q) \cup q.fields) \cap q.known)
      from == IF ~q.grouped THEN q.rows
              ELSE SelectSeq(GroupRows(q.rows, key, q.group.aggs, Null),
                             LAMBDA r : \A c \in q.group.having : Matches(r, c))
      ordered == SortedBy(from, q.order, "sql")
      chosen == IF q.distinct THEN Distinct(ordered, q.fields \cup OrderFields(q), "first")
                ELSE ordered
  IN FirstRows(Each(chosen, LAMBDA r : Keep(r, q.fields)), q.limit)

\* A slice of an evaluated QuerySet is a list of what it holds.  detect_kind
\* fails on instances of the model, which are then taken for no data; they show
\* the model's fields and nothing that was added to them.
CachedSlice(q, n) ==
  LET rows == FirstRows(Evaluate(q), n)
  IN IF q.values \/ rows = <<>> THEN Records(rows)
     ELSE [kind |-> "instances", rows |-> Each(rows, LAMBDA r : Keep(r, Fields))]
\* Any other use of it makes a new one.
Chained(d) == IF d.kind = "qs" THEN [d EXCEPT !.cached = FALSE] ELSE d

\* Slip: values() is called on a QuerySet that gives grouped dicts already.
Coerce_Again(d) ==
  IF d.kind = "error" THEN <<>>
  ELSE IF d.kind = "qs" THEN Evaluate([d EXCEPT !.fields = Fields, !.grouped = FALSE]) ELSE d.rows

\* coerce_to_list_of_dicts: what the data shows, a null in every missing column.
Coerce(d) ==
  LET rows == IF d.kind = "error" THEN <<>> ELSE IF d.kind = "qs" THEN Evaluate(d) ELSE d.rows
  IN Each(rows, LAMBDA r : Fill(r, Columns(rows)))

\* read_frame(queryset), pd.DataFrame(rows)
ToFrame(d) == CASE d.kind = "qs" -> Frame(Evaluate(d), d.fields)
                [] d.kind = "records" -> Frame(d.rows, Columns(d.rows))
                [] d.kind = "df" -> d

-----------------------------------------------------------------------------
(* The commands.  Each takes the data and its arguments and gives the data. *)

\* Whether the fields are there: a record that lacks one has None.
Has(d, fs) == CASE d.kind = "qs" -> fs \subseteq d.known \cup DOMAIN d.group.aggs
                [] d.kind = "df" -> fs \subseteq d.cols
                [] d.kind = "records" -> TRUE
KeyFields(keys) == {keys[i].f : i \in DOMAIN keys}

MayView(model) == model \in Viewable

\* search on a QuerySet: the one it gets is dropped for a new one.
SearchQuerySet(c) ==
  LET all(r) == \A i \in DOMAIN c.filters : Matches(r, c.filters[i])
      none(r) == \A i \in DOMAIN c.excludes : ~Matches(r, c.excludes[i])
  IN IF ~MayView(c.model) THEN Error
     ELSE [AllRows EXCEPT !.rows = SelectSeq(@, LAMBDA r : all(r) /\ none(r)),
                          !.order = c.keys,
                          !.fields = IF c.fields = {} THEN @ ELSE c.fields,
                          !.values = c.fields # {},
                          !.limit = c.limit]

\* search on a DataFrame: of the default model only; the sort comes after the
\* selection, and a limit of 0 is none.
SearchFrame(d, c) ==
  LET rows == SelectSeq(d.rows, LAMBDA r :
                /\ \A i \in DOMAIN c.filters : FrameMatches(r, c.filters[i])
                /\ \A i \in DOMAIN c.excludes : FrameExcludes(r, c.excludes[i]))
      chosen == IF c.fields = {} THEN d.cols ELSE c.fields
      paths == {c.filters[i].path[1] : i \in DOMAIN c.filters}
                 \cup {c.excludes[i].path[1] : i \in DOMAIN c.excludes} \cup c.fields
      limit == IF c.limit \in {0, NoLimit} \/ c.limit > MaxRows THEN MaxRows ELSE c.limit
  IN IF c.model # DefaultModel \/ ~Has(d, paths) \/ ~(KeyFields(c.keys) \subseteq chosen) THEN Error
     ELSE Frame(FirstRows(SortedBy(Each(rows, LAMBDA r : Keep(r, chosen)), c.keys, "frame"), limit),
                chosen)

\* Records are refused, because --model and --using always have a value.
SearchCmd(d, c) ==
  CASE d.kind \in {"none", "instances", "qs"} -> SearchQuerySet(c)
    [] d.kind = "df" -> SearchFrame(d, c)
    [] d.kind = "records" -> Error

\* filter: on a slice, and on a field that is not there, Django raises and the
\* rows go through a DataFrame.
FilterCmd(d, c) ==
  LET f == c.cond.path[1]
      frame(df) == IF Has(df, {f}) /\ Len(c.cond.path) = 1
                   THEN Frame(SelectSeq(df.rows, LAMBDA r : FrameMatches(r, c.cond)), df.cols)
                   ELSE Error
  IN CASE d.kind = "qs" ->
            IF Sliced(d) \/ ~Has(d, {f}) THEN frame(ToFrame(d))
            ELSE IF f \in d.known
                 THEN [d EXCEPT !.rows = SelectSeq(@, LAMBDA r : Matches(r, c.cond))]
                 ELSE [d EXCEPT !.group.having = @ \cup {c.cond}]
       [] d.kind = "df" -> frame(d)
       [] d.kind = "records" -> Records(SelectSeq(d.rows, LAMBDA r : Matches(r, c.cond)))

HeadCmd(d, c) ==
  IF d.kind # "qs" THEN [d EXCEPT !.rows = FirstRows(@, c.n)]
  ELSE IF d.cached THEN CachedSlice(d, c.n) ELSE Slice(d, c.n)

\* tail: Django has no negative slice, and len() evaluates the QuerySet.
TailCmd(d, c) ==
  IF d.kind # "qs" THEN [d EXCEPT !.rows = LastRows(@, c.n)]
  ELSE IF Len(Evaluate(d)) >= c.n THEN Error ELSE [d EXCEPT !.cached = TRUE]

\* sort: records with any descending key are sorted backwards by all of them.
SortCmd(d, c) ==
  IF ~Has(d, KeyFields(c.keys)) THEN Error
  ELSE CASE d.kind = "qs" -> IF Sliced(d) THEN Error ELSE [d EXCEPT !.order = c.keys]
         [] d.kind = "df" -> [d EXCEPT !.rows = SortedBy(@, c.keys, "frame")]
         [] d.kind = "records" ->
              Records(SortedBy(d.rows, c.keys, IF \E i \in DOMAIN c.keys : c.keys[i].desc
                                               THEN "backwards" ELSE "frame"))

DedupCmd(d, c) ==
  IF ~Has(d, c.fields) /\ d.kind = "df" THEN Error
  ELSE IF d.kind = "df" THEN [d EXCEPT !.rows = Distinct(@, c.fields, c.keep)]
  ELSE Records(Distinct(IF d.kind = "qs" THEN Coerce(d) ELSE d.rows, c.fields, c.keep))

\* unique: records keep the columns that are not named.
UniqueCmd(d, c) ==
  IF ~Has(d, c.fields) THEN Error
  ELSE CASE d.kind = "qs" -> IF Sliced(d) THEN Error
                             ELSE [d EXCEPT !.fields = c.fields, !.values = TRUE, !.distinct = TRUE]
         [] d.kind = "df" -> Frame(Distinct(Each(d.rows, LAMBDA r : Keep(r, c.fields)), c.fields, "first"),
                                   c.fields)
         [] d.kind = "records" -> Records(Distinct(d.rows, c.fields, "first"))

\* What select and drop leave; without a column left a QuerySet becomes a list
\* of empty records.
Project(d, fs) ==
  CASE d.kind = "qs" -> IF fs = {} THEN Records(Each(Evaluate(d), LAMBDA r : <<>>))
                        ELSE [d EXCEPT !.fields = fs, !.values = TRUE]
    [] d.kind = "df" -> Frame(d.rows, fs)
    [] d.kind = "records" -> Records(Each(d.rows, LAMBDA r : Keep(r, fs)))
Shows(d) == IF d.kind = "qs" THEN d.fields ELSE Columns(d.rows)
SelectCmd(d, c) == Project(d, c.fields \cap Shows(d))
DropCmd(d, c) == Project(d, Shows(d) \ c.fields)

RenameCmd(d, c) ==
  LET new(r) == [f \in (DOMAIN r \ {c.old}) \cup (IF c.old \in DOMAIN r THEN {c.new} ELSE {}) |->
                   IF f = c.new /\ c.old \in DOMAIN r THEN r[c.old] ELSE r[f]]
  IN IF d.kind = "records" THEN Records(Each(d.rows, new))
     ELSE Frame(Each(ToFrame(d).rows, new), DOMAIN new(Fill(<<>>, ToFrame(d).cols)))

FillNullCmd(d, c) ==
  LET filled(r) == [f \in DOMAIN r |-> IF f = c.field /\ r[f] = Null THEN c.val ELSE r[f]]
  IN CASE d.kind = "df" -> [d EXCEPT !.rows = Each(@, filled)]
       [] d.kind = "qs" -> Records(Each(Coerce(d), filled))
       [] d.kind = "records" -> Records(Each(d.rows, filled))

\* event_split: one row for every item of an array, none for an empty one.
EventSplitCmd(d, c) ==
  LET split(r) == IF ~IsArr(Get(r, c.field)) THEN <<r>>
                  ELSE Each(r[c.field].arr, LAMBDA item : [r EXCEPT ![c.field] = item])
      rows == IF d.kind = "qs" THEN Evaluate(d) ELSE d.rows
      result == Seqs!FlattenSeq(Each(rows, split))
  IN IF d.kind = "df" THEN Frame(result, d.cols) ELSE Records(result)

\* json_normalize: the keys of objects in an object as well, joined by a dot.
RECURSIVE Flattened(_)
Flattened(object) ==
  LET inner(k) == Flattened(object[k].map)
      name(k, m) == k \o "." \o m
      nested == {k \in DOMAIN object : IsMap(object[k])}
      below == UNION {{<<k, m>> : m \in DOMAIN inner(k)} : k \in nested}
  IN [f \in (DOMAIN object \ nested) \cup {name(km[1], km[2]) : km \in below} |->
        IF f \in DOMAIN object THEN object[f]
        ELSE LET km == CHOOSE x \in below : f = name(x[1], x[2]) IN inner(km[1])[km[2]]]

\* explode: the keys of an object become columns.  A QuerySet looks for keys in
\* its first rows only, and gets a column of nulls where a row lacks the key; an
\* evaluated one has no values_list() after the slice.
ExplodeCmd(d, c) ==
  LET object(r) == IF IsMap(Get(r, c.field)) THEN r[c.field].map ELSE <<>>
      column(k) == c.field \o "_" \o k
      flat(r, obj, ks) == Merge(Keep(r, DOMAIN r \ {c.field}),
                                [f \in {column(k) : k \in ks} |->
                                   Get(obj, CHOOSE k \in ks : f = column(k))])
      seen == Evaluate([d EXCEPT !.fields = {c.field}, !.limit = IF Sample < @ THEN Sample ELSE @])
      keys == UNION {DOMAIN object(seen[i]) : i \in DOMAIN seen}
      named == {column(k) : k \in keys}
      frameKeys == UNION {DOMAIN Flattened(object(d.rows[i])) : i \in DOMAIN d.rows}
  IN CASE d.kind = "qs" ->
            IF d.cached \/ ~Has(d, {c.field}) THEN Error
            ELSE Project([d EXCEPT !.rows = Each(@, LAMBDA r : Merge(r, flat(r, object(r), keys))),
                                   !.known = @ \cup named, !.fields = @ \cup named],
                         (d.fields \cup named) \ {c.field})
       [] d.kind = "df" ->
            IF c.field \notin d.cols THEN d
            ELSE Frame(Each(d.rows, LAMBDA r : flat(r, Flattened(object(r)), frameKeys)),
                       (d.cols \ {c.field}) \cup {column(k) : k \in frameKeys})
       [] d.kind = "records" -> Records(Each(d.rows, LAMBDA r : flat(r, object(r), DOMAIN object(r))))

\* values(*fields).annotate(**aggregates)
GroupQuery(q, fs, aggs) ==
  [q EXCEPT !.fields = fs \cup DOMAIN aggs, !.values = TRUE, !.grouped = TRUE,
            !.group = [by |-> fs, aggs |-> Merge(@.aggs, aggs), having |-> @.having]]

\* groupby: one row for every value of the fields.  Another aggregate than the
\* count fails but on a QuerySet; a DataFrame loses the rows without a key.
GroupByCmd(d, c) ==
  LET whole(r) == \A f \in c.fields : r[f] # Null
      counts == \A out \in DOMAIN c.aggs : c.aggs[out].fn = "count"
  IN IF ~Has(d, c.fields) \/ (d.kind # "qs" /\ ~counts) THEN Error
     ELSE CASE d.kind = "qs" -> GroupQuery(d, c.fields, c.aggs)
            [] d.kind = "df" -> Frame(GroupRows(SelectSeq(d.rows, whole), c.fields, c.aggs, Val(0)),
                                      c.fields \cup DOMAIN c.aggs)
            [] d.kind = "records" -> Records(GroupRows(d.rows, c.fields, c.aggs, Val(0)))

\* stats: without --by the result is one record, whatever the data was.  The
\* sum of no values is NULL in SQL, and 0 elsewhere.
StatsCmd(d, c) ==
  LET rows == IF d.kind = "qs" THEN Evaluate(d) ELSE d.rows
      ofNothing == IF d.kind = "qs" THEN Null ELSE Val(0)
      needs == c.fields \cup ({c.aggs[out].f : out \in DOMAIN c.aggs} \ {""})
  IN IF ~Has(d, needs) THEN Error
     ELSE IF c.fields = {}
     THEN Records(<<[out \in DOMAIN c.aggs |-> Aggregate(rows, c.aggs[out], ofNothing)]>>)
     ELSE CASE d.kind = "qs" -> GroupQuery(d, c.fields, c.aggs)
            [] d.kind = "df" -> Frame(GroupRows(rows, c.fields, c.aggs, ofNothing), c.fields \cup DOMAIN c.aggs)
            [] d.kind = "records" -> Records(GroupRows(rows, c.fields, c.aggs, ofNothing))

\* Expressions, as evaluate_node leaves them: a constant, a bare name, a call
\* of a function, an operator and its operands.
Constant(i) == [form |-> "constant", val |-> Val(i)]
Name(f) == [form |-> "name", f |-> f]
Call(fn, arg) == [form |-> "call", fn |-> fn, arg |-> arg]
Binary(op, l, r) == [form |-> "binary", op |-> op, l |-> l, r |-> r]
Negative(e) == [form |-> "negative", arg |-> e]

\* The functions of each form, some of many.
Functions(kind) == {"Lower", "Value"} \cup (IF kind = "qs" THEN {"F", "Q", "Abs"} ELSE {})
Arithmetic == {"+", "-", "*"}

RECURSIVE Accepted(_), Constants(_), SqlValue(_, _)

\* Whether convert_to_django_expression makes something that annotate takes: a
\* bare name stays a string, and conditions are joined, never added.
Condition(e) == \/ e.form = "call" /\ e.fn = "Q"
                \/ e.form = "binary" /\ e.op \in {"|", "&", "^"}
Accepted(e) ==
  CASE e.form = "constant" -> TRUE
    [] e.form = "name" -> FALSE
    [] e.form = "call" -> e.fn \in Functions("qs") /\ (e.fn \in {"F", "Q"} \/ Accepted(e.arg))
    [] e.form = "negative" -> Accepted(e.arg) /\ ~Condition(e.arg)
    [] e.form = "binary" -> /\ Accepted(e.l) /\ Accepted(e.r)
                            /\ Condition(e.l) = (e.op \notin Arithmetic)
                            /\ Condition(e.r) = (e.op \notin Arithmetic)
Constants(e) ==
  CASE e.form = "constant" -> TRUE
    [] e.form \in {"name", "call"} -> FALSE
    [] e.form = "negative" -> Constants(e.arg)
    [] e.form = "binary" -> Constants(e.l) /\ Constants(e.r)

\* What the database computes in a row.  `^` is translated to `&`.
Joined(op, x, y) == CASE op = "|" -> x \/ y [] op \in {"&", "^"} -> x /\ y
Computed(op, x, y) == CASE op = "+" -> x + y [] op = "-" -> x - y [] op = "*" -> x * y
SqlValue(e, r) ==
  CASE e.form = "constant" -> e.val
    [] e.form = "call" -> IF e.fn = "F" THEN Get(r, e.arg.f)
                          ELSE IF e.fn = "Q" THEN [holds |-> Matches(r, e.arg)]
                          ELSE LET x == SqlValue(e.arg, r)
                               IN IF e.fn = "Abs" /\ x # Null /\ x.v < 0 THEN Val(-x.v) ELSE x
    [] e.form = "negative" -> LET x == SqlValue(e.arg, r) IN IF x = Null THEN Null ELSE Val(-x.v)
    [] e.form = "binary" ->
         LET x == SqlValue(e.l, r)  y == SqlValue(e.r, r)
         IN IF Condition(e.l) THEN [holds |-> Joined(e.op, x.holds, y.holds)]
            ELSE IF x = Null \/ y = Null THEN Null ELSE Val(Computed(e.op, x.v, y.v))

\* annotate: only a QuerySet evaluates the expression.  The other forms store
\* in every row what was made for a QuerySet: a constant, a bare name as a
\* string, else the expression itself.
AnnotateCmd(d, c) ==
  LET with(x) == (c.out :> x)
      stored(r) == Merge(r, with(IF Constants(c.expr) THEN SqlValue(c.expr, <<>>)
                                 ELSE [expression |-> c.expr]))
  IN CASE d.kind = "qs" -> IF ~Accepted(c.expr) THEN Error
                           ELSE [d EXCEPT !.rows = Each(@, LAMBDA r : Merge(r, with(SqlValue(c.expr, r)))),
                                          !.known = @ \cup {c.out}, !.fields = @ \cup {c.out}]
       [] d.kind = "df" -> Frame(Each(d.rows, stored), d.cols \cup {c.out})
       [] d.kind = "records" -> Records(Each(d.rows, stored))

\* merge of two DataFrames: a column of both that is not joined on gets the
\* suffix of its side.
Suffixed(r, both, suffix) ==
  [f \in (DOMAIN r \ both) \cup {g \o suffix : g \in DOMAIN r \cap both} |->
     IF f \in DOMAIN r \ both THEN r[f] ELSE r[CHOOSE g \in both : f = g \o suffix]]
MergedRows(L, R, on, how, both) ==
  LET same(r, t) == \A f \in on : r[f] = t[f]
      left(r) == Suffixed(r, both, "_x")
      right(t) == Suffixed(t, both, "_y")
      joined(r, hits) == IF hits = <<>> /\ how \in {"left", "outer"} THEN <<left(r)>>
                         ELSE Each(hits, LAMBDA t : Merge(right(t), left(r)))
      alone(t) == how \in {"right", "outer"} /\ \A i \in DOMAIN L : ~same(L[i], t)
  IN Seqs!FlattenSeq(Each(L, LAMBDA r : joined(r, SelectSeq(R, LAMBDA t : same(r, t)))))
       \o Each(SelectSeq(R, alone), right)
MergeFrames(L, R, on, how) ==
  LET both == (L.cols \cap R.cols) \ on
  IN IF ~(on \subseteq L.cols \cap R.cols) THEN Error
     ELSE Frame(MergedRows(L.rows, R.rows, on, how, both),
                (L.cols \cup R.cols \cup {g \o x : g \in both, x \in {"_x", "_y"}}) \ both)

\* join: the data and what the search finds, both as DataFrames.
JoinWith(d, c, found) ==
  IF found.kind = "error" THEN Error
  ELSE MergeFrames(ToFrame(d), Frame(FirstRows(Evaluate(found), MaxRows), found.fields), c.on, c.how)
JoinCmd(d, c) == JoinWith(d, c, SearchCmd([kind |-> "none"], c))

\* One stage of run_pipeline.  Without data, and with data of no known kind, it
\* is run_none, which all commands but search refuse.
Run(data0, c) ==
  LET d == IF c.cmd \in {"head", "tail", "explode"} THEN data0 ELSE Chained(data0) IN
  IF d.kind \in {"none", "instances"} /\ c.cmd # "search" THEN Error
  ELSE CASE c.cmd = "search" -> SearchCmd(d, c)
         [] c.cmd = "filter" -> FilterCmd(d, c)
         [] c.cmd = "head" -> HeadCmd(d, c)
         [] c.cmd = "tail" -> TailCmd(d, c)
         [] c.cmd = "sort" -> SortCmd(d, c)
         [] c.cmd = "dedup" -> DedupCmd(d, c)
         [] c.cmd = "unique" -> UniqueCmd(d, c)
         [] c.cmd = "select" -> SelectCmd(d, c)
         [] c.cmd = "drop" -> DropCmd(d, c)
         [] c.cmd = "rename" -> RenameCmd(d, c)
         [] c.cmd = "fillnull" -> FillNullCmd(d, c)
         [] c.cmd = "event_split" -> EventSplitCmd(d, c)
         [] c.cmd = "explode" -> ExplodeCmd(d, c)
         [] c.cmd = "groupby" -> GroupByCmd(d, c)
         [] c.cmd = "stats" -> StatsCmd(d, c)
         [] c.cmd = "annotate" -> AnnotateCmd(d, c)
         [] c.cmd = "join" -> JoinCmd(d, c)
         [] c.cmd = "to_dataframe" -> ToFrame(d)

SearchInit ==
  /\ table \in Tables
  /\ data = [kind |-> "none"]
  /\ stages = 0

RunStage ==
  /\ data.kind # "error" /\ stages < MaxStages
  /\ \E c \in Commands : data' = Run(data, c)
  /\ stages' = stages + 1
  /\ UNCHANGED table

\* The end of run_pipeline: at most MAX_ROWS rows, cut off as head does.
Finish ==
  /\ data.kind \in {"qs", "df", "records", "instances"} /\ stages <= MaxStages
  /\ data' = HeadCmd(data, [n |-> MaxRows])
  /\ stages' = MaxStages + 1
  /\ UNCHANGED table

SearchNext == RunStage \/ Finish

-----------------------------------------------------------------------------

\* What a stage means for the rows that the stage before it shows.
Meaning(rows, c) ==
  CASE c.cmd = "sort" -> SortedBy(rows, c.keys, "frame")
    [] c.cmd = "unique" -> Distinct(Each(rows, LAMBDA r : Keep(r, c.fields)), c.fields, "first")
    [] c.cmd = "annotate" -> Each(rows, LAMBDA r : Merge(r, (c.out :> SqlValue(c.expr, r))))
    [] OTHER -> Run(Records(rows), c).rows

\* The same rows, in the same order unless rows were grouped.
SameRows(a, b, ordered) ==
  LET plain(r) == Keep(r, {f \in DOMAIN r : r[f] # Null})
      times(rows, r) == Cardinality({i \in DOMAIN rows : plain(rows[i]) = plain(r)})
  IN IF ordered THEN Each(a, plain) = Each(b, plain)
     ELSE Len(a) = Len(b) /\ \A i \in DOMAIN a : times(a, a[i]) = times(b, a[i])

Means(after, rows, ordered) == after.kind = "error" \/ SameRows(Coerce(after), rows, ordered)

Named(c) ==
  CASE c.cmd = "filter" -> {c.cond.path[1]}
    [] c.cmd = "sort" -> KeyFields(c.keys)
    [] c.cmd \in {"unique", "groupby"} -> c.fields
    [] c.cmd = "stats" -> c.fields \cup ({c.aggs[out].f : out \in DOMAIN c.aggs} \ {""})
    [] c.cmd = "explode" -> {c.field}
    [] OTHER -> {}
Grouping(c) == c.cmd \in {"groupby", "stats"} /\ c.fields # {}
\* A slice of these loses the columns that were added.
Loses(d) == d.kind = "qs" /\ d.cached /\ ~d.values /\ ~(d.fields \subseteq Fields)
\* The sum of a group, or of everything, that has no value to add.
SumsNothing(rows, c) ==
  \E out \in DOMAIN c.aggs :
    /\ c.aggs[out].fn = "sum"
    /\ LET group(key) == {i \in DOMAIN rows : \A f \in c.fields : Get(rows[i], f) = Get(key, f)}
           none(is) == \A i \in is : Get(rows[i], c.aggs[out].f) = Null
       IN IF c.fields = {} THEN none(DOMAIN rows) ELSE \E i \in DOMAIN rows : none(group(rows[i]))
Nests(rows, f) ==
  \E i \in DOMAIN rows :
    LET x == Get(rows[i], f) IN IsMap(x) /\ \E k \in DOMAIN x.map : IsMap(x.map[k])
HasNull(rows, fs) == \E i \in DOMAIN rows : \E f \in fs : Get(rows[i], f) = Null

\* Where the forms agree.  A QuerySet is one SQL statement, and what a stage
\* adds to it acts where SQL puts it: grouping comes before DISTINCT, LIMIT and
\* an earlier GROUP BY, takes in the columns of an earlier sort, and a column
\* that is not shown can still be named.  A slice after tail is a list of
\* instances, the sum of nothing is not the same everywhere, and a DataFrame
\* explodes objects in objects too.
Composes(d, c) ==
  LET rows == Coerce(d) IN
  /\ c.cmd \notin {"search", "join"}
  /\ d.kind = "qs" =>
       /\ Named(c) \subseteq Shows(d)
       /\ Grouping(c) => ~Sliced(d) /\ ~d.distinct /\ ~d.grouped /\ OrderFields(d) \subseteq c.fields
       /\ c.cmd = "unique" => OrderFields(d) \subseteq c.fields
       /\ c.cmd \in {"select", "drop", "explode"} => ~d.distinct
       /\ c.cmd \in {"select", "drop", "explode", "unique"} /\ d.grouped =>
            d.fields \cap d.known \subseteq d.group.by
       /\ c.cmd = "explode" => Len(d.rows) <= Sample
       /\ c.cmd = "head" => ~Loses(d)
       /\ c.cmd = "stats" => ~SumsNothing(rows, c)
  /\ d.kind = "df" /\ c.cmd = "explode" => ~Nests(rows, c.field)
  /\ d.kind = "df" /\ c.cmd = "groupby" => ~HasNull(rows, c.fields)
  /\ c.cmd = "annotate" => d.kind = "qs" /\ ~d.grouped /\ ~d.distinct
  /\ d.kind = "records" => c.cmd # "unique" /\ (c.cmd = "sort" => Len(c.keys) = 1)
  /\ c.cmd = "sort" => ~HasNull(rows, KeyFields(c.keys))

\* A pipe means what it says: a stage shows what it makes of the rows the stage
\* before it showed, in whatever form they were, or it is refused; and the end
\* shows the first of the rows that the last stage showed.
StagesCompose ==
  data.kind \in {"qs", "df", "records"} =>
    /\ \A c \in Commands :
         Composes(data, c) => Means(Run(data, c), Meaning(Coerce(data), c), ~Grouping(c))
    /\ Loses(data) \/ Means(HeadCmd(data, [n |-> MaxRows]), FirstRows(Coerce(data), MaxRows), TRUE)
=============================================================================

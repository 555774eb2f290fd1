-------------------------------- MODULE Query --------------------------------
(***************************************************************************)
(* Query execution (src/query.go): a structured query reads every record   *)
(* of one collection and applies WHERE, GROUP BY with aggregates, HAVING,  *)
(* ORDER BY, OFFSET, LIMIT and the projection in memory.  A caller pages   *)
(* through the answer: it repeats the query with the offset moved past the *)
(* rows it has, until a page is empty.  Nothing is kept between two pages: *)
(* every page reads the files again, and the records of a map-of-records   *)
(* file arrive in the iteration order of a Go map, another one each time.  *)
(* The rows come as records or, from the other entry point, as a recordset *)
(* (src/tx_readonly.go).                                                   *)
(*                                                                         *)
(* A value is a record: its dynamic type, its number when it is one, and   *)
(* its text, the rank of its %v rendering in byte order.  Stored numbers   *)
(* are 0 to 99; "<nil>" sorts above every number and below every letter.   *)
(* A number counts units of which all stored ones are multiples, so that a *)
(* float64 is an integer, exact up to the constant Exact (2^53 of its last *)
(* place).  Lists and maps may render alike, as ["a b"] and ["a", "b"] do; *)
(* num tells them apart.                                                   *)
(* A row holds its key (a string value) and its data, stored and computed  *)
(* fields alike; a field missing from the data reads as nil.               *)
(*                                                                         *)
(* A condition is the sequence of its parts, innermost first: a group of   *)
(* conditions names the positions of its members, and the last part is the *)
(* whole.                                                                  *)
(*                                                                         *)
(* Not modelled: AVERAGE, constants as grouping or projected expressions,  *)
(* the evaluator of the access library that a protected database uses for  *)
(* WHERE (here a condition "admits": the keys it admits, and whether the   *)
(* database refuses the predicate, as it does one on the key).             *)
(***************************************************************************)
EXTENDS Lists

CONSTANTS
    Tables,     \* [kind, rows, readable]: the collections a query may read
    Queries,    \* [where, groupBy, columns, having, orderBy, limit, reader]
    Exact,      \* every integer up to it is a float64
    Pieces,     \* [first, rest] of every text with NUL bytes: what they separate
    MaxAnswer   \* a caller that has this many rows asks for no further page

VARIABLES
    table,      \* the collection, unchanged while the caller pages
    query,      \* the query, but for its offset
    answer,     \* the rows of the pages returned so far
    status      \* "paging", "done" (an empty page came) or "error"

vars == <<table, query, answer, status>>

-----------------------------------------------------------------------------
(* Values                                                                  *)

Nil == [type |-> "nil", num |-> 0, text |-> 110]

\* The rank of a number's decimal rendering: 1 < 10 < ... < 19 < 2 < 20.  Numbers
\* beyond 99, which only sums reach, rank with 99, below nil and every letter.
NumberText(n) == IF n < 10 THEN 11 * n
                 ELSE IF n < 100 THEN 11 * (n \div 10) + 1 + (n % 10)
                 ELSE 109

Number(type, n) == [type |-> type, num |-> n, text |-> NumberText(n)]

\* The float64 next to an integer: beyond Exact the multiples of 2, of 4 and so
\* on, half way the even one.
Float64 == [n \in Nat |->
    IF n <= Exact THEN n
    ELSE LET unit  == 2 ^ (CHOOSE k \in 1..n : Exact * 2 ^ (k - 1) < n /\ n <= Exact * 2 ^ k)
             below == n \div unit
             rest  == 2 * (n % unit)
         IN  unit * (IF rest < unit \/ (rest = unit /\ below % 2 = 0) THEN below ELSE below + 1)]

\* No two of these of one type render alike.
IsScalar(v) == v.type \in {"nil", "int", "float64", "bool", "string"}

\* toFloat64 converts it.
IsNumber(v) == v.type \in {"int", "float64"}

Sign(n) == IF n < 0 THEN -1 ELSE IF n > 0 THEN 1 ELSE 0

\* compareValues: by number when both are numbers, by rendered text otherwise.
CompareValues(a, b) ==
    IF IsNumber(a) /\ IsNumber(b) THEN Sign(a.num - b.num) ELSE Sign(a.text - b.text)

\* A data map read at a name it may not hold.
FieldOf(data, name) == IF name \in DOMAIN data THEN data[name] ELSE Nil

\* resolveExpression and resolveSimpleExpr: a field, the key, or a constant.
Resolve(e, row) ==
    IF e.op = "const" THEN e.value
    ELSE IF e.name = "$id" THEN row.key ELSE FieldOf(row.data, e.name)

-----------------------------------------------------------------------------
(* Conditions.  A verdict is "yes", "no" or "error": an operator or a kind *)
(* of condition that is not supported fails the whole query.               *)

Verdict(b) == IF b THEN "yes" ELSE "no"

Comparisons == {"==", ">", ">=", "<", "<="}

Related(op, cmp) ==
    CASE op = "==" -> cmp = 0
      [] op = ">"  -> cmp > 0
      [] op = ">=" -> cmp >= 0
      [] op = "<"  -> cmp < 0
      [] op = "<=" -> cmp <= 0

\* evaluateGroupCondition, and the group case of matchesHavingCondition: the
\* first verdict that decides, or fails, is the verdict; later ones are not
\* evaluated.
Combine(op, verdicts) ==
    LET undecided == IF op = "and" THEN "yes" ELSE "no"
        deciding  == {i \in DOMAIN verdicts : verdicts[i] # undecided}
    IN  IF deciding = {} THEN undecided ELSE verdicts[Min(deciding)]

Groups == {"and", "or"}

\* The verdict of the whole, given those of the parts that are no groups.
Evaluate(c, simple) ==
    LET verdict[i \in DOMAIN c] ==
            IF c[i].op \in Groups
            THEN Combine(c[i].op, [k \in DOMAIN c[i].conds |-> verdict[c[i].conds[k]]])
            ELSE simple[i]
    IN  verdict[Len(c)]

\* IN never finds nil, and NOT IN is false of nil.
EvaluateIn(p, left) ==
    LET found == \E i \in DOMAIN p.items :
                    /\ p.items[i] # Nil /\ left # Nil
                    /\ CompareValues(left, p.items[i]) = 0
    IN  Verdict(IF p.op = "in" THEN found ELSE ~found /\ left # Nil)

\* evaluateComparison and the null test.  "admits" stands for the external
\* evaluator.
EvaluateSimple(p, row) ==
    CASE p.op \in Comparisons ->
            Verdict(Related(p.op, CompareValues(Resolve(p.left, row), Resolve(p.right, row))))
      [] p.op \in {"in", "not in"} -> EvaluateIn(p, Resolve(p.left, row))
      [] p.op = "is null" -> Verdict((Resolve(p.left, row) = Nil) # p.negated)
      [] p.op = "admits" -> Verdict(row.key \in p.keys)
      [] OTHER -> "error"

EvaluateCondition(c, row) == Evaluate(c, [i \in DOMAIN c |-> EvaluateSimple(c[i], row)])

-----------------------------------------------------------------------------
(* Reading, ordering, paging                                               *)

\* filepath.Glob sorts the files of single records by name, a list keeps the
\* order of its file, the range over the parsed map of records may take any.
ReadOrders(t) ==
    LET rows  == ToSet(t.rows)
        named == {p \in rows \X rows : CompareValues(p[1].key, p[2].key) < 0}
    IN  CASE t.kind = "map" -> SetToSeqs(rows)
          [] t.kind = "single" -> {SliceStable(t.rows, named)}
          [] OTHER -> {t.rows}

\* The read fails on damaged content and on a list that repeats an ID.
ReadFails(t) ==
    \/ ~t.readable
    \/ t.kind = "list" /\ ~IsInjective([i \in DOMAIN t.rows |-> t.rows[i].key])

\* The first ordering that tells the two apart decides; u and v are the values
\* the orderings look at.
LessBy(orderBy, u, v) ==
    \E i \in DOMAIN orderBy :
        /\ \A j \in 1..(i - 1) : CompareValues(u[j], v[j]) = 0
        /\ IF orderBy[i].desc THEN CompareValues(u[i], v[i]) > 0 ELSE CompareValues(u[i], v[i]) < 0

FieldValue(name, row) == Resolve([op |-> "field", name |-> name], row)

OrderValues(orderBy, row) == [i \in DOMAIN orderBy |-> FieldValue(orderBy[i].name, row)]

RowLess(orderBy, r, s) == LessBy(orderBy, OrderValues(orderBy, r), OrderValues(orderBy, s))

ApplyOrderBy(orderBy, rows) ==
    SliceStable(rows, {p \in ToSet(rows) \X ToSet(rows) : RowLess(orderBy, p[1], p[2])})

\* Mutant: the limit cuts the rows before the offset is applied.
PageLimitFirst(rows, offset, limit) ==
    LET cut == IF limit > 0 /\ Len(rows) > limit THEN SubSeq(rows, 1, limit) ELSE rows IN
    SubSeq(cut, offset + 1, Len(cut))

\* Offset, then limit; a limit that is not positive is none.
Page(rows, offset, limit) ==
    LET rest == SubSeq(rows, offset + 1, Len(rows)) IN
    IF limit > 0 /\ Len(rest) > limit THEN SubSeq(rest, 1, limit) ELSE rest

\* A column may stand for all columns, or all but some.
Wildcard(q) == \E i \in DOMAIN q.columns : q.columns[i].expr.op = "all"

\* columnOutKey names the columns; the last one of a name stays.
OutNames(columns) == {columns[i].name : i \in DOMAIN columns}

ColumnOf(columns, name) == columns[Max({i \in DOMAIN columns : columns[i].name = name})].expr

\* applyProjectionContext; without columns the data is returned as it is.
Project(columns, row) ==
    IF columns = <<>> THEN row
    ELSE [row EXCEPT !.data = [n \in OutNames(columns) |-> Resolve(ColumnOf(columns, n), row)]]

-----------------------------------------------------------------------------
(* GROUP BY                                                                *)

\* Mutant: the group key renders the values without their types.
GroupKeyText(groupBy, row) == [i \in DOMAIN groupBy |-> FieldValue(groupBy[i], row).text]

\* "%T:%v" of a value, at its NUL bytes.
Segments(v) ==
    IF v.text \in DOMAIN Pieces
    THEN <<<<v.type, Pieces[v.text].first>>>> \o Pieces[v.text].rest
    ELSE <<<<v.type, v.text>>>>

\* groupKeyStr: "%T:%v" of every grouping expression, joined by NUL.
GroupKey(groupBy, row) ==
    FlattenSeq([i \in DOMAIN groupBy |-> Segments(FieldValue(groupBy[i], row))])

\* Groups in the order in which their first rows are read.
Partition(groupBy, rows) ==
    LET key(i) == GroupKey(groupBy, rows[i])
        firsts == Kept([i \in DOMAIN rows |-> i],
                       {i \in DOMAIN rows : \A j \in 1..(i - 1) : key(j) # key(i)})
    IN  [g \in DOMAIN firsts |->
            Kept(rows, {r \in ToSet(rows) : GroupKey(groupBy, r) = key(firsts[g])})]

\* The first of the best values: a later equal one does not replace it.
Best(op, values) ==
    LET best[i \in DOMAIN values] ==
            IF i = 1 THEN values[1]
            ELSE LET c == CompareValues(values[i], best[i - 1]) IN
                 IF (op = "min" /\ c < 0) \/ (op = "max" /\ c > 0) THEN values[i] ELSE best[i - 1]
    IN  best[Len(values)]

\* evalAggregate: only COUNT(*) counts the nils, and a SUM, MIN or MAX of no
\* value is nil; a SUM is rounded at every row, in the order they are read.
EvalAggregate(e, rows) ==
    LET values  == [i \in DOMAIN rows |-> FieldOf(rows[i].data, e.name)]
        present == Kept(values, ToSet(values) \ {Nil})
        numbers == Kept(values, {v \in ToSet(values) : IsNumber(v)})
    IN  CASE e.op = "count" -> Number("int", IF e.name = "*" THEN Len(rows) ELSE Len(present))
          [] e.op = "sum" -> IF numbers = <<>> THEN Nil
                             ELSE Number("float64", Total([i \in DOMAIN numbers |-> numbers[i].num], Float64))
          [] e.op \in {"min", "max"} -> IF present = <<>> THEN Nil ELSE Best(e.op, present)

\* resolveGroupExpr: a field, "$id" too, is looked up in the first row's data.
ResolveGroup(e, rows) ==
    CASE e.op = "field" -> FieldOf(rows[1].data, e.name)
      [] e.op = "const" -> e.value
      [] OTHER -> EvalAggregate(e, rows)

GroupOut(columns, rows) == [n \in OutNames(columns) |-> ResolveGroup(ColumnOf(columns, n), rows)]

\* resolveHavingExpr: a name is an output column before it is a field.
ResolveHaving(e, group) ==
    IF e.op = "field" /\ e.name \in DOMAIN group.out THEN group.out[e.name]
    ELSE ResolveGroup(e, group.rows)

\* matchesHavingCondition knows comparisons and groups of conditions only.
MatchesSimple(p, group) ==
    IF p.op \in Comparisons
    THEN Verdict(Related(p.op, CompareValues(ResolveHaving(p.left, group), ResolveHaving(p.right, group))))
    ELSE "error"

MatchesHaving(c, group) == Evaluate(c, [i \in DOMAIN c |-> MatchesSimple(c[i], group)])

-----------------------------------------------------------------------------
(* executeQueryToRecordsReader                                             *)

Failed == [rows |-> <<>>, failed |-> TRUE]

Returned(rows) == [rows |-> rows, failed |-> FALSE]

OutValues(orderBy, out) == [i \in DOMAIN orderBy |-> FieldOf(out, orderBy[i].name)]

GroupLess(orderBy, out, other) == LessBy(orderBy, OutValues(orderBy, out), OutValues(orderBy, other))

\* applyGroupByContext; the records of a page are keyed "0", "1", ... anew.
ApplyGroupBy(q, rows, offset) ==
    LET parts   == Partition(q.groupBy, rows)
        groups  == [g \in DOMAIN parts |-> [rows |-> parts[g], out |-> GroupOut(q.columns, parts[g])]]
        verdict(g) == MatchesHaving(q.having, g)
        kept    == Kept(groups, {g \in ToSet(groups) : verdict(g) = "yes"})
        ordered == SliceStable(kept, {p \in ToSet(kept) \X ToSet(kept) :
                                        GroupLess(q.orderBy, p[1].out, p[2].out)})
        page    == Page(ordered, offset, q.limit)
    IN  IF (Wildcard(q) /\ rows # <<>>) \/ \E g \in ToSet(groups) : verdict(g) = "error" THEN Failed
        ELSE Returned([i \in DOMAIN page |-> [key |-> Number("int", i - 1), data |-> page[i].out]])

ApplyWhere(q, rows) == Kept(rows, {r \in ToSet(rows) : EvaluateCondition(q.where, r) = "yes"})

\* ExecuteQueryToRecordsetReader without selected columns, or with a wildcard
\* among them, builds the recordset of the whole collection: no condition,
\* order, offset or limit is applied, and no column left out.
WholeCollection(q) == q.reader = "recordset" /\ (q.columns = <<>> \/ Wildcard(q))

\* The records reader has no expression for a wildcard, once it has a row.
Execute(q, rows, offset) ==
    LET matching == ApplyWhere(q, rows)
        page     == Page(ApplyOrderBy(q.orderBy, matching), offset, q.limit)
    IN  IF \E r \in ToSet(rows) : EvaluateCondition(q.where, r) = "error" THEN Failed
        ELSE IF q.groupBy # <<>> THEN ApplyGroupBy(q, matching, offset)
        ELSE IF Wildcard(q) /\ page # <<>> THEN Failed
        ELSE Returned([i \in DOMAIN page |-> Project(q.columns, page[i])])

\* A protected database refuses a predicate on the key, and one its evaluator
\* does not validate, before it reads.
Refused(q) == LET whole == q.where[Len(q.where)] IN whole.op = "admits" /\ whole.refused

\* A collection that is not in the definition has no records, but no recordset
\* either; a grouped query has no recordset.
Outcomes ==
    CASE query.reader = "recordset" /\ query.groupBy # <<>> -> {Failed}
      [] WholeCollection(query) ->
            IF table.kind = "none" \/ ReadFails(table) THEN {Failed}
            ELSE {Returned(rows) : rows \in ReadOrders(table)}
      [] table.kind = "none" -> {Returned(<<>>)}
      [] Refused(query) \/ ReadFails(table) -> {Failed}
      [] OTHER -> {Execute(query, rows, Len(answer)) : rows \in ReadOrders(table)}

-----------------------------------------------------------------------------
(* What the constants are                                                  *)

IsValue(v) ==
    \/ v = Nil
    \/ /\ v.num \in 0..99 /\ Float64[v.num] = v.num
       /\ \E t \in {"int", "float64"} : v = Number(t, v.num)
    \/ /\ v.type \in STRING \ {"nil", "int", "float64"} /\ v.text \in Int /\ v.num \in Int
       /\ v = [type |-> v.type, num |-> v.num, text |-> v.text]
       /\ IsScalar(v) => v.num = 0

IsRow(r) ==
    /\ r = [key |-> r.key, data |-> r.data]
    /\ IsValue(r.key) /\ r.key.type = "string"
    /\ DOMAIN r.data \subseteq STRING /\ \A f \in DOMAIN r.data : IsValue(r.data[f])

HasUniqueKeys(t) == \A i, j \in DOMAIN t.rows : t.rows[i].key = t.rows[j].key => i = j

ASSUME ValuesAssumption ==
    /\ Exact \in Nat \ {0}
    /\ \A t \in DOMAIN Pieces :
        /\ t \in Int \ 0..Nil.text
        /\ Pieces[t].rest \in Seq(ToSet(Pieces[t].rest)) \ {<<>>}

\* Files of one directory have different names, and so do the members of a map.
ASSUME TablesAssumption ==
    \A t \in Tables :
        /\ t.kind \in {"map", "single", "list", "none"}
        /\ t.rows \in Seq(ToSet(t.rows)) /\ \A r \in ToSet(t.rows) : IsRow(r)
        /\ t.kind \in {"map", "single"} => HasUniqueKeys(t)

\* A group of conditions is made of conditions that were there before.
IsCondition(c) ==
    /\ c \in Seq(ToSet(c)) /\ c # <<>>
    /\ \A i \in DOMAIN c :
        /\ c[i].op \in Groups => c[i].conds \in Seq(1..(i - 1))
        /\ c[i].op = "is null" => c[i].negated \in BOOLEAN

\* What a grouped query may show or compare.
IsExpression(e) ==
    \/ e.op \in {"field", "count", "sum", "min", "max"}
    \/ e.op = "const" /\ IsValue(e.value)

ASSUME QueriesAssumption ==
    \A q \in Queries :
        /\ IsCondition(q.where) /\ IsCondition(q.having)
        /\ \A i \in DOMAIN q.having : q.having[i].op \in Comparisons =>
                IsExpression(q.having[i].left) /\ IsExpression(q.having[i].right)
        /\ q.groupBy \in Seq(STRING)
        /\ q.columns \in Seq(ToSet(q.columns))
        /\ q.groupBy # <<>> => \A c \in ToSet(q.columns) : IsExpression(c.expr) \/ c.expr.op = "all"
        /\ q.orderBy \in Seq([name : STRING, desc : BOOLEAN]) /\ q.limit \in Int

-----------------------------------------------------------------------------
Init ==
    /\ table \in Tables
    /\ query \in Queries
    /\ answer = <<>>
    /\ status = "paging"

FetchPage ==
    /\ status = "paging" /\ Len(answer) < MaxAnswer
    /\ \E o \in Outcomes :
        /\ ~o.failed /\ o.rows # <<>>
        /\ answer' = answer \o o.rows
    /\ UNCHANGED <<table, query, status>>

FetchLast ==
    /\ status = "paging"
    /\ Returned(<<>>) \in Outcomes
    /\ status' = "done"
    /\ UNCHANGED <<table, query, answer>>

FetchFails ==
    /\ status = "paging"
    /\ Failed \in Outcomes
    /\ status' = "error"
    /\ UNCHANGED <<table, query, answer>>

\* The caller's context ends before a row, a group or a phase of the query.
FetchCancelled ==
    /\ status = "paging"
    /\ status' = "error"
    /\ UNCHANGED <<table, query, answer>>

Next == FetchPage \/ FetchLast \/ FetchFails \/ FetchCancelled

Spec == Init /\ [][Next]_vars

-----------------------------------------------------------------------------
(* The answer a caller is owed, stated over the set of rows, without the   *)
(* pages, the passes over them or their order.                             *)

\* "and" and "or" mean what they say: T is the set of the parts that are true if
\* the simple ones in it are those in simple.
IsTruth(c, T, simple) ==
    \A i \in DOMAIN c : i \in T <=>
        CASE c[i].op = "and" -> \A k \in DOMAIN c[i].conds : c[i].conds[k] \in T
          [] c[i].op = "or" -> \E k \in DOMAIN c[i].conds : c[i].conds[k] \in T
          [] OTHER -> i \in simple

IsTrue(c, simple) == \E T \in SUBSET DOMAIN c : IsTruth(c, T, simple) /\ Len(c) \in T

\* What a part that is no group says of a row.
Says(p, row) ==
    LET left  == Resolve(p.left, row)
        equal == \E i \in DOMAIN p.items : p.items[i] # Nil /\ CompareValues(left, p.items[i]) = 0
    IN  CASE p.op = "in" -> left # Nil /\ equal
          [] p.op = "not in" -> left # Nil /\ ~equal
          [] p.op = "is null" -> (left = Nil) <=> ~p.negated
          [] p.op = "admits" -> row.key \in p.keys
          [] p.op \in Comparisons -> Related(p.op, CompareValues(left, Resolve(p.right, row)))
          [] OTHER -> FALSE

\* Every part of the condition is of one of these kinds.
Supported(c, kinds) == \A i \in DOMAIN c : c[i].op \in Groups \cup kinds

\* The expressions a condition of comparisons compares.
Sides(c) == UNION {{c[i].left, c[i].right} : i \in {j \in DOMAIN c : c[j].op \notin Groups}}

\* Where a row stands among the records read, if only one order is possible.
Position(row) ==
    LET read == CHOOSE o \in ReadOrders(table) : TRUE IN
    CHOOSE i \in DOMAIN read : read[i] = row

TheRows == {r \in ToSet(table.rows) :
    IsTrue(query.where, {i \in DOMAIN query.where : Says(query.where[i], r)})}

ValuesOf(name) == {FieldValue(name, r) : r \in ToSet(table.rows)} \ {Nil}

StoredAs(name) == {FieldOf(r.data, name) : r \in ToSet(table.rows)} \ {Nil}

\* Numbers and texts do not meet: among both, compareValues is no order.
Comparable(V) == \A v, w \in V : IsNumber(v) <=> IsNumber(w)

\* compareValues tells the values apart, and each of them from nil.
ToldApart(V) == \A v, w \in V : v.type = w.type /\ v.text # Nil.text /\ IsScalar(v)

OrderNames == {query.orderBy[i].name : i \in DOMAIN query.orderBy}

Columns == ToSet(query.columns)

\* The query can be executed: what it reads is there and whole, the reader applies
\* its clauses, and every part of its conditions is of a kind the code knows.
Executable ==
    /\ ~ReadFails(table) /\ table.kind # "none"
    /\ ~Refused(query) /\ ~WholeCollection(query) /\ ~Wildcard(query)
    /\ query.reader = "records" \/ query.groupBy = <<>>
    /\ Supported(query.where, Comparisons \cup {"in", "not in", "is null", "admits"})
    /\ query.groupBy # <<>> => Supported(query.having, Comparisons)

\* Two rows in the declared order, ties in the order in which they are read.
RowBefore(r, s) ==
    LET less(x, y) == RowLess(query.orderBy, x, y)
    IN  less(r, s) \/ (~less(s, r) /\ Position(r) < Position(s))

\* The rows of the answer follow one from another without the luck of a map.
RowsSettled ==
    /\ \A name \in OrderNames : Comparable(ValuesOf(name))
    /\ table.kind = "map" => "$id" \in OrderNames

\* Paging through an ungrouped query returns every row the condition selects,
\* once, in the declared order and with the selected columns: no page repeats
\* or skips a row, although every page is executed anew, over records read in
\* another order (executeQueryToRecordsReader).
PagesAreTheAnswer ==
    (query.groupBy = <<>> /\ Executable /\ RowsSettled) =>
        LET ranked == Ranked(TheRows, {p \in TheRows \X TheRows : RowBefore(p[1], p[2])})
            owed   == [i \in DOMAIN ranked |-> Project(query.columns, ranked[i])]
        IN  IsPrefix(answer, owed) /\ (status = "done" => answer = owed)

-----------------------------------------------------------------------------
TheGroups == {{s \in TheRows : \A g \in ToSet(query.groupBy) : FieldValue(g, s) = FieldValue(g, r)} :
                r \in TheRows}

FirstOf(S) == CHOOSE r \in S : \A s \in S : Position(r) <= Position(s)

\* What an aggregate, or a field, of a set of rows is.
TheValue(e, S) ==
    LET value(r)  == FieldOf(r.data, e.name)
        present   == {r \in S : value(r) # Nil}
        numeric   == {r \in S : IsNumber(value(r))}
        number    == [r \in numeric |-> value(r).num]
        best(op)  == {r \in present : \A s \in present : Related(op, CompareValues(value(r), value(s)))}
    IN  CASE e.op = "field" -> value(FirstOf(S))
          [] e.op = "count" -> Number("int", Cardinality(IF e.name = "*" THEN S ELSE present))
          [] e.op = "sum" -> IF numeric = {} THEN Nil
                             ELSE Number("float64", Summed(number, numeric))
          [] e.op = "min" -> IF present = {} THEN Nil ELSE value(FirstOf(best("<=")))
          [] e.op = "max" -> IF present = {} THEN Nil ELSE value(FirstOf(best(">=")))
          [] e.op = "const" -> e.value

TheOut(S) == [n \in OutNames(query.columns) |-> TheValue(ColumnOf(query.columns, n), S)]

\* What a comparison of HAVING says of a group, with output columns before fields.
SaysOf(p, S) ==
    LET out == TheOut(S)
        value(e) == IF e.op = "field" /\ e.name \in DOMAIN out THEN out[e.name] ELSE TheValue(e, S)
    IN  p.op \in Comparisons /\ Related(p.op, CompareValues(value(p.left), value(p.right)))

Admitted == {S \in TheGroups :
    IsTrue(query.having, {i \in DOMAIN query.having : SaysOf(query.having[i], S)})}

GroupBefore(S, T) ==
    LET less(U, V) == GroupLess(query.orderBy, TheOut(U), TheOut(V))
    IN  less(S, T) \/ (~less(T, S) /\ Position(FirstOf(S)) < Position(FirstOf(T)))

\* A value that renders as no other does, whatever it is joined with.
RendersAlone(v) == IsScalar(v) /\ v.text \notin DOMAIN Pieces

\* The groups follow one from another: grouping values render alone and sums are
\* exact; and without the luck of a map: they are ordered by every grouping field
\* and show nothing of their first row.
GroupsSettled ==
    LET sides   == Sides(query.having)
        exprs   == {c.expr : c \in Columns} \cup sides
        names   == {e.name : e \in {d \in exprs : d.op # "const"}}
        columns == OutNames(query.columns)
    IN  /\ \A f \in ToSet(query.groupBy) : \A r \in TheRows : RendersAlone(FieldValue(f, r))
        /\ \A e \in exprs : e.op = "sum" => \A S \in TheGroups : TheValue(e, S).num <= Exact
        /\ \A n \in names : Comparable(StoredAs(n))
        /\ table.kind = "map" =>
            /\ \A n \in names : ToldApart(StoredAs(n))
            /\ \A f \in ToSet(query.groupBy) :
                /\ f # "$id" /\ f \in OrderNames \cap columns
                /\ ColumnOf(query.columns, f) = [op |-> "field", name |-> f]
            /\ \A c \in Columns : c.expr.op = "field" => c.expr.name \in ToSet(query.groupBy)
            /\ \A e \in sides : e.op = "field" => e.name \in columns

\* Paging through a grouped query, whose sums float64 adds exactly and whose
\* grouping values render each on its own, returns one row for each group of rows
\* with equal grouping values, with aggregates over all of its rows, filtered by
\* HAVING, once and in the declared order (applyGroupByContext, groupKeyStr).
GroupsAreTheAnswer ==
    (query.groupBy # <<>> /\ Executable /\ GroupsSettled) =>
        LET ranked == Ranked(Admitted, {p \in Admitted \X Admitted : GroupBefore(p[1], p[2])})
            owed   == [i \in DOMAIN ranked |-> TheOut(ranked[i])]
            got    == [i \in DOMAIN answer |-> answer[i].data]
        IN  IsPrefix(got, owed) /\ (status = "done" => got = owed)
=============================================================================

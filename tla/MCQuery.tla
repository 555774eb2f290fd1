------------------------------- MODULE MCQuery -------------------------------
(* Instances of Query: tables of up to three rows of two fields, with nils,  *)
(* equal values, numbers whose text order is not their order and whose sum   *)
(* depends on the order of adding, equal numbers of two types, a text that   *)
(* renders as a number, lists that render alike and texts with NUL bytes.    *)
EXTENDS Query

Str(rank) == [type |-> "string", num |-> 0, text |-> rank]
Num(n) == Number("int", n)
Always == <<[op |-> "and", conds |-> <<>>]>>
Field(f) == [op |-> "field", name |-> f]
Const(v) == [op |-> "const", value |-> v]
Agg(op, f) == [op |-> op, name |-> f]
Col(n, e) == [name |-> n, expr |-> e]
Asc(f) == [name |-> f, desc |-> FALSE]
Desc(f) == [name |-> f, desc |-> TRUE]
Cmp(l, op, r) == [op |-> op, left |-> l, right |-> r]

\* Keys in the order of the file, which is not their order.
Keys == <<Str(121), Str(120), Str(122)>>

Data == {[x |-> x, y |-> y] : x \in {Num(2), Num(15), Nil}, y \in {Num(1), Nil}}
            \cup {[x |-> Number("float64", 2), y |-> Num(1)], [x |-> Str(NumberText(2)), y |-> Nil]}

RowsOf(n, D) == {[i \in 1..n |-> [key |-> Keys[i], data |-> d[i]]] : d \in [1..n -> D]}
Rows(n) == RowsOf(n, Data)

\* ["a b"] and ["a", "b"]; "a" and "b", "a", NUL, "string:b" and "b", NUL, "string:a".
Spaced == {[type |-> "list", num |-> n, text |-> 130] : n \in {1, 2}}
Halves == [t \in {141, 143} |-> [first |-> IF t = 141 THEN 140 ELSE 142,
                                 rest |-> <<<<"string", IF t = 141 THEN 142 ELSE 140>>>>]]
Alike  == {[x |-> v, y |-> Nil] : v \in Spaced}
            \cup {[x |-> Str(141), y |-> Str(140)], [x |-> Str(140), y |-> Str(143)]}

Repeated(rows) == Append(rows, [rows[1] EXCEPT !.data.x = Nil])

SmallTables ==
    {[kind |-> k, rows |-> r, readable |-> TRUE] :
        k \in {"map", "single", "list"}, r \in Rows(3) \cup Rows(1) \cup {<<>>} \cup RowsOf(2, Alike)}
    \cup {[kind |-> "list", rows |-> Repeated(r), readable |-> TRUE] : r \in Rows(1)}
    \cup {[kind |-> k, rows |-> r, readable |-> k # "map"] : k \in {"map", "none"}, r \in Rows(1)}

Plain(where, columns, orderBy, limit) ==
    [where |-> where, groupBy |-> <<>>, columns |-> columns, having |-> Always,
     orderBy |-> orderBy, limit |-> limit, reader |-> "records"]

Grouped(groupBy, columns, having, orderBy, limit) ==
    [where |-> Always, groupBy |-> groupBy, columns |-> columns, having |-> having,
     orderBy |-> orderBy, limit |-> limit, reader |-> "records"]

\* A group of simple conditions.
Group(op, parts) == Append(parts, [op |-> op, conds |-> [i \in DOMAIN parts |-> i]])

Wheres == {
    <<Cmp(Field("x"), ">=", Const(Num(2)))>>,
    <<[op |-> "not in", left |-> Field("x"), items |-> <<Num(15), Nil>>]>>,
    Group("or", <<
        [op |-> "in", left |-> Field("x"), items |-> <<Nil, Num(15)>>],
        [op |-> "is null", left |-> Field("y"), negated |-> FALSE]>>),
    \* A group within a group.
    <<Cmp(Field("y"), "==", Const(Num(1))), Cmp(Field("x"), "<", Const(Num(15))),
      [op |-> "or", conds |-> <<1, 2>>],
      [op |-> "is null", left |-> Field("x"), negated |-> TRUE],
      [op |-> "and", conds |-> <<4, 3>>]>>,
    \* Decided by its first part for some rows, not supported for the others.
    Group("or", <<Cmp(Field("x"), "<", Const(Num(15))), [op |-> "between"]>>),
    <<[op |-> "admits", keys |-> {Str(120), Str(122)}, refused |-> FALSE]>>,
    <<[op |-> "admits", keys |-> {Str(120)}, refused |-> TRUE]>>}

PlainQueries ==
    {Plain(w, <<>>, <<Asc("x"), Desc("$id")>>, 1) : w \in Wheres}
    \cup {Plain(Always, <<Col("y", Field("y"))>>, o, l) :
            o \in {<<>>, <<Desc("x")>>, <<Asc("y"), Desc("x"), Asc("$id")>>}, l \in {0, 1, 2}}

CountByX == <<Col("x", Field("x")), Col("n", Agg("count", "*"))>>
Totals == <<Col("y", Field("y")), Col("n", Agg("count", "x")), Col("sum", Agg("sum", "x")),
            Col("lo", Agg("min", "x")), Col("hi", Agg("max", "x"))>>

GroupQueries == {
    Grouped(<<"x">>, CountByX, Always, <<Desc("n"), Asc("x")>>, 1),
    Grouped(<<"x">>, CountByX, <<Cmp(Agg("count", "*"), "<", Const(Num(2)))>>, <<>>, 2),
    Grouped(<<"y">>, Totals, Always, <<Asc("y")>>, 1),
    Grouped(<<"y">>, Totals, Group("or", <<
        Cmp(Field("sum"), ">", Const(Num(2))), Cmp(Field("lo"), "==", Const(Nil))>>), <<Desc("sum"), Asc("y")>>, 0),
    Grouped(<<"x", "y">>, <<Col("y", Field("y")), Col("x", Field("x"))>>,
        <<Cmp(Field("x"), "<=", Const(Num(15)))>>, <<Asc("x"), Desc("y")>>, 2),
    Grouped(<<"y">>, <<Col("n", Agg("count", "*"))>>, <<Cmp(Field("x"), "==", Const(Num(2)))>>, <<>>, 1),
    Grouped(<<"y">>, <<Col("y", Field("y"))>>,
        <<[op |-> "is null", left |-> Field("y"), negated |-> FALSE]>>, <<Asc("y")>>, 1)}

\* A wildcard, which the records reader cannot resolve.
WildcardQueries == {
    Plain(<<Cmp(Field("x"), ">=", Const(Num(2)))>>, <<Col("*", [op |-> "all"])>>, <<>>, 1),
    Grouped(<<"x">>, <<Col("*", [op |-> "all"])>>, Always, <<>>, 1)}

\* The same through the recordset reader: selected columns, all of them, groups.
RecordsetQueries == {[q EXCEPT !.reader = "recordset"] : q \in {
    Plain(Always, <<Col("y", Field("y"))>>, <<Desc("x"), Asc("$id")>>, 1),
    Plain(<<Cmp(Field("x"), ">=", Const(Num(2)))>>, <<>>, <<Asc("$id")>>, 1),
    Plain(Always, <<Col("*", [op |-> "all"])>>, <<>>, 1),
    Grouped(<<"x">>, CountByX, Always, <<>>, 1)}}

SomeQueries == PlainQueries \cup GroupQueries \cup WildcardQueries \cup RecordsetQueries
=============================================================================

-------------------------------- MODULE MCSql --------------------------------
(* Three names for two tables and two views, one or two columns, up to three *)
(* rows. Ints have three bits, texts up to three letters of which two reach  *)
(* a key.                                                                    *)
EXTENDS SqlLaws

\* "", "%", "a", "a%", "aa", "aaa", "aab", "b"; the letters a and b are 3 and 4.
MCTexts == << <<>>, <<1>>, <<3>>, <<3, 1>>, <<3, 3>>, <<3, 3, 3>>, <<3, 3, 4>>, <<4>> >>
MCCanonical == [date |-> {7}, timestamp |-> {}]

Str(i) == [t |-> "string", v |-> i]
Col(name, type, flags, default) ==
    [name |-> name, type |-> type, flags |-> flags, default |-> default]

MCMinInt == -4
MCDeclarations == {
    [name |-> "t", cols |-> <<Col("k", "int", {"unique"}, Null)>>],
    [name |-> "t", cols |-> <<Col("k", "string", {"primary_key"}, Null)>>],
    [name |-> "t", cols |-> <<Col("k", "date", {"not_null", "default"}, Str(7))>>],
    [name |-> "w", cols |-> <<Col("k", "float", {}, Null)>>]}
MCNewColumns == {
    Col("n", "int", {"not_null", "default"}, Null),
    Col("n", "int", {"unique", "default"}, IntCell(1))}
MCLiterals == {Null, IntCell(1), FloatCell(3), Str(7)}

K == [prefix |-> "", name |-> "k"]
Over(n) == Star(n, Cmp(K, "<>", IntCell(0)))
MCViewTexts == {
    [name |-> "v", select |-> Over("t")],
    [name |-> "v", select |-> Over("w")],
    [name |-> "v", select |-> Over("v")],
    [name |-> "w", select |-> Over("v")],
    [name |-> "w", select |-> [Star("t", NoWhere) EXCEPT !.join =
        [kind |-> "left", table |-> "v", left |-> "k", right |-> "k"]]]}
MCSourceNames(s) == {s.table} \union (IF s.join.kind = "none" THEN {} ELSE {s.join.table})

MCProbes == {IntCell(1), FloatCell(3), FloatCell(-1), Str(1), Str(5), Str(6), Str(8),
             [t |-> "bool", v |-> 1]}

Leaves == {Cmp(K, ">", FloatCell(2)), NullTest(K, TRUE), Like(K, Str(4), TRUE),
           InList(K, <<IntCell(1), Null>>, TRUE)}
MCTrees == Leaves \union
    {Junction("or", Junction("and", Negation(l), NullTest(K, FALSE)), Cmp(K, ">", FloatCell(2))) :
        l \in Leaves}

MCStatements == {
    [Star("t", NoWhere) EXCEPT
        !.cols = <<Plain("t", "k"), Aggregate("count", "*"), Aggregate("avg", "k")>>,
        !.group = [prefix |-> "t", name |-> "k"], !.limit = 2],
    [Star("t", Cmp(K, "=", Str(3))) EXCEPT
        !.join = [kind |-> "inner", table |-> "w", left |-> "k", right |-> "k"],
        !.order = [prefix |-> "w", name |-> "k"], !.desc = TRUE, !.limit = 0]}
=============================================================================

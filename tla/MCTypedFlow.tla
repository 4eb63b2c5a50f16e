----------------------------- MODULE MCTypedFlow -----------------------------
(* Functions of x and y with guards, early exits and loops around stores.       *)
EXTENDS TypedRuns

S(op, name, src, cond, then, else) ==
  [op |-> op, name |-> name, src |-> src, cond |-> cond, then |-> then, else |-> else]

Use(n) == S("use", n, n, "", 0, 0)
Return == S("return", "x", "x", "", 0, 0)
Assign(n, src) == S("assign", n, src, "", 0, 0)
Ann(n, src) == S("ann", n, src, "", 0, 0)
If(cond, then, else) == S("if", "x", "x", cond, then, else)
While(then, else) == S("while", "x", "x", "", then, else)

Guards == {"int", "str", "float", "none", "some"}
Unions == {{"int", "str"}, {"int", "none"}, {"float", "none", "str"}, Any}
Plain == {Use("x"), Assign("x", "str"), Assign("x", "int"), Assign("x", "y"), Assign("y", "x"), Ann("y", "x")}

Decls(tx, ty) == {[n \in Names |-> IF n = "x" THEN t ELSE u] : t \in tx, u \in ty}
Bodies(decls, bodies) == {[decl |-> d, blocks |-> b] : d \in decls, b \in bodies}

Targets == {{"int"}, {"float"}, {"str", "float"}, {"int", "str"}}
Concretes == {{"int"}, {"float"}, {"none"}}

\* if guard: s [else: t]; then a use of x or a store of it.
Branching ==
  Bodies(Decls(Unions \cup Concretes, Targets),
    {<< << If(g, 2, 3), v >>, << s >>, << t >> >> :
        g \in Guards, s \in Plain, t \in Plain \cup {Return}, v \in {Use("x"), Assign("y", "x")}})

\* if guard: return; if guard: s [else: t]; use of x.
EarlyExits ==
  Bodies(Decls(Unions \cup Concretes, {{"int"}, {"str", "float"}}),
    {<< << If(g, 2, 0), If(h, 3, e), Use("x") >>, << Return >>, << s >>, << t, Use("x") >> >> :
        g \in Guards, h \in Guards, e \in {0, 4}, s \in {Use("x"), Return, Ann("y", "x")},
        t \in {Assign("x", "y"), Assign("y", "x"), Return}})

\* while ...: if guard: return / s; t; use of x.
Loops ==
  Bodies(Decls(Unions, {{"int"}, {"int", "str"}}),
    {<< << While(2, e), Use("x") >>, << If(g, 3, 0), t, u >>, << s >>, << Use("x") >> >> :
        e \in {0, 4}, g \in Guards, s \in Plain \cup {Return}, t \in Plain, u \in {Use("x"), Assign("x", "y")}})

\* if guard: if guard: s else: t; u.
Nested ==
  Bodies(Decls(Unions, {{"int"}, {"str", "float"}}),
    {<< << If(g, 2, 0), Use("x") >>, << If(h, 3, 4), u >>, << s >>, << If(i, 5, 0), Use("x") >>, << t >> >> :
        g \in Guards, h \in Guards, i \in Guards, s \in {Use("x"), Return}, t \in {Use("x"), Return, Assign("y", "x")},
        u \in {Use("x"), Return, Assign("y", "x")}})

\* if guard: return; x = literal; a guard or a store of x.
Overwritten ==
  Bodies(Decls(Unions, {{"int"}, {"int", "str"}}),
    {<< << If(g, 2, 0), Assign("x", lit), last >>, << Return >>, << Use("x") >> >> :
        g \in Guards, last \in {If(h, 3, 0) : h \in Guards} \cup {Assign("y", "x")}, lit \in Atoms})

MCPrograms == << Branching, EarlyExits, Loops, Nested, Overwritten >>
===============================================================================

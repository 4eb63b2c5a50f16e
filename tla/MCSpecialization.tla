--------------------------- MODULE MCSpecialization ---------------------------
(* Two functions that call each other or themselves, and a module.            *)
EXTENDS SpecializedRuns

Stmts(ops, funs, args, comps, opts) ==
  [op : ops, fun : funs, arg : args, comp : comps, opt : opts]

Def1(f) == [op |-> "def", fun |-> f, arg |-> "-", comp |-> FALSE, opt |-> FALSE]
CallOf(f, arg, comp) == [op |-> "call", fun |-> f, arg |-> arg, comp |-> comp, opt |-> FALSE]

Comps(funs) == Stmts({"call"}, funs, {"x"}, {TRUE}, {TRUE})
Ends == Stmts({"return"}, {"f"}, {"x", "int"}, {FALSE}, {FALSE})
Adds == Stmts({"add"}, {"f"}, {"x"}, {FALSE}, {FALSE})
MayReturn(funs, args) == Stmts({"retcall"}, funs, args, {FALSE}, {TRUE})
Return(funs, args) == Stmts({"retcall"}, funs, args, {FALSE}, {FALSE})

Bodies(first, last) == {<< s >> : s \in last} \cup {<< s, t >> : s \in first, t \in last}
Defs(bodies, params, rets) == [param : params, result : rets, body : bodies]

BodiesOfF ==
  Bodies(MayReturn(Funs, {"x", "list", "str"}) \cup Comps(Funs) \cup Adds,
         Ends \cup Return({"g"}, {"x", "str"}))
BodiesOfG ==
  Bodies(Adds \cup MayReturn({"f"}, {"x", "list"}) \cup Comps({"f"}),
         Stmts({"return"}, {"f"}, {"x"}, {FALSE}, {FALSE})) 
    \cup {<< s >> : s \in Return({"f"}, {"x", "str"}) \cup MayReturn({"f"}, {"x"}) \cup Adds}

Mains ==
  {<< Def1("g"), Def1("f"), CallOf("f", "int", FALSE), CallOf("f", "str", FALSE) >>,
   << Def1("f"), Def1("g"), CallOf("f", "x", TRUE), CallOf("g", "str", TRUE) >>}

DefsOfF == Defs(BodiesOfF, {Any, IntType \cup StrType}, {{}})
             \cup Defs(BodiesOfF, {Any}, {IntType})
DefsOfG == Defs(BodiesOfG, {Any, IntType}, {{}}) \cup Defs(BodiesOfG, {Any}, {IntType})

MCPrograms ==
  {[defs |-> [h \in Funs |-> IF h = "f" THEN df ELSE dg], main |-> m] :
     df \in DefsOfF, dg \in DefsOfG, m \in Mains}
===============================================================================

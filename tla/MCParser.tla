------------------------------- MODULE MCParser -------------------------------
(***************************************************************************)
(* The files that the parser is checked on: printed programs, with a tree  *)
(* to get back; every short expression over three small sets of tokens; and*)
(* every short sequence of good and bad lines, before one that is good.    *)
(***************************************************************************)
EXTENDS Parser

MCNames == {"a", "b", "match", "case", "type", "_", "Callable", "Literal", "Annotated"}

A == Name("a")
B == Name("b")
I1 == Lit("1")

-------------------------------------------------------------------------------
(* Expressions: each context puts an expression in one of its places *)

Operators(x) ==
  {Unary("-", x), Unary("not", x), IfExp(x, A, A), IfExp(A, x, A), IfExp(A, A, x),
   Compare(x, << "<" >>, << A >>), Compare(A, << "<", "not in" >>, << x, A >>),
   Compare(A, << "is not" >>, << x >>)}
  \cup {BoolOp(o, x, A) : o \in {"or", "and"}} \cup {BoolOp(o, A, x) : o \in {"or", "and"}}
  \cup {Binary(o, x, A) : o \in {"|", "<<", "-", "*", "**"}}
  \cup {Binary(o, A, x) : o \in {"|", "<<", "-", "*", "**"}}

Clause(iter, ifs) == For("", A, iter, ifs)
Comps(op, elem, x) ==
  {Comp(op, << x >>, << Clause(A, << >>) >>),
   Comp(op, << elem >>, << Clause(x, << >>) >>),
   Comp(op, << elem >>, << Clause(A, << A, x >>), Clause(B, << >>) >>)}

Displays(x) ==
  {Tuple(<< x >>), Tuple(<< A, x >>), Node("List", "", << x, A >>),
   Node("List", "", << A, Starred(x) >>), Node("Set", "", << x >>),
   Node("Set", "", << A, x >>), Node("Dict", "", << Entry(A, x), Unpack(A) >>),
   Node("Dict", "", << Unpack(x), Entry(x, A) >>)}
  \cup Comps("ListComp", A, x) \cup Comps("SetComp", A, x) \cup Comps("GenExp", A, x)
  \cup {Comp("DictComp", << Entry(x, A) >>, << Clause(A, << >>) >>),
        Comp("DictComp", << Entry(A, x) >>, << Clause(A, << >>) >>)}

Slice(x, y, z) == Node("Slice", "", << x, y, z >>)
Subscript(x, y) == Node("Subscript", "", << x, y >>)
Primaries(x) ==
  {Node("Attribute", "b", << x >>), Subscript(x, I1), Subscript(A, x),
   Subscript(A, Slice(x, Nil, Nil)), Subscript(A, Slice(Nil, x, Nil)),
   Subscript(A, Slice(A, Nil, x)),
   Call(x, << >>, << >>, << >>, Nil), Call(A, << A, x >>, << >>, << >>, Nil),
   Call(A, << A >>, << x >>, << Keyword("b", A) >>, Nil),
   Call(A, << >>, << >>, << Keyword("b", x) >>, A), Call(A, << >>, << A >>, << >>, x)}

Loose(x) ==
  {Node("Named", "a", << x >>), Node("Lambda", "", << A, B, x >>), Node("Lambda", "", << x >>),
   Node("Yield", "", << x >>), Node("Yield", "from", << x >>), Node("Await", "", << x >>)}

Contexts(x) == Operators(x) \cup Displays(x) \cup Primaries(x) \cup Loose(x)
Inside(F(_), xs) == UNION {F(x) : x \in xs}

Flat == Inside(Contexts, {A, I1})
Nested == Inside(Contexts, Inside(Contexts, {A}))
Chains == Inside(Operators, Inside(Operators, Inside(Operators, {A})))
Pairs == {Binary(o, x, y) : o \in {"|", "-", "*", "**"},
                            x \in Operators(A), y \in Operators(A)}

-------------------------------------------------------------------------------
(* Statements *)

Dotted(ns) == Node("Dotted", "", [i \in DOMAIN ns |-> Name(ns[i])])
Alias(ns, as) == Node("Alias", "", << Dotted(ns), as >>)
Generic(n, x) == Subscript(Name(n), x)
AnyTypes ==
  {A, Leaf("Str", "str"), Node("Union", "", << A, Name("None") >>), Generic("a", B),
   Node("Attribute", "b", << A >>), Generic("a", Tuple(<< B, Generic("b", A) >>)),
   Generic("Callable", Tuple(<< Tuple(<< A, B >>), A >>)),
   Generic("Callable", Tuple(<< Tuple(<< >>), Node("Union", "", << A, B >>) >>)),
   Generic("Literal", Tuple(<< I1, Leaf("Str", "str") >>)), Generic("Literal", I1),
   Generic("Annotated", Tuple(<< A, Binary("+", A, I1) >>))}

Simple ==
  {Leaf("pass", ""), Leaf("break", ""), Node("Return", "", << Nil >>),
   Node("Return", "", << Tuple(<< A, B >>) >>), Node("YieldStmt", "", << Tuple(<< A >>) >>),
   Node("YieldStmt", "from", << A >>), Node("Raise", "", << Nil, Nil >>),
   Node("Raise", "", << A, B >>), Node("Global", "", << A, B >>), Node("Nonlocal", "", << A >>),
   Node("Delete", "", << A, Subscript(A, B) >>), Node("Assert", "", << A, Nil >>),
   Node("Assert", "", << A, B >>), Node("TypeAlias", "a", << Binary("|", A, B) >>),
   Node("AugAssign", "+=", << A, B >>), Node("AnnAssign", "", << Name("match"), A, I1 >>),
   Node("Assign", "", << A, Node("Yield", "", << B >>) >>),
   Node("Assign", "", << A, Subscript(A, B), Tuple(<< A, B >>) >>),
   Node("Assign", "", << Tuple(<< A, Starred(B) >>), Tuple(<< B, A >>) >>),
   Node("Assign", "", << Node("Attribute", "b", << A >>), Tuple(<< A, B >>), A >>),
   Node("Expr", "", << Call(Name("match"), << A >>, << >>, << >>, Nil) >>),
   Node("Expr", "", << Subscript(Name("match"), Slice(A, B, Nil)) >>),
   Node("Import", "", << Alias(<< "a", "b" >>, B), Alias(<< "b" >>, Nil) >>),
   Node("ImportFrom", "", << Group(<< Leaf("Dot", "."), Leaf("Dot", ".") >>), Dotted(<< >>),
                             Alias(<< "a" >>, B) >>),
   Node("ImportFrom", "", << Group(<< >>), Dotted(<< "a", "b" >>), Leaf("Star", "*") >>)}
  \cup {Node("AnnAssign", "", << A, t, Nil >>) : t \in AnyTypes}

ParamLists == LET P(op, kind, n, ann, def) == Node(op, kind, << Name(n), ann, def >>)
  IN {<< >>, << P("Param", "posonly", "a", Nil, Nil), P("Param", "normal", "b", A, I1) >>,
      << P("Param", "posonly", "a", Nil, I1), P("Param", "kwonly", "b", Nil, Nil) >>,
      << P("Param", "normal", "a", Nil, Nil), P("Param", "kwonly", "b", Nil, I1) >>,
      << P("Vararg", "normal", "a", A, Nil), P("Param", "kwonly", "b", Nil, Nil),
         P("Kwarg", "kwonly", "b", Nil, Nil) >>}

Patterns1 ==
  {Leaf("Capture", "a"), Leaf("Wildcard", "_"), Node("Value", "", << I1 >>),
   Node("Value", "", << Unary("-", I1) >>), Node("Value", "", << Node("Attribute", "b", << A >>) >>)}
PatternContexts(q) ==
  {Node("Or", "", << q, Leaf("Capture", "b"), q >>), Node("As", "b", << q >>),
   Node("Sequence", "", << q >>), Node("Sequence", "", << q, Leaf("Star", "b") >>),
   Node("ClassPattern", "", << A, q, Keyword("b", q) >>),
   Node("Mapping", "", << Node("Item", ":", << I1, q >>), Node("Item", "**", << B >>) >>)}
Patterns2 == Patterns1 \cup Inside(PatternContexts, Patterns1)
MCPatterns == Patterns2 \cup Inside(PatternContexts, Inside(PatternContexts, Patterns1))

Handler(tag, type, name, xs) == Node("Except", tag, << type, name, Group(xs) >>)
\* Compound statements around the statements xs
CompoundsOf(xs) ==
  LET b == Group(xs)
      Pass == Group(<< Leaf("pass", "") >>)
      None == Group(<< >>)
  IN  {Node("If", "", << A, b, None >>), Node("If", "", << A, Pass, b >>),
       Node("If", "", << A, b, Group(<< Node("If", "", << B, Pass, Pass >>) >>) >>),
       Node("While", "", << A, b, Pass >>), Node("For", "", << A, Tuple(<< A, B >>), b, None >>),
       Node("For", "", << Tuple(<< A, B >>), A, Pass, b >>),
       Node("Try", "", << b, Group(<< >>), None, Pass >>),
       Node("Try", "", << Pass, Group(<< Handler("", A, B, xs), Handler("", Nil, Nil, xs) >>),
                          b, None >>),
       Node("Try", "", << Pass, Group(<< Handler("*", A, Nil, xs) >>), None, b >>),
       Node("With", "", << Group(<< Node("Item", "", << A, B >>), Node("Item", "", << A, Nil >>) >>),
                           b >>),
       Node("Match", "", << A, Group(<< Node("Case", "", << Leaf("Capture", "a"), Nil, b >>),
                                        Node("Case", "", << Leaf("Wildcard", "_"), B, b >>) >>) >>),
       Node("Async", "", << Node("With", "", << Group(<< Node("Item", "", << A, Nil >>) >>), b >>) >>),
       Node("Function", "a", << None, None, Nil, b >>),
       Node("Function", "a", << Group(<< A, B >>), None, A, b >>)}

Functions == {Node("Function", "a", << Group(<< >>), Group(ps), Nil, Group(<< Leaf("pass", "") >>) >>)
                : ps \in ParamLists}
Classes == {Node("Class", "a", << Group(ds), Group(args), Group(<< f, x >>) >>) :
              ds \in {<< >>, << A >>}, args \in {<< >>, << A, Keyword("b", I1), Unpack(B) >>},
              f \in Functions, x \in {Leaf("pass", ""), Node("AnnAssign", "", << A, B, I1 >>)}}
CaseOf(q) == Node("Match", "", << Tuple(<< A, B >>),
               Group(<< Node("Case", "", << q, A, Group(<< Leaf("pass", "") >>) >>) >>) >>)

Statements ==
  Simple \cup Functions \cup Classes \cup {CaseOf(q) : q \in MCPatterns}
  \cup UNION {CompoundsOf(<< x, Leaf("pass", "") >>) :
                x \in Simple \cup CompoundsOf(<< Leaf("pass", "") >>) \cup Classes}

Printed(xs) == [toks |-> StmtsText(xs), written |-> xs]
Assigning(xs) == {Printed(<< Node("Assign", "", << B, x >>) >>) : x \in xs}
Programs ==
  << Assigning(Flat), Assigning(Nested), Assigning(Chains), Assigning(Pairs),
     {Printed(<< x, Leaf("pass", "") >>) : x \in Statements} >>

-------------------------------------------------------------------------------
(* Every short sequence of tokens, between two *)

Unwritten(ts) == [toks |-> ts, written |-> << Leaf("unknown", "") >>]
Between(open, chunks, n, close) ==
  {Unwritten(open \o FlattenSeq(ts) \o close \o << "NEWLINE" >>) :
     ts \in UNION {[1 .. k -> chunks] : k \in 0 .. n}}

Chunks(ts) == {<< t >> : t \in ts}
ForClause == << "for", "a", "in", "b" >>
ShortTexts ==
  << Between(<< "[" >>, Chunks({"a", "*", ",", "if"}) \cup {ForClause}, 5, << "]" >>),
     Between(<< "{" >>, Chunks({"a", "1", ":", ",", "**"}) \cup {ForClause}, 5, << "}" >>),
     Between(<< "a", "(" >>, Chunks({"a", "=", "*", "**", ","}) \cup {ForClause}, 5, << ")" >>),
     Between(<< "a" >>, Chunks({"a", "-", "not", "in", "if", "else"}), 5, << >>),
     Between(<< "a", "[" >>, Chunks({"a", ":", ",", "]", "[", ":="}), 4, << "]" >>) >>

-------------------------------------------------------------------------------
(* Lines, each at its depth, and a good one after them *)

\* A line of characters that make no token is empty, but ends as the others.
Lines == {<< >>, << "a" >>, << "a", "a" >>, << "if", "a", ":" >>, << "if", "a" >>, << "else", ":" >>,
          << "class", "a", ":" >>, << "def", "a", "(", ")", ":" >>, << "match", "a", ":" >>,
          << "case", "a", ":" >>, << "try", ":" >>, << "a", ")" >>}

Steps(from, to) ==
  IF to > from THEN << "INDENT" >> ELSE [i \in 1 .. from - to |-> "DEDENT"]
Depths(n) ==
  {d \in [1 .. n -> 0 .. n - 1] : d[1] = 0 /\ \A i \in 2 .. n : d[i] <= d[i - 1] + 1}
Indented(ls, d) ==
  FlattenSeq([i \in DOMAIN ls |->
    (IF i = 1 THEN << >> ELSE Steps(d[i - 1], d[i])) \o ls[i] \o << "NEWLINE" >>])
  \o Steps(Last(d), 0)
Broken ==
  {Unwritten(Indented(ls, d) \o << "pass", "NEWLINE" >>) :
     ls \in [1 .. 3 -> Lines], d \in Depths(3)}

\* Positional-only parameters, and none after them.
PositionalOnly ==
  {Printed(<< Node("Function", "a", << Group(<< >>),
     Group(<< Node("Param", "posonly", << A, Nil, x >>) >>), Nil,
     Group(<< Leaf("pass", "") >>) >>) >>) : x \in {Nil, I1}}

MCFiles == Programs \o ShortTexts \o << Broken >>
MCPositionalOnly == << PositionalOnly >>
===============================================================================

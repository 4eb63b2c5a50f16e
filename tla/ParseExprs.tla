------------------------------ MODULE ParseExprs ------------------------------
(***************************************************************************)
(* The recursive descent of parser/parser.go over expressions, types and   *)
(* patterns. A parser s is a position in toks and the positions where it   *)
(* reported an error; each operation returns the parser it leaves, and the *)
(* tree or list of trees it built. No token is put back: what the parser   *)
(* looks at is the current token, at times the next.                       *)
(***************************************************************************)
EXTENDS SyntaxTrees

VARIABLE toks      \* the tokens of the file

Peek(s, n) == IF s.i + n <= Len(toks) THEN toks[s.i + n] ELSE "EOF"
Cur(s) == Peek(s, 0)
At(s, t) == Cur(s) = t
AtName(s) == Cur(s) \in Names
AtStmtEnd(s) == Cur(s) \in {";", "NEWLINE", "EOF"}

Advance(s) == IF At(s, "EOF") THEN s ELSE [s EXCEPT !.i = @ + 1]
\* An error where the parser stood before.
ErrorAt(start, s) == [s EXCEPT !.errs = @ \cup {start.i}]
Error(s) == ErrorAt(s, s)
Expect(s, t) == IF At(s, t) THEN Advance(s) ELSE Error(s)
\* The name is the current token's text, whatever it is.
ExpectName(s) == IF AtName(s) THEN Advance(s) ELSE Error(s)
ErrorUnless(ok, s) == IF ok THEN s ELSE Error(s)

R(s, x) == [s |-> s, x |-> x]

StmtEnds == {";", "NEWLINE", "EOF"}
Comparisons == {"==", "!=", "<", "<=", ">", ">="}
BinPrec == [o \in DOMAIN BinaryLevel \ {"**"} |-> BinaryLevel[o] - 5]

\* Parse(rule, s) parses one rule of the grammar at s. The rules are defined below,
\* each by what it calls of the others.
RECURSIVE Parse(_, _)

-------------------------------------------------------------------------------
(* Lists with commas, of elements by one rule                              *)

StarredExpression(s) ==
  IF At(s, "*") THEN LET r == Parse("expression", Advance(s)) IN R(r.s, Starred(r.x))
  ELSE Parse("expression", s)

NameAt(s) == R(ExpectName(s), Name(Cur(s)))

\* {',' element}, ended by a token of stops after a comma.
RECURSIVE MoreElements(_, _, _)
MoreElements(rule, r, stops) ==
  IF ~At(r.s, ",") THEN r
  ELSE LET s == Advance(r.s)
       IN  IF Cur(s) \in stops THEN R(s, r.x)
           ELSE LET e == Parse(rule, s)
                IN  MoreElements(rule, R(e.s, Append(r.x, e.x)), stops)

\* Elements up to the closing bracket, and whether a comma was seen.
RECURSIVE Listed(_, _, _, _, _)
Listed(rule, s, close, xs, comma) ==
  IF Cur(s) \in {close, "EOF"} THEN [s |-> s, x |-> xs, comma |-> comma]
  ELSE LET e == Parse(rule, s)
           more == Append(xs, e.x)
       IN  IF At(e.s, ",") THEN Listed(rule, Advance(e.s), close, more, TRUE)
           ELSE [s |-> e.s, x |-> more, comma |-> comma]

RECURSIVE NameList(_, _)
NameList(s, xs) ==
  LET r == Parse("name", s)
      more == Append(xs, r.x)
  IN  IF At(r.s, ",") THEN NameList(Advance(r.s), more) ELSE R(r.s, more)

\* '.' NAME while a name follows the dot
RECURSIVE DottedFrom(_)
DottedFrom(r) ==
  IF At(r.s, ".") /\ Peek(r.s, 1) \in Names
  THEN LET n == Parse("name", Advance(r.s))
       IN  DottedFrom(R(n.s, Node("Attribute", n.x.tag, << r.x >>)))
  ELSE r

-------------------------------------------------------------------------------
(* Comprehensions *)

RECURSIVE Conditions(_), Clauses(_)

Conditions(r) ==
  IF ~At(r.s, "if") THEN r
  ELSE LET c == Parse("disjunction", Advance(r.s)) IN Conditions(R(c.s, Append(r.x, c.x)))

Clauses(r) ==
  IF Cur(r.s) \notin {"for", "async"} THEN r
  ELSE LET async == At(r.s, "async")
           n == Parse("name", Advance(IF async THEN Advance(r.s) ELSE r.s))
           iter == Parse("disjunction", Expect(n.s, "in"))
           ifs == Conditions(R(iter.s, << >>))
       IN  Clauses(R(ifs.s, Append(r.x,
             For(IF async THEN "async" ELSE "", n.x, iter.x, ifs.x))))

AtClause(s) == Cur(s) \in {"for", "async"}

\* A comprehension of the elements, and its closing bracket unless "".
Comprehension(op, elems, s, close) ==
  LET c == Clauses(R(s, << >>))
  IN  R(IF close = "" THEN c.s ELSE Expect(c.s, close), Comp(op, elems, c.x))

-------------------------------------------------------------------------------
(* Displays *)

\* A string, with the literals of its kind that follow.
RECURSIVE Adjacent(_, _)
Adjacent(s, sort) ==
  IF Cur(s) \notin {"str", "bytes"} THEN s
  ELSE Adjacent(Advance(ErrorUnless(At(s, sort), s)), sort)
ParseString(s) ==
  R(IF At(s, "fstr") THEN Advance(s) ELSE Adjacent(Advance(s), Cur(s)),
    Leaf("Str", Cur(s)))

ParseGroup(s0) ==
  LET s == Advance(s0)
      inner == Parse("expression", s)
      elems == MoreElements("expression", R(inner.s, << inner.x >>), {")", "EOF"})
  IN  IF At(s, ")") THEN R(Advance(s), Tuple(<< >>))
      ELSE IF AtClause(inner.s) THEN Comprehension("GenExp", << inner.x >>, inner.s, ")")
      ELSE IF ~At(inner.s, ",") THEN R(Expect(inner.s, ")"), inner.x)
      ELSE R(Expect(elems.s, ")"), Tuple(elems.x))

RECURSIVE ListFrom(_, _)
ListFrom(s, elems) ==
  LET e == Parse("starred", s)
      more == Append(elems, e.x)
      end(r, xs) == R(Expect(r, "]"), Node("List", "", xs))
  IN  IF Cur(s) \in {"]", "EOF"} THEN end(s, elems)
      ELSE IF AtClause(e.s) THEN Comprehension("ListComp", << e.x >>, e.s, "]")
      ELSE IF At(e.s, ",") THEN ListFrom(Advance(e.s), more)
      ELSE end(e.s, more)
ParseList(s) == ListFrom(Advance(s), << >>)

\* The rest of a set after its first element.
RECURSIVE SetFrom(_, _)
SetFrom(s, elems) ==
  LET next == Advance(s)
      e == Parse("starred", next)
      end(r) == R(Expect(r, "}"), Node("Set", "", elems))
  IN  IF ~At(s, ",") THEN end(s)
      ELSE IF Cur(next) \in {"}", "EOF"} THEN end(next)
      ELSE IF AtClause(e.s) THEN Comprehension("SetComp", << e.x >>, e.s, "}")
      ELSE SetFrom(e.s, Append(elems, e.x))

\* A key without a colon turns the display into a set of what follows.
RECURSIVE DictFrom(_, _)
DictFrom(s, entries) ==
  LET spread == Parse("expression", Advance(s))
      key == Parse("starred", s)
      value == Parse("expression", Advance(key.s))
      go(r, entry) == IF At(r, ",") THEN DictFrom(Advance(r), Append(entries, entry))
                      ELSE R(Expect(r, "}"), Node("Dict", "", Append(entries, entry)))
  IN  IF Cur(s) \in {"}", "EOF"} THEN R(Expect(s, "}"), Node("Dict", "", entries))
      ELSE IF At(s, "**") THEN go(spread.s, Unpack(spread.x))
      ELSE IF At(key.s, ":")
        THEN IF AtClause(value.s)
             THEN Comprehension("DictComp", << Entry(key.x, value.x) >>, value.s, "}")
             ELSE go(value.s, Entry(key.x, value.x))
      ELSE IF AtClause(key.s) THEN Comprehension("SetComp", << key.x >>, key.s, "}")
      ELSE SetFrom(key.s, << key.x >>)
ParseDict(s) == DictFrom(Advance(s), << >>)

-------------------------------------------------------------------------------
(* Primaries *)

Lambda(s0) ==
  LET s == Advance(s0)
      ps == IF At(s, ":") THEN R(s, << >>) ELSE NameList(s, << >>)
      body == Parse("expression", Expect(ps.s, ":"))
  IN  R(body.s, Node("Lambda", "", Append(ps.x, body.x)))

Atom(s) ==
  CASE AtName(s) -> R(Advance(s), Name(Cur(s)))
    [] Cur(s) \in Literals -> R(Advance(s), Lit(Cur(s)))
    [] Cur(s) \in Strings -> ParseString(s)
    [] At(s, "(") -> ParseGroup(s)
    [] At(s, "[") -> ParseList(s)
    [] At(s, "{") -> ParseDict(s)
    [] At(s, "lambda") -> Lambda(s)
    [] OTHER -> R(Advance(Error(s)), Lit("None"))

NoArgs == [args |-> << >>, stars |-> << >>, keywords |-> << >>, kwargs |-> Nil]

OneStar(s, a) ==
  LET r == Parse("expression", IF At(s, "*") THEN Advance(s) ELSE s)
  IN  R(r.s, IF At(s, "*") THEN [a EXCEPT !.stars = << r.x >>]
             ELSE [a EXCEPT !.args = Append(@, r.x)])

\* One argument of a call; a bare generator is to be followed by ')'.
Argument(s, a) ==
  CASE At(s, "*") ->
         LET r == Parse("expression", Advance(s))
         IN  R(r.s, [a EXCEPT !.stars = Append(@, r.x)])
    [] At(s, "**") ->
         LET r == Parse("expression", Advance(s))
         IN  IF a.kwargs = Nil THEN R(r.s, [a EXCEPT !.kwargs = r.x])
             ELSE R(ErrorAt(s, r.s), a)
    [] AtName(s) /\ Peek(s, 1) = "=" ->
         LET r == Parse("expression", Advance(Advance(s)))
         IN  R(r.s, [a EXCEPT !.keywords = Append(@, Keyword(Cur(s), r.x))])
    [] OTHER ->
         LET r == Parse("expression", s)
             g == Comprehension("GenExp", << r.x >>, r.s, "")
         IN  IF AtClause(r.s)
             THEN R(ErrorUnless(At(g.s, ")"), g.s), [a EXCEPT !.args = Append(@, g.x)])
             ELSE R(r.s, [a EXCEPT !.args = Append(@, r.x)])

RECURSIVE Arguments(_, _)
Arguments(s, a) ==
  IF Cur(s) \in {")", "EOF"} THEN R(s, a)
  ELSE LET r == Argument(s, a)
       IN  IF At(r.s, ",") THEN Arguments(Advance(r.s), r.x) ELSE r

ParseCall(s, fn) ==
  LET r == Parse("arguments", Advance(s))
  IN  R(Expect(r.s, ")"), Call(fn, r.x.args, r.x.stars, r.x.keywords, r.x.kwargs))

OptionalUnless(stops, s) == IF Cur(s) \in stops THEN R(s, Nil) ELSE Parse("expression", s)

SubscriptIndex(s) ==
  LET lower == OptionalUnless({":", "]"}, s)
      upper == OptionalUnless({":", "]"}, Advance(lower.s))
      step == IF At(upper.s, ":") THEN OptionalUnless({"]"}, Advance(upper.s))
              ELSE R(upper.s, Nil)
  IN  IF At(lower.s, ":") THEN R(step.s, Node("Slice", "", << lower.x, upper.x, step.x >>))
      ELSE lower

RECURSIVE PrimaryFrom(_)
PrimaryFrom(r) ==
  CASE At(r.s, "(") -> PrimaryFrom(ParseCall(r.s, r.x))
    [] At(r.s, ".") ->
         LET n == Parse("name", Advance(r.s))
         IN  PrimaryFrom(R(n.s, Node("Attribute", n.x.tag, << r.x >>)))
    [] At(r.s, "[") ->
         LET index == SubscriptIndex(Advance(r.s))
         IN  PrimaryFrom(R(Expect(index.s, "]"),
                           Node("Subscript", "", << r.x, index.x >>)))
    [] OTHER -> r
ParsePrimary(s) == PrimaryFrom(Parse("atom", s))

-------------------------------------------------------------------------------
(* Operators, from the tightest *)

PowerOfPrimary(s) ==
  LET x == Parse("primary", s)
      y == Parse("primary", Advance(x.s))
  IN  IF At(x.s, "**") THEN R(y.s, Binary("**", x.x, y.x)) ELSE x

Power(s) ==
  LET x == Parse("primary", s)
      y == Parse("factor", Advance(x.s))
  IN  IF At(x.s, "**") THEN R(y.s, Binary("**", x.x, y.x)) ELSE x

ParseFactor(s) ==
  IF Cur(s) \in {"+", "-", "~"}
  THEN LET x == Parse("factor", Advance(s)) IN R(x.s, Unary(Cur(s), x.x))
  ELSE Parse("power", s)

RECURSIVE BinaryFrom(_, _)
\* Precedence climbing: the operators of at least the level.
BinaryFrom(r, least) ==
  LET op == Cur(r.s)
      y == BinaryFrom(Parse("factor", Advance(r.s)), BinPrec[op] + 1)
  IN  IF op \in DOMAIN BinPrec /\ BinPrec[op] >= least
      THEN BinaryFrom(R(y.s, Binary(op, r.x, y.x)), least)
      ELSE r
ParseBinary(s) == BinaryFrom(Parse("factor", s), 1)

\* The comparison operator at s, the tokens it takes, or "".
ComparisonAt(s) ==
  CASE Cur(s) \in Comparisons \cup {"in"} -> << Cur(s), 1 >>
    [] At(s, "is") -> IF Peek(s, 1) = "not" THEN << "is not", 2 >> ELSE << "is", 1 >>
    [] At(s, "not") /\ Peek(s, 1) = "in" -> << "not in", 2 >>
    [] OTHER -> << "", 0 >>

RECURSIVE CompareFrom(_, _, _)
CompareFrom(r, ops, ys) ==
  LET op == ComparisonAt(r.s)
      y == Parse("bitwise_or", IF op[2] = 2 THEN Advance(Advance(r.s)) ELSE Advance(r.s))
  IN  IF op[1] # "" THEN CompareFrom(R(y.s, r.x), Append(ops, op[1]), Append(ys, y.x))
      ELSE IF ops = << >> THEN r
      ELSE R(r.s, Compare(r.x, ops, ys))
Comparison(s) == CompareFrom(Parse("bitwise_or", s), << >>, << >>)

Inversion(s) ==
  IF At(s, "not")
  THEN LET x == Parse("inversion", Advance(s)) IN R(x.s, Unary("not", x.x))
  ELSE Parse("comparison", s)

RECURSIVE AndFrom(_), OrFrom(_)
AndFrom(r) ==
  LET y == Parse("inversion", Advance(r.s))
  IN  IF At(r.s, "and") THEN AndFrom(R(y.s, BoolOp("and", r.x, y.x))) ELSE r
Conjunction(s) == AndFrom(Parse("inversion", s))
OrFrom(r) ==
  LET y == Parse("conjunction", Advance(r.s))
  IN  IF At(r.s, "or") THEN OrFrom(R(y.s, BoolOp("or", r.x, y.x))) ELSE r
Disjunctions(s) == OrFrom(Parse("conjunction", s))

YieldExpr(s0) ==
  LET s == Advance(s0)
      from == At(s, "from")
      value == OptionalUnless(StmtEnds \cup {")", ","}, IF from THEN Advance(s) ELSE s)
  IN  R(value.s, Node("Yield", IF from THEN "from" ELSE "", << value.x >>))

Conditional(s) ==
  LET x == Parse("disjunction", s)
      cond == Parse("disjunction", Advance(x.s))
      orelse == Parse("expression", Expect(cond.s, "else"))
      value == Parse("expression", Advance(x.s))
  IN  CASE At(x.s, "if") -> R(orelse.s, IfExp(x.x, cond.x, orelse.x))
        [] At(x.s, ":=") ->
             IF x.x.op = "Name" THEN R(value.s, Node("Named", x.x.tag, << value.x >>))
             ELSE R(ErrorAt(s, Advance(x.s)), x.x)
        [] OTHER -> x

Expression(s) ==
  CASE At(s, "lambda") -> Lambda(s)
    [] At(s, "yield") -> YieldExpr(s)
    [] At(s, "await") ->
         LET x == Parse("primary", Advance(s)) IN R(x.s, Node("Await", "", << x.x >>))
    [] OTHER -> Conditional(s)

\* An unparenthesized tuple, where a statement takes a list of values.
ExpressionList(s) ==
  LET first == Parse("expression", s)
      elems == MoreElements("expression", R(first.s, << first.x >>), StmtEnds)
  IN  IF At(first.s, ",") THEN R(elems.s, Tuple(elems.x)) ELSE first

\* The subject of a match: a tuple ends at the colon.
MatchSubject(s) ==
  LET first == Parse("expression", s)
      elems == MoreElements("expression", R(first.s, << first.x >>), {":", "EOF"})
  IN  IF At(first.s, ",") THEN R(elems.s, Tuple(elems.x)) ELSE first

OptionalExpression(s) == OptionalUnless(StmtEnds, s)
OptionalExpressionList(s) == IF AtStmtEnd(s) THEN R(s, Nil) ELSE ExpressionList(s)

-------------------------------------------------------------------------------
(* Types *)

TypeSubscript(base, args) ==
  Node("Subscript", "", << base, IF Len(args) = 1 THEN args[1] ELSE Tuple(args) >>)

\* Literal[...] lists expressions, Annotated[...] a type and expressions.
GenericType(s, base) ==
  LET r == Listed("type", Advance(s), "]", << >>, FALSE)
  IN  R(Expect(r.s, "]"), TypeSubscript(base, r.x))

LiteralType(s, base) ==
  LET r == Listed("expression", Expect(s, "["), "]", << >>, FALSE)
  IN  R(Expect(r.s, "]"), TypeSubscript(base, r.x))

AnnotatedType(s0, base) ==
  LET s == Expect(s0, "[")
      first == Parse("type", s)
      r == IF Cur(s) \in {"]", "EOF"} THEN R(s, << >>)
           ELSE MoreElements("expression", R(first.s, << first.x >>), {"]"})
  IN  R(Expect(r.s, "]"), TypeSubscript(base, r.x))

CallableType(s, base) ==
  LET params == Listed("type", Expect(Expect(s, "["), "["), "]", << >>, FALSE)
      result == Parse("type", Expect(Expect(params.s, "]"), ","))
  IN  R(Expect(result.s, "]"), TypeSubscript(base, << Tuple(params.x), result.x >>))

TypeAtom(s) ==
  LET base == DottedFrom(R(Advance(s), Name(Cur(s))))
  IN  CASE At(s, "str") -> ParseString(s)
        [] ~AtName(s) /\ ~At(s, "None") -> R(Error(s), Name(""))
        [] ~At(base.s, "[") -> base
        [] base.x.tag = "Annotated" -> AnnotatedType(base.s, base.x)
        [] base.x.tag = "Literal" -> LiteralType(base.s, base.x)
        [] base.x.tag = "Callable" -> CallableType(base.s, base.x)
        [] OTHER -> GenericType(base.s, base.x)

RECURSIVE UnionFrom(_)
UnionFrom(r) ==
  IF ~At(r.s, "|") THEN r
  ELSE LET t == Parse("type_atom", Advance(r.s)) IN UnionFrom(R(t.s, Append(r.x, t.x)))
ParseType(s) ==
  LET first == Parse("type_atom", s)
      members == UnionFrom(R(first.s, << first.x >>))
  IN  IF At(first.s, "|") THEN R(members.s, Node("Union", "", members.x)) ELSE first

-------------------------------------------------------------------------------
(* Patterns *)

Sequence(elems) == Node("Sequence", "", elems)
Value(x) == Node("Value", "", << x >>)
Wildcard == Leaf("Wildcard", "_")

SequencePattern(s, close) ==
  LET r == Listed("seq_elem", Advance(s), close, << >>, FALSE)
  IN  R(Expect(r.s, close),
        IF close = ")" /\ Len(r.x) = 1 /\ ~r.comma THEN r.x[1] ELSE Sequence(r.x))

RECURSIVE MappingFrom(_, _)
MappingFrom(s, items) ==
  LET end(r, xs) == R(Expect(r, "}"), Node("Mapping", "", xs))
      rest == Parse("name", Advance(s))
      key == Parse("expression", s)
      value == Parse("pattern", Expect(key.s, ":"))
      more == Append(items, Node("Item", ":", << key.x, value.x >>))
  IN  CASE Cur(s) \in {"}", "EOF"} -> end(s, items)
        [] At(s, "**") -> end(IF At(rest.s, ",") THEN Advance(rest.s) ELSE rest.s,
                              Append(items, Node("Item", "**", << rest.x >>)))
        [] OTHER -> IF At(value.s, ",") THEN MappingFrom(Advance(value.s), more)
                    ELSE end(value.s, more)
MappingPattern(s) == MappingFrom(Advance(s), << >>)

RECURSIVE ClassArguments(_, _, _)
ClassArguments(s, args, keywords) ==
  LET named == AtName(s) /\ Peek(s, 1) = "="
      p == Parse("pattern", IF named THEN Advance(Advance(s)) ELSE s)
      as == IF named THEN args ELSE Append(args, p.x)
      ks == IF named THEN Append(keywords, Keyword(Cur(s), p.x)) ELSE keywords
  IN  CASE Cur(s) \in {")", "EOF"} -> R(s, args \o keywords)
        [] At(p.s, ",") -> ClassArguments(Advance(p.s), as, ks)
        [] OTHER -> R(p.s, as \o ks)
ClassPattern(s, class) ==
  LET r == ClassArguments(Expect(s, "("), << >>, << >>)
  IN  R(Expect(r.s, ")"), Node("ClassPattern", "", << class >> \o r.x))

RECURSIVE AttributesFrom(_)
AttributesFrom(r) ==
  IF ~At(r.s, ".") THEN r
  ELSE LET n == Parse("name", Advance(r.s))
       IN  AttributesFrom(R(n.s, Node("Attribute", n.x.tag, << r.x >>)))

NamePattern(s) ==
  LET path == AttributesFrom(R(Advance(s), Name(Cur(s))))
  IN  CASE At(s, "_") -> R(Advance(s), Wildcard)
        [] At(path.s, "(") -> ClassPattern(path.s, path.x)
        [] path.x.op = "Attribute" -> R(path.s, Value(path.x))
        [] OTHER -> R(path.s, Leaf("Capture", Cur(s)))

ClosedPattern(s) ==
  LET constant == Parse("atom", s)
      number == Parse("atom", Advance(s))
  IN  CASE At(s, "[") -> SequencePattern(s, "]")
        [] At(s, "(") -> SequencePattern(s, ")")
        [] At(s, "{") -> MappingPattern(s)
        [] Cur(s) \in Literals \cup {"str", "fstr"} -> R(constant.s, Value(constant.x))
        [] Cur(s) \in {"-", "+"} -> R(number.s, Value(Unary(Cur(s), number.x)))
        [] AtName(s) -> NamePattern(s)
        [] OTHER -> R(Advance(Error(s)), Wildcard)

RECURSIVE Alternatives(_)
Alternatives(r) ==
  IF ~At(r.s, "|") THEN r
  ELSE LET p == Parse("closed_pattern", Advance(r.s)) IN Alternatives(R(p.s, Append(r.x, p.x)))

OrPattern(s) ==
  LET first == Parse("closed_pattern", s)
      alts == Alternatives(R(first.s, << first.x >>))
      pat == IF Len(alts.x) = 1 THEN first.x ELSE Node("Or", "", alts.x)
      name == Parse("name", Advance(alts.s))
  IN  IF At(alts.s, "as") THEN R(name.s, Node("As", name.x.tag, << pat >>))
      ELSE R(alts.s, pat)

SeqElem(s) ==
  LET rest == Advance(s)
  IN  IF ~At(s, "*") THEN Parse("pattern", s)
      ELSE IF AtName(rest) THEN R(Advance(rest), Leaf("Star", Cur(rest)))
      ELSE R(rest, Leaf("Star", ""))

\* An open sequence without brackets.
Patterns(s) ==
  LET first == Parse("seq_elem", s)
      elems == MoreElements("seq_elem", R(first.s, << first.x >>), {":", "if", "EOF"})
  IN  IF At(first.s, ",") THEN R(elems.s, Sequence(elems.x)) ELSE first

-------------------------------------------------------------------------------
Parse(rule, s) ==
  CASE rule = "expression" -> Expression(s)
    [] rule = "expression_list" -> ExpressionList(s)
    [] rule = "optional_expression" -> OptionalExpression(s)
    [] rule = "optional_expression_list" -> OptionalExpressionList(s)
    [] rule = "match_subject" -> MatchSubject(s)
    [] rule = "name" -> NameAt(s)
    [] rule = "names" -> NameList(s, << >>)
    [] rule = "starred" -> StarredExpression(s)
    [] rule = "disjunction" -> Disjunctions(s)
    [] rule = "conjunction" -> Conjunction(s)
    [] rule = "inversion" -> Inversion(s)
    [] rule = "comparison" -> Comparison(s)
    [] rule = "bitwise_or" -> ParseBinary(s)
    [] rule = "factor" -> ParseFactor(s)
    [] rule = "power" -> Power(s)
    [] rule = "primary" -> ParsePrimary(s)
    [] rule = "arguments" -> Arguments(s, NoArgs)
    [] rule = "atom" -> Atom(s)
    [] rule = "type" -> ParseType(s)
    [] rule = "type_atom" -> TypeAtom(s)
    [] rule = "patterns" -> Patterns(s)
    [] rule = "pattern" -> OrPattern(s)
    [] rule = "closed_pattern" -> ClosedPattern(s)
    [] rule = "seq_elem" -> SeqElem(s)
===============================================================================

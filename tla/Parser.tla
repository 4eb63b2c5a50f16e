-------------------------------- MODULE Parser --------------------------------
(***************************************************************************)
(* Statements and recovery of parser/parser.go, over the expressions of    *)
(* ParseExprs: a file of tokens becomes a module, one statement of its top *)
(* level at a time. What is wrong is reported, and the parser goes on at a *)
(* next line or behind an indented block.                                  *)
(***************************************************************************)
EXTENDS ParseExprs, Integers, FiniteSets

CONSTANT Files     \* the files to parse, a sequence of sets: of each file its tokens,
                   \* and the statements they write or Unknown
VARIABLES
  written,   \* the statements that the tokens write, or Unknown
  p,         \* the parser
  body       \* the statements of the module so far

Unknown == << Leaf("unknown", "") >>
file == << toks, written >>
vars == << toks, written, p, body >>

AugAssigns == {"+=", "-=", "*=", "/=", "//=", "%=", "&=", "|=", "^=", "<<=", ">>=", "**="}

\* ParseRule(rule, s), as Parse: a statement, a block, a line, or what they contain.
RECURSIVE ParseRule(_, _)

-------------------------------------------------------------------------------
(* Ends of lines and recovery *)

RECURSIVE SkipLine(_), SkipNested(_, _)
SkipLine(s) ==
  CASE At(s, "EOF") -> s
    [] At(s, "NEWLINE") -> Advance(s)
    [] OTHER -> SkipLine(Advance(s))

SkipNested(s, depth) ==
  LET d == CASE At(s, "INDENT") -> depth + 1
             [] At(s, "DEDENT") -> depth - 1
             [] OTHER -> depth
  IN  IF At(s, "EOF") THEN s
      ELSE IF d = 0 THEN Advance(s) ELSE SkipNested(Advance(s), d)
SkipBlock(s) == IF At(s, "INDENT") THEN SkipNested(s, 0) ELSE s

SkipHeaderOnly(s) == SkipLine(Error(s))
SkipStatement(s) == SkipBlock(SkipLine(Error(s)))

ExpectLineEnd(s) ==
  CASE At(s, "NEWLINE") -> Advance(s)
    [] At(s, "EOF") -> s
    [] OTHER -> SkipLine(Error(s))

-------------------------------------------------------------------------------
(* Simple statements *)

RequireTarget(s, x) ==
  ErrorUnless(x.op \in {"Name", "Subscript", "Tuple", "Attribute"}, s)

RECURSIVE FlatTarget(_, _), AssignFrom(_, _), DeleteFrom(_, _), DottedName(_, _),
          Aliases(_, _), Dots(_, _), RequireTargets(_, _)

FlatTarget(s, xs) ==
  LET star == At(s, "*")
      n == ParseRule("name", IF star THEN Advance(s) ELSE s)
      more == Append(xs, IF star THEN Starred(n.x) ELSE n.x)
  IN  IF At(n.s, ",") THEN FlatTarget(Advance(n.s), more) ELSE R(n.s, Tuple(more))

TupleAssign(s) ==
  LET target == FlatTarget(s, << >>)
      value == ParseRule("expression_list", Advance(target.s))
  IN  IF At(target.s, "=") THEN R(value.s, << Node("Assign", "", << target.x, value.x >>) >>)
      ELSE R(Error(target.s), << >>)

RequireTargets(s, xs) ==
  IF xs = << >> THEN s ELSE RequireTargets(RequireTarget(s, Head(xs)), Tail(xs))

\* Every value but the last is a target, and they are looked at again at the end.
AssignFrom(s, targets) ==
  LET value == ParseRule("expression_list", Advance(s))
  IN  IF At(value.s, "=")
      THEN AssignFrom(RequireTarget(value.s, value.x), Append(targets, value.x))
      ELSE R(RequireTargets(value.s, targets), << Node("Assign", "", Append(targets, value.x)) >>)

ExpressionStatement(s) ==
  LET x == ParseRule("expression", s)
      value == ParseRule("expression", Advance(x.s))
  IN  CASE At(x.s, "=") -> AssignFrom(x.s, << x.x >>)
        [] Cur(x.s) \in AugAssigns ->
             R(RequireTarget(value.s, x.x), << Node("AugAssign", Cur(x.s), << x.x, value.x >>) >>)
        [] OTHER -> R(x.s, << Node("Expr", "", << x.x >>) >>)

AnnAssign(s) ==
  LET ann == ParseRule("type", Expect(Advance(s), ":"))
      value == IF At(ann.s, "=") THEN ParseRule("expression_list", Advance(ann.s))
               ELSE R(ann.s, Nil)
  IN  R(value.s, << Node("AnnAssign", "", << Name(Cur(s)), ann.x, value.x >>) >>)

DeleteFrom(s, targets) ==
  LET x == ParseRule("expression", s)
      t == ErrorUnless(x.x.op \in {"Name", "Subscript", "Attribute"}, x.s)
      more == Append(targets, x.x)
  IN  IF At(t, ",") /\ ~AtStmtEnd(Advance(t)) THEN DeleteFrom(Advance(t), more)
      ELSE R(IF At(t, ",") THEN Advance(t) ELSE t, << Node("Delete", "", more) >>)

Assertion(s) ==
  LET test == ParseRule("expression", Advance(s))
      msg == IF At(test.s, ",") THEN ParseRule("expression", Advance(test.s))
             ELSE R(test.s, Nil)
  IN  R(msg.s, << Node("Assert", "", << test.x, msg.x >>) >>)

Raise(s) ==
  LET exc == ParseRule("optional_expression", Advance(s))
      cause == IF At(exc.s, "from") THEN ParseRule("expression", Advance(exc.s))
               ELSE R(exc.s, Nil)
  IN  R(cause.s, << Node("Raise", "", << exc.x, cause.x >>) >>)

\* from takes one expression, a plain yield a list.
YieldStatement(s0) ==
  LET s == Advance(s0)
      from == At(s, "from")
      value == IF from THEN ParseRule("optional_expression", Advance(s))
               ELSE ParseRule("optional_expression_list", s)
  IN  R(value.s, << Node("YieldStmt", IF from THEN "from" ELSE "", << value.x >>) >>)

Return(s) ==
  LET value == ParseRule("optional_expression_list", Advance(s))
  IN  R(value.s, << Node("Return", "", << value.x >>) >>)

TypeAlias(s) ==
  LET n == ParseRule("name", Advance(s))
      value == ParseRule("expression", Expect(n.s, "="))
  IN  R(value.s, << Node("TypeAlias", n.x.tag, << value.x >>) >>)

\* Scopes(op): global or nonlocal and its names
Scopes(op, s) ==
  LET names == ParseRule("names", Advance(s)) IN R(names.s, << Node(op, "", names.x) >>)

DottedName(s, parts) ==
  LET n == ParseRule("name", s)
      more == Append(parts, n.x)
  IN  IF At(n.s, ".") /\ Peek(n.s, 1) \in Names THEN DottedName(Advance(n.s), more)
      ELSE R(n.s, Node("Dotted", "", more))

Aliases(s, xs) ==
  LET n == ParseRule("dotted_name", s)
      as == IF At(n.s, "as") THEN ParseRule("name", Advance(n.s)) ELSE R(n.s, Nil)
      more == Append(xs, Node("Alias", "", << n.x, as.x >>))
  IN  IF AtStmtEnd(s) \/ At(s, ")") THEN R(s, xs)
      ELSE IF At(as.s, ",") THEN Aliases(Advance(as.s), more)
      ELSE R(as.s, more)

Import(s) ==
  LET names == ParseRule("aliases", Advance(s)) IN R(names.s, << Node("Import", "", names.x) >>)

Dots(s, xs) == IF At(s, ".") THEN Dots(Advance(s), Append(xs, Leaf("Dot", "."))) ELSE R(s, xs)

ImportFrom(s0) ==
  LET level == Dots(Advance(s0), << >>)
      from == IF AtName(level.s) THEN ParseRule("dotted_name", level.s)
              ELSE R(level.s, Node("Dotted", "", << >>))
      s == Expect(from.s, "import")
      inside == ParseRule("aliases", Advance(s))
      names == CASE At(s, "*") -> R(Advance(s), << Leaf("Star", "*") >>)
                 [] At(s, "(") -> R(Expect(inside.s, ")"), inside.x)
                 [] OTHER -> ParseRule("aliases", s)
  IN  R(names.s, << Node("ImportFrom", "", << Group(level.x), from.x >> \o names.x) >>)

SimpleStmt(s) ==
  CASE Cur(s) \in {"pass", "break", "continue"} -> R(Advance(s), << Leaf(Cur(s), "") >>)
    [] At(s, "return") -> Return(s)
    [] At(s, "yield") -> YieldStatement(s)
    [] At(s, "raise") -> Raise(s)
    [] At(s, "global") -> Scopes("Global", s)
    [] At(s, "nonlocal") -> Scopes("Nonlocal", s)
    [] At(s, "del") -> DeleteFrom(Advance(s), << >>)
    [] At(s, "assert") -> Assertion(s)
    [] At(s, "import") -> Import(s)
    [] At(s, "from") -> ImportFrom(s)
    [] AtName(s) /\ Peek(s, 1) = ":" -> AnnAssign(s)
    [] At(s, "type") /\ Peek(s, 1) \in Names -> TypeAlias(s)
    [] AtName(s) /\ Peek(s, 1) = "," -> TupleAssign(s)
    [] OTHER -> ExpressionStatement(s)

RECURSIVE SimpleLine(_, _)
SimpleLine(s, stmts) ==
  LET r == ParseRule("simple", s)
      next == Advance(r.s)
      more == stmts \o r.x
  IN  IF ~At(r.s, ";") THEN R(ExpectLineEnd(r.s), more)
      ELSE IF Cur(next) \in {"NEWLINE", "EOF"} THEN R(ExpectLineEnd(next), more)
      ELSE SimpleLine(next, more)

-------------------------------------------------------------------------------
(* Compound statements *)

RECURSIVE BlockFrom(_, _), Handlers(_, _), WithItems(_, _),
          Params(_, _, _), ClassArgs(_, _), ClassBody(_, _), Cases(_, _),
          Decorators(_, _), ForTarget(_, _)

BlockFrom(s, stmts) ==
  LET r == ParseRule("statement", s)
  IN  CASE Cur(s) \in {"DEDENT", "EOF"} -> R(Expect(s, "DEDENT"), stmts)
        [] At(s, "NEWLINE") -> BlockFrom(Advance(s), stmts)
        [] OTHER -> BlockFrom(r.s, stmts \o r.x)

\* Past the NEWLINE of a header, at the first token of its block.
Opened(s) == Advance(Advance(s))

Block(s0) ==
  LET s == Expect(s0, ":")
  IN  CASE ~At(s, "NEWLINE") -> ParseRule("line", s)
        [] ~At(Advance(s), "INDENT") -> R(Error(Advance(s)), << >>)
        [] OTHER -> BlockFrom(Opened(s), << >>)

ElseBlock(s) == IF At(s, "else") THEN ParseRule("block", Advance(s)) ELSE R(s, << >>)

ParseIf(s) ==
  LET cond == ParseRule("expression", Advance(s))
      then == ParseRule("block", cond.s)
      elif == ParseRule("if", then.s)
      orelse == IF At(then.s, "elif") THEN R(elif.s, << elif.x >>)
                ELSE ParseRule("else", then.s)
  IN  R(orelse.s, Node("If", "", << cond.x, Group(then.x), Group(orelse.x) >>))

ParseWhile(s) ==
  LET cond == ParseRule("expression", Advance(s))
      loop == ParseRule("block", cond.s)
      orelse == ParseRule("else", loop.s)
  IN  R(orelse.s, Node("While", "", << cond.x, Group(loop.x), Group(orelse.x) >>))

\* The rest of a tuple of names; a comma need not be followed by one.
ForTarget(s, xs) ==
  LET next == Advance(s)
  IN  IF ~At(s, ",") THEN R(s, Tuple(xs))
      ELSE IF AtName(next) THEN ForTarget(Advance(next), Append(xs, Name(Cur(next))))
      ELSE ForTarget(next, xs)

ParseFor(s0) ==
  LET s == Advance(s0)
      target == CASE ~AtName(s) -> R(Error(s), Name(""))
                  [] Peek(s, 1) = "," -> ForTarget(Advance(s), << Name(Cur(s)) >>)
                  [] OTHER -> R(Advance(s), Name(Cur(s)))
      iter == ParseRule("expression_list", Expect(target.s, "in"))
      loop == ParseRule("block", iter.s)
      orelse == ParseRule("else", loop.s)
  IN  R(orelse.s, Node("For", "", << target.x, iter.x, Group(loop.x), Group(orelse.x) >>))

ExceptHandler(s0) ==
  LET starred == At(Advance(s0), "*")
      s == IF starred THEN Advance(Advance(s0)) ELSE Advance(s0)
      type == IF At(s, ":") THEN R(s, Nil) ELSE ParseRule("expression", s)
      name == IF ~At(s, ":") /\ At(type.s, "as") THEN ParseRule("name", Advance(type.s))
              ELSE R(type.s, Nil)
      handler == ParseRule("block", name.s)
  IN  R(handler.s, Node("Except", IF starred THEN "*" ELSE "",
                        << type.x, name.x, Group(handler.x) >>))

Handlers(s, hs) ==
  LET h == ExceptHandler(s)
  IN  IF At(s, "except") THEN Handlers(h.s, Append(hs, h.x)) ELSE R(s, hs)

ParseTry(s) ==
  LET try == ParseRule("block", Advance(s))
      handlers == ParseRule("handlers", try.s)
      orelse == ParseRule("else", handlers.s)
      final == IF At(orelse.s, "finally") THEN ParseRule("block", Advance(orelse.s))
               ELSE R(orelse.s, << >>)
  IN  R(IF handlers.x = << >> /\ final.x = << >> THEN ErrorAt(s, final.s) ELSE final.s,
        Node("Try", "", << Group(try.x), Group(handlers.x), Group(orelse.x), Group(final.x) >>))

WithItems(s, items) ==
  LET x == ParseRule("expression", s)
      as == IF At(x.s, "as") THEN ParseRule("name", Advance(x.s)) ELSE R(x.s, Nil)
      more == Append(items, Node("Item", "", << x.x, as.x >>))
  IN  IF At(as.s, ",") THEN WithItems(Advance(as.s), more) ELSE R(as.s, more)

ParseWith(s) ==
  LET items == WithItems(Advance(s), << >>)
      inner == ParseRule("block", items.s)
  IN  R(inner.s, Node("With", "", << Group(items.x), Group(inner.x) >>))

Param(op, kind, s) ==
  LET n == ExpectName(s)
      ann == IF At(n, ":") THEN ParseRule("type", Advance(n)) ELSE R(n, Nil)
      def == IF At(ann.s, "=") THEN ParseRule("expression", Advance(ann.s)) ELSE R(ann.s, Nil)
  IN  R(def.s, Node(op, kind, << Name(Cur(s)), ann.x, def.x >>))

\* A slash makes positional-only what came before; a star, keyword-only what follows.
Params(s, kind, ps) ==
  LET slash == [i \in DOMAIN ps |->
                  IF ps[i].tag = "normal" THEN [ps[i] EXCEPT !.tag = "posonly"] ELSE ps[i]]
      next == Advance(s)
      vararg == Param("Vararg", "normal", next)
      kwarg == Param("Kwarg", "kwonly", next)
      param == Param("Param", kind, s)
      SkipComma(t) == IF At(t, ",") THEN Advance(t) ELSE t
  IN  CASE At(s, "/") -> Params(SkipComma(next), kind, slash)
        [] At(s, "*") /\ At(next, ",") -> Params(Advance(next), "kwonly", ps)
        [] At(s, "*") ->
             IF At(vararg.s, ",") THEN Params(Advance(vararg.s), "kwonly", Append(ps, vararg.x))
             ELSE R(vararg.s, Append(ps, vararg.x))
        [] At(s, "**") -> R(SkipComma(kwarg.s), Append(ps, kwarg.x))
        [] OTHER ->
             IF At(param.s, ",") /\ ~At(Advance(param.s), ")")
             THEN Params(Advance(param.s), kind, Append(ps, param.x))
             ELSE R(SkipComma(param.s), Append(ps, param.x))

ParseFunction(s, decorators) ==
  LET n == ParseRule("name", Advance(s))
      open == Expect(n.s, "(")
      ps == IF Cur(open) \in {")", "EOF"} THEN R(open, << >>) ELSE ParseRule("params", open)
      close == Expect(ps.s, ")")
      returns == IF At(close, "->") THEN ParseRule("type", Advance(close)) ELSE R(close, Nil)
      inner == ParseRule("block", returns.s)
  IN  R(inner.s, Node("Function", n.x.tag,
         << Group(decorators), Group(ps.x), returns.x, Group(inner.x) >>))

ClassArgs(s, xs) ==
  LET named == AtName(s) /\ Peek(s, 1) = "="
      x == ParseRule("expression", CASE named -> Advance(Advance(s))
                        [] At(s, "**") -> Advance(s)
                        [] OTHER -> s)
      arg == CASE named -> Keyword(Cur(s), x.x)
               [] At(s, "**") -> Unpack(x.x)
               [] OTHER -> x.x
  IN  IF Cur(s) \in {")", "EOF"} THEN R(s, xs)
      ELSE IF At(x.s, ",") THEN ClassArgs(Advance(x.s), Append(xs, arg))
      ELSE R(x.s, Append(xs, arg))

ClassBody(s, stmts) ==
  LET f == ParseFunction(s, << >>)
      field == AnnAssign(s)
  IN  CASE Cur(s) \in {"DEDENT", "EOF"} -> R(Expect(s, "DEDENT"), stmts)
        [] At(s, "NEWLINE") -> ClassBody(Advance(s), stmts)
        [] At(s, "pass") -> ClassBody(ExpectLineEnd(Advance(s)), Append(stmts, Leaf("pass", "")))
        [] At(s, "def") -> ClassBody(f.s, Append(stmts, f.x))
        [] AtName(s) ->
             IF Peek(s, 1) = ":" THEN ClassBody(ExpectLineEnd(field.s), stmts \o field.x)
             ELSE ClassBody(SkipLine(Error(s)), stmts)
        [] OTHER -> ClassBody(SkipStatement(s), stmts)

ClassBlock(s0) ==
  LET s == Expect(s0, ":")
  IN  CASE ~At(s, "NEWLINE") -> R(SkipLine(Error(s)), << >>)
        [] ~At(Advance(s), "INDENT") -> R(Error(Advance(s)), << >>)
        [] OTHER -> ClassBody(Opened(s), << >>)

ParseClass(s, decorators) ==
  LET n == ParseRule("name", Advance(s))
      args == ClassArgs(Advance(n.s), << >>)
      header == IF At(n.s, "(") THEN R(Expect(args.s, ")"), args.x) ELSE R(n.s, << >>)
      inner == ParseRule("class_block", header.s)
  IN  R(inner.s, Node("Class", n.x.tag, << Group(decorators), Group(header.x), Group(inner.x) >>))

Async(r) == R(r.s, << Node("Async", "", << r.x >>) >>)
AsyncStatement(s0, decorators) ==
  LET s == Advance(s0)
  IN  CASE At(s, "def") -> Async(ParseFunction(s, decorators))
        [] At(s, "for") -> Async(ParseFor(s))
        [] At(s, "with") -> Async(ParseWith(s))
        [] OTHER -> R(SkipStatement(s), << Nil >>)

Decorators(s, ds) ==
  LET d == ParseRule("expression", Advance(s))
  IN  IF At(s, "@") THEN Decorators(ExpectLineEnd(d.s), Append(ds, d.x)) ELSE R(s, ds)

Decorated(s) ==
  LET ds == Decorators(s, << >>)
      f == ParseFunction(ds.s, ds.x)
      c == ParseClass(ds.s, ds.x)
  IN  CASE At(ds.s, "def") -> R(f.s, << f.x >>)
        [] At(ds.s, "class") -> R(c.s, << c.x >>)
        [] At(ds.s, "async") -> AsyncStatement(ds.s, ds.x)
        [] OTHER -> R(SkipStatement(ds.s), << Nil >>)

\* A line that begins with match is a statement when, outside brackets, its first
\* colon ends it.
RECURSIVE ColonEndsLine(_, _, _)
ColonEndsLine(s, i, depth) ==
  LET t == Peek(s, i)
  IN  CASE t \in {"NEWLINE", "EOF"} -> FALSE
        [] t = ":" /\ depth = 0 -> Peek(s, i + 1) = "NEWLINE"
        [] t \in {"(", "[", "{"} -> ColonEndsLine(s, i + 1, depth + 1)
        [] t \in {")", "]", "}"} -> ColonEndsLine(s, i + 1, depth - 1)
        [] OTHER -> ColonEndsLine(s, i + 1, depth)
IsMatchHeader(s) ==
  /\ At(s, "match")
  /\ Peek(s, 1) \notin {"=", ":"} \cup StmtEnds \cup AugAssigns
  /\ ColonEndsLine(s, 1, 0)

ParseCase(s) ==
  LET pattern == ParseRule("patterns", Advance(s))
      guard == IF At(pattern.s, "if") THEN ParseRule("expression", Advance(pattern.s))
               ELSE R(pattern.s, Nil)
      inner == ParseRule("block", guard.s)
  IN  R(inner.s, Node("Case", "", << pattern.x, guard.x, Group(inner.x) >>))

Cases(s, cs) ==
  LET c == ParseCase(s)
  IN  CASE Cur(s) \in {"DEDENT", "EOF"} -> R(Expect(s, "DEDENT"), cs)
        [] At(s, "NEWLINE") -> Cases(Advance(s), cs)
        [] At(s, "case") -> Cases(c.s, Append(cs, c.x))
        [] OTHER -> Cases(SkipStatement(s), cs)

ParseMatch(s0) ==
  LET subject == ParseRule("match_subject", Advance(s0))
      s == Expect(subject.s, ":")
      cases == CASE ~At(s, "NEWLINE") -> R(SkipLine(Error(s)), << >>)
                 [] ~At(Advance(s), "INDENT") -> R(Error(Advance(s)), << >>)
                 [] OTHER -> Cases(Opened(s), << >>)
  IN  R(cases.s, Node("Match", "", << subject.x, Group(cases.x) >>))

One(r) == R(r.s, << r.x >>)
Statement(s) ==
  CASE At(s, "if") -> One(ParseIf(s))
    [] At(s, "while") -> One(ParseWhile(s))
    [] At(s, "for") -> One(ParseFor(s))
    [] At(s, "try") -> One(ParseTry(s))
    [] At(s, "with") -> One(ParseWith(s))
    [] At(s, "def") -> One(ParseFunction(s, << >>))
    [] At(s, "class") -> One(ParseClass(s, << >>))
    [] At(s, "@") -> Decorated(s)
    [] At(s, "async") -> AsyncStatement(s, << >>)
    [] Cur(s) \in {"elif", "else", "except", "finally"} -> R(SkipStatement(s), << >>)
    [] IsMatchHeader(s) -> One(ParseMatch(s))
    [] OTHER -> ParseRule("line", s)

ParseRule(rule, s) ==
  CASE rule = "statement" -> Statement(s)
    [] rule = "block" -> Block(s)
    [] rule = "line" -> SimpleLine(s, << >>)
    [] rule = "if" -> ParseIf(s)
    [] rule = "else" -> ElseBlock(s)
    [] rule = "handlers" -> Handlers(s, << >>)
    [] rule = "params" -> Params(s, "normal", << >>)
    [] rule = "class_block" -> ClassBlock(s)
    [] rule = "simple" -> SimpleStmt(s)
    [] rule = "aliases" -> Aliases(s, << >>)
    [] rule = "dotted_name" -> DottedName(s, << >>)
    [] OTHER -> Parse(rule, s)

-------------------------------------------------------------------------------
(* The module *)

Init ==
  /\ \E k \in DOMAIN Files : \E f \in Files[k] : toks = f.toks /\ written = f.written
  /\ p = [i |-> 1, errs |-> {}]
  /\ body = << >>

SkipBlankLine ==
  /\ At(p, "NEWLINE")
  /\ p' = Advance(p)
  /\ UNCHANGED << file, body >>

SkipIndented ==
  /\ At(p, "INDENT")
  /\ p' = SkipBlock(Error(p))
  /\ UNCHANGED << file, body >>

TakeStatement ==
  /\ Cur(p) \notin {"NEWLINE", "INDENT", "EOF"}
  /\ LET r == ParseRule("statement", p)
     IN  p' = r.s /\ body' = body \o r.x
  /\ UNCHANGED file

Next == SkipBlankLine \/ SkipIndented \/ TakeStatement
Spec == Init /\ [][Next]_vars

-------------------------------------------------------------------------------
(* Properties *)

Done == At(p, "EOF")
Accepted == Done /\ p.errs = {}

\* What the grammar of docs/spec/03-grammar.md writes for a module is accepted and
\* parsed back to it: every operator, display, statement and pattern in every place.
RoundTrip == Done /\ written # Unknown => p.errs = {} /\ body = written

\* The tokens but for parentheses, commas, colons and ends of lines, which the
\* trees of accepted files tell.
Bare(ts) == SelectSeq(ts, LAMBDA t : t \notin {"(", ")", ",", ":", "NEWLINE"})
Opens == {"(", "[", "{"}
Closes == {")", "]", "}"}
BracketsAt(i, j) ==
  Cardinality({k \in i .. j : toks[k] \in Opens})
    - Cardinality({k \in i .. j : toks[k] \in Closes})
\* The tokens of the bracket opened at i that are in no other bracket.
Direct(i) ==
  {j \in i + 1 .. Len(toks) : toks[j] \notin Opens /\ \A k \in i .. j : BracketsAt(i, k) >= 1
                              /\ BracketsAt(i, j) = 1}
Starts(i) == {i + 1} \cup {j + 1 : j \in {k \in Direct(i) : toks[k] = ","}}
EntryFrom(i, start) ==
  {j \in Direct(i) : j >= start /\ ~\E k \in start .. j : k \in Direct(i) /\ toks[k] = ","}
Has(i, start, t) == \E j \in EntryFrom(i, start) : toks[j] = t

\* A comprehension behind other elements loses them, and a display of pairs with an
\* element loses the pairs before it.
DropsElements ==
  \E i \in DOMAIN toks : \E j, k \in Starts(i) :
    /\ j < k
    /\ \/ toks[i] \in {"[", "{"} /\ Has(i, k, "for")
       \/ toks[i] = "{" /\ (Has(i, j, ":") \/ toks[j] = "**")
          /\ ~Has(i, k, ":") /\ toks[k] \notin {"**", "}"}

\* Positional arguments, stars, keywords and a double star are kept apart, each in
\* its order.
Rank(start) ==
  CASE toks[start] = "*" -> 1 [] toks[start + 1] = "=" -> 2 [] toks[start] = "**" -> 3
    [] OTHER -> 0
RearrangesArguments ==
  \E i \in DOMAIN toks : toks[i] = "(" /\ \E j, k \in Starts(i) :
    j < k /\ toks[k] # ")" /\ Rank(j) > Rank(k)

\* The tree of an accepted file has all that was written, in the order written.
NothingDropped ==
  Accepted /\ written = Unknown =>
    (Bare(toks) = Bare(StmtsText(body)) <=> ~DropsElements /\ ~RearrangesArguments)

Compound == {"if", "while", "for", "try", "with", "def", "class", "elif", "else", "except",
             "finally"}

\* How many blocks are open before the token at i.
OpenBlocks(i) ==
  Cardinality({j \in 1 .. i - 1 : toks[j] = "INDENT"})
  - Cardinality({j \in 1 .. i - 1 : toks[j] = "DEDENT"})

\* The first token of the line that the token at i ends.
Opener(i) ==
  LET ends == {j \in 1 .. i - 1 : toks[j] \in {"NEWLINE", "INDENT", "DEDENT"}}
  IN  toks[1 + Max(ends \cup {0})]

\* An indented line inside a block, behind a line that opens no block there: the parser
\* takes its end for the end of the outer block, and is a block off from there.
LosesBlocks ==
  \E i \in 3 .. Len(toks) :
    /\ toks[i] = "INDENT" /\ OpenBlocks(i) > 0
    /\ toks[i - 2] # ":" \/ Opener(i - 1) \notin Compound

\* After whatever lines, the good line that ends the file is parsed as it stands.
Recovers == Done /\ Len(toks) > 1 /\ toks[Len(toks) - 1] = "pass" /\ ~LosesBlocks
  => body # << >> /\ Last(body) = Leaf("pass", "")
===============================================================================

----------------------------- MODULE SyntaxTrees ------------------------------
(***************************************************************************)
(* The syntax trees of ast/ast.go and, as a reference for the parser, how  *)
(* docs/spec/03-grammar.md writes each of them: its tokens, with the       *)
(* parentheses that the levels of the grammar ask for.                     *)
(*                                                                         *)
(* A tree is a node with a tag (an operator or a name) and its subtrees;   *)
(* where a subtree is optional Nil stands for its absence. Positions are   *)
(* left out. A token is its text; 1 stands for all numbers, and str, bytes *)
(* and fstr for the strings of each kind.                                  *)
(***************************************************************************)
EXTENDS Naturals, Sequences, SequencesExt

CONSTANT Names     \* the NAME tokens, soft keywords among them

Node(op, tag, kids) == [op |-> op, tag |-> tag, kids |-> kids]
Leaf(op, tag) == Node(op, tag, << >>)
Nil == Leaf("nil", "")
Group(kids) == Node("group", "", kids)

Name(n) == Leaf("Name", n)
Literals == {"1", "None"}
Strings == {"str", "bytes", "fstr"}
Lit(t) == Leaf("Lit", t)
Unary(o, x) == Node("Unary", o, << x >>)
Binary(o, x, y) == Node("Binary", o, << x, y >>)
BoolOp(o, x, y) == Node("BoolOp", o, << x, y >>)
IfExp(x, c, y) == Node("IfExp", "", << x, c, y >>)
Tuple(xs) == Node("Tuple", "", xs)
Starred(x) == Node("Starred", "*", << x >>)
\* ops and ys pair up after the first operand
Compare(x, ops, ys) ==
  Node("Compare", "", << x >> \o [i \in DOMAIN ys |-> Node("Cmp", ops[i], << ys[i] >>)])
Call(fn, args, stars, keywords, kwargs) ==
  Node("Call", "", << fn, Group(args), Group(stars), Group(keywords), kwargs >>)
Keyword(n, x) == Node("Keyword", n, << x >>)
For(tag, target, iter, ifs) == Node("Clause", tag, << target, iter >> \o ifs)
Comp(op, elems, clauses) == Node(op, "", << Group(elems), Group(clauses) >>)
\* An entry of a dict: a key and a value, or "**" and a mapping.
Entry(k, v) == Node("Entry", ":", << k, v >>)
Unpack(x) == Node("Entry", "**", << x >>)

-------------------------------------------------------------------------------
(* Levels of expressions: what may stand where without parentheses *)

BinaryLevel ==
  [o \in {"|", "^", "&", "<<", ">>", "+", "-", "*", "/", "//", "%", "@", "**"} |->
     CASE o = "|" -> 6 [] o = "^" -> 7 [] o = "&" -> 8
       [] o \in {"<<", ">>"} -> 9 [] o \in {"+", "-"} -> 10
       [] o = "**" -> 13 [] OTHER -> 11]

ExprLevel == 1      \* expression: lambda, yield, await, x if c else y, n := x
Disjunction == 2
Factor == 12
Primary == 14

Level(x) ==
  CASE x.op \in {"Lambda", "Yield", "Await", "IfExp", "Named"} -> ExprLevel
    [] x.op = "BoolOp" -> IF x.tag = "or" THEN Disjunction ELSE 3
    [] x.op = "Unary" -> IF x.tag = "not" THEN 4 ELSE Factor
    [] x.op = "Compare" -> 5
    [] x.op = "Binary" -> BinaryLevel[x.tag]
    [] OTHER -> Primary

Parens(ts) == << "(" >> \o ts \o << ")" >>

\* The sequences joined with a comma.
RECURSIVE Commas(_)
Commas(tss) ==
  IF tss = << >> THEN << >>
  ELSE IF Len(tss) = 1 THEN tss[1]
  ELSE tss[1] \o << "," >> \o Commas(Tail(tss))

RECURSIVE Joined(_, _)
Joined(tss, sep) ==
  IF tss = << >> THEN << >>
  ELSE IF Len(tss) = 1 THEN tss[1] ELSE tss[1] \o sep \o Joined(Tail(tss), sep)

\* Text(x): the tokens of a tree, by ExprText or StmtText below.
RECURSIVE Text(_)

TextAt(x, level) == IF Level(x) < level THEN Parens(Text(x)) ELSE Text(x)
Texts(xs) == [i \in DOMAIN xs |-> TextAt(xs[i], ExprLevel)]
Optional(before, x) == IF x = Nil THEN << >> ELSE before \o Text(x)

ClauseText(c) ==
  << "for" >> \o Text(c.kids[1]) \o << "in" >> \o TextAt(c.kids[2], Disjunction)
  \o FlattenSeq([i \in 1 .. Len(c.kids) - 2 |->
                   << "if" >> \o TextAt(c.kids[i + 2], Disjunction)])

CompText(x) ==
  Commas(Texts(x.kids[1].kids))
  \o FlattenSeq([i \in DOMAIN x.kids[2].kids |-> ClauseText(x.kids[2].kids[i])])

ArgTexts(x) ==
  Texts(x.kids[2].kids)
  \o [i \in DOMAIN x.kids[3].kids |-> << "*" >> \o Text(x.kids[3].kids[i])]
  \o Texts(x.kids[4].kids)
  \o IF x.kids[5] = Nil THEN << >> ELSE << << "**" >> \o Text(x.kids[5]) >>

TupleText(xs) ==
  IF Len(xs) = 1 THEN Text(xs[1]) \o << "," >> ELSE Commas(Texts(xs))

\* The tokens of an expression.
ExprText(x) ==
  LET k == x.kids
      At(i, level) == TextAt(k[i], level)
  IN  CASE x.op = "nil" -> << >>
        [] x.op \in {"Name", "Lit", "Str", "Dot"} -> << x.tag >>
        [] x.op = "Unary" ->
             << x.tag >> \o At(1, IF x.tag = "not" THEN 4 ELSE Factor)
        [] x.op = "Binary" ->
             IF x.tag = "**" THEN At(1, Primary) \o << "**" >> \o At(2, Factor)
             ELSE At(1, Level(x)) \o << x.tag >> \o At(2, Level(x) + 1)
        [] x.op = "BoolOp" -> At(1, Level(x)) \o << x.tag >> \o At(2, Level(x) + 1)
        [] x.op = "Compare" ->
             At(1, 6) \o FlattenSeq([i \in 1 .. Len(k) - 1 |->
               (CASE k[i + 1].tag = "is not" -> << "is", "not" >>
                  [] k[i + 1].tag = "not in" -> << "not", "in" >>
                  [] OTHER -> << k[i + 1].tag >>) \o TextAt(k[i + 1].kids[1], 6)])
        [] x.op = "IfExp" ->
             At(1, Disjunction) \o << "if" >> \o At(2, Disjunction)
             \o << "else" >> \o At(3, ExprLevel)
        [] x.op = "Named" -> << x.tag, ":=" >> \o At(1, ExprLevel)
        [] x.op = "Lambda" ->
             << "lambda" >> \o Commas(Texts(Front(k))) \o << ":" >> \o Text(Last(k))
        [] x.op = "Yield" ->
             (IF x.tag = "from" THEN << "yield", "from" >> ELSE << "yield" >>)
             \o At(1, ExprLevel)
        [] x.op = "Await" -> << "await" >> \o At(1, Primary)
        [] x.op = "Starred" -> << "*" >> \o At(1, ExprLevel)
        [] x.op = "Keyword" -> << x.tag, "=" >> \o At(1, ExprLevel)
        [] x.op = "Attribute" -> At(1, Primary) \o << ".", x.tag >>
        [] x.op = "Subscript" -> At(1, Primary) \o << "[" >> \o Text(k[2]) \o << "]" >>
        [] x.op = "Slice" ->
             Text(k[1]) \o << ":" >> \o Text(k[2]) \o Optional(<< ":" >>, k[3])
        [] x.op = "Call" -> At(1, Primary) \o Parens(Commas(ArgTexts(x)))
        [] x.op = "Tuple" -> Parens(TupleText(k))
        [] x.op = "List" -> << "[" >> \o Commas(Texts(k)) \o << "]" >>
        [] x.op \in {"Set", "Dict"} -> << "{" >> \o Commas(Texts(k)) \o << "}" >>
        [] x.op = "Entry" ->
             IF x.tag = "**" THEN << "**" >> \o Text(k[1])
             ELSE Text(k[1]) \o << ":" >> \o Text(k[2])
        [] x.op = "ListComp" -> << "[" >> \o CompText(x) \o << "]" >>
        [] x.op \in {"SetComp", "DictComp"} -> << "{" >> \o CompText(x) \o << "}" >>
        [] x.op = "GenExp" -> Parens(CompText(x))
        [] OTHER -> << "?" >>

-------------------------------------------------------------------------------
(* Types and patterns *)

RECURSIVE TypeText(_), PatternText(_)

TypeArgs(x) == IF x.op = "Tuple" THEN x.kids ELSE << x >>
Expressions(xs) == [i \in DOMAIN xs |-> Text(xs[i])]
Types(xs) == [i \in DOMAIN xs |-> TypeText(xs[i])]

TypeText(x) ==
  LET args == TypeArgs(x.kids[2])
  IN  CASE x.op \in {"Name", "Str"} -> << x.tag >>
        [] x.op = "Attribute" -> TypeText(x.kids[1]) \o << ".", x.tag >>
        [] x.op = "Union" -> Joined(Types(x.kids), << "|" >>)
        [] x.op = "Subscript" ->
             TypeText(x.kids[1]) \o << "[" >>
             \o (CASE x.kids[1].tag = "Callable" ->
                        << "[" >> \o Commas(Types(args[1].kids)) \o << "]", "," >>
                        \o TypeText(args[2])
                   [] x.kids[1].tag = "Literal" -> Commas(Expressions(args))
                   [] x.kids[1].tag = "Annotated" ->
                        Commas(<< TypeText(args[1]) >> \o Expressions(Tail(args)))
                   [] OTHER -> Commas(Types(args)))
             \o << "]" >>

PatternTexts(xs) == [i \in DOMAIN xs |-> PatternText(xs[i])]
Closed(x) ==
  IF x.op \in {"Or", "As"} THEN Parens(PatternText(x)) ELSE PatternText(x)

PatternText(x) ==
  LET k == x.kids
  IN  CASE x.op \in {"Capture", "Wildcard"} -> << x.tag >>
        [] x.op = "Value" -> Text(k[1])
        [] x.op = "Star" -> << "*", x.tag >>
        [] x.op = "Sequence" -> << "[" >> \o Commas(PatternTexts(k)) \o << "]" >>
        [] x.op = "Mapping" -> << "{" >> \o Commas(PatternTexts(k)) \o << "}" >>
        [] x.op = "Item" ->
             IF x.tag = "**" THEN << "**" >> \o Text(k[1])
             ELSE Text(k[1]) \o << ":" >> \o PatternText(k[2])
        [] x.op = "ClassPattern" -> Text(k[1]) \o Parens(Commas(PatternTexts(Tail(k))))
        [] x.op = "Keyword" -> << x.tag, "=" >> \o PatternText(k[1])
        [] x.op = "Or" -> Joined([i \in DOMAIN k |-> Closed(k[i])], << "|" >>)
        [] x.op = "As" ->
             (IF k[1].op = "As" THEN Closed(k[1]) ELSE PatternText(k[1])) \o << "as", x.tag >>

-------------------------------------------------------------------------------
(* Statements, a line or a block at a time *)

StmtsText(xs) == FlattenSeq([i \in DOMAIN xs |-> Text(xs[i])])
BlockText(xs) == << ":", "NEWLINE", "INDENT" >> \o StmtsText(xs) \o << "DEDENT" >>
OptionalBlock(word, xs) == IF xs = << >> THEN << >> ELSE << word >> \o BlockText(xs)
Line(ts) == ts \o << "NEWLINE" >>

\* A tuple without its parentheses.
ListText(x) == IF x.op = "Tuple" /\ x.kids # << >> THEN TupleText(x.kids) ELSE Text(x)
DottedText(x) == Joined(Expressions(x.kids), << "." >>)

ParamText(x) ==
  (CASE x.op = "Vararg" -> << "*" >> [] x.op = "Kwarg" -> << "**" >> [] OTHER -> << >>)
  \o Text(x.kids[1])
  \o (IF x.kids[2] = Nil THEN << >> ELSE << ":" >> \o TypeText(x.kids[2]))
  \o Optional(<< "=" >>, x.kids[3])

\* The separators go where the kind of parameters changes.
ParamTexts(ps) ==
  LET Before(i) ==
        (IF ps[i].tag # "posonly" /\ i > 1 /\ ps[i - 1].tag = "posonly" THEN << << "/" >> >>
         ELSE << >>)
        \o (IF ps[i].op = "Param" /\ ps[i].tag = "kwonly"
               /\ ~\E j \in 1 .. i - 1 : ps[j].tag = "kwonly" \/ ps[j].op = "Vararg"
            THEN << << "*" >> >> ELSE << >>)
  IN  FlattenSeq([i \in DOMAIN ps |-> Append(Before(i), ParamText(ps[i]))])
      \o IF ps # << >> /\ Last(ps).tag = "posonly" THEN << << "/" >> >> ELSE << >>

AliasText(x) ==
  IF x.op = "Star" THEN << "*" >> ELSE DottedText(x.kids[1]) \o Optional(<< "as" >>, x.kids[2])
AliasTexts(xs) == [i \in DOMAIN xs |-> AliasText(xs[i])]

DecoratorText(x) == Line(<< "@" >> \o Text(x))
Decorations(x) == FlattenSeq([i \in DOMAIN x.kids |-> DecoratorText(x.kids[i])])

HandlerText(x) ==
  << "except" >> \o (IF x.tag = "*" THEN << "*" >> ELSE << >>) \o Text(x.kids[1])
  \o Optional(<< "as" >>, x.kids[2]) \o BlockText(x.kids[3].kids)

CaseText(x) ==
  << "case" >> \o PatternText(x.kids[1]) \o Optional(<< "if" >>, x.kids[2])
  \o BlockText(x.kids[3].kids)

SimpleText(x) ==
  LET k == x.kids
  IN  CASE x.op \in {"pass", "break", "continue"} -> << x.op >>
        [] x.op = "Expr" -> Text(k[1])
        [] x.op = "Return" -> << "return" >> \o ListText(k[1])
        [] x.op = "YieldStmt" ->
             IF x.tag = "from" THEN << "yield", "from" >> \o Text(k[1])
             ELSE << "yield" >> \o ListText(k[1])
        [] x.op = "Raise" -> << "raise" >> \o Text(k[1]) \o Optional(<< "from" >>, k[2])
        [] x.op = "Global" -> << "global" >> \o Commas(Expressions(k))
        [] x.op = "Nonlocal" -> << "nonlocal" >> \o Commas(Expressions(k))
        [] x.op = "Delete" -> << "del" >> \o Commas(Expressions(k))
        [] x.op = "Assert" -> << "assert" >> \o Text(k[1]) \o Optional(<< "," >>, k[2])
        [] x.op = "TypeAlias" -> << "type", x.tag, "=" >> \o Text(k[1])
        [] x.op = "AnnAssign" ->
             Text(k[1]) \o << ":" >> \o TypeText(k[2])
             \o IF k[3] = Nil THEN << >> ELSE << "=" >> \o ListText(k[3])
        [] x.op = "AugAssign" -> Text(k[1]) \o << x.tag >> \o Text(k[2])
        [] x.op = "Assign" ->
             Joined([i \in DOMAIN k |-> IF i = 1 /\ Len(k) > 2 THEN Text(k[1])
                                        ELSE ListText(k[i])], << "=" >>)
        [] x.op = "Import" -> << "import" >> \o Commas(AliasTexts(k))
        [] x.op = "ImportFrom" ->
             << "from" >> \o Expressions(k[1].kids) \o DottedText(k[2])
             \o << "import" >> \o Commas(AliasTexts(SubSeq(k, 3, Len(k))))

StmtText(x) ==
  LET k == x.kids
      Inner(i) == BlockText(k[i].kids)
  IN  CASE x.op = "If" ->
             << "if" >> \o Text(k[1]) \o Inner(2)
             \o (IF k[3].kids # << >> /\ k[3].kids[1].op = "If" /\ Len(k[3].kids) = 1
                 THEN << "elif" >> \o Tail(Text(k[3].kids[1]))
                 ELSE OptionalBlock("else", k[3].kids))
        [] x.op = "While" ->
             << "while" >> \o Text(k[1]) \o Inner(2) \o OptionalBlock("else", k[3].kids)
        [] x.op = "For" ->
             << "for" >> \o ListText(k[1]) \o << "in" >> \o ListText(k[2]) \o Inner(3)
             \o OptionalBlock("else", k[4].kids)
        [] x.op = "Try" ->
             << "try" >> \o Inner(1)
             \o FlattenSeq([i \in DOMAIN k[2].kids |-> HandlerText(k[2].kids[i])])
             \o OptionalBlock("else", k[3].kids) \o OptionalBlock("finally", k[4].kids)
        [] x.op = "With" ->
             << "with" >> \o Commas([i \in DOMAIN k[1].kids |->
               Text(k[1].kids[i].kids[1]) \o Optional(<< "as" >>, k[1].kids[i].kids[2])])
             \o Inner(2)
        [] x.op = "Function" ->
             Decorations(k[1]) \o << "def", x.tag >> \o Parens(Commas(ParamTexts(k[2].kids)))
             \o (IF k[3] = Nil THEN << >> ELSE << "->" >> \o TypeText(k[3])) \o Inner(4)
        [] x.op = "Class" ->
             Decorations(k[1]) \o << "class", x.tag >>
             \o (IF k[2].kids = << >> THEN << >> ELSE Parens(Commas(Expressions(k[2].kids))))
             \o Inner(3)
        [] x.op = "Async" -> << "async" >> \o Text(k[1])
        [] x.op = "Match" ->
             << "match" >> \o ListText(k[1]) \o << ":", "NEWLINE", "INDENT" >>
             \o FlattenSeq([i \in DOMAIN k[2].kids |-> CaseText(k[2].kids[i])]) \o << "DEDENT" >>
        [] OTHER -> Line(SimpleText(x))

Compounds == {"If", "While", "For", "Try", "With", "Function", "Class", "Async", "Match"}
Simples == {"pass", "break", "continue", "Expr", "Return", "YieldStmt", "Raise", "Global",
            "Nonlocal", "Delete", "Assert", "TypeAlias", "AnnAssign", "AugAssign", "Assign",
            "Import", "ImportFrom"}
Text(x) == IF x.op \in Compounds \cup Simples THEN StmtText(x) ELSE ExprText(x)
===============================================================================

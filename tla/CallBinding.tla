------------------------------ MODULE CallBinding ------------------------------
(***************************************************************************)
(* How a call's arguments reach the parameters: callType and               *)
(* resolveFunctionArgs of compiler/check_expr.go choose an expression for  *)
(* every parameter, call, construct and methodCall of lower_expr.go        *)
(* evaluate those expressions in the order of the parameters.              *)
(*                                                                         *)
(* A call site has a callee, its parameters (without self) and the items   *)
(* between its parentheses in the order they are written: positional,      *)
(* starred, keyword, and a final **expr. The parser files them by form     *)
(* (Args, StarArgs, Keywords, Kwargs). A value is the place it comes from: *)
(* << i, k >> is element k of item i, << i, 0 >> all of it, << 0, p >> the *)
(* default of parameter p and << -1, p >> what the default's text means in *)
(* the caller's scope when a name in it is another variable there.         *)
(* Specialization and the natives' own checks are left out.                *)
(***************************************************************************)
EXTENDS Integers, Sequences, FiniteSets, SequencesExt

CONSTANTS
  Calls,   \* a sequence of sets of call sites
  Names,   \* of parameters and keywords
  Types    \* of parameters and arguments

Kinds == {"posonly", "normal", "var", "kwonly", "kw"}
Parameters == [name : Names, kind : Kinds, typ : Types, default : Types]
Arguments == [form : {"pos", "star", "kw", "map"}, typ : Types, len : Int, name : Names]

ASSUME NamesAssumption == "message" \in Names
ASSUME TypesAssumption == {"none", "int", "float"} \subseteq Types

AssignableTo(src, dst) == src = dst \/ << src, dst >> = << "int", "float" >>

\* What the parser gives, and what the checker accepts of a declaration: parameters
\* have different names and defaults of their types, those that a positional argument
\* may fill come first, **kwargs last and *args once; a callable value and what the
\* host provides have neither names nor defaults.
ASSUME CallsAssumption ==
  \A n \in DOMAIN Calls : \A c \in Calls[n] :
    /\ c.params \in Seq(Parameters) /\ c.items \in Seq(Arguments) /\ c.typ \in Types
    /\ \A p, q \in DOMAIN c.params : c.params[p].name = c.params[q].name => p = q
    /\ \A p \in DOMAIN c.params :
         /\ c.params[p].default = "none" \/ AssignableTo(c.params[p].default, c.params[p].typ)
         /\ c.callee \in {"callable", "native", "builtinmethod"} =>
              c.params[p].kind = "posonly" /\ c.params[p].default = "none"
    /\ \A p, q \in DOMAIN c.params : p < q =>
         /\ c.params[q].kind \in {"posonly", "normal"} => c.params[p].kind \in {"posonly", "normal"}
         /\ c.params[p].kind # "kw"
         /\ c.params[p].kind = "var" => c.params[q].kind # "var"

VARIABLES
  call,      \* the call site
  phase,     \* where its compilation, then its evaluation, is
  queue,     \* what the loop of the phase has yet to take
  args,      \* the expression bound to each parameter
  extra,     \* positional expressions for *args, keyword items for **kwargs
  code,      \* what is still to be evaluated
  trace,     \* what was evaluated
  frame      \* the values of each parameter

vars == << call, phase, queue, args, extra, code, trace, frame >>

-------------------------------------------------------------------------------
(* Expressions *)

Item(i) == [sort |-> "item", item |-> i, elem |-> 0]
Element(i, k) == [sort |-> "item", item |-> i, elem |-> k]
Default(p) == [sort |-> "default", param |-> p]
ListOf(exprs) == [sort |-> "list", parts |-> exprs]
DictOf(exprs) == [sort |-> "dict", parts |-> exprs]
Unset == [sort |-> "unset"]

\* An exception's constructor takes one optional message. A class without an
\* __init__ of its own and without @dataclass takes nothing, whatever its base.
Params ==
  CASE call.callee = "exception" ->
         << [name |-> "message", kind |-> "normal", typ |-> call.typ, default |-> call.typ] >>
    [] call.callee = "derived" -> << >>
    [] OTHER -> call.params

\* The members of a set of numbers, from the least to the greatest.
InOrder(S) ==
  CHOOSE s \in [1 .. Cardinality(S) -> S] : \A m, n \in DOMAIN s : m < n => s[m] < s[n]

Items(form) == InOrder({i \in DOMAIN call.items : call.items[i].form = form})

Aggregates == {"var", "kw"}
Of(kind) == {p \in DOMAIN Params : Params[p].kind = kind}
Aggregate(kind) == CHOOSE p \in Of(kind) : TRUE
Called(name) == {p \in DOMAIN Params : Params[p].name = name}

\* Mutant: keyword-only parameters take positional arguments.
PositionalToo ==
  InOrder({p \in DOMAIN Params : Params[p].kind \notin Aggregates})

\* The parameters a positional argument may fill, in order.
Positional ==
  InOrder({p \in DOMAIN Params : Params[p].kind \notin Aggregates \cup {"kwonly"}})

-------------------------------------------------------------------------------
(* Choosing how to check a call *)

\* Callees whose parameters are known by name.
Bound == {"function", "modulefunction", "method", "init", "dataclass", "exception"}

\* Callees that take positional arguments only.
Plain == {"callable", "native", "builtinmethod", "derived"}

\* Who evaluates what the call is applied to, and when.
CalleeFirst == {"method", "builtinmethod"}
CalleeLast == {"callable"}

\* Mutant: the arguments of __init__ are not promoted.
PromotesNoInit == {"function", "dataclass"}

\* Where promoteIntToFloat follows the evaluation of an argument.
Promotes == {"function", "init", "dataclass"}

Reject == phase' = "rejected" /\ UNCHANGED << call, queue, args, extra, code, trace, frame >>

Starred == Items("star") # << >>
Named == Items("kw") # << >>
OnlyPositional == ~Starred /\ ~Named /\ Len(Items("pos")) = Len(Params)

Dispatch ==
  /\ phase = "dispatch"
  /\ IF \/ Items("map") # << >>
        \/ ~call.defined
        \/ (call.callee \in Plain /\ ~OnlyPositional)
     THEN Reject
     ELSE IF call.callee \in Plain
     THEN /\ phase' = "types"
          /\ args' = [p \in DOMAIN Params |-> Item(Items("pos")[p])]
          /\ UNCHANGED << call, queue, extra, code, trace, frame >>
     ELSE /\ phase' = "stars"
          /\ queue' = Items("star")
          /\ args' = [p \in DOMAIN Params |-> Unset]
          /\ LET plain == Items("pos")
             IN  extra' = [extra EXCEPT !.pos = [n \in DOMAIN plain |-> Item(plain[n])]]
          /\ UNCHANGED << call, code, trace, frame >>

-------------------------------------------------------------------------------
(* resolveFunctionArgs *)

Unread == UNCHANGED << call, code, trace, frame >>

\* The elements of a tuple, after the plain positional arguments.
ExpandStar ==
  /\ phase = "stars" /\ queue # << >>
  /\ LET i == Head(queue)
         n == call.items[i].len
     IN  IF n < 0 THEN Reject
         ELSE /\ extra' = [extra EXCEPT !.pos = @ \o [k \in 1 .. n |-> Element(i, k)]]
              /\ queue' = Tail(queue)
              /\ UNCHANGED << phase, args >> /\ Unread

StarsDone ==
  /\ phase = "stars" /\ queue = << >>
  /\ phase' = "positionals"
  /\ queue' = extra.pos
  /\ extra' = [extra EXCEPT !.pos = << >>]
  /\ UNCHANGED args /\ Unread

BindPositional ==
  /\ phase = "positionals" /\ queue # << >>
  /\ LET taken == {n \in DOMAIN Positional : args[Positional[n]] # Unset}
         free == DOMAIN Positional \ taken
     IN  IF free # {}
         THEN /\ args' = [args EXCEPT ![Positional[Cardinality(taken) + 1]] = Head(queue)]
              /\ queue' = Tail(queue)
              /\ UNCHANGED << phase, extra >> /\ Unread
         ELSE IF Of("var") = {} THEN Reject
         ELSE /\ extra' = [extra EXCEPT !.pos = Append(@, Head(queue))]
              /\ queue' = Tail(queue)
              /\ UNCHANGED << phase, args >> /\ Unread

PositionalsDone ==
  /\ phase = "positionals" /\ queue = << >>
  /\ phase' = "keywords"
  /\ queue' = Items("kw")
  /\ UNCHANGED << args, extra >> /\ Unread

\* Mutant: a keyword replaces the positional argument bound to its parameter.
BindKeywordAgain ==
  /\ phase = "keywords" /\ queue # << >>
  /\ LET i == Head(queue)
         named == {p \in Called(call.items[i].name) : Params[p].kind \notin Aggregates}
     IN  IF named = {} THEN Reject
         ELSE /\ args' = [p \in DOMAIN args |-> IF p \in named THEN Item(i) ELSE args[p]]
              /\ queue' = Tail(queue)
              /\ UNCHANGED << phase, extra >> /\ Unread

BindKeyword ==
  /\ phase = "keywords" /\ queue # << >>
  /\ LET i == Head(queue)
         named == {p \in Called(call.items[i].name) : Params[p].kind \notin Aggregates}
     IN  IF named = {}
         THEN IF Of("kw") = {} THEN Reject
              ELSE /\ extra' = [extra EXCEPT !.kw = Append(@, Item(i))]
                   /\ queue' = Tail(queue)
                   /\ UNCHANGED << phase, args >> /\ Unread
         ELSE LET p == CHOOSE p \in named : TRUE
              IN  IF Params[p].kind = "posonly" \/ args[p] # Unset THEN Reject
                  ELSE /\ args' = [args EXCEPT ![p] = Item(i)]
                       /\ queue' = Tail(queue)
                       /\ UNCHANGED << phase, extra >> /\ Unread

\* The displays for *args and **kwargs.
Materialize ==
  /\ phase = "keywords" /\ queue = << >>
  /\ phase' = "defaults"
  /\ args' = [p \in DOMAIN args |->
                CASE Params[p].kind = "var" -> ListOf(extra.pos)
                  [] Params[p].kind = "kw" -> DictOf(extra.kw)
                  [] OTHER -> args[p]]
  /\ UNCHANGED << queue, extra >> /\ Unread

\* The default's expression itself becomes the argument.
FillDefaults ==
  /\ phase = "defaults"
  /\ IF \E p \in DOMAIN args : args[p] = Unset /\ Params[p].default = "none" THEN Reject
     ELSE /\ args' = [p \in DOMAIN args |-> IF args[p] = Unset THEN Default(p) ELSE args[p]]
          /\ phase' = "types"
          /\ UNCHANGED << queue, extra >> /\ Unread

-------------------------------------------------------------------------------
(* Types, and what the call lowers to *)

TypeOf(e) == IF e.sort = "item" THEN call.items[e.item].typ
             ELSE IF e.sort = "default" THEN Params[e.param].default
             ELSE e.sort

\* A function collects *rest: T as list[T]; a method's parameter keeps T
\* (classMethod), which no list is assignable to.
Fits(e, p) ==
  IF e.sort \in {"list", "dict"}
  THEN /\ call.callee \notin {"method", "init"}
       /\ \A n \in DOMAIN e.parts : AssignableTo(TypeOf(e.parts[n]), Params[p].typ)
  ELSE AssignableTo(TypeOf(e), Params[p].typ)

\* Evaluating an expression for a parameter: an event and what it adds to the
\* parameter's values. Only an argument that is no display is promoted.
Op(e, p, whole) ==
  LET from == IF e.sort = "item" THEN << e.item, e.elem >>
              ELSE IF call.shadowed THEN << -1, p >> ELSE << 0, p >>
      promoted == whole /\ call.callee \in Promotes /\ Params[p].typ = "float"
  IN  [from |-> from, param |-> p,
       rep |-> IF promoted THEN "float" ELSE TypeOf(e)]

Ops(e, p) ==
  IF e.sort \in {"list", "dict"} THEN [n \in DOMAIN e.parts |-> Op(e.parts[n], p, FALSE)]
  ELSE << Op(e, p, TRUE) >>

Callee == << [from |-> << 0, 0 >>, param |-> 0, rep |-> "none"] >>

\* applyFieldDefaults stores every default before any argument is evaluated.
FieldDefaults ==
  LET having == InOrder({p \in DOMAIN Params : Params[p].default # "none"})
  IN  [n \in DOMAIN having |-> [Op(Default(having[n]), having[n], TRUE) EXCEPT !.param = 0]]

\* Mutant: what a method is called on is evaluated after the arguments.
LoweredCalleeLast ==
  FlattenSeq([p \in DOMAIN args |-> Ops(args[p], p)])
  \o (IF call.callee \in CalleeFirst \cup CalleeLast THEN Callee ELSE << >>)

Lowered ==
  (IF call.callee \in CalleeFirst THEN Callee ELSE << >>)
  \o (IF call.callee = "dataclass" THEN FieldDefaults ELSE << >>)
  \o FlattenSeq([p \in DOMAIN args |-> Ops(args[p], p)])
  \o (IF call.callee \in CalleeLast THEN Callee ELSE << >>)

CheckTypes ==
  /\ phase = "types"
  /\ IF \E p \in DOMAIN args : ~Fits(args[p], p)
     THEN /\ phase' = "mistyped"
          /\ UNCHANGED << call, queue, args, extra, code, trace, frame >>
     ELSE /\ phase' = "evaluate"
          /\ code' = Lowered
          /\ frame' = [p \in DOMAIN Params |-> << >>]
          /\ UNCHANGED << call, queue, args, extra, trace >>

Evaluate ==
  /\ phase = "evaluate" /\ code # << >>
  /\ LET op == Head(code)
     IN  /\ trace' = Append(trace, op.from)
         /\ frame' = IF op.param = 0 THEN frame
                     ELSE [frame EXCEPT ![op.param] =
                             Append(@, [from |-> op.from, rep |-> op.rep])]
  /\ code' = Tail(code)
  /\ UNCHANGED << call, phase, queue, args, extra >>

Enter ==
  /\ phase = "evaluate" /\ code = << >>
  /\ phase' = "entered"
  /\ UNCHANGED << call, queue, args, extra, code, trace, frame >>

Init ==
  /\ \E n \in DOMAIN Calls : call \in Calls[n]
  /\ phase = "dispatch"
  /\ queue = << >>
  /\ args = << >>
  /\ extra = [pos |-> << >>, kw |-> << >>]
  /\ code = << >>
  /\ trace = << >>
  /\ frame = << >>

Next ==
  \/ Dispatch \/ ExpandStar \/ StarsDone \/ BindPositional \/ PositionalsDone
  \/ BindKeyword \/ Materialize \/ FillDefaults \/ CheckTypes \/ Evaluate \/ Enter

Spec == Init /\ [][Next]_vars

-------------------------------------------------------------------------------
(* What Python does with the same call *)

\* An exception with an __init__ of its own is created like any other object,
\* and keeps whatever it is given otherwise.
PyParams ==
  IF call.callee = "exception" /\ call.params = << >>
  THEN << [name |-> "args", kind |-> "var", typ |-> call.typ, default |-> "none"] >>
  ELSE call.params

PyPositional ==
  InOrder({p \in DOMAIN PyParams : PyParams[p].kind \in {"posonly", "normal"}})
PyNamed == {p \in DOMAIN PyParams : PyParams[p].kind \in {"normal", "kwonly"}}
PyHas(kind) == \E p \in DOMAIN PyParams : PyParams[p].kind = kind

\* Items as written: keywords come last, which the parser does not check.
Spread(i) ==
  CASE call.items[i].form = "pos" -> << << i, 0 >> >>
    [] call.items[i].form = "star" -> [k \in 1 .. call.items[i].len |-> << i, k >>]
    [] OTHER -> << >>

PyValues == FlattenSeq([i \in DOMAIN call.items |-> Spread(i)])

Rank(p) == {n \in DOMAIN PyPositional : PyPositional[n] = p /\ n <= Len(PyValues)}

\* The keywords that name a parameter; the others go to **kwargs.
Naming(p) == {i \in DOMAIN call.items : call.items[i].form = "kw" /\ p \in PyNamed
                                        /\ call.items[i].name = PyParams[p].name}
Others == InOrder({i \in ToSet(Items("kw")) : \A p \in PyNamed : i \notin Naming(p)})

PyAccepts ==
  /\ Len(PyValues) <= Len(PyPositional) \/ PyHas("var")
  /\ Others = << >> \/ PyHas("kw")
  /\ \A i, j \in ToSet(Items("kw")) : call.items[i].name = call.items[j].name => i = j
  /\ \A p \in DOMAIN PyParams :
       \/ PyParams[p].kind \in Aggregates
       \/ /\ Cardinality(Rank(p)) + Cardinality(Naming(p)) <= 1
          /\ Rank(p) \cup Naming(p) # {} \/ PyParams[p].default # "none"

PyFrame ==
  [p \in DOMAIN PyParams |->
     CASE PyParams[p].kind = "var" ->
            SubSeq(PyValues, Len(PyPositional) + 1, Len(PyValues))
       [] PyParams[p].kind = "kw" -> [n \in DOMAIN Others |-> << Others[n], 0 >>]
       [] Rank(p) # {} -> << PyValues[CHOOSE n \in Rank(p) : TRUE] >>
       [] Rank(p) = {} /\ Naming(p) # {} -> << << CHOOSE i \in Naming(p) : TRUE, 0 >> >>
       [] OTHER -> << << 0, p >> >>]

-------------------------------------------------------------------------------
(* Properties *)

Done == phase \in {"rejected", "mistyped", "entered"}

\* Forms of call that are documented as unsupported, and three that are not:
\* a keyword for **kwargs with the name of a positional-only parameter, *args
\* or **kwargs in a method, and the arguments of an inherited constructor.
Unsupported ==
  \/ Items("map") # << >>
  \/ ~call.defined
  \/ \E i \in ToSet(Items("star")) : call.items[i].len < 0
  \/ call.callee \in Plain \ {"derived"} /\ (Starred \/ Named)
  \/ PyHas("kw") /\ \E i \in ToSet(Items("kw")) : \E p \in Called(call.items[i].name) :
        Params[p].kind = "posonly"
  \/ call.callee \in {"method", "init"} /\ (PyHas("var") \/ PyHas("kw"))

\* A constructor that is not the class's own __init__ or dataclass fields.
OtherConstructor ==
  \/ call.callee = "derived"
  \/ call.callee = "exception" /\ ~(Len(call.params) = 1 /\ call.params = Params)

\* Two keywords of one name that end in **kwargs.
KeywordTwice ==
  \E i, j \in ToSet(Others) : i # j /\ call.items[i].name = call.items[j].name

\* Every item fits every parameter.
WellTyped ==
  \A i \in DOMAIN call.items : \A p \in DOMAIN Params :
    AssignableTo(call.items[i].typ, Params[p].typ)

\* A well typed call is refused exactly when Python refuses it or its form is one
\* of the unsupported ones; a keyword repeated in **kwargs is not noticed
\* (resolveFunctionArgs, check_expr.go).
AcceptsAsPython ==
  Done /\ WellTyped /\ ~OtherConstructor /\ ~KeywordTwice =>
    ((phase = "entered") <=> (PyAccepts /\ ~Unsupported))

\* An argument written after a starred one: it is bound before it.
PositionalAfterStar ==
  \E i, j \in DOMAIN call.items :
    i < j /\ call.items[i].form = "star" /\ call.items[i].len > 0 /\ call.items[j].form = "pos"

UsesShadowedDefault ==
  call.shadowed /\ \E p \in DOMAIN frame : PyFrame[p] = << << 0, p >> >>

Received == [p \in DOMAIN frame |-> [n \in DOMAIN frame[p] |-> frame[p][n].from]]

\* Every parameter receives the values Python gives it. It does not when a
\* positional argument follows a starred one, or when a default names a
\* variable that is another one where the call is (resolveFunctionArgs puts the
\* default's expression into the caller).
BindsAsPython ==
  phase = "entered" /\ ~OtherConstructor /\ ~KeywordTwice =>
    ((Received = PyFrame) <=> ~(PositionalAfterStar \/ UsesShadowedDefault))

-------------------------------------------------------------------------------

\* What was evaluated: the items, and 0 for what the call is applied to.
Evaluated ==
  FlattenSeq([n \in DOMAIN trace |-> IF trace[n][1] > 0 \/ trace[n] = << 0, 0 >>
                                    THEN << trace[n][1] >> ELSE << >>])

PyEvaluated ==
  (IF call.callee \in CalleeFirst \cup CalleeLast THEN << 0 >> ELSE << >>)
  \o InOrder({i \in DOMAIN call.items : call.items[i].form # "kw"})
  \o Items("kw")

\* The parameter whose turn decides when a keyword is evaluated.
Slot(i) == IF i \in ToSet(Others) THEN Aggregate("kw")
           ELSE CHOOSE p \in DOMAIN PyParams : i \in Naming(p)

KeywordsInOrder ==
  \A m, n \in DOMAIN Items("kw") : m < n => Slot(Items("kw")[m]) <= Slot(Items("kw")[n])

\* No keyword-only parameter comes before *args: parseParams takes (*, a, *rest), which
\* Python does not.
VarBeforeKeywordOnly ==
  \A n \in DOMAIN Calls : \A c \in Calls[n] : \A p, q \in DOMAIN c.params :
    p < q /\ c.params[p].kind = "kwonly" => c.params[q].kind # "var"

\* Every item is evaluated once and in the order it is written, exactly when the
\* keywords follow the parameters' order, no positional argument follows a
\* starred one, every starred tuple has one element (each element evaluates the
\* tuple again, an empty one not at all) and a callable value has no arguments
\* (it is evaluated after them) (call, functionCallArgs, lower_expr.go).
EvaluatesAsWritten ==
  phase = "entered" /\ ~OtherConstructor /\ ~KeywordTwice =>
    ((Evaluated = PyEvaluated) <=>
       /\ KeywordsInOrder
       /\ ~PositionalAfterStar
       /\ \A i \in ToSet(Items("star")) : call.items[i].len = 1
       /\ call.callee \in CalleeLast => call.items = << >>)

\* An int for a float parameter arrives as a float, in a call of a function of
\* the module, of __init__ or of a dataclass. It does not in a call of a method,
\* of another module's function or of a callable value, nor in what *args and
\* **kwargs collect, though the checker allows each (promoteIntToFloat,
\* lower_stmt.go).
ConvertsArguments ==
  phase = "entered" /\ call.callee \notin {"native", "builtinmethod"} =>
    \A p \in DOMAIN frame : \A n \in DOMAIN frame[p] :
      LET from == frame[p][n].from
          given == IF from[1] > 0 THEN call.items[from[1]].typ ELSE Params[p].default
      IN  (frame[p][n].rep = Params[p].typ) <=>
            \/ given = Params[p].typ
            \/ /\ call.callee \in {"function", "init", "dataclass"}
               /\ Params[p].kind \notin Aggregates
===============================================================================

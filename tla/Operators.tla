------------------------------- MODULE Operators -------------------------------
(***************************************************************************)
(* An operator of minipy from the checker to its value: the type rules     *)
(* accept or reject it, the lowerer emits its code, the code runs on the   *)
(* operands' values. The value is compared with Python's.                  *)
(*                                                                         *)
(* An expression has a form: the operators of the syntax and the functions *)
(* of the operator module share their rules; operator.contains, truth,     *)
(* not_ and abs are functions only, `literal` is ** with a negative        *)
(* literal, and len, iter and index are those of a dynamic operand.        *)
(***************************************************************************)
EXTENDS PythonOperators

CONSTANT Values   \* the values of the operands of each type, in a sequence

Types == DOMAIN Values

VARIABLES
  expr,     \* the expression: its form, operator and operands' types
  left,     \* the operands' values
  right,
  phase,    \* "check", "rejected", "run", "done", "raised" or "stuck"
  code,     \* the instructions emitted for it
  pc,
  stack,    \* the VM's operand stack, its top last
  slots,    \* scratch slots
  order     \* the operands evaluated so far

vars == << expr, left, right, phase, code, pc, stack, slots, order >>

UnaryForms == {"unary", "not_", "truth", "abs", "len", "iter"}

OpsOf(form) ==
  CASE form = "binary"  -> Binaries
    [] form = "compare" -> Comparisons
    [] form = "unary"   -> Unaries
    [] form = "literal" -> {"**"}
    [] OTHER            -> {form}

Forms == {"binary", "compare", "contains", "literal", "index"} \cup UnaryForms

TypeOf(x) ==
  LET bool(b) == IF b THEN TBool ELSE Invalid
      any(t) == IF IsDynamic(x.l) THEN t ELSE Invalid
  IN CASE x.form = "binary"   -> BinaryType(x.op, x.l, x.r)
       [] x.form = "compare"  -> bool(Comparable(x.op, x.l, x.r))
       [] x.form = "contains" -> bool(ContainsType(x.r, x.l))
       [] x.form = "unary"    -> UnaryType(x.op, x.l)
       [] x.form = "not_"     -> bool(x.l = TBool)
       [] x.form = "truth"    -> TruthType(x.l)
       [] x.form = "abs"      -> AbsType(x.l)
       [] x.form = "literal"  -> IF Erase(x.l) = TInt /\ x.r = TInt THEN TFloat ELSE Invalid
       [] x.form = "len"      -> any(TInt)
       [] OTHER               -> any(TAny)

Emitted(x) ==
  CASE x.form = "binary"   -> EmitBinary(x.op, x.l, x.r)
    [] x.form = "compare"  -> EmitCompare(x.op, x.l, x.r)
    [] x.form = "contains" -> Both \o EmitContains("in", x.r, x.l)
    [] x.form = "unary"    -> EmitUnary(x.op, x.l)
    [] x.form = "not_"     -> << Op("L"), Op("eqz") >>
    [] x.form = "truth"    -> EmitTruth(x.l)
    [] x.form = "abs"      -> EmitAbs(x.l)
    [] x.form = "literal"  -> AsFloats(x.l, x.r, << Host("powFloat", x.l) >>)
    [] x.form = "len"      -> << Op("L"), Host("dynLength", x.op) >>
    [] x.form = "iter"     -> << Op("L"), Host("dynIterator", x.op) >>
    [] x.form = "index"    -> Both \o << Host("dynIndex", x.op) >>

Init ==
  /\ \E form \in Forms : \E op \in OpsOf(form), l \in Types :
       \E r \in (IF form \in UnaryForms THEN {TNone} ELSE Types) :
         expr = [form |-> form, op |-> op, l |-> l, r |-> r]
  /\ phase = "check" /\ left = None /\ right = None
  /\ code = << >> /\ pc = 1 /\ stack = << >> /\ slots = [s \in 1 .. 3 |-> None]
  /\ order = << >>

Reject ==
  /\ phase = "check" /\ TypeOf(expr) = Invalid
  /\ phase' = "rejected"
  /\ UNCHANGED << expr, left, right, code, pc, stack, slots, order >>

\* A negative literal is the only exponent of the form `literal`.
Accept ==
  /\ phase = "check" /\ TypeOf(expr) # Invalid
  /\ \E i \in DOMAIN Values[expr.l], j \in DOMAIN Values[expr.r] :
       left' = Values[expr.l][i] /\ right' = Values[expr.r][j]
  /\ expr.form = "literal" => right'.v < 0
  /\ code' = Emitted(expr)
  /\ phase' = "run"
  /\ UNCHANGED << expr, pc, stack, slots, order >>

Top == stack[Len(stack)]
Below == stack[Len(stack) - 1]
Under(n) == SubSeq(stack, 1, Len(stack) - n)
Holds(n) == Len(stack) >= n

Running(name) == phase = "run" /\ pc <= Len(code) /\ code[pc][1] = name

\* The instruction replaces the n topmost values by result, raises it or gets stuck.
Deliver(n, result) ==
  /\ phase' = CASE ~Holds(n) \/ result.k = "stuck" -> "stuck" [] IsError(result) -> "raised"
                [] OTHER -> phase
  /\ stack' = IF Holds(n) THEN Under(n) \o << result >> ELSE stack
  /\ pc' = pc + 1
  /\ UNCHANGED << expr, left, right, code, slots, order >>

Evaluate(name, x) ==
  /\ Running(name)
  /\ stack' = stack \o << x >> /\ order' = order \o << name >> /\ pc' = pc + 1
  /\ UNCHANGED << expr, left, right, phase, code, slots >>

Binary ==
  /\ Running("op")
  /\ Deliver(2, IF Holds(2) THEN VMOp(code[pc][2], code[pc][3], Below, Top) ELSE Stuck)

Unaries1 == {"dynBool", "dynUnary", "dynLength", "dynIterator"}
Call ==
  /\ Running("host")
  /\ LET name == code[pc][2] arg == code[pc][3]
     IN IF name \in Unaries1
        THEN Deliver(1, HostCall1(name, arg, Top))
        ELSE Deliver(2, IF Holds(2) THEN HostCall(name, arg, Below, Top) ELSE Stuck)

\* The instructions of one operand, and what each makes of it; "panic", where the
\* lowerer has no opcode, makes nothing.
Converted(name, x) ==
  CASE name = "toFloat" /\ x.k = "int"    -> F(2 * x.v)
    [] name = "fromBool" /\ x.k = "bool"  -> I(ToInt(x))
    [] name = "floor" /\ x.k = "float"    -> V("float", << "floor", x.v >>)
    [] name = "fneg" /\ x.k = "float"     -> V("float", << "neg", x.v >>)
    [] name = "fabs" /\ x.k = "float"     -> F(Abs(x.v[1]))
    [] name = "abs" /\ x.k = "int"        -> I(Abs(x.v))
    [] name = "eqz" /\ x.k = "bool"       -> B(~x.v)
    [] name = "length" /\ x.k \in {"str", "list", "set", "dict"} -> DynLength(x)
    [] OTHER                              -> Stuck

Conversions == {"toFloat", "fromBool", "floor", "fneg", "fabs", "abs", "eqz", "length", "panic"}
Convert ==
  \E name \in Conversions :
    /\ Running(name)
    /\ Deliver(1, IF Holds(1) THEN Converted(name, Top) ELSE Stuck)

Push ==
  \/ Running("const") /\ Deliver(0, I(code[pc][2]))
  \/ Running("false") /\ Deliver(0, B(FALSE))
  \/ Running("true") /\ Deliver(0, B(TRUE))
  \/ Running("get") /\ Deliver(0, slots[code[pc][2]])

\* REF_EQ and the concatenation of lists.
References ==
  \/ Running("same") /\ Deliver(2, B(Same(Below, Top)))
  \/ Running("concatLists") /\ Deliver(2, V("list", Below.v \o Top.v))

Store ==
  /\ Running("set")
  /\ slots' = [slots EXCEPT ![code[pc][2]] = Top]
  /\ stack' = Under(1) /\ pc' = pc + 1
  /\ UNCHANGED << expr, left, right, phase, code, order >>

Shuffle ==
  /\ \/ Running("swap") /\ Holds(2) /\ stack' = Under(2) \o << Top, Below >>
     \/ Running("drop") /\ Holds(1) /\ stack' = Under(1)
     \/ /\ Running("lookup") /\ Holds(2)
        /\ LET found == Top.k = "int" /\ Top.v \in Keys(Below)
           IN stack' = Under(2) \o << None, B(found) >>
  /\ pc' = pc + 1
  /\ UNCHANGED << expr, left, right, phase, code, slots, order >>

Finish ==
  /\ phase = "run" /\ pc > Len(code)
  /\ phase' = "done"
  /\ UNCHANGED << expr, left, right, code, pc, stack, slots, order >>

Next ==
  \/ Reject \/ Accept \/ Evaluate("L", left) \/ Evaluate("R", right)
  \/ Binary \/ Call \/ Convert \/ Push \/ References \/ Store \/ Shuffle \/ Finish

Spec == Init /\ [][Next]_vars

-----------------------------------------------------------------------------
(* Properties.                                                               *)

Static == ~IsDynamic(expr.l) /\ ~IsDynamic(expr.r)
Ints == left.k = "int" /\ right.k = "int"

\* A container holds an int that a dynamic value does not hold inline.
HoldsLarge(x) == x.k \in {"list", "tuple"} /\ \E i \in DOMAIN x.v : Spilled(x.v[i])
HoldsDynamic(t) == Con(t) = "list" /\ IsDynamic(t[2])

HasType(x, t) ==
  CASE IsDynamic(t)         -> TRUE
    [] Con(t) = "literal" -> x.k = "int"
    [] OTHER              -> x.k = Con(t)

\* operator.contains emits nothing for a dynamic container.
UnemittedContains == expr.form = "contains" /\ IsDynamic(expr.l)
\* The needle is looked up as it is in a container of another type of elements.
AcrossKinds ==
  LET swapped == expr.form = "contains"
      needle == IF swapped THEN right ELSE left
      container == IF swapped THEN left ELSE right
      needleType == Erase(IF swapped THEN expr.r ELSE expr.l)
      type == IF swapped THEN expr.l ELSE expr.r
  IN /\ expr.op \in Memberships \cup {"contains"}
     /\ container.k \in {"list", "set", "dict"}
     /\ IF ~IsDynamic(type) THEN type[2] # needleType \/ (IsDynamic(needleType) /\ needle.k \in Containers)
        ELSE IF container.k = "list"
        THEN \E i \in DOMAIN container.v :
               container.v[i].k # needle.k \/ container.v[i].id # needle.id
        ELSE needle.k # "int"
\* The sum inside the remainder of two ints passes the largest or the smallest int.
RemainderOverflows ==
  /\ expr.op = "%" /\ Static /\ Ints /\ right.v # 0
  /\ ~Fits(Remainder(left.v, right.v) + right.v, Width)
\* A dynamic int outside Inline is behind a reference, and its result would be.
PastInline ==
  /\ ~Static
  /\ \/ Spilled(left) \/ Spilled(right)
     \/ Python(expr, left, right).k = "int" /\ Spilled(Python(expr, left, right))
\* Dynamic values that are not numbers or strings are compared by identity.
ByIdentity ==
  /\ expr.op \in Equalities
  /\ ~Static \/ HoldsDynamic(expr.l)
  /\ left.k = right.k /\ left.k \in {"list", "dict", "set", "tuple"}
\* What floats divide by zero, and what CPython leaves open for `is`.
FloatPole ==
  /\ expr.op \in {"/", "//", "%", "**"} /\ IsNumber(left) /\ IsNumber(right)
  /\ ~Ints \/ expr.op \in {"/", "**"}
  /\ IsZero(IF expr.op = "**" THEN left ELSE right)
Unspecified ==
  \/ expr.op \in Identities /\ (left.k \in {"str", "int", "float", "bool"} \/ Spilled(right))
  \/ expr.op \in Shifts /\ IsInt(right) /\ ToInt(right) \notin 0 .. Width - 1
  \/ expr.form = "index" /\ left.k = "set"

Exempt == \/ UnemittedContains \/ AcrossKinds \/ RemainderOverflows \/ PastInline \/ ByIdentity
          \/ FloatPole \/ Unspecified \/ HoldsLarge(left) \/ HoldsLarge(right)

\* CodeFits: the code of an accepted expression runs on operands of the kinds its
\* instructions are for and leaves one value, of the expression's type
\* (emit.go: "this package owns the complete opcode/host lowering selected by the
\* checker rules").
CodeFits ==
  UnemittedContains \/
  /\ phase # "stuck"
  /\ phase = "done" => Len(stack) = 1 /\ HasType(Top, TypeOf(expr))

\* ResultsAsPython: the value is Python's, and an expression without dynamic operands
\* raises only where Python's does.
ResultsAsPython ==
  LET expected == Python(expr, left, right) IN
  /\ phase = "done" /\ ~Exempt => SameValue(Top, expected)
  /\ phase = "raised" /\ Static /\ ~Exempt =>
       IsError(expected) \/ (expr.op = "**" /\ Ints /\ right.v < 0)

\* EvaluatedInOrder: every operand is evaluated once, the left one first (EmitBinary:
\* "pushLeft and pushRight evaluate the operands exactly once"); the remainder of two
\* ints evaluates its divisor first.
EvaluatedInOrder ==
  LET operands == IF expr.form \in UnaryForms THEN << "L" >> ELSE << "L", "R" >>
      modulo == expr.op = "%" /\ Erase(expr.l) = TInt /\ Erase(expr.r) = TInt
  IN /\ ~modulo => order = SubSeq(operands, 1, Len(order))
     /\ phase = "done" => Len(order) = Len(operands)
===============================================================================

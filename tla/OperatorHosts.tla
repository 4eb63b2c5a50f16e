----------------------------- MODULE OperatorHosts -----------------------------
(***************************************************************************)
(* The values operators work on, the VM's operations on them and the host  *)
(* functions of operator/host.go and operator/dynamic.go.                  *)
(*                                                                         *)
(* A value has a kind k and contents v. An int is a number of Width bits.  *)
(* A float is << h >>, the number h / 2, or the term of an operation on    *)
(* floats: their arithmetic is not interpreted. A str, bytes, list and     *)
(* tuple are sequences, a set is a set and a dict a set of pairs. Lists,   *)
(* tuples, sets, dicts and instances have an identity, id.                 *)
(***************************************************************************)
EXTENDS OperatorTypes, FiniteSets

CONSTANTS
  Width,     \* bits of an int: 64
  Inline     \* bits of an int that a dynamic value holds itself: 49

ASSUME WidthAssumption == {Width, Inline} \subseteq Nat \ {0}

Wrapped(n, w) == ((n + 2^(w - 1)) % 2^w) - 2^(w - 1)
Wrap(n) == Wrapped(n, Width)
Fits(n, w) == Wrapped(n, w) = n

V(k, v) == [k |-> k, v |-> v, id |-> 0]
I(n) == V("int", Wrap(n))
B(b) == V("bool", b)
F(h) == V("float", << h >>)
FTerm(op, a, b) == V("float", << op, a.v, b.v >>)
S(s) == V("str", s)
Error(name) == V("error", name)

None == V("none", 0)
IsError(x) == x.k = "error"

IsInt(x) == x.k \in {"int", "bool"}
IsNumber(x) == x.k \in {"int", "bool", "float"}
ToInt(x) == IF x.k = "bool" THEN (IF x.v THEN 1 ELSE 0) ELSE x.v
Halves(x) == IF x.k = "float" THEN x.v[1] ELSE 2 * ToInt(x)
ToFloat(x) == IF x.k = "float" THEN x ELSE F(2 * ToInt(x))
IsZero(x) == IF x.k = "float" THEN x.v = << 0 >> ELSE ToInt(x) = 0

Repeated(s, n) == [i \in 1 .. (IF n < 0 THEN 0 ELSE n) * Len(s) |-> s[((i - 1) % Len(s)) + 1]]

Compares(op, order) ==
  CASE op = "==" -> order = 0  [] op = "!=" -> order # 0
    [] op = "<"  -> order < 0  [] op = "<=" -> order <= 0
    [] op = ">"  -> order > 0  [] op = ">=" -> order >= 0

First(ks) == CHOOSE k \in ks : \A j \in ks : k <= j

\* Sequences in lexicographic order, as a negative number, 0 or a positive one.
TextOrder(s, t) ==
  LET differ == {i \in DOMAIN s \cap DOMAIN t : s[i] # t[i]}
  IN IF differ = {} THEN Len(s) - Len(t) ELSE s[First(differ)] - t[First(differ)]

ScalarOrder(a, b) == IF a.k = "str" THEN TextOrder(a.v, b.v) ELSE Halves(a) - Halves(b)

SequenceOrder(s, t) ==
  LET differ == {i \in DOMAIN s \cap DOMAIN t : ScalarOrder(s[i], t[i]) # 0}
  IN IF differ = {} THEN Len(s) - Len(t) ELSE ScalarOrder(s[First(differ)], t[First(differ)])

-----------------------------------------------------------------------------
(* Integers.                                                                  *)

Abs(n) == IF n < 0 THEN -n ELSE n
Quotient(m, n) == (IF (m < 0) = (n < 0) THEN 1 ELSE -1) * (Abs(m) \div Abs(n))
Remainder(m, n) == m - n * Quotient(m, n)

Bit(n, k) == ((n % 2^Width) \div 2^k) % 2
FromBits(bit(_)) ==
  LET Sum[k \in 0 .. Width] == IF k = 0 THEN 0 ELSE Sum[k - 1] + bit(k - 1) * 2^(k - 1)
  IN Wrap(Sum[Width])

BitwiseOf(op, m, n) ==
  CASE op = "&" -> LET Both1(k) == Bit(m, k) * Bit(n, k) IN FromBits(Both1)
    [] op = "|" -> LET Either(k) == IF Bit(m, k) + Bit(n, k) > 0 THEN 1 ELSE 0 IN FromBits(Either)
    [] op = "^" -> LET Other(k) == (Bit(m, k) + Bit(n, k)) % 2 IN FromBits(Other)

Shifted(op, m, n) ==
  IF n \notin 0 .. Width - 1 THEN (IF op = ">>" /\ m < 0 THEN -1 ELSE 0)
  ELSE IF op = "<<" THEN Wrap(m * 2^n) ELSE m \div 2^n

\* powInt, intPow: squaring for every bit of the exponent.
Power(base, exp) ==
  LET P[n \in 0 .. exp, b \in -(2^Width) .. 2^Width] ==
        IF n = 0 THEN 1
        ELSE Wrap((IF n % 2 = 1 THEN b ELSE 1) * P[n \div 2, Wrap(b * b)])
  IN P[exp, base]

PyFloorDiv(m, n) ==
  Quotient(m, n) - (IF Remainder(m, n) # 0 /\ (m < 0) # (n < 0) THEN 1 ELSE 0)
PyMod(m, n) ==
  Remainder(m, n) + (IF Remainder(m, n) # 0 /\ (m < 0) # (n < 0) THEN n ELSE 0)

ZeroDivision == Error("ZeroDivisionError")
TypeError == Error("TypeError")

-----------------------------------------------------------------------------
(* The VM's operations; "stuck" stands for operands they are not for.         *)

Stuck == V("stuck", 0)

IntOp(op, m, n) ==
  CASE op = "+" -> I(m + n)
    [] op = "-" -> I(m - n)
    [] op = "*" -> I(m * n)
    [] op \in {"div", "rem"} /\ n = 0 -> ZeroDivision
    [] op = "div" /\ n # 0 -> I(Quotient(m, n))
    [] op = "rem" /\ n # 0 -> I(Remainder(m, n))
    [] op \in Bitwise -> I(BitwiseOf(op, m, n))
    [] op \in Shifts -> I(Shifted(op, m, n))
    [] OTHER -> B(Compares(op, m - n))

FloatOp(op, a, b) ==
  IF op \in Arithmetic THEN FTerm(op, a, b) ELSE B(Compares(op, Halves(a) - Halves(b)))

VMOp(kind, op, a, b) ==
  CASE a.k # kind \/ b.k # kind -> Stuck
    [] kind = "int"   -> IntOp(op, a.v, b.v)
    [] kind = "float" -> FloatOp(op, a, b)
    [] kind = "bool"  -> IF op = "and" THEN B(a.v /\ b.v) ELSE B(Compares(op, ToInt(a) - ToInt(b)))
    [] kind = "str"   -> IF op = "+" THEN S(a.v \o b.v) ELSE B(Compares(op, TextOrder(a.v, b.v)))
    [] OTHER          -> B(TRUE)

-----------------------------------------------------------------------------
(* operator/dynamic.go. A dynamic int that does not fit beside its tag lies   *)
(* behind a reference, and a result that does not fit is cut: vmtypes.BoxI64. *)

Spilled(x) == x.k = "int" /\ ~Fits(x.v, Inline)
IsRef(x) == ~IsNumber(x) \/ Spilled(x)
BoxI64(n) == V("int", Wrapped(n, Inline))

\* ArrayElems boxes the ints of an array of ints without spilling them.
Elems(a) == [i \in DOMAIN a.v |-> IF a.v[i].k = "int" THEN BoxI64(a.v[i].v) ELSE a.v[i]]

Keys(a) == IF a.k = "set" THEN a.v ELSE {p[1] : p \in a.v}
At(a, key) == (CHOOSE p \in a.v : p[1] = key)[2]

IntBinary(op, m, n) ==
  CASE op = "+"  -> BoxI64(m + n)
    [] op = "-"  -> BoxI64(m - n)
    [] op = "*"  -> BoxI64(m * n)
    [] op \in {"/", "//", "%"} /\ n = 0 -> ZeroDivision
    [] op = "/" /\ n # 0  -> FTerm("/", F(2 * m), F(2 * n))
    [] op = "//" /\ n # 0 -> BoxI64(PyFloorDiv(m, n))
    [] op = "%" /\ n # 0  -> BoxI64(PyMod(m, n))
    [] op = "**" -> IF n < 0 THEN FTerm("**", F(2 * m), F(2 * n)) ELSE BoxI64(Power(m, n))
    [] op \in Bitwise -> BoxI64(BitwiseOf(op, m, n))
    [] OTHER     -> BoxI64(Shifted(op, m, n))

FloatBinary(op, a, b) ==
  CASE op \notin Arithmetic -> TypeError
    [] op \in {"/", "//", "%"} /\ IsZero(b) -> ZeroDivision
    [] op = "//" /\ ~IsZero(b) -> V("float", << "floor", << "/", a.v, b.v >> >>)
    [] OTHER -> FTerm(op, a, b)

DynBinary(op, a, b) ==
  CASE op = "+" /\ a.k = "str" /\ b.k = "str" -> S(a.v \o b.v)
    [] op = "*" /\ a.k = "str" /\ b.k = "int" /\ ~Spilled(b) -> S(Repeated(a.v, b.v))
    [] op = "*" /\ b.k = "str" /\ a.k = "int" /\ ~Spilled(a) -> S(Repeated(b.v, a.v))
    [] IsRef(a) \/ IsRef(b)    -> TypeError
    [] IsInt(a) /\ IsInt(b)    -> IntBinary(op, ToInt(a), ToInt(b))
    [] OTHER                   -> FloatBinary(op, ToFloat(a), ToFloat(b))

\* Whether two references are one: spilled ints each have a cell of their own.
Same(a, b) == a.k = b.k /\ a.id = b.id /\ a.v = b.v /\ ~Spilled(a)

DynCmp(op, a, b) ==
  CASE a.k = "str" /\ b.k = "str" -> B(Compares(op, TextOrder(a.v, b.v)))
    [] IsRef(a) \/ IsRef(b) -> IF op \in Ordering THEN TypeError ELSE B(Same(a, b) = (op = "=="))
    [] OTHER -> B(Compares(op, Halves(a) - Halves(b)))

DynUnary(op, a) ==
  CASE IsRef(a) -> TypeError
    [] a.k = "float" -> IF op = "~" THEN TypeError ELSE IF op = "neg" THEN V("float", << "neg", a.v >>) ELSE a
    [] op = "neg" -> BoxI64(-ToInt(a))
    [] op = "~"   -> BoxI64(-1 - ToInt(a))
    [] OTHER      -> V("int", ToInt(a))

DynTruth(a) ==
  CASE a.k \in {"int", "float", "bool"} -> B(Spilled(a) \/ ~IsZero(a))
    [] a.k = "none" -> B(FALSE)
    [] a.k \in {"str", "list", "bytes"} -> B(a.v # << >>)
    [] a.k \in {"set", "dict"} -> B(a.v # {})
    [] OTHER -> B(TRUE)

\* A map hands its keys to the iterator in an order of its own.
DynIterator(a) ==
  CASE a.k = "str"  -> V("iterator", [i \in DOMAIN a.v |-> S(<< a.v[i] >>)])
    [] a.k = "list" -> V("iterator", Elems(a))
    [] a.k \in {"set", "dict"} -> V("iterator", Keys(a))
    [] OTHER -> TypeError

DynLength(a) ==
  CASE a.k \in {"str", "list"} -> I(Len(a.v))
    [] a.k \in {"set", "dict"} -> I(Cardinality(a.v))
    [] OTHER -> TypeError

IndexError == Error("IndexError")

ElementAt(a, n) ==
  LET i == IF n < 0 THEN n + Len(a.v) ELSE n
  IN IF i \notin 0 .. Len(a.v) - 1 THEN IndexError
     ELSE IF a.k = "str" THEN S(<< a.v[i + 1] >>) ELSE Elems(a)[i + 1]

\* A set is a map from its members to true.
EntryAt(a, n) ==
  IF n \notin Keys(a) THEN IndexError ELSE IF a.k = "set" THEN B(TRUE) ELSE At(a, n)

DynIndex(a, key) ==
  CASE a.k \in {"str", "list"} /\ IsInt(key) /\ ~Spilled(key) -> ElementAt(a, ToInt(key))
    [] a.k \in {"set", "dict"} /\ key.k = "int"               -> EntryAt(a, key.v)
    [] OTHER                                                  -> TypeError

-----------------------------------------------------------------------------
(* operator/host.go and hostabi.BoxedEqual.                                   *)

BoxedEqual(a, b) ==
  /\ a.k = b.k /\ ~Spilled(a) /\ ~Spilled(b)
  /\ a.v = b.v /\ a.id = b.id


\* "yes", "no" or "error": the first difference, or the first error, decides.
AllOf(verdicts) ==
  LET bad == {i \in DOMAIN verdicts : verdicts[i] # "yes"}
  IN IF bad = {} THEN "yes" ELSE verdicts[First(bad)]
YesNo(b) == IF b THEN "yes" ELSE "no"

RECURSIVE StructuralEqual(_, _, _)
StructuralEqual(type, a, b) ==
  LET t == Erase(type) IN
  CASE Con(t) \in {"list", "dict", "set", "tuple"} /\ (a.k # Con(t) \/ b.k # Con(t)) -> "error"
    [] Con(t) = "list"  ->
         IF Len(a.v) # Len(b.v) THEN "no"
         ELSE AllOf([i \in DOMAIN a.v |-> StructuralEqual(t[2], Elems(a)[i], Elems(b)[i])])
    [] Con(t) = "tuple" -> AllOf([i \in DOMAIN t[2] |-> StructuralEqual(t[2][i], a.v[i], b.v[i])])
    [] Con(t) = "dict"  ->
         IF Cardinality(a.v) # Cardinality(b.v) \/ Keys(a) # Keys(b) THEN "no"
         ELSE YesNo(\A k \in Keys(a) : StructuralEqual(t[3], At(a, k), At(b, k)) = "yes")
    [] Con(t) = "set"   -> YesNo(Cardinality(a.v) = Cardinality(b.v) /\ a.v \subseteq b.v)
    [] IsDynamic(t)     -> YesNo(DynCmp("==", a, b).v)
    [] OTHER            -> YesNo(BoxedEqual(a, b))

Answer(verdict) == IF verdict = "error" THEN TypeError ELSE B(verdict = "yes")

\* The elements are compared as values of the needle's type, up to the first that is equal.
ListContains(needle, list, x) ==
  LET found == [i \in DOMAIN list.v |-> StructuralEqual(needle, Elems(list)[i], x)]
      ends == {i \in DOMAIN found : found[i] # "no"}
  IN IF ends = {} THEN B(FALSE) ELSE Answer(found[First(ends)])

Occurs(s, t) == \E i \in 0 .. Len(t) - Len(s) : SubSeq(t, i + 1, i + Len(s)) = s

DynIn(x, container) ==
  CASE container.k = "str" -> IF x.k = "str" THEN B(Occurs(x.v, container.v)) ELSE TypeError
    [] container.k = "list" -> B(\E i \in DOMAIN container.v : BoxedEqual(Elems(container)[i], x))
    [] container.k \in {"set", "dict"} ->
         IF x.k # "int" THEN TypeError
         ELSE B(x.v \in Keys(container))
    [] OTHER -> TypeError

SetBinary(op, a, b) ==
  LET left == {x \in a.v : CASE op = "-" -> x \notin b.v [] op = "&" -> x \in b.v
                             [] op = "|" -> TRUE [] op = "^" -> x \notin b.v}
      right == IF op \in {"|", "^"} THEN {x \in b.v : x \notin a.v} ELSE {}
  IN V("set", left \cup right)

SetRelation(op, a, b) ==
  CASE op = "<"  -> Cardinality(a.v) < Cardinality(b.v) /\ a.v \subseteq b.v
    [] op = "<=" -> a.v \subseteq b.v
    [] op = ">"  -> Cardinality(a.v) > Cardinality(b.v) /\ b.v \subseteq a.v
    [] op = ">=" -> b.v \subseteq a.v

\* The call of a host function of two operands, a below b on the stack.
HostCall(name, arg, a, b) ==
  CASE name = "dynBinary"       -> DynBinary(arg, a, b)
    [] name = "dynCompare"      -> DynCmp(arg, a, b)
    [] name = "dynContains"     -> LET r == DynIn(a, b) IN
                                   IF IsError(r) \/ arg = "in" THEN r ELSE B(~r.v)
    [] name = "dynIndex"        -> DynIndex(a, b)
    [] name = "powInt"          -> IF b.v < 0 THEN Error("NegativeExponent") ELSE I(Power(a.v, b.v))
    [] name = "powFloat"        -> IF a.k = "float" /\ b.k = "float" THEN FTerm("**", a, b) ELSE Stuck
    [] name = "bytesConcat"     -> V("bytes", a.v \o b.v)
    [] name = "listRepeat"      -> V("list", Repeated(Elems(a), b.v))
    [] name = "stringRepeat"    -> S(Repeated(b.v, a.v))
    [] name = "setBinary"       -> SetBinary(arg, a, b)
    [] name = "setRelation"     -> B(SetRelation(arg, a, b))
    [] name = "listContains"    -> ListContains(arg, a, b)
    [] name = "strContains"     -> B(Occurs(b.v, a.v))
    [] name = "bytesContains"   -> B(\E i \in DOMAIN a.v : a.v[i] = b.v)
    [] name = "bytesEqual"      -> B(a.v = b.v)
    [] name = "containerEqual"  -> Answer(StructuralEqual(arg, a, b))
    [] name = "containerCompare" -> I(SequenceOrder(a.v, b.v))

HostCall1(name, arg, a) ==
  CASE name = "dynBool"     -> DynTruth(a)
    [] name = "dynUnary"    -> DynUnary(arg, a)
    [] name = "dynLength"   -> DynLength(a)
    [] name = "dynIterator" -> DynIterator(a)
===============================================================================

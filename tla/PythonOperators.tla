---------------------------- MODULE PythonOperators ----------------------------
(***************************************************************************)
(* What Python's operators compute, as the documents of minipy promise it  *)
(* (docs/spec/04-static-semantics.md), independent of the code that is     *)
(* emitted for them. Ints are taken modulo 2^Width; True and 1, being      *)
(* equal, are not told apart.                                              *)
(***************************************************************************)
EXTENDS OperatorHosts

RECURSIVE PyEqual(_, _)
PyEqual(a, b) ==
  \/ IsNumber(a) /\ IsNumber(b) /\ Halves(a) = Halves(b)
  \/ /\ a.k = b.k
     /\ \/ a.k \in {"str", "bytes", "set"} /\ a.v = b.v
        \/ a.k \in {"none", "ellipsis"}
        \/ a.k = "class" /\ a.id = b.id
        \/ a.k \in {"list", "tuple"} /\ Len(a.v) = Len(b.v)
             /\ \A i \in DOMAIN a.v : PyEqual(a.v[i], b.v[i])
        \/ a.k = "dict" /\ Keys(a) = Keys(b) /\ \A k \in Keys(a) : PyEqual(At(a, k), At(b, k))

\* A negative number, 0 or a positive one, for values that have an order.
RECURSIVE PyOrder(_, _)
PyOrder(a, b) ==
  IF a.k \notin {"list", "tuple"} THEN ScalarOrder(a, b)
  ELSE LET differ == {i \in DOMAIN a.v \cap DOMAIN b.v : ~PyEqual(a.v[i], b.v[i])}
       IN IF differ = {} THEN Len(a.v) - Len(b.v)
          ELSE PyOrder(a.v[First(differ)], b.v[First(differ)])

Ordered(a, b) ==
  \/ IsNumber(a) /\ IsNumber(b)
  \/ a.k = b.k /\ a.k \in {"str", "list", "tuple"}

PyCompare(op, a, b) ==
  CASE op \in Equalities                    -> B(PyEqual(a, b) = (op = "=="))
    [] op \in Ordering /\ Ordered(a, b)     -> B(Compares(op, PyOrder(a, b)))
    [] op \in Ordering /\ a.k = "set" /\ b.k = "set" ->
         LET l == IF op \in {"<", "<="} THEN a.v ELSE b.v
             g == IF op \in {"<", "<="} THEN b.v ELSE a.v
         IN B(l \subseteq g /\ (op \in {"<", ">"} => l # g))
    [] OTHER                                -> TypeError

PyContains(x, container) ==
  CASE container.k = "str"   -> IF x.k = "str" THEN B(Occurs(x.v, container.v)) ELSE TypeError
    [] container.k = "bytes" -> B(\E i \in DOMAIN container.v : container.v[i] = x.v)
    [] container.k \in {"list", "tuple"} -> B(\E i \in DOMAIN container.v : PyEqual(container.v[i], x))
    [] container.k \in {"set", "dict"} ->
         IF x.k \in {"list", "set", "dict"} THEN TypeError
         ELSE B(\E k \in Keys(container) : PyEqual(I(k), x))
    [] OTHER                 -> TypeError

\* The quotient rounded down, and the remainder with the divisor's sign.
FloorDiv(m, n) == IF n > 0 THEN m \div n ELSE (-m) \div (-n)
FloorMod(m, n) == m - n * FloorDiv(m, n)

PyInts(op, m, n) ==
  CASE op = "+" -> I(m + n)
    [] op = "-" -> I(m - n)
    [] op = "*" -> I(m * n)
    [] op \in {"//", "%"} /\ n = 0 -> ZeroDivision
    [] op = "//" /\ n # 0 -> I(FloorDiv(m, n))
    [] op = "%" /\ n # 0 -> I(FloorMod(m, n))
    [] op = "**" -> I(IF n = 0 THEN 1 ELSE m^n)
    [] op \in Bitwise -> I(BitwiseOf(op, m, n))
    [] op \in Shifts /\ n < 0 -> Error("ValueError")
    [] op = "<<" /\ n >= 0 -> I(m * 2^n)
    [] op = ">>" /\ n >= 0 -> I(m \div 2^n)

PyFloats(op, a, b) ==
  CASE op \notin Arithmetic -> TypeError
    [] op \in {"/", "//", "%"} /\ IsZero(b) -> ZeroDivision
    [] op = "//" /\ ~IsZero(b) -> V("float", << "floor", << "/", a.v, b.v >> >>)
    [] OTHER -> FTerm(op, a, b)

PyRepeat(s, n) == [s EXCEPT !.v = Repeated(s.v, n)]
Sequences1 == {"str", "bytes", "list", "tuple"}

PyBinary(op, a, b) ==
  LET float == a.k = "float" \/ b.k = "float" \/ op = "/" \/ (op = "**" /\ ToInt(b) < 0) IN
  CASE IsNumber(a) /\ IsNumber(b) ->
         IF float THEN PyFloats(op, ToFloat(a), ToFloat(b)) ELSE PyInts(op, ToInt(a), ToInt(b))
    [] op = "+" /\ a.k = b.k /\ a.k \in Sequences1 -> V(a.k, a.v \o b.v)
    [] op = "*" /\ a.k \in Sequences1 /\ IsInt(b)  -> PyRepeat(a, ToInt(b))
    [] op = "*" /\ b.k \in Sequences1 /\ IsInt(a)  -> PyRepeat(b, ToInt(a))
    [] a.k = "set" /\ b.k = "set" /\ op \in {"-", "&", "|", "^"} ->
         V("set", CASE op = "-" -> a.v \ b.v [] op = "&" -> a.v \cap b.v
                    [] op = "|" -> a.v \cup b.v
                    [] op = "^" -> (a.v \ b.v) \cup (b.v \ a.v))
    [] OTHER -> TypeError

PyTruth(a) ==
  CASE IsNumber(a)  -> Halves(a) # 0
    [] a.k = "none" -> FALSE
    [] a.k \in Sequences1 -> Len(a.v) > 0
    [] a.k \in {"set", "dict"} -> a.v # {}
    [] OTHER -> TRUE

PyUnary(op, a) ==
  CASE op = "not"            -> B(~PyTruth(a))
    [] ~IsNumber(a)          -> TypeError
    [] op = "pos"            -> a
    [] op = "neg" /\ a.k = "float" -> V("float", << "neg", a.v >>)
    [] op = "~" /\ a.k = "float"   -> TypeError
    [] OTHER                 -> I((IF op = "~" THEN -1 ELSE 0) - ToInt(a))

PyIndex(a, key) ==
  LET n == Len(a.v)
      i == IF ToInt(key) < 0 THEN ToInt(key) + n ELSE ToInt(key)
  IN CASE a.k \in {"str", "list", "tuple"} ->
            IF ~IsInt(key) THEN TypeError
            ELSE IF i \notin 0 .. n - 1 THEN IndexError
            ELSE IF a.k = "str" THEN S(<< a.v[i + 1] >>) ELSE a.v[i + 1]
       [] a.k = "dict" -> LET equal == {k \in Keys(a) : PyEqual(I(k), key)}
                          IN IF equal = {} THEN Error("KeyError") ELSE At(a, First(equal))
       [] OTHER -> TypeError

PyIterator(a) ==
  CASE a.k = "str" -> V("iterator", [i \in DOMAIN a.v |-> S(<< a.v[i] >>)])
    [] a.k \in {"list", "tuple"} -> V("iterator", a.v)
    [] a.k \in {"set", "dict"} -> V("iterator", Keys(a))
    [] OTHER -> TypeError

PyLen(a) ==
  CASE a.k \in Sequences1 -> I(Len(a.v))
    [] a.k \in {"set", "dict"} -> I(Cardinality(a.v))
    [] OTHER -> TypeError

PyIs(a, b) == a.k = b.k /\ a.id = b.id

\* The value, or the error, of an expression on the values of its operands.
Python(x, a, b) ==
  CASE x.form \in {"binary", "literal"} -> PyBinary(x.op, a, b)
    [] x.form = "contains"              -> PyContains(b, a)
    [] x.form = "unary"                 -> PyUnary(x.op, a)
    [] x.form = "not_"                  -> B(~PyTruth(a))
    [] x.form = "truth"                 -> B(PyTruth(a))
    [] x.form = "abs"  -> IF a.k = "float" THEN F(Abs(a.v[1])) ELSE I(Abs(a.v))
    [] x.form = "len"                   -> PyLen(a)
    [] x.form = "iter"                  -> PyIterator(a)
    [] x.form = "index"                 -> PyIndex(a, b)
    [] x.op \in Identities              -> B(PyIs(a, b) = (x.op = "is"))
    [] x.op \in Memberships             -> LET r == PyContains(a, b) IN
                                           IF IsError(r) \/ x.op = "in" THEN r ELSE B(~r.v)
    [] OTHER                            -> PyCompare(x.op, a, b)

\* Two results that a program cannot tell apart, but for the identity of new objects.
SameValue(x, y) ==
  IF IsInt(x) /\ IsInt(y) THEN ToInt(x) = ToInt(y)
  ELSE x.k = y.k /\ x.v = y.v
===============================================================================

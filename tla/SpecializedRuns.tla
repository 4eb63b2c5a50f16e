---------------------------- MODULE SpecializedRuns ----------------------------
(***************************************************************************)
(* What the functions of Specialization return when they run, and whether  *)
(* the types the checker gave to the functions and to their instances      *)
(* describe it.                                                            *)
(***************************************************************************)
EXTENDS Specialization

CONSTANT Depth   \* bound: how deep the lists are that a run follows

VARIABLE ret   \* what every function was seen to return for every type of x

\* The types of values: a list is of what was put into it.
Nested[d \in Nat] ==
  IF d = 0 THEN {IntType, StrType, NoneType}
  ELSE Nested[d - 1] \cup {List(t) : t \in Nested[d - 1]}
Values == Nested[Depth]

Argument(stmt, x) ==
  LET inner == IF stmt.comp THEN IntType ELSE x
  IN  CASE stmt.arg = "x" -> inner
        [] stmt.arg = "int" -> IntType
        [] stmt.arg = "str" -> StrType
        [] stmt.arg = "list" -> List(inner)

Calling(stmt) == stmt.op \in {"call", "retcall"}

\* What a statement returns, and whether it can be passed. A call that returns nothing never ends or raises.
Given(stmt, x) ==
  IF ~Calling(stmt) THEN {} ELSE IF Argument(stmt, x) \in Values
  THEN ret[stmt.fun][Argument(stmt, x)] ELSE {}

Returned(stmt, x) ==
  CASE stmt.op = "return" -> {Argument(stmt, x)}
    [] stmt.op = "retcall" -> Given(stmt, x)
    [] OTHER -> {}

Passed(stmt, x) ==
  \/ stmt.opt
  \/ stmt.op = "add" /\ x = IntType
  \/ stmt.op = "call" /\ Given(stmt, x) # {}

BodyReturns(body, x) ==
  LET reached == {n \in 1 .. (Len(body) + 1) :
                    \A m \in 1 .. (n - 1) : Passed(body[m], x)}
  IN  UNION {Returned(body[n], x) : n \in reached \cap DOMAIN body}
        \cup (IF Len(body) + 1 \in reached THEN {NoneType} ELSE {})

Further ==
  [f \in Funs |-> [x \in Values |-> BodyReturns(Def(f).body, x)]]

\* The accepted program runs: calls nested once more at every step.
Run ==
  /\ phase = "done"
  /\ ret # Further
  /\ ret' = Further
  /\ UNCHANGED vars

RunInit == Init /\ ret = [f \in Funs |-> [x \in Values |-> {}]]
RunNext == (Next /\ UNCHANGED ret) \/ Run
RunSpec == RunInit /\ [][RunNext]_<< vars, ret >>

-------------------------------------------------------------------------------

\* A value is of a type: of one of its members, lists element by element.
RECURSIVE OfType(_, _)
OfType(v, t) ==
  \/ t = Any
  \/ v \subseteq t
  \/ \E m \in t, n \in v : m[1] = "list" /\ n[1] = "list" /\ OfType(n[2], m[2])

Described(f, param, result) ==
  \A x \in Values : OfType(x, param) => \A v \in ret[f][x] : OfType(v, result)

TypesDescribeRuns ==
  /\ \A f \in Funs : Described(f, Def(f).param, results[f])
  /\ \A i \in DOMAIN made : Described(made[i].fun, made[i].key, made[i].result)

\* What a call returns is of the type the checker gave the call, for the
\* functions and for every instance, unless a result was used before it was
\* inferred (a call of a function whose body comes later, or is being checked,
\* is typed None) or an x was looked up among the names of a comprehension
\* around another call (specialize and checkFunctionBody, check_decl.go).
TypedAsItRuns ==
  phase = "done" /\ ~early /\ ~misread => TypesDescribeRuns
===============================================================================

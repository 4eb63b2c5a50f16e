----------------------------- MODULE OperatorTypes -----------------------------
(***************************************************************************)
(* The typing rules of minipy's operators, operator/types.go, and the code *)
(* the operator package emits for them, operator/emit.go.                  *)
(*                                                                         *)
(* A type is a tuple: its constructor, then its arguments. An instruction  *)
(* is a tuple too: the VM's operation on a kind of operands, or a call of  *)
(* a host function of operator/host.go or operator/dynamic.go.             *)
(***************************************************************************)
EXTENDS Integers, Sequences

T(name) == << name >>
TInt == T("int")
TFloat == T("float")
TBool == T("bool")
TStr == T("str")
TBytes == T("bytes")
TNone == T("none")
TEllipsis == T("ellipsis")
TAny == T("any")
Invalid == T("invalid")

Con(t) == t[1]
ListOf(t) == << "list", t >>
SetOf(t) == << "set", t >>

Arithmetic == {"+", "-", "*", "/", "//", "%", "**"}
Bitwise == {"&", "|", "^"}
Shifts == {"<<", ">>"}
Ordering == {"<", "<=", ">", ">="}
Equalities == {"==", "!="}
Identities == {"is", "is not"}
Memberships == {"in", "not in"}
Comparisons == Ordering \cup Equalities \cup Identities \cup Memberships
Unaries == {"neg", "pos", "~", "not"}

Binaries == Arithmetic \cup Bitwise \cup Shifts

\* types.Erase and types.IsDynamic; a Literal refines int here.
Erase(t) == IF Con(t) = "literal" THEN TInt ELSE t
IsDynamic(t) == Con(t) \in {"any", "union"}

\* types.AssignableTo for the types of operands and elements.
Admits(dst, src) ==
  \/ src = dst \/ dst = TAny
  \/ Erase(src) = TInt /\ dst \in {TInt, TFloat}
  \/ Con(dst) = "union" /\ (Erase(src) \in dst[2] \/ (Erase(src) = TInt /\ TFloat \in dst[2]))

Numeric == {TInt, TFloat}
Mixed(l, r) == {l, r} = Numeric

-----------------------------------------------------------------------------
(* The checker: the type of an expression, Invalid where it is rejected.     *)

DynamicOr(l, r, t) == IF IsDynamic(l) \/ IsDynamic(r) THEN TAny ELSE t

Arith(l, r) ==
  CASE l = TInt /\ r = TInt              -> TInt
    [] {l, r} \subseteq Numeric        -> TFloat
    [] OTHER                           -> DynamicOr(l, r, Invalid)

PlusType(l, r) ==
  CASE l = r /\ l \in {TStr, TBytes}           -> l
    [] Con(l) = "list" /\ Admits(l, r)      -> l
    [] OTHER                                 -> Arith(l, r)

StarType(l, r) ==
  CASE {l, r} = {TStr, TInt}             -> TStr
    [] Con(l) = "list" /\ r = TInt     -> l
    [] Con(r) = "list" /\ l = TInt     -> r
    [] OTHER                           -> Arith(l, r)

BitwiseType(l, r) ==
  CASE Con(l) = "set" /\ l = r        -> l
    [] l = TInt /\ r = TInt              -> TInt
    [] OTHER                           -> DynamicOr(l, r, Invalid)

BinaryType(op, left, right) ==
  LET l == Erase(left) r == Erase(right) IN
  CASE op = "+"                                -> PlusType(l, r)
    [] op = "*"                                -> StarType(l, r)
    [] op = "-" /\ Con(l) = "set" /\ l = r    -> l
    [] op = "/"  -> IF {l, r} \subseteq Numeric THEN TFloat ELSE DynamicOr(l, r, Invalid)
    [] op \in Bitwise                          -> BitwiseType(l, r)
    [] op \in Shifts -> IF l = TInt /\ r = TInt THEN TInt ELSE DynamicOr(l, r, Invalid)
    [] OTHER                                   -> Arith(l, r)

UnaryType(op, type) ==
  LET t == Erase(type) IN
  CASE op \in {"neg", "pos"} /\ t \in Numeric  -> t
    [] op = "~" /\ t = TInt                     -> TInt
    [] op = "not" /\ (IsDynamic(t) \/ t = TBool) -> TBool
    [] IsDynamic(t)                            -> TAny
    [] OTHER                                   -> Invalid

IdentityOnly == {"class", "iterator", "callable"}
IdentityComparable(t) ==
  \/ t \in {TNone, TEllipsis, TStr} \/ IsDynamic(t)
  \/ Con(t) \in IdentityOnly \cup {"list", "dict", "set", "tuple"}

ContainsType(needle, haystack) ==
  CASE IsDynamic(haystack)                        -> TRUE
    [] Con(haystack) \in {"list", "dict", "set"} -> Admits(haystack[2], needle)
    [] haystack = TBytes                           -> needle = TInt
    [] OTHER                                      -> haystack = TStr /\ needle = TStr

OrderableElems == {TInt, TFloat, TBool, TStr}
Orderable(t) ==
  \/ t \in OrderableElems
  \/ Con(t) = "list" /\ Erase(t[2]) \in OrderableElems
  \/ Con(t) = "tuple" /\ \A i \in DOMAIN t[2] : Erase(t[2][i]) \in OrderableElems

Comparable(op, left, right) ==
  LET l == Erase(left) r == Erase(right) IN
  CASE op \in Identities  -> /\ (l = TEllipsis) = (r = TEllipsis)
                             /\ IdentityComparable(l) /\ IdentityComparable(r)
    [] op \in Memberships -> ContainsType(l, r)
    [] TEllipsis \in {l, r} -> l = r /\ op \in Equalities
    [] IsDynamic(l) \/ IsDynamic(r) -> TRUE
    [] TNone \in {l, r}    -> FALSE
    [] TBytes \in {l, r} /\ op \in Ordering -> FALSE
    [] l # r              -> Mixed(l, r)
    [] OTHER              -> op \in Equalities \/ Con(l) = "set" \/ Orderable(l)

Convertible == {TInt, TFloat, TBool, TStr}
Containers == {"list", "dict", "set", "tuple"}
TruthType(t) == IF t \in Convertible \/ Con(t) \in Containers \cup {"iterator"} THEN TBool ELSE Invalid
AbsType(t) == IF t \in Numeric THEN t ELSE Invalid

-----------------------------------------------------------------------------
(* The lowerer. "L" and "R" evaluate an operand.                             *)

Op(name) == << name >>
Kinded(kind, op) == << "op", kind, op >>
Host(name, arg) == << "host", name, arg >>
Promote(t) == IF Erase(t) = TInt THEN << Op("toFloat") >> ELSE << >>

PromotedOnTop(l) == << Op("toFloat") >>

\* emitMixedArith: the int is converted where it stands, under the float or above it.
PromoteBelow(l) ==
  IF Erase(l) = TInt THEN << Op("swap"), Op("toFloat"), Op("swap") >> ELSE << Op("toFloat") >>

Both == << Op("L"), Op("R") >>
RightFirst(l, r, code) == << Op("R") >> \o Promote(r) \o << Op("L") >> \o Promote(l) \o code
AsFloats(l, r, code) == << Op("L") >> \o Promote(l) \o << Op("R") >> \o Promote(r) \o code

\* emitIntMod: ((left rem divisor) + divisor) rem divisor
IntMod ==
  << Op("R"), << "set", 1 >>, Op("L"), << "get", 1 >>, Kinded("int", "rem"), << "get", 1 >>,
     Kinded("int", "+"), << "get", 1 >>, Kinded("int", "rem") >>

FloorWithoutRest ==
  << Op("L"), << "set", 1 >>, Op("R"), << "set", 2 >>, << "get", 1 >>, << "get", 2 >>,
     Kinded("int", "div"), << "get", 1 >>, << "get", 2 >>, Kinded("int", "^"), << "const", 0 >>,
     Kinded("int", "<"), Op("fromBool"), Kinded("int", "-") >>

\* emitIntDivMod: the truncated quotient, less one when the signs differ and a rest is left.
IntFloorDiv ==
  << Op("L"), << "set", 1 >>, Op("R"), << "set", 2 >>,
     << "get", 1 >>, << "get", 2 >>, Kinded("int", "div"), << "set", 3 >>,
     << "get", 1 >>, << "get", 2 >>, Kinded("int", "rem"), << "const", 0 >>, Kinded("int", "!="),
     << "get", 1 >>, << "get", 2 >>, Kinded("int", "^"), << "const", 0 >>, Kinded("int", "<"),
     Kinded("bool", "and"), Op("fromBool"), << "get", 3 >>, Op("swap"), Kinded("int", "-") >>

\* simpleBinOp has no opcode for any other operands.
SimpleOps(t) ==
  CASE t = TFloat -> {"+", "-", "*"}
    [] t = TInt   -> {"+", "-", "*", "&", "|", "^", "<<", ">>"}
    [] OTHER     -> {}
SimpleBinOp(op, t) == IF op \in SimpleOps(t) THEN Kinded(Con(t), op) ELSE Op("panic")

Simple(op, l, r) ==
  IF Mixed(Erase(l), Erase(r)) /\ op \in {"+", "-", "*"}
  THEN Both \o PromoteBelow(l) \o << SimpleBinOp(op, TFloat) >>
  ELSE Both \o << SimpleBinOp(op, Erase(l)) >>

EmitPlus(l, r) ==
  CASE Con(l) = "list"     -> Both \o << Op("concatLists") >>
    [] Erase(l) = TStr       -> Both \o << Kinded("str", "+") >>
    [] Erase(l) = TBytes     -> Both \o << Host("bytesConcat", l) >>
    [] OTHER                -> Simple("+", l, r)

EmitStar(l, r) ==
  CASE Con(l) = "list"     -> Both \o << Host("listRepeat", l) >>
    [] Con(r) = "list"     -> Both \o << Op("swap"), Host("listRepeat", r) >>
    [] Erase(l) = TStr       -> Both \o << Op("swap"), Host("stringRepeat", l) >>
    [] Erase(r) = TStr       -> Both \o << Host("stringRepeat", r) >>
    [] OTHER                -> Simple("*", l, r)

EmitPow(l, r) ==
  IF Erase(l) = TInt /\ Erase(r) = TInt THEN Both \o << Host("powInt", l) >>
  ELSE AsFloats(l, r, << Host("powFloat", l) >>)

EmitBinary(op, l, r) ==
  LET ints == Erase(l) = TInt /\ Erase(r) = TInt IN
  CASE IsDynamic(l) \/ IsDynamic(r)  -> Both \o << Host("dynBinary", op) >>
    [] op = "/"                      -> AsFloats(l, r, << Kinded("float", "/") >>)
    [] op = "//" /\ ints             -> IntFloorDiv
    [] op = "//" /\ ~ints            -> AsFloats(l, r, << Kinded("float", "/"), Op("floor") >>)
    [] op = "%" /\ ints              -> IntMod
    [] op = "%" /\ ~ints             -> AsFloats(l, r, << Kinded("float", "%") >>)
    [] op = "**"                     -> EmitPow(l, r)
    [] op = "+"                      -> EmitPlus(l, r)
    [] op = "*"                      -> EmitStar(l, r)
    [] op \in Bitwise \cup {"-"} /\ Con(l) = "set" -> Both \o << Host("setBinary", op) >>
    [] OTHER                         -> Simple(op, l, r)

Negate(op) == IF op \in {"!=", "not in", "is not"} THEN << Op("eqz") >> ELSE << >>

EmitContains(op, needle, haystack) ==
  (CASE Con(haystack) \in {"dict", "set"} ->
          << Op("lookup"), Op("swap"), Op("drop"), Op("false"), Kinded("bool", "!=") >>
     [] Con(haystack) = "list"            -> << Host("listContains", Erase(needle)) >>
     [] haystack = TStr                     -> << Host("strContains", needle) >>
     [] haystack = TBytes                   -> << Host("bytesContains", needle) >>
     [] OTHER                              -> << >>)
  \o Negate(op)

CmpOpcode(op, t) ==
  IF t \in {TInt, TFloat, TStr, TBool} \/ (t = TNone /\ op = "==") THEN Kinded(Con(t), op)
  ELSE Op("panic")

EmitOrder(op, l, r) ==
  LET t == Erase(l) IN
  CASE IsDynamic(l) \/ IsDynamic(r)            -> << Host("dynCompare", op) >>
    [] l = TEllipsis /\ r = TEllipsis            -> << Op("same") >> \o Negate(op)
    [] TBytes \in {l, r}                        -> << Host("bytesEqual", l) >> \o Negate(op)
    [] Con(t) = "set" /\ op \in Ordering      -> << Host("setRelation", op) >>
    [] Con(t) \in Containers /\ op \in Equalities ->
         << Host("containerEqual", t) >> \o Negate(op)
    [] Con(t) \in Containers /\ op \in Ordering ->
         << Host("containerCompare", t), << "const", 0 >>, Kinded("int", op) >>
    [] Con(t) \in IdentityOnly                -> << Op("same") >> \o Negate(op)
    [] Mixed(Erase(l), Erase(r))               -> PromoteBelow(l) \o << CmpOpcode(op, TFloat) >>
    [] OTHER                                   -> << CmpOpcode(op, t) >>

EmitCompare(op, l, r) ==
  Both \o
  (CASE op \in Memberships -> IF IsDynamic(r) THEN << Host("dynContains", op) >>
                              ELSE << Op("swap") >> \o EmitContains(op, l, r)
     [] op \in Identities  -> << Op("same") >> \o Negate(op)
     [] OTHER              -> EmitOrder(op, l, r))

EmitUnary(op, t) ==
  LET x == << Op("L") >> IN
  CASE IsDynamic(t) /\ op = "not"   -> x \o << Host("dynBool", op), Op("eqz") >>
    [] IsDynamic(t) /\ op # "not"   -> x \o << Host("dynUnary", op) >>
    [] op = "not"                   -> x \o << Op("eqz") >>
    [] op = "pos"                   -> x
    [] op = "~"                     -> x \o << << "const", -1 >>, Kinded("int", "^") >>
    [] Erase(t) = TFloat             -> x \o << Op("fneg") >>
    [] OTHER                        -> << << "const", 0 >> >> \o x \o << Kinded("int", "-") >>

\* emitTruth; "length" is ARRAY_LEN, MAP_LEN or STRING_LEN.
EmitTruth(t) ==
  << Op("L") >> \o
  (CASE Con(t) \in {"list", "dict", "set", "str"} ->
          << Op("length"), << "const", 0 >>, Kinded("int", "!=") >>
     [] Con(t) = "tuple"  -> << Op("drop"), Op(IF t[2] = << >> THEN "false" ELSE "true") >>
     [] t = TInt          -> << << "const", 0 >>, Kinded("int", "!=") >>
     [] t = TFloat        -> << << "const", 0 >>, Op("toFloat"), Kinded("float", "!=") >>
     [] OTHER             -> << >>)

EmitAbs(t) == << Op("L"), IF t = TInt THEN Op("abs") ELSE Op("fabs") >>
===============================================================================

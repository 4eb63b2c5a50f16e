------------------------------ MODULE MCOperators ------------------------------
(* Values of every type: ints at the limits of Width bits, equal containers  *)
(* that are not one, containers of containers and of dynamic values, and     *)
(* dynamic values of every kind.                                             *)
EXTENDS Operators, TLC

Object(k, v, id) == [k |-> k, v |-> v, id |-> id]
L1(id) == Object("list", << I(1) >>, id)
Strs == << S(<< >>), S(<< 1 >>), S(<< 1, 2 >>), S(<< 2, 1 >>) >>
Halved == << F(-2), F(0), F(1), F(4) >>
Dicts == << Object("dict", {}, 31), Object("dict", {<< 1, L1(32) >>}, 33),
            Object("dict", {<< 1, L1(34) >>}, 35), Object("dict", {<< 2, L1(36) >>}, 37) >>
TInts == ListOf(TInt)
MCInts == [i \in 1 .. 2^Width |-> I(i - 1 - 2^(Width - 1))]

Anys ==
  << None, B(TRUE), B(FALSE), I(2), I(-1), I(0), I(3), I(7), F(1), F(2), F(0), S(<< 1 >>), S(<< >>),
     L1(41), L1(42), Object("list", << >>, 43), Object("list", << I(2), S(<< 1 >>) >>, 47),
     Object("set", {1}, 44), Object("dict", {<< 1, None >>}, 45), Object("class", 0, 46) >>

MCValues ==
  TInt :> MCInts @@ T("literal") :> << I(-2), I(3) >> @@ TFloat :> Halved
  @@ TBool :> << B(TRUE), B(FALSE) >> @@ TStr :> Strs
  @@ TBytes :> << V("bytes", << >>), V("bytes", << 1, 2 >>), V("bytes", << 2 >>) >>
  @@ TNone :> << None >> @@ TEllipsis :> << V("ellipsis", 0) >> @@ TAny :> Anys
  @@ << "union", {TInt, TNone} >> :> << I(2), I(-4), None >>
  @@ TInts :> << Object("list", << >>, 1), L1(2), L1(3), Object("list", << I(1), I(-2) >>, 4),
                 Object("list", << I(7) >>, 5) >>
  @@ ListOf(TFloat) :> << Object("list", << F(1) >>, 6), Object("list", << F(2), F(1) >>, 7) >>
  @@ ListOf(TInts) :> << Object("list", << L1(8) >>, 9), Object("list", << L1(10) >>, 11),
                         Object("list", << Object("list", << >>, 12), L1(13) >>, 14) >>
  @@ ListOf(TAny) :> << Object("list", << I(1), S(<< 1 >>) >>, 15),
                        Object("list", << F(2), S(<< 1 >>) >>, 16), Object("list", << L1(17) >>, 18) >>
  @@ SetOf(TInt) :> << Object("set", {}, 21), Object("set", {1}, 22), Object("set", {1, 2}, 23),
                       Object("set", {2, 3}, 24) >>
  @@ << "dict", TInt, TInts >> :> Dicts
  @@ << "tuple", << TInt, TStr >> >> :>
       << Object("tuple", << I(1), S(<< 1 >>) >>, 25), Object("tuple", << I(1), S(<< 1 >>) >>, 26),
          Object("tuple", << I(1), S(<< 1, 2 >>) >>, 27), Object("tuple", << I(-2), S(<< >>) >>, 28) >>
  @@ T("class") :> << Object("class", 0, 51), Object("class", 0, 52) >>
===============================================================================

--------------------------- MODULE CallBindingProofs ---------------------------
(***************************************************************************)
(* Theorems about CallBinding, for every set of call sites: what is bound  *)
(* to the parameters of a call are its items, a default or a display, and  *)
(* what a parameter receives is converted as its callee converts.          *)
(***************************************************************************)
EXTENDS CallBinding, TLAPS, FiniteSetTheorems, SequenceTheorems, WellFoundedInduction

-------------------------------------------------------------------------------
(* Numbers, enumerations and concatenations *)

\* A set of natural numbers that is not empty has a least one.
LEMMA LeastNumber ==
  ASSUME NEW S \in SUBSET Nat, S # {}
  PROVE  \E m \in S : \A k \in S : m <= k
<1> DEFINE R == {p \in Nat \X Nat : p[1] < p[2]}
<1>1. IsWellFoundedOn(R, Nat)
  BY NatLessThanWellFounded DEF OpToRel
<1>2. \A x, y \in S : << y, x >> \in R <=> y < x
  OBVIOUS
<1> HIDE DEF R
<1>3. PICK m \in S : \A k \in S : ~ (<< k, m >> \in R)
  BY <1>1, WFMin
<1>4. \A k \in S : m <= k
  <2> TAKE k \in S
  <2>1. ~ (k < m)
    BY <1>2, <1>3
  <2>2. k \in Nat /\ m \in Nat
    OBVIOUS
  <2>3. QED
    BY <2>1, <2>2
<1>5. QED
  BY <1>4

Ascending(S, s) ==
  /\ s \in [1 .. Cardinality(S) -> S]
  /\ \A m, n \in DOMAIN s : m < n => s[m] < s[n]

\* One more number, greater than the others, comes last.
LEMMA AscendingGrows ==
  ASSUME NEW k \in Nat, NEW S \in SUBSET (1 .. k), k \in S, NEW s,
         Ascending(S \ {k}, s)
  PROVE  \E t : Ascending(S, t)
<1> DEFINE R == S \ {k}
           c == Cardinality(R)
           t == [m \in 1 .. c + 1 |-> IF m = c + 1 THEN k ELSE s[m]]
<1>1. IsFiniteSet(S) /\ IsFiniteSet(R)
  <2>1. IsFiniteSet(1 .. k)
    BY FS_Interval
  <2>2. IsFiniteSet(S)
    BY <2>1, FS_Subset
  <2>3. QED
    BY <2>2, FS_Subset
<1>2. c \in Nat /\ Cardinality(S) = c + 1
  <2>1. c \in Nat /\ Cardinality(S) = Cardinality(R) + 1
    <3>1. Cardinality(R) = Cardinality(S) - 1
      BY <1>1, FS_RemoveElement
    <3>2. Cardinality(S) \in Nat /\ Cardinality(R) \in Nat
      BY <1>1, FS_CardinalityType
    <3>3. QED
      BY <3>1, <3>2
  <2>2. QED
    BY <2>1
<1>3. /\ s \in [1 .. c -> R]
      /\ \A m, n \in 1 .. c : m < n => s[m] < s[n]
  BY DEF Ascending
<1> HIDE DEF c
<1>4. t \in [1 .. c + 1 -> S]
  BY <1>2, <1>3
<1>5. ASSUME NEW m \in 1 .. c + 1, NEW n \in 1 .. c + 1, m < n
      PROVE  t[m] < t[n]
  <2>1. m \in 1 .. c /\ t[m] = s[m] /\ s[m] \in R
    BY <1>2, <1>3, <1>5
  <2>2. CASE n = c + 1
    <3>1. t[n] = k /\ s[m] \in 1 .. k /\ s[m] # k
      BY <2>1, <2>2
    <3>2. QED
      BY <2>1, <3>1
  <2>3. CASE n # c + 1
    <3>1. n \in 1 .. c /\ t[n] = s[n]
      BY <1>2, <2>3
    <3>2. QED
      BY <1>3, <1>5, <2>1, <3>1
  <2>4. QED
    BY <2>2, <2>3
<1>6. Ascending(S, t)
  <2>1. DOMAIN t = 1 .. c + 1
    OBVIOUS
  <2> HIDE DEF t
  <2>2. QED
    BY <1>2, <1>4, <1>5, <2>1 DEF Ascending
<1>7. QED
  BY <1>6

\* Every set of the numbers up to n can be listed in order.
LEMMA AscendingExists ==
  ASSUME NEW n \in Nat, NEW S \in SUBSET (1 .. n)
  PROVE  \E s : Ascending(S, s)
<1> DEFINE Bad == {k \in Nat : \E T \in SUBSET (1 .. k) : \A s : ~Ascending(T, s)}
<1>1. ASSUME Bad # {} PROVE FALSE
  <2>1. PICK k \in Bad : \A j \in Bad : k <= j
    BY <1>1, LeastNumber
  <2>2. PICK T \in SUBSET (1 .. k) : \A s : ~Ascending(T, s)
    BY <2>1
  <2>3. k \in Nat
    BY <2>1
  <2>4. CASE k = 0
    <3>1. T = {} /\ Cardinality({}) = 0
      BY <2>4, FS_EmptySet
    <3>2. Ascending(T, << >>)
      BY <3>1 DEF Ascending
    <3>3. QED
      BY <2>2, <3>2
  <2>5. CASE k # 0
    <3>1. k - 1 \in Nat /\ k - 1 \notin Bad
      <4>1. k - 1 \in Nat /\ ~ (k <= k - 1)
        BY <2>3, <2>5
      <4>2. QED
        BY <2>1, <4>1
    <3>2. \A U \in SUBSET (1 .. k - 1) : \E s : Ascending(U, s)
      BY <3>1
    <3>3. T \ {k} \in SUBSET (1 .. k - 1)
      BY <2>3
    <3>4. PICK s : Ascending(T \ {k}, s)
      BY <3>2, <3>3
    <3>5. CASE k \in T
      BY <2>2, <2>3, <3>4, <3>5, AscendingGrows
    <3>6. CASE k \notin T
      <4>1. T \ {k} = T
        BY <3>6
      <4>2. QED
        BY <2>2, <3>4, <4>1
    <3>7. QED
      BY <3>5, <3>6
  <2>6. QED
    BY <2>4, <2>5
<1>2. n \notin Bad
  BY <1>1
<1>3. QED
  BY <1>2

\* InOrder lists the members of a set of numbers in order.
LEMMA InOrderLists ==
  ASSUME NEW n \in Nat, NEW S \in SUBSET (1 .. n)
  PROVE  Ascending(S, InOrder(S)) /\ InOrder(S) \in Seq(S)
<1>1. \E s \in [1 .. Cardinality(S) -> S] : \A i, j \in DOMAIN s : i < j => s[i] < s[j]
  BY AscendingExists DEF Ascending
<1>2. Ascending(S, InOrder(S))
  BY <1>1 DEF Ascending, InOrder
<1>3. Cardinality(S) \in Nat
  <2>1. IsFiniteSet(1 .. n)
    BY FS_Interval
  <2>2. IsFiniteSet(S)
    BY <2>1, FS_Subset
  <2>3. QED
    BY <2>2, FS_CardinalityType
<1>4. QED
  BY <1>2, <1>3 DEF Ascending

\* What FlattenSeq builds from the first k of n sequences.
Flattens(ss, k, f) ==
  f = [i \in 1 .. k |-> IF i = 1 THEN ss[i] ELSE f[i - 1] \o ss[i]]

LEMMA FlattensGrows ==
  ASSUME NEW ss, NEW k \in Nat, NEW g, Flattens(ss, k, g)
  PROVE  \E f : Flattens(ss, k + 1, f)
<1> DEFINE f == [i \in 1 .. k + 1 |->
                   IF i = k + 1 THEN IF k = 0 THEN ss[i] ELSE g[k] \o ss[i] ELSE g[i]]
<1>1. ASSUME NEW i \in 1 .. k + 1
      PROVE  f[i] = IF i = 1 THEN ss[i] ELSE f[i - 1] \o ss[i]
  <2>1. CASE i = k + 1
    <3>1. CASE k = 0
      BY <2>1, <3>1
    <3>2. CASE k # 0
      <4>1. k \in 1 .. k + 1 /\ k # k + 1 /\ i - 1 = k /\ i # 1
        BY <2>1, <3>2
      <4>2. f[k] = g[k]
        BY <4>1
      <4>3. f[i] = g[k] \o ss[i]
        BY <2>1, <3>2
      <4>4. QED
        BY <4>1, <4>2, <4>3
    <3>3. QED
      BY <3>1, <3>2
  <2>2. CASE i # k + 1
    <3>1. i \in 1 .. k /\ f[i] = g[i]
      BY <2>2
    <3>2. g[i] = IF i = 1 THEN ss[i] ELSE g[i - 1] \o ss[i]
      BY <3>1 DEF Flattens
    <3>3. CASE i = 1
      BY <3>1, <3>2, <3>3
    <3>4. CASE i # 1
      <4>1. i - 1 \in 1 .. k + 1 /\ i - 1 # k + 1
        BY <3>1, <3>4
      <4>2. f[i - 1] = g[i - 1]
        BY <4>1
      <4>3. QED
        BY <3>1, <3>2, <3>4, <4>2
    <3>5. QED
      BY <3>3, <3>4
  <2>3. QED
    BY <2>1, <2>2
<1>2. f = [i \in 1 .. k + 1 |-> f[i]]
  OBVIOUS
<1> HIDE DEF f
<1>3. f = [i \in 1 .. k + 1 |-> IF i = 1 THEN ss[i] ELSE f[i - 1] \o ss[i]]
  BY <1>1, <1>2
<1>4. QED
  BY <1>3 DEF Flattens

LEMMA FlattensExists ==
  ASSUME NEW ss, NEW n \in Nat
  PROVE  \E f : Flattens(ss, n, f)
<1> DEFINE Bad == {k \in Nat : \A f : ~Flattens(ss, k, f)}
<1>1. ASSUME Bad # {} PROVE FALSE
  <2>1. PICK k \in Bad : \A j \in Bad : k <= j
    BY <1>1, LeastNumber
  <2>2. k \in Nat /\ \A f : ~Flattens(ss, k, f)
    BY <2>1
  <2>3. CASE k = 0
    <3>1. << >> = [i \in 1 .. k |-> IF i = 1 THEN ss[i] ELSE << >>[i - 1] \o ss[i]]
      BY <2>3
    <3>2. QED
      BY <2>2, <3>1 DEF Flattens
  <2>4. CASE k # 0
    <3>1. k - 1 \in Nat /\ k - 1 + 1 = k /\ ~ (k <= k - 1)
      BY <2>2, <2>4
    <3>2. k - 1 \notin Bad
      BY <2>1, <3>1
    <3>3. PICK g : Flattens(ss, k - 1, g)
      BY <3>1, <3>2
    <3>4. \E f : Flattens(ss, k - 1 + 1, f)
      BY <3>1, <3>3, FlattensGrows
    <3>5. QED
      BY <2>2, <3>1, <3>4
  <2>5. QED
    BY <2>3, <2>4
<1>2. n \notin Bad
  BY <1>1
<1>3. QED
  BY <1>2

\* Joining sequences over a set gives a sequence over the set.
LEMMA FlattenedOver ==
  ASSUME NEW T, NEW ss \in Seq(Seq(T))
  PROVE  FlattenSeq(ss) \in Seq(T)
<1> DEFINE n == Len(ss)
<1>1. n \in Nat /\ \A i \in 1 .. n : ss[i] \in Seq(T)
  OBVIOUS
<1>2. CASE n = 0
  <2>1. ss = << >>
    BY <1>2
  <2>2. QED
    BY <1>2, <2>1 DEF FlattenSeq
<1>3. CASE n # 0
  <2> DEFINE f == CHOOSE f : Flattens(ss, n, f)
  <2>1. Flattens(ss, n, f)
    BY <1>1, FlattensExists
  <2>2. FlattenSeq(ss) = f[n]
    BY <1>3 DEF FlattenSeq, Flattens
  <2> HIDE DEF f
  <2> DEFINE Bad == {k \in Nat : k \in 1 .. n /\ f[k] \notin Seq(T)}
  <2>3. ASSUME Bad # {} PROVE FALSE
    <3>1. PICK k \in Bad : \A j \in Bad : k <= j
      BY <2>3, LeastNumber
    <3>2. k \in 1 .. n /\ f[k] \notin Seq(T) /\ ss[k] \in Seq(T)
      BY <1>1, <3>1
    <3>3. f[k] = IF k = 1 THEN ss[k] ELSE f[k - 1] \o ss[k]
      BY <2>1, <3>2 DEF Flattens
    <3>4. CASE k = 1
      BY <3>2, <3>3, <3>4
    <3>5. CASE k # 1
      <4>1. k - 1 \in Nat /\ k - 1 \in 1 .. n /\ ~ (k <= k - 1)
        BY <1>1, <3>2, <3>5
      <4>2. f[k - 1] \in Seq(T)
        BY <3>1, <4>1
      <4>3. f[k - 1] \o ss[k] \in Seq(T)
        BY <3>2, <4>2
      <4>4. QED
        BY <3>2, <3>3, <3>5, <4>3
    <3>6. QED
      BY <3>4, <3>5
  <2>4. n \in 1 .. n /\ n \notin Bad
    BY <1>1, <1>3, <2>3
  <2>5. f[n] \in Seq(T)
    BY <1>1, <2>4
  <2>6. QED
    BY <2>2, <2>5
<1>4. QED
  BY <1>2, <1>3

-------------------------------------------------------------------------------
(* What is bound, and what is evaluated *)

Exprs == [sort : {"item"}, item : Nat, elem : Nat]

\* The expressions a call's items give, one and in a display.
Places == DOMAIN call.items
ItemExprs == {e \in Exprs : e.item \in Places}
Displays == [sort : {"list", "dict"}, parts : Seq(ItemExprs)]

\* What a parameter may be bound to once the call is resolved.
Bindable(p) ==
  IF call.callee \in Plain THEN ItemExprs
  ELSE IF Params[p].kind \in Aggregates THEN Displays
  ELSE ItemExprs \cup {Default(p)}

\* The rule of ConvertsArguments for a value that a parameter receives.
Given(from, p) == IF from[1] > 0 THEN call.items[from[1]].typ ELSE Params[p].default

Converted(from, rep, p) ==
  (rep = Params[p].typ) <=>
    \/ Given(from, p) = Params[p].typ
    \/ /\ call.callee \in {"function", "init", "dataclass"}
       /\ Params[p].kind \notin Aggregates

OpRecords == [from : Int \X Int, param : Nat, rep : Types]

GoodOps ==
  {op \in OpRecords : op.param # 0 => op.param \in DOMAIN Params
                                      /\ Converted(op.from, op.rep, op.param)}

GoodValues(p) == {v \in [from : Int \X Int, rep : Types] : Converted(v.from, v.rep, p)}

CallOk == call.params \in Seq(Parameters) /\ call.items \in Seq(Arguments) /\ call.typ \in Types

QueueOk ==
  /\ phase \in {"stars", "keywords"} => queue \in Seq(Places)
  /\ phase = "positionals" => queue \in Seq(ItemExprs)

ExtraOk == extra \in [pos : Seq(ItemExprs), kw : Seq(ItemExprs)]

ArgsOk ==
  /\ phase \in {"stars", "positionals", "keywords"} =>
       args \in [DOMAIN Params -> ItemExprs \cup {Unset}]
  /\ phase = "defaults" =>
       /\ args = [p \in DOMAIN Params |-> args[p]]
       /\ \A p \in DOMAIN Params :
            args[p] \in IF Params[p].kind \in Aggregates THEN Displays ELSE ItemExprs \cup {Unset}
  /\ phase \in {"stars", "positionals", "keywords", "defaults"} => call.callee \notin Plain
  /\ phase = "types" =>
       /\ args = [p \in DOMAIN Params |-> args[p]]
       /\ \A p \in DOMAIN Params : args[p] \in Bindable(p)

FrameOk ==
  phase \in {"evaluate", "entered"} =>
    /\ frame = [p \in DOMAIN Params |-> frame[p]]
    /\ \A p \in DOMAIN Params : frame[p] \in Seq(GoodValues(p))

CodeOk == phase = "evaluate" => code \in Seq(GoodOps)

BindInv == CallOk /\ QueueOk /\ ExtraOk /\ ArgsOk /\ FrameOk /\ CodeOk

\* A sequence over a set is one over every greater set.
LEMMA SeqWidens ==
  ASSUME NEW S, NEW T, S \subseteq T, NEW s \in Seq(S)
  PROVE  s \in Seq(T)
<1>1. Len(s) \in Nat /\ s \in [1 .. Len(s) -> S]
  OBVIOUS
<1>2. s \in [1 .. Len(s) -> T]
  BY <1>1
<1>3. QED
  BY <1>1, <1>2

LEMMA ParamsTyped ==
  ASSUME CallOk PROVE Params \in Seq(Parameters)
<1>1. CASE call.callee = "exception"
  <2> DEFINE message == [name |-> "message", kind |-> "normal", typ |-> call.typ,
                         default |-> call.typ]
  <2>1. message \in Parameters
    <3>1. "message" \in Names /\ "normal" \in Kinds
      BY NamesAssumption DEF Kinds
    <3>2. call.typ \in Types
      BY DEF CallOk
    <3>3. QED
      BY <3>1, <3>2 DEF Parameters
  <2>2. Params = << message >>
    BY <1>1 DEF Params
  <2> HIDE DEF message
  <2>3. QED
    BY <2>1, <2>2
<1>2. CASE call.callee = "derived"
  BY <1>2 DEF CallOk, Params
<1>3. CASE call.callee \notin {"exception", "derived"}
  BY <1>3 DEF CallOk, Params
<1>4. QED
  BY <1>1, <1>2, <1>3

\* The items of a form are places in the list of items.
LEMMA ItemsPlaced ==
  ASSUME CallOk, NEW form PROVE Items(form) \in Seq(Places)
<1> DEFINE S == {i \in DOMAIN call.items : call.items[i].form = form}
<1>1. Len(call.items) \in Nat /\ DOMAIN call.items = 1 .. Len(call.items)
  BY DEF CallOk
<1>2. S \in SUBSET (1 .. Len(call.items)) /\ S \in SUBSET Places
  BY <1>1 DEF Places
<1> HIDE DEF S
<1>3. InOrder(S) \in Seq(S)
  BY <1>1, <1>2, InOrderLists
<1>4. InOrder(S) \in Seq(Places)
  BY <1>2, <1>3, SeqWidens
<1>5. QED
  BY <1>4 DEF Items, S

\* Evaluating a binding gives an operation that converts as the rule says.
LEMMA OpConverts ==
  ASSUME CallOk, NEW p \in DOMAIN Params, NEW e \in ItemExprs \cup {Default(p)},
         NEW whole \in BOOLEAN, whole => AssignableTo(TypeOf(e), Params[p].typ),
         call.callee \in Promotes => (whole <=> Params[p].kind \notin Aggregates)
  PROVE  Op(e, p, whole) \in GoodOps
<1> DEFINE from == Op(e, p, whole).from
           rep == Op(e, p, whole).rep
           promoted == whole /\ call.callee \in Promotes /\ Params[p].typ = "float"
<1>1. Params \in Seq(Parameters)
  BY ParamsTyped
<1>2. p \in Nat \ {0} /\ Params[p] \in Parameters
  BY <1>1
<1>3. /\ from \in Int \X Int
      /\ Given(from, p) = TypeOf(e)
      /\ TypeOf(e) \in Types
  <2>1. CASE e \in ItemExprs
    <3>1. e.sort = "item" /\ e.item \in DOMAIN call.items /\ e.elem \in Nat /\ e.item \in Nat
      BY <2>1 DEF ItemExprs, Exprs, Places
    <3>2. e.item > 0 /\ call.items[e.item].typ \in Types
      <4>1. e.item > 0 /\ call.items[e.item] \in Arguments
        BY <3>1 DEF CallOk
      <4>2. QED
        BY <4>1 DEF Arguments
    <3>3. from = << e.item, e.elem >>
      BY <3>1 DEF Op
    <3>4. QED
      BY <3>1, <3>2, <3>3 DEF Given, TypeOf
  <2>2. CASE e = Default(p)
    <3>1. e.sort = "default" /\ e.param = p
      BY <2>2 DEF Default
    <3>2. from = << -1, p >> \/ from = << 0, p >>
      BY <3>1 DEF Op
    <3>3. QED
      BY <1>2, <3>1, <3>2 DEF Given, TypeOf, Parameters
  <2>3. QED
    BY <2>1, <2>2
<1>4. /\ rep = IF promoted THEN "float" ELSE TypeOf(e)
      /\ Op(e, p, whole).param = p
      /\ Op(e, p, whole) = [from |-> from, param |-> p, rep |-> rep]
  BY DEF Op
<1> HIDE DEF from, rep
<1>5. Op(e, p, whole) \in OpRecords
  <2>0. "float" \in Types
    BY TypesAssumption
  <2>1. rep \in Types /\ p \in Nat
    <3>1. CASE promoted
      BY <1>2, <1>4, <2>0, <3>1
    <3>2. CASE ~promoted
      BY <1>2, <1>3, <1>4, <3>2
    <3>3. QED
      BY <3>1, <3>2
  <2>2. QED
    BY <1>3, <1>4, <2>1 DEF OpRecords
<1>6. Converted(from, rep, p)
  <2>1. CASE call.callee \in Promotes /\ whole
    <3>1. rep = Params[p].typ
      BY <1>4, <2>1 DEF AssignableTo
    <3>2. Params[p].kind \notin Aggregates /\ call.callee \in {"function", "init", "dataclass"}
      BY <2>1 DEF Promotes
    <3>3. QED
      BY <3>1, <3>2 DEF Converted
  <2>2. CASE ~(call.callee \in Promotes /\ whole)
    <3>1. rep = Given(from, p)
      BY <1>3, <1>4, <2>2
    <3>2. ~(call.callee \in {"function", "init", "dataclass"} /\ Params[p].kind \notin Aggregates)
      BY <2>2 DEF Promotes
    <3>3. QED
      BY <3>1, <3>2 DEF Converted
  <2>3. QED
    BY <2>1, <2>2
<1>7. Op(e, p, whole).from = from /\ Op(e, p, whole).rep = rep
  BY DEF from, rep
<1>8. QED
  BY <1>4, <1>5, <1>6, <1>7 DEF GoodOps

-------------------------------------------------------------------------------
(* Every step keeps the invariant *)

\* While the call site stays, so does everything it determines.
LEMMA CallKept ==
  ASSUME call' = call
  PROVE  /\ Params' = Params /\ Places' = Places /\ ItemExprs' = ItemExprs
         /\ Displays' = Displays /\ GoodOps' = GoodOps /\ (CallOk <=> CallOk')
         /\ \A p : Bindable(p)' = Bindable(p)
         /\ \A p : GoodValues(p)' = GoodValues(p)
<1>1. Params' = Params
  BY DEF Params
<1>2. Places' = Places
  BY DEF Places
<1>3. ItemExprs' = ItemExprs
  BY <1>2 DEF ItemExprs
<1>4. Displays' = Displays
  BY <1>3 DEF Displays
<1>5. CallOk <=> CallOk'
  BY DEF CallOk
<1>6. \A p : Bindable(p)' = Bindable(p)
  BY <1>1, <1>3, <1>4 DEF Bindable
<1>7. \A from, rep, p : Converted(from, rep, p)' <=> Converted(from, rep, p)
  BY <1>1 DEF Converted, Given
<1>8. GoodOps' = GoodOps
  BY <1>1, <1>7 DEF GoodOps
<1>9. \A p : GoodValues(p)' = GoodValues(p)
  BY <1>7 DEF GoodValues
<1>10. QED
  BY <1>1, <1>2, <1>3, <1>4, <1>5, <1>6, <1>8, <1>9

LEMMA BindInit ==
  ASSUME Init PROVE BindInv
<1>1. CallOk
  BY CallsAssumption DEF Init, CallOk
<1>2. ExtraOk
  BY DEF Init, ExtraOk
<1>3. QED
  BY <1>1, <1>2 DEF Init, BindInv, QueueOk, ArgsOk, FrameOk, CodeOk

\* A call that is refused, or entered, binds nothing more.
LEMMA BindStops ==
  ASSUME BindInv, Reject PROVE BindInv'
<1>1. CallOk' /\ ExtraOk'
  BY CallKept DEF BindInv, Reject, ExtraOk
<1>2. phase' = "rejected"
  BY DEF Reject
<1>3. QED
  BY <1>1, <1>2 DEF BindInv, QueueOk, ArgsOk, FrameOk, CodeOk

LEMMA BindDispatch ==
  ASSUME BindInv, Dispatch PROVE BindInv'
<1> DEFINE pos == Items("pos")
<1>0. CASE Reject
  BY <1>0, BindStops
<1>1. CallOk
  BY DEF BindInv
<1>2. pos \in Seq(Places) /\ Items("star") \in Seq(Places)
  BY <1>1, ItemsPlaced
<1>3. Params \in Seq(Parameters)
  BY <1>1, ParamsTyped
<1>4. \A i \in Places : Item(i) \in ItemExprs
  <2>1. Places \subseteq Nat
    BY <1>1 DEF CallOk, Places
  <2>2. QED
    BY <2>1 DEF Item, ItemExprs, Exprs
<1>5. CASE /\ call.callee \in Plain /\ OnlyPositional
           /\ phase' = "types"
           /\ args' = [p \in DOMAIN Params |-> Item(pos[p])]
           /\ UNCHANGED << call, queue, extra, code, trace, frame >>
  <2>1. call' = call
    BY <1>5
  <2>2. Len(pos) = Len(Params)
    BY <1>5 DEF OnlyPositional
  <2>3. \A p \in DOMAIN Params : pos[p] \in Places
    BY <1>2, <1>3, <2>2
  <2>4. \A p \in DOMAIN Params : args'[p] \in Bindable(p)
    BY <1>4, <1>5, <2>3 DEF Bindable
  <2>5. args' = [p \in DOMAIN Params |-> args'[p]]
    BY <1>5
  <2>6. ArgsOk'
    BY <1>5, <2>1, <2>4, <2>5, CallKept DEF ArgsOk
  <2>7. CallOk' /\ ExtraOk'
    BY <1>5, CallKept DEF BindInv, ExtraOk
  <2>8. QED
    BY <1>5, <2>6, <2>7 DEF BindInv, QueueOk, FrameOk, CodeOk
<1>6. CASE /\ call.callee \notin Plain
           /\ phase' = "stars"
           /\ queue' = Items("star")
           /\ args' = [p \in DOMAIN Params |-> Unset]
           /\ extra' = [extra EXCEPT !.pos = [n \in DOMAIN pos |-> Item(pos[n])]]
           /\ UNCHANGED << call, code, trace, frame >>
  <2>1. call' = call
    BY <1>6
  <2>2. CallOk'
    BY <1>1, <2>1, CallKept
  <2>3. QueueOk'
    BY <1>2, <1>6, <2>1, CallKept DEF QueueOk
  <2>4. ArgsOk'
    BY <1>6, <2>1, CallKept DEF ArgsOk
  <2>5. [n \in DOMAIN pos |-> Item(pos[n])] \in Seq(ItemExprs)
    <3>1. DOMAIN pos = 1 .. Len(pos) /\ Len(pos) \in Nat
      BY <1>2
    <3>2. \A n \in 1 .. Len(pos) : Item(pos[n]) \in ItemExprs
      BY <1>2, <1>4
    <3>3. QED
      BY <3>1, <3>2
  <2>6. ExtraOk'
    <3>1. extra \in [pos : Seq(ItemExprs), kw : Seq(ItemExprs)]
      BY DEF BindInv, ExtraOk
    <3>2. extra' \in [pos : Seq(ItemExprs), kw : Seq(ItemExprs)]
      BY <1>6, <2>5, <3>1
    <3>3. QED
      BY <2>1, <3>2, CallKept DEF ExtraOk
  <2>7. QED
    BY <1>6, <2>2, <2>3, <2>4, <2>6 DEF BindInv, FrameOk, CodeOk
<1>7. QED
  BY <1>0, <1>5, <1>6 DEF Dispatch

LEMMA BindExpandStar ==
  ASSUME BindInv, ExpandStar PROVE BindInv'
<1> DEFINE i == Head(queue)
           elems == [k \in 1 .. call.items[i].len |-> Element(i, k)]
<1>0. CASE Reject
  BY <1>0, BindStops
<1>1. CASE /\ ~(call.items[i].len < 0)
           /\ extra' = [extra EXCEPT !.pos = @ \o elems]
           /\ queue' = Tail(queue)
           /\ UNCHANGED << phase, args, call, code, trace, frame >>
  <2>1. phase = "stars" /\ queue \in Seq(Places) /\ queue # << >>
    BY DEF BindInv, QueueOk, ExpandStar
  <2>2. i \in Places /\ queue' \in Seq(Places)
    BY <1>1, <2>1
  <2>3. elems \in Seq(ItemExprs)
    <3>1. i \in Nat /\ call.items[i] \in Arguments
      BY <2>2 DEF BindInv, CallOk, Places
    <3>2. call.items[i].len \in Nat
      BY <1>1, <3>1 DEF Arguments
    <3>3. \A k \in 1 .. call.items[i].len : Element(i, k) \in ItemExprs
      BY <2>2, <3>1, <3>2 DEF Element, ItemExprs, Exprs
    <3>4. QED
      BY <3>2, <3>3
  <2> HIDE DEF elems
  <2>4. extra \in [pos : Seq(ItemExprs), kw : Seq(ItemExprs)]
    BY DEF BindInv, ExtraOk
  <2>5. extra.pos \o elems \in Seq(ItemExprs)
    BY <2>3, <2>4
  <2>6. extra' \in [pos : Seq(ItemExprs), kw : Seq(ItemExprs)]
    BY <1>1, <2>4, <2>5
  <2>7. ExtraOk'
    BY <1>1, <2>6, CallKept DEF ExtraOk
  <2>8. QueueOk'
    BY <1>1, <2>1, <2>2, CallKept DEF QueueOk
  <2>9. ArgsOk' /\ CallOk'
    BY <1>1, CallKept DEF BindInv, ArgsOk
  <2>10. QED
    BY <1>1, <2>1, <2>7, <2>8, <2>9 DEF BindInv, FrameOk, CodeOk
<1>2. QED
  BY <1>0, <1>1 DEF ExpandStar, Unread

LEMMA BindStarsDone ==
  ASSUME BindInv, StarsDone PROVE BindInv'
<1>1. /\ phase = "stars" /\ phase' = "positionals" /\ call' = call
      /\ queue' = extra.pos /\ extra' = [extra EXCEPT !.pos = << >>] /\ args' = args
  BY DEF StarsDone, Unread
<1>2. extra \in [pos : Seq(ItemExprs), kw : Seq(ItemExprs)]
  BY DEF BindInv, ExtraOk
<1>3. extra' \in [pos : Seq(ItemExprs), kw : Seq(ItemExprs)] /\ queue' \in Seq(ItemExprs)
  <2>1. << >> \in Seq(ItemExprs)
    OBVIOUS
  <2>2. QED
    BY <1>1, <1>2, <2>1
<1>4. ExtraOk' /\ QueueOk'
  BY <1>1, <1>3, CallKept DEF ExtraOk, QueueOk
<1>5. ArgsOk' /\ CallOk'
  BY <1>1, CallKept DEF BindInv, ArgsOk
<1>6. QED
  BY <1>1, <1>4, <1>5 DEF BindInv, FrameOk, CodeOk

LEMMA BindBindPositional ==
  ASSUME BindInv, BindPositional PROVE BindInv'
<1> DEFINE taken == {n \in DOMAIN Positional : args[Positional[n]] # Unset}
           q == Positional[Cardinality(taken) + 1]
<1>0. CASE Reject
  BY <1>0, BindStops
<1>1. /\ phase = "positionals" /\ queue \in Seq(ItemExprs) /\ queue # << >>
      /\ extra \in [pos : Seq(ItemExprs), kw : Seq(ItemExprs)]
      /\ args \in [DOMAIN Params -> ItemExprs \cup {Unset}]
  BY DEF BindInv, QueueOk, ExtraOk, ArgsOk, BindPositional
<1>2. Head(queue) \in ItemExprs /\ Tail(queue) \in Seq(ItemExprs)
  BY <1>1
<1>3. CASE /\ args' = [args EXCEPT ![q] = Head(queue)]
           /\ queue' = Tail(queue)
           /\ UNCHANGED << phase, extra, call, code, trace, frame >>
  <2> HIDE DEF q
  <2>1. args' \in [DOMAIN Params -> ItemExprs \cup {Unset}]
    BY <1>1, <1>2, <1>3
  <2>2. ArgsOk'
    BY <1>1, <1>3, <2>1, CallKept DEF BindInv, ArgsOk
  <2>3. QueueOk' /\ ExtraOk' /\ CallOk'
    BY <1>1, <1>2, <1>3, CallKept DEF BindInv, QueueOk, ExtraOk
  <2>4. QED
    BY <1>1, <1>3, <2>2, <2>3 DEF BindInv, FrameOk, CodeOk
<1>4. CASE /\ extra' = [extra EXCEPT !.pos = Append(@, Head(queue))]
           /\ queue' = Tail(queue)
           /\ UNCHANGED << phase, args, call, code, trace, frame >>
  <2>1. extra' \in [pos : Seq(ItemExprs), kw : Seq(ItemExprs)]
    <3>1. Append(extra.pos, Head(queue)) \in Seq(ItemExprs)
      BY <1>1, <1>2
    <3>2. QED
      BY <1>1, <1>4, <3>1
  <2>2. ArgsOk' /\ CallOk'
    BY <1>4, CallKept DEF BindInv, ArgsOk
  <2>3. QueueOk' /\ ExtraOk'
    BY <1>1, <1>2, <1>4, <2>1, CallKept DEF QueueOk, ExtraOk
  <2>4. QED
    BY <1>1, <1>4, <2>2, <2>3 DEF BindInv, FrameOk, CodeOk
<1>5. QED
  BY <1>0, <1>3, <1>4 DEF BindPositional, Unread

LEMMA BindPositionalsDone ==
  ASSUME BindInv, PositionalsDone PROVE BindInv'
<1>1. /\ phase = "positionals" /\ phase' = "keywords" /\ call' = call
      /\ queue' = Items("kw") /\ extra' = extra /\ args' = args
  BY DEF PositionalsDone, Unread
<1>2. Items("kw") \in Seq(Places)
  BY ItemsPlaced DEF BindInv
<1>3. ExtraOk' /\ QueueOk'
  BY <1>1, <1>2, CallKept DEF BindInv, ExtraOk, QueueOk
<1>4. ArgsOk' /\ CallOk'
  BY <1>1, CallKept DEF BindInv, ArgsOk
<1>5. QED
  BY <1>1, <1>3, <1>4 DEF BindInv, FrameOk, CodeOk

LEMMA BindBindKeyword ==
  ASSUME BindInv, BindKeyword PROVE BindInv'
<1> DEFINE i == Head(queue)
           named == {p \in Called(call.items[i].name) : Params[p].kind \notin Aggregates}
           q == CHOOSE p \in named : TRUE
<1>0. CASE Reject
  BY <1>0, BindStops
<1>1. /\ phase = "keywords" /\ queue \in Seq(Places) /\ queue # << >>
      /\ extra \in [pos : Seq(ItemExprs), kw : Seq(ItemExprs)]
      /\ args \in [DOMAIN Params -> ItemExprs \cup {Unset}]
  BY DEF BindInv, QueueOk, ExtraOk, ArgsOk, BindKeyword
<1>2. i \in Places /\ Tail(queue) \in Seq(Places)
  BY <1>1
<1>3. Item(i) \in ItemExprs
  <2>1. i \in Nat
    BY <1>2 DEF BindInv, CallOk, Places
  <2>2. QED
    BY <1>2, <2>1 DEF Item, ItemExprs, Exprs
<1>4. CASE /\ args' = [args EXCEPT ![q] = Item(i)]
           /\ queue' = Tail(queue)
           /\ UNCHANGED << phase, extra, call, code, trace, frame >>
  <2> HIDE DEF q, i
  <2>1. args' \in [DOMAIN Params -> ItemExprs \cup {Unset}]
    BY <1>1, <1>3, <1>4
  <2>2. ArgsOk'
    BY <1>1, <1>4, <2>1, CallKept DEF BindInv, ArgsOk
  <2>3. QueueOk' /\ ExtraOk' /\ CallOk'
    BY <1>1, <1>2, <1>4, CallKept DEF BindInv, QueueOk, ExtraOk
  <2>4. QED
    BY <1>1, <1>4, <2>2, <2>3 DEF BindInv, FrameOk, CodeOk
<1>5. CASE /\ extra' = [extra EXCEPT !.kw = Append(@, Item(i))]
           /\ queue' = Tail(queue)
           /\ UNCHANGED << phase, args, call, code, trace, frame >>
  <2>1. extra' \in [pos : Seq(ItemExprs), kw : Seq(ItemExprs)]
    <3>1. Append(extra.kw, Item(i)) \in Seq(ItemExprs)
      BY <1>1, <1>3
    <3>2. QED
      BY <1>1, <1>5, <3>1
  <2>2. ArgsOk' /\ CallOk'
    BY <1>5, CallKept DEF BindInv, ArgsOk
  <2>3. QueueOk' /\ ExtraOk'
    BY <1>1, <1>2, <1>5, <2>1, CallKept DEF QueueOk, ExtraOk
  <2>4. QED
    BY <1>1, <1>5, <2>2, <2>3 DEF BindInv, FrameOk, CodeOk
<1>6. QED
  BY <1>0, <1>4, <1>5 DEF BindKeyword, Unread

LEMMA BindMaterialize ==
  ASSUME BindInv, Materialize PROVE BindInv'
<1>1. /\ phase = "keywords" /\ phase' = "defaults" /\ call' = call /\ extra' = extra
      /\ args' = [p \in DOMAIN args |->
                    CASE Params[p].kind = "var" -> ListOf(extra.pos)
                      [] Params[p].kind = "kw" -> DictOf(extra.kw)
                      [] OTHER -> args[p]]
  BY DEF Materialize, Unread
<1>2. args \in [DOMAIN Params -> ItemExprs \cup {Unset}] /\ call.callee \notin Plain
  BY <1>1 DEF BindInv, ArgsOk
<1>3. extra \in [pos : Seq(ItemExprs), kw : Seq(ItemExprs)]
  BY DEF BindInv, ExtraOk
<1>4. ListOf(extra.pos) \in Displays /\ DictOf(extra.kw) \in Displays
  BY <1>3 DEF ListOf, DictOf, Displays
<1>5. ASSUME NEW p \in DOMAIN Params
      PROVE  args'[p] \in IF Params[p].kind \in Aggregates THEN Displays
                          ELSE ItemExprs \cup {Unset}
  <2>1. CASE Params[p].kind = "var"
    BY <1>1, <1>2, <1>4, <2>1 DEF Aggregates
  <2>2. CASE Params[p].kind = "kw"
    BY <1>1, <1>2, <1>4, <2>2 DEF Aggregates
  <2>3. CASE Params[p].kind \notin {"var", "kw"}
    BY <1>1, <1>2, <2>3 DEF Aggregates
  <2>4. QED
    BY <2>1, <2>2, <2>3
<1>6. args' = [p \in DOMAIN Params |-> args'[p]]
  BY <1>1, <1>2
<1>7. ArgsOk'
  BY <1>1, <1>2, <1>5, <1>6, CallKept DEF ArgsOk
<1>8. ExtraOk' /\ CallOk'
  BY <1>1, CallKept DEF BindInv, ExtraOk
<1>9. QED
  BY <1>1, <1>7, <1>8 DEF BindInv, QueueOk, FrameOk, CodeOk

LEMMA BindFillDefaults ==
  ASSUME BindInv, FillDefaults PROVE BindInv'
<1>0. CASE Reject
  BY <1>0, BindStops
<1>1. CASE /\ args' = [p \in DOMAIN args |-> IF args[p] = Unset THEN Default(p) ELSE args[p]]
           /\ phase' = "types"
           /\ UNCHANGED << queue, extra, call, code, trace, frame >>
  <2>1. /\ args = [p \in DOMAIN Params |-> args[p]] /\ call.callee \notin Plain
        /\ \A p \in DOMAIN Params :
             args[p] \in IF Params[p].kind \in Aggregates THEN Displays
                         ELSE ItemExprs \cup {Unset}
    BY DEF BindInv, ArgsOk, FillDefaults
  <2>2. DOMAIN args = DOMAIN Params
    BY <2>1
  <2>3. ASSUME NEW p \in DOMAIN Params PROVE args'[p] \in Bindable(p)
    <3>1. CASE Params[p].kind \in Aggregates
      <4>1. args[p] \in Displays
        BY <2>1, <3>1
      <4>2. args[p] # Unset
        BY <4>1 DEF Displays, Unset
      <4>3. args'[p] = args[p]
        BY <1>1, <2>2, <4>2
      <4>4. QED
        BY <2>1, <3>1, <4>1, <4>3 DEF Bindable
    <3>2. CASE Params[p].kind \notin Aggregates
      <4>1. args[p] \in ItemExprs \cup {Unset}
        BY <2>1, <3>2
      <4>2. args'[p] \in ItemExprs \cup {Default(p)}
        BY <1>1, <2>2, <4>1
      <4>3. QED
        BY <2>1, <3>2, <4>2 DEF Bindable
    <3>3. QED
      BY <3>1, <3>2
  <2>4. args' = [p \in DOMAIN Params |-> args'[p]]
    BY <1>1, <2>2
  <2>5. ArgsOk'
    BY <1>1, <2>3, <2>4, CallKept DEF ArgsOk
  <2>6. ExtraOk' /\ CallOk'
    BY <1>1, CallKept DEF BindInv, ExtraOk
  <2>7. QED
    BY <1>1, <2>5, <2>6 DEF BindInv, QueueOk, FrameOk, CodeOk
<1>2. QED
  BY <1>0, <1>1 DEF FillDefaults, Unread

\* The operations of one parameter.
LEMMA OpsConvert ==
  ASSUME CallOk, NEW p \in DOMAIN Params, NEW e \in Bindable(p), Fits(e, p)
  PROVE  Ops(e, p) \in Seq(GoodOps)
<1>1. CASE e \in Displays
  <2>1. e.sort \in {"list", "dict"} /\ e.parts \in Seq(ItemExprs)
    BY <1>1 DEF Displays
  <2>2. call.callee \in Promotes => Params[p].kind \in Aggregates
    <3>1. e \notin ItemExprs /\ e # Default(p)
      BY <2>1 DEF ItemExprs, Exprs, Default
    <3>2. QED
      BY <3>1 DEF Bindable, Promotes, Plain
  <2>3. \A n \in DOMAIN e.parts : Op(e.parts[n], p, FALSE) \in GoodOps
    <3>1. TAKE n \in DOMAIN e.parts
    <3>2. e.parts[n] \in ItemExprs \cup {Default(p)}
      BY <2>1
    <3>3. QED
      BY <2>2, <3>2, OpConverts
  <2>4. DOMAIN e.parts = 1 .. Len(e.parts) /\ Len(e.parts) \in Nat
    BY <2>1
  <2>5. [n \in DOMAIN e.parts |-> Op(e.parts[n], p, FALSE)] \in Seq(GoodOps)
    <3> DEFINE parts == e.parts
               op(n) == Op(parts[n], p, FALSE)
    <3>1. \A n \in 1 .. Len(parts) : op(n) \in GoodOps
      BY <2>3, <2>4
    <3>2. DOMAIN parts = 1 .. Len(parts) /\ Len(parts) \in Nat
      BY <2>4
    <3> HIDE DEF parts, op
    <3>3. [n \in DOMAIN parts |-> op(n)] \in Seq(GoodOps)
      BY <3>1, <3>2
    <3>4. QED
      BY <3>3 DEF parts, op
  <2>6. Ops(e, p) = [n \in DOMAIN e.parts |-> Op(e.parts[n], p, FALSE)]
    BY <2>1 DEF Ops
  <2>7. QED
    BY <2>5, <2>6
<1>2. CASE e \notin Displays
  <2>1. e \in ItemExprs \cup {Default(p)}
    BY <1>2 DEF Bindable
  <2>2. e.sort \notin {"list", "dict"}
    BY <2>1 DEF ItemExprs, Exprs, Default
  <2>3. AssignableTo(TypeOf(e), Params[p].typ)
    BY <2>2 DEF Fits
  <2>4. call.callee \in Promotes => Params[p].kind \notin Aggregates
    BY <1>2 DEF Bindable, Promotes, Plain
  <2>5. Op(e, p, TRUE) \in GoodOps
    BY <2>1, <2>3, <2>4, OpConverts
  <2> DEFINE o == Op(e, p, TRUE)
  <2>6. Ops(e, p) = << o >>
    BY <2>2 DEF Ops
  <2>7. o \in GoodOps
    BY <2>5
  <2> HIDE DEF o
  <2>8. << o >> \in Seq(GoodOps)
    BY <2>7
  <2>9. QED
    BY <2>6, <2>8
<1>3. QED
  BY <1>1, <1>2

\* The stores of the defaults of a dataclass are no parameter's.
LEMMA FieldDefaultsConvert ==
  ASSUME CallOk PROVE FieldDefaults \in Seq(GoodOps)
<1> DEFINE S == {p \in DOMAIN Params : Params[p].default # "none"}
           having == InOrder(S)
           op(p) == [Op(Default(p), p, TRUE) EXCEPT !.param = 0]
<1>1. Params \in Seq(Parameters)
  BY ParamsTyped
<1>2. DOMAIN Params = 1 .. Len(Params) /\ Len(Params) \in Nat
  BY <1>1
<1>3. having \in Seq(S)
  <2>1. S \in SUBSET (1 .. Len(Params))
    BY <1>2
  <2> HIDE DEF S
  <2>2. QED
    BY <1>2, <2>1, InOrderLists
<1>4. ASSUME NEW p \in S PROVE op(p) \in GoodOps
  <2> DEFINE o == Op(Default(p), p, TRUE)
  <2>1. p \in Nat /\ Params[p] \in Parameters
    BY <1>1
  <2>2. Default(p).sort = "default" /\ Default(p).param = p
    BY DEF Default
  <2>3. TypeOf(Default(p)) \in Types
    BY <2>1, <2>2 DEF TypeOf, Parameters
  <2>4. o.from \in Int \X Int /\ o.rep \in Types
    BY <2>1, <2>2, <2>3, TypesAssumption DEF Op
  <2>5. o = [from |-> o.from, param |-> p, rep |-> o.rep]
    BY DEF Op
  <2>6. op(p) = [o EXCEPT !.param = 0]
    OBVIOUS
  <2> HIDE DEF o, op
  <2>7. op(p) = [from |-> o.from, param |-> 0, rep |-> o.rep]
    BY <2>5, <2>6
  <2>8. op(p) \in OpRecords /\ op(p).param = 0
    BY <2>4, <2>7 DEF OpRecords
  <2>9. QED
    BY <2>8 DEF GoodOps
<1> HIDE DEF S, op
<1>5. DOMAIN having = 1 .. Len(having) /\ Len(having) \in Nat
  BY <1>3
<1>6. \A n \in 1 .. Len(having) : op(having[n]) \in GoodOps
  BY <1>3, <1>4
<1>7. [n \in DOMAIN having |-> op(having[n])] \in Seq(GoodOps)
  BY <1>5, <1>6
<1>8. QED
  BY <1>7 DEF FieldDefaults, S, op

\* Everything a call lowers to converts as the rule says.
LEMMA LoweredConverts ==
  ASSUME CallOk, args = [p \in DOMAIN Params |-> args[p]],
         \A p \in DOMAIN Params : args[p] \in Bindable(p) /\ Fits(args[p], p)
  PROVE  Lowered \in Seq(GoodOps)
<1> DEFINE ops == [p \in DOMAIN args |-> Ops(args[p], p)]
<1>1. Params \in Seq(Parameters)
  BY ParamsTyped
<1>2. DOMAIN args = 1 .. Len(Params) /\ Len(Params) \in Nat /\ DOMAIN Params = 1 .. Len(Params)
  BY <1>1
<1>3. \A p \in 1 .. Len(Params) : Ops(args[p], p) \in Seq(GoodOps)
  BY <1>2, OpsConvert
<1>4. ops \in Seq(Seq(GoodOps))
  BY <1>2, <1>3
<1> HIDE DEF ops
<1>5. FlattenSeq(ops) \in Seq(GoodOps)
  BY <1>4, FlattenedOver
<1>6. Callee \in Seq(GoodOps)
  <2> DEFINE o == [from |-> << 0, 0 >>, param |-> 0, rep |-> "none"]
  <2>1. o \in GoodOps
    BY TypesAssumption DEF GoodOps, OpRecords
  <2>2. Callee = << o >>
    BY DEF Callee
  <2> HIDE DEF o
  <2>3. QED
    BY <2>1, <2>2
<1>7. FieldDefaults \in Seq(GoodOps) /\ << >> \in Seq(GoodOps)
  BY FieldDefaultsConvert
<1> DEFINE first == IF call.callee \in CalleeFirst THEN Callee ELSE << >>
           stores == IF call.callee = "dataclass" THEN FieldDefaults ELSE << >>
           last == IF call.callee \in CalleeLast THEN Callee ELSE << >>
<1>8. first \in Seq(GoodOps) /\ stores \in Seq(GoodOps) /\ last \in Seq(GoodOps)
  BY <1>6, <1>7
<1>9. Lowered = first \o stores \o FlattenSeq(ops) \o last
  BY DEF Lowered, ops
<1> HIDE DEF first, stores, last
<1>10. QED
  BY <1>5, <1>8, <1>9

LEMMA BindCheckTypes ==
  ASSUME BindInv, CheckTypes PROVE BindInv'
<1>0. CallOk /\ phase = "types" /\ call' = call /\ extra' = extra
  BY DEF BindInv, CheckTypes
<1>1. CallOk' /\ ExtraOk'
  BY <1>0, CallKept DEF BindInv, ExtraOk
<1>2. CASE phase' = "mistyped"
  BY <1>1, <1>2 DEF BindInv, QueueOk, ArgsOk, FrameOk, CodeOk
<1>3. CASE /\ ~ \E p \in DOMAIN args : ~Fits(args[p], p)
           /\ phase' = "evaluate" /\ code' = Lowered
           /\ frame' = [p \in DOMAIN Params |-> << >>]
  <2>1. args = [p \in DOMAIN Params |-> args[p]] /\ \A p \in DOMAIN Params : args[p] \in Bindable(p)
    BY <1>0 DEF BindInv, ArgsOk
  <2>2. DOMAIN args = DOMAIN Params
    BY <2>1
  <2>3. Lowered \in Seq(GoodOps)
    BY <1>0, <1>3, <2>1, <2>2, LoweredConverts
  <2>4. CodeOk'
    BY <1>0, <1>3, <2>3, CallKept DEF CodeOk
  <2>5. \A p \in DOMAIN Params : frame'[p] \in Seq(GoodValues(p))
    BY <1>3
  <2>6. frame' = [p \in DOMAIN Params |-> frame'[p]]
    BY <1>3
  <2>7. FrameOk'
    BY <1>0, <2>5, <2>6, CallKept DEF FrameOk
  <2>8. QED
    BY <1>1, <1>3, <2>4, <2>7 DEF BindInv, QueueOk, ArgsOk
<1>4. QED
  BY <1>2, <1>3 DEF CheckTypes

LEMMA BindEvaluate ==
  ASSUME BindInv, Evaluate PROVE BindInv'
<1> DEFINE op == Head(code)
           value == [from |-> op.from, rep |-> op.rep]
<1>1. /\ phase = "evaluate" /\ phase' = "evaluate" /\ call' = call /\ extra' = extra
      /\ code' = Tail(code) /\ code # << >>
      /\ frame' = IF op.param = 0 THEN frame
                  ELSE [frame EXCEPT ![op.param] = Append(@, value)]
  BY DEF Evaluate
<1>2. code \in Seq(GoodOps)
  BY <1>1 DEF BindInv, CodeOk
<1>3. op \in GoodOps /\ code' \in Seq(GoodOps)
  BY <1>1, <1>2
<1>4. /\ frame = [p \in DOMAIN Params |-> frame[p]]
      /\ \A p \in DOMAIN Params : frame[p] \in Seq(GoodValues(p))
  BY <1>1 DEF BindInv, FrameOk
<1> HIDE DEF op
<1>5. /\ frame' = [p \in DOMAIN Params |-> frame'[p]]
      /\ \A p \in DOMAIN Params : frame'[p] \in Seq(GoodValues(p))
  <2>1. CASE op.param = 0
    BY <1>1, <1>4, <2>1
  <2>2. CASE op.param # 0
    <3>1. op.param \in DOMAIN Params /\ Converted(op.from, op.rep, op.param)
      BY <1>3, <2>2 DEF GoodOps
    <3>2. op.from \in Int \X Int /\ op.rep \in Types
      BY <1>3 DEF GoodOps, OpRecords
    <3>3. value \in GoodValues(op.param)
      BY <3>1, <3>2 DEF GoodValues
    <3> HIDE DEF value
    <3>4. ASSUME NEW p \in DOMAIN Params PROVE frame'[p] \in Seq(GoodValues(p))
      <4>1. CASE p = op.param
        <5>1. frame'[p] = Append(frame[p], value)
          BY <1>1, <1>4, <2>2, <4>1
        <5>2. frame[p] \in Seq(GoodValues(p)) /\ value \in GoodValues(p)
          BY <1>4, <3>3, <4>1
        <5>3. QED
          BY <5>1, <5>2
      <4>2. CASE p # op.param
        <5>1. frame'[p] = frame[p]
          BY <1>1, <1>4, <2>2, <4>2
        <5>2. QED
          BY <1>4, <5>1
      <4>3. QED
        BY <4>1, <4>2
    <3>5. frame' = [p \in DOMAIN Params |-> frame'[p]]
      BY <1>1, <1>4, <2>2
    <3>6. QED
      BY <3>4, <3>5
  <2>3. QED
    BY <2>1, <2>2
<1>6. FrameOk'
  BY <1>1, <1>5, CallKept DEF FrameOk
<1>7. CodeOk' /\ CallOk' /\ ExtraOk'
  BY <1>1, <1>3, CallKept DEF BindInv, CodeOk, ExtraOk
<1>8. QED
  BY <1>1, <1>6, <1>7 DEF BindInv, QueueOk, ArgsOk

LEMMA BindEnter ==
  ASSUME BindInv, Enter PROVE BindInv'
<1>1. phase = "evaluate" /\ phase' = "entered" /\ call' = call /\ extra' = extra /\ frame' = frame
  BY DEF Enter
<1>2. CallOk' /\ ExtraOk' /\ FrameOk'
  BY <1>1, CallKept DEF BindInv, ExtraOk, FrameOk
<1>3. QED
  BY <1>1, <1>2 DEF BindInv, QueueOk, ArgsOk, CodeOk

LEMMA BindStutters ==
  ASSUME BindInv, UNCHANGED vars PROVE BindInv'
<1>1. /\ call' = call /\ phase' = phase /\ queue' = queue /\ args' = args /\ extra' = extra
      /\ code' = code /\ frame' = frame
  BY DEF vars
<1>2. CallOk' /\ ExtraOk' /\ QueueOk'
  BY <1>1, CallKept DEF BindInv, ExtraOk, QueueOk
<1>3. ArgsOk' /\ FrameOk' /\ CodeOk'
  BY <1>1, CallKept DEF BindInv, ArgsOk, FrameOk, CodeOk
<1>4. QED
  BY <1>2, <1>3 DEF BindInv

LEMMA BindInvHolds == Spec => []BindInv
<1>1. Init => BindInv
  BY BindInit
<1>2. BindInv /\ [Next]_vars => BindInv'
  BY BindDispatch, BindExpandStar, BindStarsDone, BindBindPositional, BindPositionalsDone,
     BindBindKeyword, BindMaterialize, BindFillDefaults, BindCheckTypes, BindEvaluate,
     BindEnter, BindStutters DEF Next
<1>3. QED
  BY <1>1, <1>2, PTL DEF Spec

\* Whatever the call sites, an int given for a float parameter arrives as a float
\* exactly when the callee is a function of the module, an __init__ or a dataclass
\* and the parameter collects nothing (promoteIntToFloat, lower_stmt.go:1267).
THEOREM ArgumentsConverted == Spec => []ConvertsArguments
<1>1. BindInv => ConvertsArguments
  <2> SUFFICES ASSUME BindInv, phase = "entered", NEW p \in DOMAIN frame,
                      NEW n \in DOMAIN frame[p]
               PROVE  Converted(frame[p][n].from, frame[p][n].rep, p)
    BY DEF ConvertsArguments, Converted, Given
  <2>1. p \in DOMAIN Params /\ frame[p] \in Seq(GoodValues(p))
    BY DEF BindInv, FrameOk
  <2>2. frame[p][n] \in GoodValues(p)
    BY <2>1
  <2>3. QED
    BY <2>2 DEF GoodValues
<1>2. QED
  BY <1>1, BindInvHolds, PTL

===============================================================================

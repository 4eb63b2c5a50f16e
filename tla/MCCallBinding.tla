----------------------------- MODULE MCCallBinding -----------------------------
(* Every call of up to three items of functions with up to three parameters,  *)
(* and every kind of callee with fewer.                                       *)
EXTENDS CallBinding

Letters == << "a", "b", "c" >>
MCNames == {"a", "b", "c", "z", "-", "message"}
MCTypes == {"none", "int", "float", "str"}

Param(n, kind, typ, default) ==
  [name |-> Letters[n], kind |-> kind, typ |-> typ, default |-> default]

Order == << "posonly", "normal", "var", "kwonly", "kw" >>
Place(kind) == CHOOSE n \in DOMAIN Order : Order[n] = kind

\* Python's rules for a parameter list: the order of the kinds, one *args and one
\* **kwargs, and no parameter without a default after one with a default.
Legal(params) ==
  /\ \A m, n \in DOMAIN params : m < n =>
       /\ Place(params[m].kind) <= Place(params[n].kind)
       /\ params[m].kind \in {"var", "kw"} => params[m].kind # params[n].kind
       /\ {params[m].kind, params[n].kind} \subseteq {"posonly", "normal"}
            => (params[m].default # "none" => params[n].default # "none")
  /\ \A n \in DOMAIN params : params[n].kind \in {"var", "kw"} => params[n].default = "none"

ParamLists(len, kinds, typ, defaults) ==
  {ps \in [1 .. len -> [name : {"a"}, kind : kinds, typ : {typ}, default : defaults]] :
     Legal(ps)}

Lettered(ps) == [n \in DOMAIN ps |-> [ps[n] EXCEPT !.name = Letters[n]]]

AllKinds == {"posonly", "normal", "var", "kwonly", "kw"}

Pos(typ) == [form |-> "pos", typ |-> typ, len |-> 0, name |-> "-"]
Star(len, typ) == [form |-> "star", typ |-> typ, len |-> len, name |-> "-"]
Kw(name, typ) == [form |-> "kw", typ |-> typ, len |-> 0, name |-> name]
Map == [form |-> "map", typ |-> "none", len |-> 0, name |-> "-"]

Spreads(typ) == {Pos(typ)} \cup {Star(n, typ) : n \in {-1, 0, 1, 2}}
Keywords(typ) == {Kw(n, typ) : n \in {"a", "b", "z"}}

\* Starred and positional items, then keywords.
ItemLists(len, typ) ==
  {is \in [1 .. len -> Spreads(typ) \cup Keywords(typ)] :
     \A m, n \in 1 .. len : m < n => ~(is[m].form = "kw" /\ is[n].form # "kw")}

UpTo(n, F(_)) == UNION {F(len) : len \in 0 .. n}

CallsOf(callees, lists, items, shadowed, typ) ==
  [callee : callees, params : lists, items : items, defined : {TRUE},
   shadowed : shadowed, typ : {typ}]

Lists(n, kinds, typ, defaults) ==
  {Lettered(ps) : ps \in UpTo(n, LAMBDA len : ParamLists(len, kinds, typ, defaults))}

Floats(n) == Lists(n, AllKinds, "float", {"none", "int"})
Plains(n) == Lists(n, {"normal"}, "float", {"none", "int"})
Required(n, kind, typ) == Lists(n, {kind}, typ, {"none"})
Ints(n) == UpTo(n, LAMBDA len : ItemLists(len, "int"))
Numbers(n) == UpTo(n, LAMBDA len : ItemLists(len, "float"))

\* The message of an exception, by its name or another.
Messages == {<< >>, << [name |-> "message", kind |-> "normal", typ |-> "str", default |-> "str"] >>}
              \cup Required(2, "normal", "str")

MessageItems ==
  UpTo(2, LAMBDA len :
            {is \in [1 .. len -> {Pos("str"), Kw("message", "str"), Kw("z", "str")}] :
               len = 2 => is[1].form # "kw"})

MCCalls ==
  << CallsOf({"function"}, Floats(3), Ints(2), {FALSE}, "float"),
     CallsOf({"function", "method"}, Floats(2), Ints(3), {FALSE}, "float"),
     CallsOf({"function", "modulefunction", "method", "init"}, Floats(2), Ints(2), BOOLEAN, "float"),
     CallsOf({"dataclass"}, Plains(3), Ints(2), {FALSE}, "float"),
     CallsOf({"function", "method"}, Required(2, "normal", "int"), Numbers(2), {FALSE}, "int"),
     CallsOf({"callable", "native", "builtinmethod"}, Required(2, "posonly", "float"),
             Ints(2), {FALSE}, "float"),
     CallsOf({"derived"}, Required(2, "normal", "float"), Ints(2), {FALSE}, "float"),
     CallsOf({"exception"}, Messages, MessageItems, {FALSE}, "str"),
     {[callee |-> "function", params |-> << >>, items |-> is, defined |-> d,
       shadowed |-> FALSE, typ |-> "float"] : is \in {<< >>, << Map >>, << Pos("int"), Map >>},
                                              d \in BOOLEAN} >>

ASSUME DeclarationsAssumption == VarBeforeKeywordOnly
===============================================================================

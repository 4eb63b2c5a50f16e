------------------------------- MODULE HostRefs --------------------------------
(***************************************************************************)
(* The references that host functions take, give and lose: the list, dict  *)
(* and set functions of compiler/runtime.go, builtins/host.go and          *)
(* operator/dynamic.go over hostabi's boxes. The heap counts the           *)
(* references to every cell and frees a cell, with what it holds, at none. *)
(* A box is the address of a cell, or Null for None and for every scalar.  *)
(* Strings are leaves with a content; a map keeps its keys as contents     *)
(* ("text", a TypedMap[string]) or as boxes ("boxed", a Map).              *)
(*                                                                         *)
(* The interpreter is external. As its callers use it: Alloc gives one     *)
(* reference and takes none of what the cell holds, Store replaces a cell  *)
(* and touches no count, and after a host call every argument is released  *)
(* unless it is the box the call returns (docs/spec/05-codegen.md:488).    *)
(***************************************************************************)
EXTENDS Naturals, Sequences, FiniteSets, SequencesExt, TLC

CONSTANTS
  Names,     \* the program's variables
  Texts,     \* the contents of strings, numbers in their order
  Cells,     \* how many cells the heap has
  MaxLen,    \* the longest list or map of the program
  MaxCount   \* the most references to a cell

ASSUME TextsAssumption == Texts \subseteq Nat
ASSUME BoundsAssumption == {Cells, MaxLen, MaxCount} \subseteq Nat

Addrs == 1 .. Cells
Null == 0
Failed == Cells + 1      \* the host function returned an error

VARIABLES
  heap,    \* each address's count and cell
  vars,    \* the box each variable owns
  exact    \* no call so far is one that loses a reference

state == << heap, vars, exact >>

Free == [sort |-> "free"]
Str(text) == [sort |-> "str", text |-> text]
Array(sort, elems) == [sort |-> sort, keys |-> << >>, elems |-> elems]
MapOf(sort, keys, vals) == [sort |-> sort, keys |-> keys, elems |-> vals]

Holds(cell) ==
  CASE cell.sort \in {"free", "str"} -> << >>
    [] cell.sort = "boxed" -> cell.keys \o cell.elems
    [] OTHER -> cell.elems

Times(a, boxes) == Cardinality({i \in DOMAIN boxes : boxes[i] = a})

-------------------------------------------------------------------------------
(* The heap *)

Retain(h, boxes) ==
  [a \in Addrs |-> [h[a] EXCEPT !.count = @ + Times(a, boxes)]]

RECURSIVE Release(_, _)
Release(h, boxes) ==
  IF boxes = << >> THEN h
  ELSE LET a == Head(boxes)
           more == Tail(boxes)
       IN  IF a = Null \/ h[a].count = 0 THEN Release(h, more)
           ELSE IF h[a].count > 1 THEN Release([h EXCEPT ![a].count = @ - 1], more)
           ELSE Release([h EXCEPT ![a] = [count |-> 0, cell |-> Free]],
                        Holds(h[a].cell) \o more)

Result(h, box) == [heap |-> h, out |-> box]

Unused(h) == {a \in Addrs : h[a].count = 0}

\* The interpreter's heap may be full.
Alloc(h, cell) ==
  IF Unused(h) = {} THEN Result(h, Failed)
  ELSE LET a == CHOOSE a \in Unused(h) : \A b \in Unused(h) : a <= b
       IN  Result([h EXCEPT ![a] = [count |-> 1, cell |-> cell]], a)

Store(h, a, cell) == [h EXCEPT ![a].cell = cell]

Sort(h, a) == IF a \in Addrs THEN h[a].cell.sort ELSE "none"
Elems(h, a) == h[a].cell.elems
Text(h, a) == h[a].cell.text

-------------------------------------------------------------------------------
(* hostabi *)

\* On an error the elements are given back.
AllocArray(h, sort, elems) ==
  LET r == Alloc(Retain(h, elems), Array(sort, elems))
  IN  IF r.out = Failed THEN Result(Release(r.heap, elems), Failed) ELSE r

\* The positions of a key in a map, found by content.
Places(h, cell, text) ==
  {i \in DOMAIN cell.keys :
     text = IF cell.sort = "text" THEN cell.keys[i] ELSE Text(h, cell.keys[i])}

Keys(h, m) == DOMAIN h[m].cell.keys
KeyText(h, m, i) ==
  IF Sort(h, m) = "text" THEN h[m].cell.keys[i] ELSE Text(h, h[m].cell.keys[i])

Has(h, m, k) == Places(h, h[m].cell, Text(h, k)) # {}
Get(h, m, k) ==
  Elems(h, m)[CHOOSE i \in Places(h, h[m].cell, Text(h, k)) : TRUE]

\* MapSet: the map and the values it displaced.
MapSet(h, cell, k, v) ==
  LET places == Places(h, cell, Text(h, k))
      key == IF cell.sort = "text" THEN Text(h, k) ELSE k
  IN  IF places = {}
      THEN [cell |-> MapOf(cell.sort, Append(cell.keys, key), Append(cell.elems, v)),
            old |-> << >>]
      ELSE LET i == CHOOSE i \in places : TRUE
           IN  [cell |-> [cell EXCEPT !.keys[i] = key, !.elems[i] = v],
                old |-> << cell.elems[i] >>]

MapDelete(cell, i) ==
  MapOf(cell.sort, RemoveAt(cell.keys, i), RemoveAt(cell.elems, i))

RECURSIVE AllocTexts(_, _, _)
AllocTexts(h, texts, keys) ==
  IF texts = << >> THEN [heap |-> h, keys |-> keys, failed |-> FALSE]
  ELSE LET r == Alloc(h, Str(Head(texts)))
       IN  IF r.out = Failed
           THEN [heap |-> Release(h, keys), keys |-> << >>, failed |-> TRUE]
           ELSE AllocTexts(r.heap, Tail(texts), Append(keys, r.out))

\* MapEntries: the keys belong to the caller, the values to the map.
MapEntries(h, m) ==
  LET cell == h[m].cell
  IN  IF cell.sort = "text" THEN AllocTexts(h, cell.keys, << >>)
      ELSE [heap |-> Retain(h, cell.keys), keys |-> cell.keys, failed |-> FALSE]

-------------------------------------------------------------------------------
(* Functions of lists *)

\* list.copy, xs[a:b], reversed, sorted, xs * n: of the elements, some list.
ListOf(h, elems) == AllocArray(h, "list", elems)

\* The first of the least elements.
Least(h, es) ==
  es[CHOOSE i \in DOMAIN es :
       \A j \in DOMAIN es : IF j < i THEN Text(h, es[i]) < Text(h, es[j])
                            ELSE Text(h, es[i]) <= Text(h, es[j])]

ListMinUnretained(h, xs) ==
  IF Elems(h, xs) = << >> THEN Result(h, Failed)
  ELSE Result(h, Least(h, Elems(h, xs)))

\* min and max give back a borrowed element.
ListMin(h, xs) ==
  LET least == Least(h, Elems(h, xs))
  IN  IF Elems(h, xs) = << >> THEN Result(h, Failed)
      ELSE Result(Retain(h, << least >>), least)

ListSort(h, xs) ==
  LET sorted == SortSeq(Elems(h, xs), LAMBDA a, b : Text(h, a) < Text(h, b))
  IN  Result(Store(h, xs, Array("list", sorted)), Null)

ListClear(h, xs) == Result(Store(h, xs, Array("list", << >>)), Null)

ListRemove(h, xs, s) ==
  LET es == Elems(h, xs)
      at == {i \in DOMAIN es : Text(h, es[i]) = Text(h, s)}
  IN  IF at = {} THEN Result(h, Failed)
      ELSE LET i == CHOOSE i \in at : \A j \in at : i <= j
           IN  Result(Store(h, xs, Array("list", RemoveAt(es, i))), Null)

\* xs[start:stop] = ys, of as many elements.
ListSliceAssign(h, xs, ys, start, stop) ==
  LET es == Elems(h, xs)
      vs == Elems(h, ys)
      new == [i \in DOMAIN es |->
                IF start < i /\ i <= stop THEN vs[i - start] ELSE es[i]]
  IN  IF Len(vs) # stop - start THEN Result(h, Failed)
      ELSE Result(Store(Release(Retain(h, vs), SubSeq(es, start + 1, stop)),
                        xs, Array("list", new)), Null)

ListSliceDelete(h, xs, start, stop) ==
  LET es == Elems(h, xs)
  IN  Result(Store(Release(h, SubSeq(es, start + 1, stop)), xs,
                   Array("list", SubSeq(es, 1, start) \o SubSeq(es, stop + 1, Len(es)))),
             Null)

\* A list of fresh tuples, for enumerate, zip and dict.items.
RECURSIVE Tuples(_, _, _)
Tuples(h, rows, made) ==
  IF rows = << >>
  THEN LET r == AllocArray(h, "list", made)
       IN  IF r.out = Failed THEN r ELSE Result(Release(r.heap, made), r.out)
  ELSE LET r == Alloc(Retain(h, Head(rows)), Array("tuple", Head(rows)))
       IN  IF r.out = Failed THEN Result(Release(r.heap, Head(rows)), Failed)
           ELSE Tuples(r.heap, Tail(rows), Append(made, r.out))

Enumerate(h, xs) ==
  Tuples(h, [i \in DOMAIN Elems(h, xs) |-> << Null, Elems(h, xs)[i] >>], << >>)

ZipLists(h, xs, ys) ==
  LET a == Elems(h, xs)
      b == Elems(h, ys)
  IN  Tuples(h, [i \in DOMAIN a \cap DOMAIN b |-> << a[i], b[i] >>], << >>)

\* iter(xs) keeps the list's elements as they are.
ListIter(h, xs) == Alloc(h, Array("iter", Elems(h, xs)))

\* iter(s): the iterator owns its fresh strings.
StrIter(h, s) ==
  LET r == Alloc(h, Str(Text(h, s)))
  IN  IF r.out = Failed THEN r ELSE Alloc(r.heap, Array("iter", << r.out >>))

-------------------------------------------------------------------------------
(* Functions of dicts and sets. A set is a map to nothing. *)

DictGetUnretained(h, d, k, default) ==
  IF Has(h, d, k) THEN Result(h, Get(h, d, k)) ELSE Result(h, default)

DictGet(h, d, k, default) ==
  IF Has(h, d, k) THEN Result(Retain(h, << Get(h, d, k) >>), Get(h, d, k))
  ELSE Result(h, default)

DictItem(h, d, k) == IF Has(h, d, k) THEN DictGet(h, d, k, Null) ELSE Result(h, Failed)

SetIn(h, m, k, v) ==
  LET put == MapSet(h, h[m].cell, k, v)
  IN  Release(Store(h, m, put.cell), put.old)

DictSetDefault(h, d, k, v) ==
  IF Has(h, d, k) THEN DictGet(h, d, k, v)
  ELSE Result(SetIn(Retain(h, << k, v >>), d, k, v), v)

\* What the map held is the caller's now.
DictPop(h, d, k, default) ==
  IF ~ Has(h, d, k) THEN Result(h, default)
  ELSE LET i == CHOOSE i \in Places(h, h[d].cell, Text(h, k)) : TRUE
       IN  Result(Store(h, d, MapDelete(h[d].cell, i)), Elems(h, d)[i])

DictClear(h, d) == Result(Store(h, d, MapOf(Sort(h, d), << >>, << >>)), Null)

RECURSIVE Update(_, _, _, _)
Update(h, d, keys, vals) ==
  IF keys = << >> THEN h
  ELSE Update(SetIn(Retain(h, << Head(keys), Head(vals) >>), d, Head(keys), Head(vals)),
              d, Tail(keys), Tail(vals))

DictUpdate(h, d, more) ==
  LET e == MapEntries(h, more)
  IN  IF e.failed THEN Result(e.heap, Failed)
      ELSE Result(Release(Update(e.heap, d, e.keys, Elems(h, more)), e.keys), Null)

\* Entries into a map that is not yet in the heap.
RECURSIVE Fill(_, _, _, _)
Fill(h, cell, keys, vals) ==
  IF keys = << >> THEN [heap |-> h, cell |-> cell]
  ELSE LET put == MapSet(h, cell, Head(keys), Head(vals))
           g   == Release(Retain(h, << Head(keys), Head(vals) >>), put.old)
       IN  Fill(g, put.cell, Tail(keys), Tail(vals))

\* dict.copy, **rest, d | e and the set functions that build a set: of the
\* entries of two maps, those at the places that are kept.
Merged(h, d, e, kept) ==
  LET left == MapEntries(h, d)
      more == IF e = Null THEN [heap |-> left.heap, keys |-> << >>, failed |-> FALSE]
              ELSE MapEntries(left.heap, e)
      keys == left.keys \o more.keys
      vals == Elems(h, d) \o (IF e = Null THEN << >> ELSE Elems(h, e))
      at   == SetToSortSeq(kept, <)
      made == Fill(more.heap, MapOf(Sort(h, d), << >>, << >>),
                   [i \in DOMAIN at |-> keys[at[i]]], [i \in DOMAIN at |-> vals[at[i]]])
      r    == Alloc(made.heap, made.cell)
  IN  IF left.failed THEN Result(left.heap, Failed)
      ELSE IF more.failed THEN Result(Release(more.heap, left.keys), Failed)
      ELSE Result(Release(r.heap, keys), r.out)

DictValues(h, d) ==
  LET e == MapEntries(h, d)
      r == AllocArray(e.heap, "list", Elems(h, d))
  IN  IF e.failed THEN Result(e.heap, Failed) ELSE Result(Release(r.heap, e.keys), r.out)

DictItemsKeysKept(h, d) ==
  LET e == MapEntries(h, d)
  IN  IF e.failed THEN Result(e.heap, Failed)
      ELSE Tuples(e.heap, [i \in DOMAIN e.keys |-> << e.keys[i], Elems(h, d)[i] >>], << >>)

DictItems(h, d) ==
  LET e == MapEntries(h, d)
      r == Tuples(e.heap, [i \in DOMAIN e.keys |-> << e.keys[i], Elems(h, d)[i] >>], << >>)
  IN  IF e.failed THEN Result(e.heap, Failed) ELSE Result(Release(r.heap, e.keys), r.out)

\* set.discard ignores an absent value.
SetRemove(h, d, k) ==
  IF Has(h, d, k) THEN [DictPop(h, d, k, Failed) EXCEPT !.out = Null]
  ELSE Result(h, Failed)

\* The first key goes to the caller with the reference that MapEntries took.
SetPop(h, d) ==
  LET e == MapEntries(h, d)
  IN  IF e.failed THEN Result(e.heap, Failed)
      ELSE IF e.keys = << >> THEN Result(e.heap, Failed)
      ELSE Result(Store(Release(e.heap, Tail(e.keys)), d, MapDelete(h[d].cell, 1)),
                  Head(e.keys))

\* dynIterator of a map owns the keys that MapEntries gave it.
DictIter(h, d) ==
  LET e == MapEntries(h, d)
  IN  IF e.failed THEN Result(e.heap, Failed) ELSE Alloc(e.heap, Array("iter", e.keys))

\* dynIndex gives back an element of a list as it is.
DynIndex(h, xs, i) ==
  IF i \in DOMAIN Elems(h, xs) THEN Result(h, Elems(h, xs)[i]) ELSE Result(h, Failed)

-------------------------------------------------------------------------------
Defaulting == {"DictGet", "DictPopDefault", "DictSetDefault"}
Merging == {"DictUpdate", "DictMerge", "SetUnion"}
Copying == {"DictCopy", "DictRest", "SetIntersection", "SetOnlyOne"}
Removing == {"DictPop", "DictPopDefault", "SetPop", "SetRemove"}

(* The calls after which a reference is lost that no call gives back:      *)
(* NothingElseLost is about all the others. What is lost is a cleared or   *)
(* removed element, the boxed key of a removed entry, the retained key of  *)
(* a text map's new entry, the boxed key that an entry replaces, what a    *)
(* call had made when it failed, and the argument that is also the result, *)
(* which keeps its reference beside the result's.                          *)
Overlap(h, d, e) ==
  \E i \in DOMAIN h[d].cell.keys :
    Places(h, h[e].cell, KeyText(h, d, i)) # {}

Kept(op, h, p) == op \in Defaulting /\ ~ Has(h, p[1], p[2])

Loses(op, h, p, r) ==
  \/ r.out = Failed
  \/ op \in {"ListClear", "ListRemove", "DictClear"}
  \/ op \in Merging /\ (Sort(h, p[1]) = "text" \/ Overlap(h, p[1], p[2]))
  \/ op \in Copying /\ Sort(h, p[1]) = "text"
  \/ op = "DictSetDefault" /\ Sort(h, p[1]) = "text"
  \/ op \in Removing /\ Sort(h, p[1]) = "boxed"
  \/ r.out # Null /\ Times(r.out, p) > (IF Kept(op, h, p) THEN 1 ELSE 0)

\* Bounds: a cell has few references, and a run ends with the first call that
\* loses one, since a count too high hides a stale reference.
Become(h, names) ==
  /\ \A a \in Addrs : h[a].count <= MaxCount
  /\ heap' = h
  /\ vars' = names

\* The variable gives up what it held.
Assign(h, names, n, box) ==
  Become(Release(h, << names[n] >>), [names EXCEPT ![n] = box])

\* A call: the arguments are pushed, those in moved as temporaries that nothing
\* else names; then the host function; then the arguments are released unless
\* returned. The result goes to a variable.
Call(op, args, Body(_, _)) ==
  /\ exact
  /\ \E moved \in SUBSET {n \in Names : \E i \in DOMAIN args : args[i] = n} :
       LET p      == [i \in DOMAIN args |-> vars[args[i]]]
           pushed == [i \in DOMAIN args |->
                        IF args[i] \in moved /\ \A j \in 1 .. i - 1 : args[j] # args[i]
                        THEN Null ELSE p[i]]
           r      == Body(Retain(heap, pushed), p)
           after  == Release(r.heap, SelectSeq(p, LAMBDA b : b # r.out))
           left   == [n \in Names |-> IF n \in moved THEN Null ELSE vars[n]]
       IN  /\ exact' = ~ Loses(op, Retain(heap, pushed), p, r)
           /\ IF r.out = Failed THEN Become(after, left)
              ELSE \E target \in Names : Assign(after, left, target, r.out)

Init ==
  /\ heap = [a \in Addrs |-> [count |-> 0, cell |-> Free]]
  /\ vars = [n \in Names |-> Null]
  /\ exact = TRUE

Of(sort) == {n \in Names : Sort(heap, vars[n]) = sort}
Lists == Of("list")
Strings == Of("str")
Maps == Of("text") \cup Of("boxed")
Dicts == {n \in Maps : Null \notin Range(Elems(heap, vars[n]))}
Sets == {n \in Maps : Range(Elems(heap, vars[n])) \subseteq {Null}}
OfStrings == {n \in Lists : \A i \in DOMAIN Elems(heap, vars[n]) :
                              Sort(heap, Elems(heap, vars[n])[i]) = "str"}

\* The program's own steps: a new value, another name for one, or none.
New(n, cell) ==
  LET r == Alloc(Retain(heap, Holds(cell)), cell)
  IN  exact /\ r.out # Failed /\ Assign(r.heap, vars, n, r.out) /\ UNCHANGED exact

NewString == \E n \in Names, t \in Texts : New(n, Str(t))

NewList ==
  \E n \in Names, elems \in UNION {[1 .. k -> Strings] : k \in 0 .. MaxLen} :
    New(n, Array("list", [i \in DOMAIN elems |-> vars[elems[i]]]))

NewDict ==
  \E n \in Names, k, v \in Strings :
    \/ New(n, MapOf("text", << Text(heap, vars[k]) >>, << vars[v] >>))
    \/ New(n, MapOf("boxed", << vars[k] >>, << vars[v] >>))

NewSet ==
  \E n \in Names, k \in Strings :
    \/ New(n, MapOf("text", << Text(heap, vars[k]) >>, << Null >>))
    \/ New(n, MapOf("boxed", << vars[k] >>, << Null >>))

Rename ==
  \E m, n \in Names :
    /\ exact /\ m # n /\ vars[m] # Null
    /\ Assign(Retain(heap, << vars[m] >>), vars, n, vars[m])
    /\ UNCHANGED exact

Forget ==
  \E n \in Names :
    exact /\ vars[n] # Null /\ Assign(heap, vars, n, Null) /\ UNCHANGED exact

Rebuilt(es) ==
  {es, Reverse(es), SortSeq(es, LAMBDA a, b : Text(heap, a) < Text(heap, b)), es \o es}
  \cup {SubSeq(es, i, j) : i \in DOMAIN es, j \in DOMAIN es}

RebuildList ==
  \E x \in OfStrings : \E es \in Rebuilt(Elems(heap, vars[x])) :
    Len(es) <= MaxLen /\ Call("ListOf", << x >>, LAMBDA h, p : ListOf(h, es))

\* listExtend: a new list of the elements of both.
JoinLists ==
  \E x, y \in OfStrings :
    /\ Len(Elems(heap, vars[x])) + Len(Elems(heap, vars[y])) <= MaxLen
    /\ Call("ListOf", << x, y >>,
            LAMBDA h, p : ListOf(h, Elems(h, p[1]) \o Elems(h, p[2])))

ReadList ==
  \E x \in OfStrings :
    \/ Call("ListMin", << x >>, LAMBDA h, p : ListMin(h, p[1]))
    \/ Call("Enumerate", << x >>, LAMBDA h, p : Enumerate(h, p[1]))
    \/ \E y \in OfStrings : Call("Zip", << x, y >>, LAMBDA h, p : ZipLists(h, p[1], p[2]))

ChangeList ==
  \E x \in OfStrings :
    \/ Call("ListSort", << x >>, LAMBDA h, p : ListSort(h, p[1]))
    \/ Call("ListClear", << x >>, LAMBDA h, p : ListClear(h, p[1]))
    \/ \E s \in Strings :
         Call("ListRemove", << x, s >>, LAMBDA h, p : ListRemove(h, p[1], p[2]))
    \/ \E start, stop \in 0 .. Len(Elems(heap, vars[x])) :
         /\ start <= stop
         /\ \/ \E y \in OfStrings :
                 Call("ListSliceAssign", << x, y >>,
                      LAMBDA h, p : ListSliceAssign(h, p[1], p[2], start, stop))
            \/ Call("ListSliceDelete", << x >>,
                    LAMBDA h, p : ListSliceDelete(h, p[1], start, stop))

ReadString ==
  \E s \in Strings : Call("StrIter", << s >>, LAMBDA h, p : StrIter(h, p[1]))

ReadDict ==
  \E d \in Dicts :
    \/ \E k \in Strings :
         \/ Call("DictItem", << d, k >>, LAMBDA h, p : DictItem(h, p[1], p[2]))
         \/ \E v \in Strings :
              Call("DictGet", << d, k, v >>, LAMBDA h, p : DictGet(h, p[1], p[2], p[3]))
    \/ Call("DictValues", << d >>, LAMBDA h, p : DictValues(h, p[1]))
    \/ Call("DictItems", << d >>, LAMBDA h, p : DictItems(h, p[1]))
    \/ Call("DictIter", << d >>, LAMBDA h, p : DictIter(h, p[1]))

ChangeDict ==
  \E d \in Dicts :
    \/ \E k \in Strings :
         \/ Call("DictPop", << d, k >>, LAMBDA h, p : DictPop(h, p[1], p[2], Failed))
         \/ \E v \in Strings :
              \/ Call("DictPopDefault", << d, k, v >>,
                      LAMBDA h, p : DictPop(h, p[1], p[2], p[3]))
              \/ /\ Len(Elems(heap, vars[d])) < MaxLen
                 /\ Call("DictSetDefault", << d, k, v >>,
                         LAMBDA h, p : DictSetDefault(h, p[1], p[2], p[3]))
    \/ Call("DictClear", << d >>, LAMBDA h, p : DictClear(h, p[1]))
    \/ \E e \in Dicts \cap Of(Sort(heap, vars[d])) :
         Call("DictUpdate", << d, e >>, LAMBDA h, p : DictUpdate(h, p[1], p[2]))

RebuildDict ==
  \E d \in Dicts :
    \/ Call("DictCopy", << d >>, LAMBDA h, p : Merged(h, p[1], Null, Keys(h, p[1])))
    \/ \E x \in OfStrings :
         Call("DictRest", << d, x >>,
              LAMBDA h, p : Merged(h, p[1], Null,
                {i \in Keys(h, p[1]) : \A j \in DOMAIN Elems(h, p[2]) :
                   Text(h, Elems(h, p[2])[j]) # KeyText(h, p[1], i)}))
    \/ \E e \in Dicts \cap Of(Sort(heap, vars[d])) :
         Call("DictMerge", << d, e >>,
              LAMBDA h, p : Merged(h, p[1], p[2],
                1 .. Len(Elems(h, p[1])) + Len(Elems(h, p[2]))))

\* The places, of d's keys and then e's, of those that the other map lacks.
OnlyOne(h, d, e) ==
  {i \in Keys(h, d) : Places(h, h[e].cell, KeyText(h, d, i)) = {}}
  \cup {Len(h[d].cell.keys) + i :
          i \in {j \in Keys(h, e) : Places(h, h[d].cell, KeyText(h, e, j)) = {}}}

\* remove and discard, pop, |, ^, & and -.
UseSet ==
  \E d \in Sets :
    \/ \E k \in Strings :
         Call("SetRemove", << d, k >>, LAMBDA h, p : SetRemove(h, p[1], p[2]))
    \/ Call("SetPop", << d >>, LAMBDA h, p : SetPop(h, p[1]))
    \/ \E e \in Sets \cap Of(Sort(heap, vars[d])) :
         \/ Call("SetUnion", << d, e >>,
                 LAMBDA h, p : Merged(h, p[1], p[2],
                   1 .. Len(Elems(h, p[1])) + Len(Elems(h, p[2]))))
         \/ Call("SetOnlyOne", << d, e >>,
                 LAMBDA h, p : Merged(h, p[1], p[2], OnlyOne(h, p[1], p[2])))
         \/ \E shared \in BOOLEAN :
              Call("SetIntersection", << d, e >>,
                   LAMBDA h, p : Merged(h, p[1], Null,
                     {i \in Keys(h, p[1]) :
                        shared <=> Places(h, h[p[2]].cell, KeyText(h, p[1], i)) # {}}))

\* What hands on elements as they are: iter and for over a list, and a
\* subscript of a value of type Any.
Borrow ==
  \E x \in OfStrings :
    \/ Call("ListIter", << x >>, LAMBDA h, p : ListIter(h, p[1]))
    \/ \E i \in 1 .. MaxLen : Call("DynIndex", << x >>, LAMBDA h, p : DynIndex(h, p[1], i))

Next ==
  \/ NewString \/ NewList \/ NewDict \/ NewSet \/ Rename \/ Forget
  \/ RebuildList \/ JoinLists \/ ReadList \/ ChangeList
  \/ ReadString
  \/ ReadDict \/ ChangeDict \/ RebuildDict \/ UseSet

Spec == Init /\ [][Next]_state

\* The same program, which also iterates over lists.
SpecWithBorrows == Init /\ [][Next \/ Borrow]_state

-------------------------------------------------------------------------------
(* Properties *)

\* The references that variables and cells hold to an address.
Owned(a) ==
  Cardinality({n \in Names : vars[n] = a})
  + FoldSet(LAMBDA b, sum : sum + Times(a, Holds(heap[b].cell)), 0, Addrs)

\* Nothing that the program holds was freed or may be freed under it: whatever
\* host functions give back or store was retained first, temporaries and
\* failed calls included (hostabi's rule, docs/spec/05-codegen.md:486-505).
NoStaleReferences == \A a \in Addrs : Owned(a) <= heap[a].count

\* What a host function owns and does not hand on it gives back: unless a call
\* lost one, there are no more references than owners.
NothingElseLost == exact => \A a \in Addrs : Owned(a) = heap[a].count

RECURSIVE Value(_, _)
Value(h, a) ==
  IF a \notin Addrs THEN << "none" >>
  ELSE LET cell == h[a].cell
       IN  CASE cell.sort = "free" -> << "free" >>
             [] cell.sort = "str" -> << "str", cell.text >>
             [] OTHER ->
                  << cell.sort,
                     [i \in DOMAIN cell.keys |->
                        IF cell.sort = "text" THEN cell.keys[i] ELSE Text(h, cell.keys[i])],
                     [i \in DOMAIN cell.elems |-> Value(h, cell.elems[i])] >>

\* A call changes the one list or map it is a method of and nothing else that
\* a variable can see: a string never changes, no result shares structure with
\* an argument, no freed cell comes back under a name that still refers to it.
OtherValuesKept ==
  [][\E changed \in {{}} \cup {{vars[n]} : n \in Lists \cup Maps} :
       \A n \in Names :
         vars'[n] = vars[n] /\ vars[n] \notin changed
           => Value(heap', vars[n]) = Value(heap, vars[n])]_state
===============================================================================

------------------------- MODULE LoaderResultsProofs -------------------------
(***************************************************************************)
(* What the loader reports and what it loads, for every set of names and   *)
(* every world whose relative imports are anchored in a package. The       *)
(* inductive invariant has four layers: what frames wait for and who asked *)
(* for them (LinkInv); that packages are there before their modules and    *)
(* nothing is located twice (WaitInv); that the stack is a chain of needs, *)
(* hence an import of a loading module a circle (StackNeeded, CycleFound); *)
(* that what is loaded has all it needs, and nothing besides (LoadedInv).  *)
(***************************************************************************)
EXTENDS ModuleLoaderProofs

\* A dotted name is its own longest prefix.
LEMMA PrefixSelf ==
  ASSUME NEW n \in Seq(STRING), n # << >>
  PROVE  n \in Prefixes(n)
<1>1. Len(n) \in 1 .. Len(n)
  OBVIOUS
<1>2. Prefix(n, Len(n)) = n
  BY DEF Prefix
<1>3. QED
  BY <1>1, <1>2 DEF Prefixes

\* The prefixes of a prefix, and the length it has.
LEMMA PrefixOf ==
  ASSUME NEW n \in Seq(STRING), NEW k \in 0 .. Len(n)
  PROVE  /\ Prefix(n, k) \in Seq(STRING) /\ Len(Prefix(n, k)) = k
         /\ \A j \in 0 .. k : Prefix(Prefix(n, k), j) = Prefix(n, j)
<1>1. /\ SubSeq(n, 1, k) \in Seq(STRING) /\ Len(SubSeq(n, 1, k)) = k
      /\ \A i \in 1 .. k : SubSeq(n, 1, k)[i] = n[i]
  OBVIOUS
<1>2. ASSUME NEW j \in 0 .. k PROVE SubSeq(SubSeq(n, 1, k), 1, j) = SubSeq(n, 1, j)
  <2>1. /\ SubSeq(n, 1, j) \in Seq(STRING) /\ Len(SubSeq(n, 1, j)) = j
        /\ \A i \in 1 .. j : SubSeq(n, 1, j)[i] = n[i]
    OBVIOUS
  <2> DEFINE p == SubSeq(n, 1, k)
  <2>2. p \in Seq(STRING) /\ Len(p) = k /\ \A i \in 1 .. k : p[i] = n[i]
    BY <1>1
  <2> HIDE DEF p
  <2>3. /\ SubSeq(p, 1, j) \in Seq(STRING) /\ Len(SubSeq(p, 1, j)) = j
        /\ \A i \in 1 .. j : SubSeq(p, 1, j)[i] = p[i]
    BY <2>2
  <2>4. SubSeq(p, 1, j) = SubSeq(n, 1, j)
    BY <2>1, <2>2, <2>3, SeqEqual
  <2>5. QED
    BY <2>4 DEF p
<1>3. QED
  BY <1>1, <1>2 DEF Prefix

\* A name adds itself to the prefixes of its parent.
LEMMA PrefixesStep ==
  ASSUME NEW n \in Seq(STRING), Len(n) > 1
  PROVE  /\ ParentName(n) \in Seq(STRING) /\ ParentName(n) # << >>
         /\ Prefixes(n) = Prefixes(ParentName(n)) \cup {n}
         /\ n \notin Prefixes(ParentName(n))
<1> DEFINE p == ParentName(n)
<1>1. Len(n) - 1 \in 0 .. Len(n) /\ Len(n) \in Nat
  OBVIOUS
<1>2. /\ p \in Seq(STRING) /\ Len(p) = Len(n) - 1
      /\ \A j \in 0 .. Len(n) - 1 : Prefix(p, j) = Prefix(n, j)
  BY <1>1, PrefixOf DEF ParentName
<1> HIDE DEF p
<1>3. Prefix(n, Len(n)) = n
  BY DEF Prefix
<1>4. 1 .. Len(n) = (1 .. Len(n) - 1) \cup {Len(n)}
  BY <1>1
<1>5. Prefixes(p) = {Prefix(n, j) : j \in 1 .. Len(n) - 1}
  BY <1>1, <1>2 DEF Prefixes
<1>6. Prefixes(n) = Prefixes(p) \cup {n}
  <2>1. Prefixes(n) = {Prefix(n, j) : j \in 1 .. Len(n) - 1} \cup {Prefix(n, Len(n))}
    BY <1>4, Zenon DEF Prefixes
  <2>2. QED
    BY <1>3, <1>5, <2>1
<1>7. n \notin Prefixes(p)
  <2> SUFFICES ASSUME NEW j \in 1 .. Len(n) - 1 PROVE Prefix(n, j) # n
    BY <1>5
  <2>1. Len(Prefix(n, j)) = j
    BY <1>1, PrefixOf
  <2>2. QED
    BY <1>1, <2>1
<1>8. p # << >>
  BY <1>1, <1>2
<1>9. QED
  BY <1>2, <1>6, <1>7, <1>8 DEF p

\* A top-level name has no other prefix.
LEMMA PrefixesOne ==
  ASSUME NEW n \in Seq(STRING), Len(n) = 1
  PROVE  Prefixes(n) = {n}
<1>1. Prefix(n, 1) = n
  BY DEF Prefix
<1>2. QED
  BY <1>1 DEF Prefixes

\* The parent of a prefix is a prefix.
LEMMA PrefixParent ==
  ASSUME NEW t \in Seq(STRING), NEW x \in Prefixes(t), Len(x) > 1
  PROVE  ParentName(x) \in Prefixes(t)
<1>1. PICK k \in 1 .. Len(t) : x = Prefix(t, k)
  BY DEF Prefixes
<1>2. k \in 0 .. Len(t) /\ k \in Nat /\ Len(t) \in Nat
  OBVIOUS
<1>3. Len(x) = k /\ \A j \in 0 .. k : Prefix(x, j) = Prefix(t, j)
  BY <1>1, <1>2, PrefixOf
<1>4. k - 1 \in 0 .. k /\ k - 1 \in 1 .. Len(t)
  BY <1>2, <1>3
<1>5. ParentName(x) = Prefix(t, k - 1)
  BY <1>3, <1>4 DEF ParentName
<1>6. QED
  BY <1>4, <1>5 DEF Prefixes

\* Where it is anchored, a relative import means what Python makes of it.
LEMMA RelativeIsPython ==
  ASSUME NEW m \in Seq(STRING), m # << >>, NEW isPackage \in BOOLEAN,
         NEW stmt, stmt.level \in Nat, stmt.module \in Seq(STRING),
         stmt.level = 1 /\ stmt.module # NoName => m = Main \/ isPackage \/ Len(m) > 1
  PROVE  RelativeBase(m, isPackage, stmt) = PythonBase(m, isPackage, stmt)
<1>1. CASE stmt.level = 0
  BY <1>1 DEF RelativeBase, PythonBase
<1>2. CASE stmt.level # 0 /\ m = Main
  <2>1. PackageOf(m, isPackage) = NoName /\ Len(NoName) = 0
    BY <1>2 DEF PackageOf, NoName
  <2>2. Len(PackageOf(m, isPackage)) < stmt.level
    BY <1>2, <2>1
  <2>3. RelativeBase(m, isPackage, stmt) = NoName
    BY <1>2, Zenon DEF RelativeBase
  <2>4. PythonBase(m, isPackage, stmt) = NoName
    BY <1>2, <2>2, Zenon DEF PythonBase
  <2>5. QED
    BY <2>3, <2>4
<1>3. CASE stmt.level # 0 /\ m # Main
  <2> DEFINE anchor == Anchor(m, isPackage)
  <2>1. PackageOf(m, isPackage) = anchor
    BY <1>3 DEF PackageOf, Anchor
  <2>2. anchor \in Seq(STRING) /\ Len(anchor) \in Nat
    <3>1. CASE isPackage
      BY <3>1 DEF Anchor
    <3>2. CASE ~ isPackage
      <4>1. Len(m) - 1 \in 0 .. Len(m)
        OBVIOUS
      <4>2. QED
        BY <3>2, <4>1, PrefixOf DEF Anchor, ParentName
    <3>3. QED
      BY <3>1, <3>2
  <2> HIDE DEF anchor
  <2>3. CASE anchor # NoName
    <3>1. PartsOf(anchor) = Len(anchor)
      BY <2>3 DEF PartsOf
    <3>2. /\ RelativeBase(m, isPackage, stmt)
               = IF stmt.level - 1 > PartsOf(anchor) - 1 THEN NoName
                 ELSE Prefix(anchor, Len(anchor) - (stmt.level - 1)) \o stmt.module
          /\ PythonBase(m, isPackage, stmt)
               = IF Len(anchor) < stmt.level THEN NoName
                 ELSE Prefix(anchor, Len(anchor) - (stmt.level - 1)) \o stmt.module
      BY <1>3, <2>1, Zenon DEF RelativeBase, PythonBase, anchor
    <3>3. (stmt.level - 1 > PartsOf(anchor) - 1) <=> (Len(anchor) < stmt.level)
      BY <2>2, <3>1
    <3>4. QED
      BY <3>2, <3>3
  <2>4. CASE anchor = NoName
    <3>1. Len(anchor) = 0 /\ PartsOf(anchor) = 1
      BY <2>4 DEF PartsOf, NoName
    <3>2. PythonBase(m, isPackage, stmt) = NoName
      <4>1. Len(anchor) < stmt.level
        BY <1>3, <3>1
      <4>2. QED
        BY <1>3, <2>1, <4>1, Zenon DEF PythonBase
    <3>3. CASE stmt.level > 1
      <4>1. stmt.level - 1 > PartsOf(anchor) - 1
        BY <3>1, <3>3
      <4>2. QED
        BY <1>3, <3>2, <4>1, Zenon DEF RelativeBase, anchor
    <3>4. CASE stmt.level = 1
      <4>1. ~ isPackage /\ ~ (Len(m) > 1)
        <5>1. CASE isPackage
          BY <2>4, <5>1 DEF Anchor, anchor, NoName
        <5>2. CASE ~ isPackage /\ Len(m) > 1
          BY <2>4, <5>2, PrefixesStep DEF Anchor, anchor, NoName
        <5>3. QED
          BY <5>1, <5>2
      <4>2. stmt.module = NoName
        BY <1>3, <3>4, <4>1
      <4>3. Prefix(NoName, 0) \o NoName = NoName
        BY DEF Prefix, NoName
      <4>4. QED
        BY <1>3, <2>4, <3>1, <3>2, <3>4, <4>2, <4>3 DEF RelativeBase, anchor
    <3>5. QED
      BY <1>3, <3>3, <3>4
  <2>5. QED
    BY <2>3, <2>4
<1>4. QED
  BY <1>1, <1>2, <1>3

-------------------------------------------------------------------------------
(* What is reported, and what the frames wait for. *)

Codes == {"circular", "not a package", "not found", "no parent"}

Errors == [code : Codes, path : Names \cup Seq(Names)]

ErrsTyped == errs \in Seq(Errors)

Clean == errs = << >>

NoCircle == \A e \in DOMAIN errs : errs[e].code # "circular"

\* Statement i of m asks for n: the module it names, or a package of it.
Asks(m, i, n) ==
  /\ n \in Prefixes(Target(m, i))
  /\ Target(m, i) = m => world.body[m][i].op = "import"

Asked(m, n) == \E i \in ImportsOf(m) : Asks(m, i, n)

\* The module whose scan is at work where the stack is so long.
Requirer(s, at) == IF at = 0 THEN Main ELSE s[at]

KindsKnown ==
  \A n \in Names :
    /\ status[n] \in {"loading", "ready"} => n \in Sources
    /\ status[n] = "native" => n \notin Sources

\* A frame waits for what the frame above it loads.
WaitsFor(f, above) ==
  /\ f.step = "parent" /\ Len(f.name) > 1 /\ above.name = ParentName(f.name)
  \/ /\ f.step = "scan" /\ f.i - 1 \in ImportsOf(f.name)
     /\ above.name = Target(f.name, f.i - 1)
     /\ above.name = f.name => world.body[f.name][f.i - 1].op = "import"

FramesLinked(c) ==
  /\ \A k \in 1 .. Len(c) - 1 : WaitsFor(c[k], c[k + 1])
  /\ c # << >> /\ c[Len(c)].step = "parent" => Len(c[Len(c)].name) > 1

FramesAsked(c, s) ==
  \A k \in 2 .. Len(c) : c[k].step # "scan" => Asked(Requirer(s, c[k].at), c[k].name)

LinkInv ==
  /\ ErrsTyped
  /\ KindsKnown
  /\ FramesLinked(calls)
  /\ FramesAsked(calls, stack)

-------------------------------------------------------------------------------
\* One error more.
LEMMA Reported ==
  ASSUME ErrsTyped, NEW e \in Errors, Report(e)
  PROVE  /\ ErrsTyped' /\ ~ Clean'
         /\ NoCircle' <=> NoCircle /\ e.code # "circular"
<1>1. /\ errs \in Seq(Errors) /\ errs' = Append(errs, e)
  BY DEF ErrsTyped, Report
<1>2. /\ errs' \in Seq(Errors) /\ Len(errs') = Len(errs) + 1
      /\ errs'[Len(errs) + 1] = e /\ Len(errs) \in Nat
      /\ \A k \in 1 .. Len(errs) : errs'[k] = errs[k]
  BY <1>1
<1>3. DOMAIN errs = 1 .. Len(errs) /\ DOMAIN errs' = 1 .. Len(errs) + 1
  BY <1>1, <1>2
<1>4. 1 .. Len(errs) + 1 = (1 .. Len(errs)) \cup {Len(errs) + 1}
  BY <1>2
<1>5. NoCircle' <=> NoCircle /\ e.code # "circular"
  BY <1>2, <1>3, <1>4 DEF NoCircle
<1>6. ErrsTyped' /\ ~ Clean'
  BY <1>2 DEF ErrsTyped, Clean
<1>7. QED
  BY <1>5, <1>6

LEMMA CycleTyped ==
  ASSUME IInv, NEW n \in Names
  PROVE  Error("circular", CycleFrom(n)) \in Errors
<1> DEFINE at    == {i \in 1 .. Len(stack) : stack[i] = n}
           start == IF at = {} THEN 1 ELSE CHOOSE i \in at : \A j \in at : i <= j
<1>1. stack \in Seq(Names)
  BY DEF IInv
<1>2. CASE \E n1 \in 1 .. Len(stack) : stack[n1] = n
  <2>1. PICK k \in 1 .. Len(stack) : stack[k] = n
    BY <1>2
  <2>2. at = {k}
    BY <1>1, <2>1 DEF IInv, StackExact
  <2>3. \E i \in at : \A j \in at : i <= j
    BY <2>1, <2>2, SMTT(30)
  <2>4. start \in at
    BY <2>2, <2>3
  <2>5. start = k
    BY <2>2, <2>4
  <2> HIDE DEF start
  <2>6. SubSeq(stack, start, Len(stack)) \in Seq(Names)
    BY <1>1, <2>5
  <2>7. Append(SubSeq(stack, start, Len(stack)), n) \in Seq(Names)
    BY <2>6
  <2>8. CycleFrom(n) \in Seq(Names)
    BY <2>7 DEF CycleFrom, start
  <2>9. QED
    BY <2>8 DEF Error, Errors, Codes
<1>3. CASE ~ \E n1 \in 1 .. Len(stack) : stack[n1] = n
  <2>1. start = 1
    BY <1>3
  <2> HIDE DEF start
  <2>2. Append(SubSeq(stack, start, Len(stack)), n) \in Seq(Names)
    BY <1>1, <2>1
  <2>3. CycleFrom(n) \in Seq(Names)
    BY <2>2 DEF CycleFrom, start
  <2>4. QED
    BY <2>3 DEF Error, Errors, Codes
<1>4. QED
  BY <1>2, <1>3

\* Errors are only ever added.
LEMMA ErrsGrow ==
  ASSUME IInv, ErrsTyped, LoaderNext
  PROVE  ErrsTyped' /\ (Clean' => Clean) /\ (NoCircle' => NoCircle) /\ world' = world
<1>1. CASE UNCHANGED errs
  <2>1. ErrsTyped' /\ (Clean' => Clean) /\ (NoCircle' => NoCircle)
    BY <1>1 DEF ErrsTyped, Clean, NoCircle
  <2>2. QED
    BY <2>1 DEF LoaderNext, Known, AskParent, ParentFails, NotFound, LoadBuiltin,
       ReadFails, ReadSource, ScanImport, ScanFrom, ScanOther, ScanDone
<1>2. CASE ~ UNCHANGED errs
  <2>1. /\ calls # << >> /\ Top.name \in Names /\ world' = world
        /\ \/ Report(Error("circular", CycleFrom(Top.name)))
           \/ \E code \in Codes : Report(Error(code, Top.name))
    <3>1. calls # << >>
      BY DEF LoaderNext, Known, AskParent, ParentFails, NotFound, LoadBuiltin, Locates,
         ReadFails, ReadSource, ScanImport, ScanFrom, ScanOther, ScanDone, Scans, Loads
    <3>2. QED
      BY <1>2, <3>1, TopFrame
         DEF LoaderNext, Known, AskParent, ParentFails, NotFound, LoadBuiltin, Codes,
         ReadFails, ReadSource, ScanImport, ScanFrom, ScanOther, ScanDone
  <2>2. CASE Report(Error("circular", CycleFrom(Top.name)))
    BY <2>1, <2>2, CycleTyped, Reported
  <2>3. ASSUME NEW code \in Codes, Report(Error(code, Top.name))
        PROVE  ErrsTyped' /\ (Clean' => Clean) /\ (NoCircle' => NoCircle)
    <3>1. Error(code, Top.name) \in Errors
      BY <2>1 DEF Error, Errors
    <3>2. QED
      BY <2>3, <3>1, Reported
  <2>4. QED
    BY <2>1, <2>2, <2>3
<1>3. QED
  BY <1>1, <1>2

\* Errors other than a circle.
LEMMA OtherReported ==
  ASSUME ErrsTyped, NEW x \in Names, NEW code \in Codes, Report(Error(code, x))
  PROVE  ErrsTyped' /\ ~ Clean'
BY Reported DEF Error, Errors
-------------------------------------------------------------------------------
\* What a module asks for and needs is a matter of the world.
LEMMA WorldSame ==
  ASSUME world' = world
  PROVE  /\ Sources' = Sources
         /\ \A m : ImportsOf(m)' = ImportsOf(m)
         /\ \A m, i : Target(m, i)' = Target(m, i)
         /\ \A m, n : Asked(m, n)' = Asked(m, n)
         /\ \A f, g : WaitsFor(f, g)' = WaitsFor(f, g)
<1>1. Sources' = Sources
  BY DEF Sources
<1>2. \A m : ImportsOf(m)' = ImportsOf(m)
  BY DEF ImportsOf
<1>3. \A m, i : Target(m, i)' = Target(m, i)
  BY DEF Target, IsPackage
<1>4. \A m, n : Asked(m, n)' = Asked(m, n)
  BY <1>2, <1>3 DEF Asked, Asks
<1>5. \A f, g : WaitsFor(f, g)' = WaitsFor(f, g)
  BY <1>2, <1>3 DEF WaitsFor
<1>6. QED
  BY <1>1, <1>2, <1>3, <1>4, <1>5

LEMMA LinkedReturn ==
  ASSUME NEW c \in Seq(Frame), c # << >>, FramesLinked(c)
  PROVE  FramesLinked(SubSeq(c, 1, Len(c) - 1))
<1> DEFINE d == SubSeq(c, 1, Len(c) - 1)
<1>1. Len(c) \in Nat /\ Len(c) > 0
  OBVIOUS
<1>2. /\ d \in Seq(Frame) /\ Len(d) = Len(c) - 1
      /\ \A k \in 1 .. Len(c) - 1 : d[k] = c[k]
  BY <1>1, Shortened
<1> HIDE DEF d
<1>3. ASSUME NEW k \in 1 .. Len(d) - 1 PROVE WaitsFor(d[k], d[k + 1])
  <2>1. k \in 1 .. Len(c) - 1 /\ k + 1 \in 1 .. Len(c) - 1
    BY <1>1, <1>2
  <2>2. QED
    BY <1>2, <2>1 DEF FramesLinked
<1>4. ASSUME d # << >>, d[Len(d)].step = "parent" PROVE Len(d[Len(d)].name) > 1
  <2>1. Len(d) \in 1 .. Len(c) - 1
    BY <1>1, <1>2, <1>4
  <2>2. WaitsFor(d[Len(d)], c[Len(d) + 1])
    BY <1>2, <2>1 DEF FramesLinked
  <2>3. QED
    BY <1>4, <2>2 DEF WaitsFor
<1>5. QED
  BY <1>3, <1>4 DEF FramesLinked, d

LEMMA LinkedStep ==
  ASSUME NEW c \in Seq(Frame), c # << >>, FramesLinked(c),
         NEW f \in Frame, f.name = c[Len(c)].name,
         f.step = "parent" => Len(f.name) > 1
  PROVE  FramesLinked([c EXCEPT ![Len(c)] = f])
<1> DEFINE d == [c EXCEPT ![Len(c)] = f]
<1>1. Len(c) \in Nat \ {0}
  OBVIOUS
<1>2. /\ d \in Seq(Frame) /\ Len(d) = Len(c) /\ d[Len(c)] = f
      /\ \A k \in 1 .. Len(c) - 1 : d[k] = c[k]
  BY <1>1
<1> HIDE DEF d
<1>3. ASSUME NEW k \in 1 .. Len(d) - 1 PROVE WaitsFor(d[k], d[k + 1])
  <2>1. k \in 1 .. Len(c) - 1 /\ d[k] = c[k]
    BY <1>2
  <2>2. WaitsFor(c[k], c[k + 1])
    BY <2>1 DEF FramesLinked
  <2>3. d[k + 1].name = c[k + 1].name
    <3>1. CASE k + 1 = Len(c)
      BY <1>2, <3>1
    <3>2. CASE k + 1 # Len(c)
      BY <1>1, <1>2, <2>1, <3>2
    <3>3. QED
      BY <3>1, <3>2
  <2>4. QED
    BY <2>1, <2>2, <2>3 DEF WaitsFor
<1>4. QED
  BY <1>2, <1>3 DEF FramesLinked, d

LEMMA LinkedCall ==
  ASSUME NEW c \in Seq(Frame), c # << >>, FramesLinked(c),
         NEW f \in Frame, f.step = "enter", WaitsFor(c[Len(c)], f)
  PROVE  FramesLinked(Append(c, f))
<1> DEFINE d == Append(c, f)
<1>1. Len(c) \in Nat \ {0}
  OBVIOUS
<1>2. /\ d \in Seq(Frame) /\ Len(d) = Len(c) + 1 /\ d[Len(c) + 1] = f
      /\ \A k \in 1 .. Len(c) : d[k] = c[k]
  BY <1>1
<1> HIDE DEF d
<1>3. ASSUME NEW k \in 1 .. Len(d) - 1 PROVE WaitsFor(d[k], d[k + 1])
  <2>1. CASE k = Len(c)
    BY <1>2, <2>1
  <2>2. CASE k # Len(c)
    <3>1. k \in 1 .. Len(c) - 1 /\ k \in 1 .. Len(c) /\ k + 1 \in 1 .. Len(c)
      BY <1>1, <1>2, <2>2
    <3>2. QED
      BY <1>2, <3>1 DEF FramesLinked
  <2>3. QED
    BY <2>1, <2>2
<1>4. QED
  BY <1>2, <1>3 DEF FramesLinked, d

\* The frames below the top are asked for on the stack as it was, whatever is
\* pushed or popped above their depth.
LEMMA AskedBelow ==
  ASSUME NEW c, NEW s \in Seq(Names), FramesOK(c, s), FramesAsked(c, s),
         NEW d, NEW r, Len(d) \in Nat, Len(d) <= Len(c),
         \A k \in 1 .. Len(d) : d[k] = c[k],
         \A k \in 2 .. Len(d) : \A n \in 1 .. c[k].at : r[n] = s[n]
  PROVE  FramesAsked(d, r)
<1> SUFFICES ASSUME NEW k \in 2 .. Len(d), d[k].step # "scan"
             PROVE  Asked(Requirer(r, d[k].at), d[k].name)
  BY DEF FramesAsked
<1>1. c \in Seq(Frame) /\ Len(c) \in Nat
  BY DEF FramesOK
<1>2. k \in 2 .. Len(c) /\ k \in 1 .. Len(c) /\ d[k] = c[k] /\ c[k] \in Frame
  BY <1>1
<1>3. c[k].at \in Nat /\ (c[k].at # 0 => c[k].at \in 1 .. c[k].at)
  BY <1>2 DEF Frame
<1>4. Requirer(r, c[k].at) = Requirer(s, c[k].at)
  BY <1>3 DEF Requirer
<1>5. QED
  BY <1>2, <1>4 DEF FramesAsked

LEMMA AskedReturn ==
  ASSUME NEW c, NEW s \in Seq(Names), FramesOK(c, s), FramesAsked(c, s), c # << >>
  PROVE  FramesAsked(SubSeq(c, 1, Len(c) - 1), s)
<1> DEFINE d == SubSeq(c, 1, Len(c) - 1)
<1>1. c \in Seq(Frame)
  BY DEF FramesOK
<1>2. /\ Len(c) \in Nat \ {0} /\ Len(d) = Len(c) - 1
      /\ \A k \in 1 .. Len(c) - 1 : d[k] = c[k]
  BY <1>1, Shortened
<1> HIDE DEF d
<1>3. /\ Len(d) \in Nat /\ Len(d) <= Len(c)
      /\ \A k \in 1 .. Len(d) : d[k] = c[k]
  BY <1>2
<1>4. FramesAsked(d, s)
  BY <1>3, AskedBelow
<1>5. QED
  BY <1>4 DEF d

LEMMA AskedPop ==
  ASSUME NEW c, NEW s \in Seq(Names), FramesOK(c, s), FramesAsked(c, s), c # << >>,
         c[Len(c)].step = "scan", Len(c) # 1
  PROVE  FramesAsked(SubSeq(c, 1, Len(c) - 1), SubSeq(s, 1, Len(s) - 1))
<1> DEFINE d == SubSeq(c, 1, Len(c) - 1)
           r == SubSeq(s, 1, Len(s) - 1)
<1>1. c \in Seq(Frame)
  BY DEF FramesOK
<1>2. /\ Len(c) \in Nat \ {0} /\ Len(d) = Len(c) - 1
      /\ \A k \in 1 .. Len(c) - 1 : d[k] = c[k]
  BY <1>1, Shortened
<1>3. /\ Len(s) \in Nat \ {0}
      /\ \A n \in 1 .. Len(s) - 1 : r[n] = s[n]
  BY FramesPop, Shortened
<1> HIDE DEF d, r
<1>4. ASSUME NEW k \in 2 .. Len(d) PROVE \A n \in 1 .. c[k].at : r[n] = s[n]
  <2>1. k \in 1 .. Len(c) - 1 /\ k \in 1 .. Len(c) /\ Len(c) - 1 \in 1 .. Len(c) - 1
    BY <1>2
  <2>2. c[k].at <= c[Len(c) - 1].at /\ c[Len(c) - 1].at = Len(s) - 1
    BY <2>1, DepthsBounded
  <2>3. c[k] \in Frame
    BY <1>1, <2>1
  <2>4. c[k].at \in Nat
    BY <2>3 DEF Frame
  <2>5. QED
    BY <1>3, <2>2, <2>4
<1>5. /\ Len(d) \in Nat /\ Len(d) <= Len(c)
      /\ \A k \in 1 .. Len(d) : d[k] = c[k]
  BY <1>2
<1>6. FramesAsked(d, r)
  BY <1>4, <1>5, AskedBelow
<1>7. QED
  BY <1>6 DEF d, r

LEMMA AskedStep ==
  ASSUME NEW c, NEW s \in Seq(Names), FramesOK(c, s), FramesAsked(c, s), c # << >>,
         NEW f \in Frame, NEW d \in Seq(Frame), Len(d) = Len(c), d[Len(c)] = f,
         \A k \in 1 .. Len(c) - 1 : d[k] = c[k],
         NEW r \in Seq(Names), \A n \in 1 .. Len(s) : r[n] = s[n],
         \/ f.step = "scan"
         \/ c[Len(c)].step # "scan" /\ f.at = c[Len(c)].at /\ f.name = c[Len(c)].name
  PROVE  FramesAsked(d, r)
<1>1. c \in Seq(Frame)
  BY DEF FramesOK
<1>2. Len(c) \in Nat \ {0}
  BY <1>1
<1> SUFFICES ASSUME NEW k \in 2 .. Len(c), d[k].step # "scan"
             PROVE  Asked(Requirer(r, d[k].at), d[k].name)
  BY <1>2 DEF FramesAsked
<1>3. c[k].step # "scan" /\ d[k].at = c[k].at /\ d[k].name = c[k].name
  <2>1. CASE k = Len(c)
    BY <1>2, <2>1
  <2>2. CASE k # Len(c)
    BY <1>2, <2>2
  <2>3. QED
    BY <2>1, <2>2
<1>4. c[k].at \in Nat /\ c[k].at <= Len(s) /\ Len(s) \in Nat
  <2>1. k \in 1 .. Len(c) /\ c[k] \in Frame
    BY <1>1, <1>2
  <2>2. QED
    BY <2>1, DepthsBounded DEF Frame
<1>5. Requirer(r, c[k].at) = Requirer(s, c[k].at)
  BY <1>4 DEF Requirer
<1>6. QED
  BY <1>3, <1>5 DEF FramesAsked

LEMMA AskedCall ==
  ASSUME NEW c \in Seq(Frame), c # << >>, NEW s \in Seq(Names), FramesAsked(c, s),
         NEW f \in Frame, f.at = Len(s), Asked(Requirer(s, Len(s)), f.name)
  PROVE  FramesAsked(Append(c, f), s)
<1> DEFINE d == Append(c, f)
<1>1. /\ Len(c) \in Nat \ {0} /\ Len(d) = Len(c) + 1 /\ d[Len(c) + 1] = f
      /\ \A k \in 1 .. Len(c) : d[k] = c[k]
  OBVIOUS
<1> HIDE DEF d
<1> SUFFICES ASSUME NEW k \in 2 .. Len(d), d[k].step # "scan"
             PROVE  Asked(Requirer(s, d[k].at), d[k].name)
  BY DEF FramesAsked, d
<1>2. CASE k = Len(d)
  BY <1>1, <1>2
<1>3. CASE k # Len(d)
  <2>1. k \in 2 .. Len(c) /\ d[k] = c[k]
    BY <1>1, <1>3
  <2>2. QED
    BY <2>1 DEF FramesAsked
<1>4. QED
  BY <1>2, <1>3

-------------------------------------------------------------------------------
\* The module an import statement names, as relativeBase resolves it.
LEMMA TargetNamed ==
  ASSUME AnchoredImports, world \in Worlds, NEW m \in Names, NEW i \in ImportsOf(m)
  PROVE  /\ Target(m, i) \in Names \cup {NoName}
         /\ world.body[m][i].op \in {"import", "from"}
         /\ world.body[m][i].op = "import" =>
              /\ Target(m, i) = world.body[m][i].module /\ Target(m, i) # NoName
              /\ world.body[m][i] = Import(Target(m, i))
         /\ world.body[m][i].op = "from" =>
              Target(m, i) = RelativeBase(m, IsPackage(m), world.body[m][i])
<1> DEFINE stmt == world.body[m][i]
<1>1. i \in 1 .. Len(world.body[m]) /\ i \in DOMAIN world.body[m] /\ stmt.op # "if"
  BY WorldsAssumption DEF ImportsOf
<1>2. /\ stmt.op \in {"import", "from", "if"}
      /\ stmt.op = "import" => stmt.module \in Names /\ stmt = Import(stmt.module)
      /\ stmt.op = "from" =>
           /\ stmt.level \in Nat /\ stmt.module \in Seq(STRING)
           /\ RelativeBase(m, world.kind[m] = "package", stmt) \in Names \cup {NoName}
  BY <1>1, WorldsAssumption
<1>3. stmt.op = "from" /\ stmt.level = 1 /\ stmt.module # NoName
        => m = Main \/ world.kind[m] = "package" \/ Len(m) > 1
  BY <1>1 DEF AnchoredImports
<1> HIDE DEF stmt
<1>4. Target(m, i) = PythonBase(m, world.kind[m] = "package", stmt)
  BY DEF Target, IsPackage, stmt
<1>5. CASE stmt.op = "import"
  <2>1. stmt.level = 0
    BY <1>2, <1>5 DEF Import
  <2>2. Target(m, i) = stmt.module
    BY <1>4, <2>1 DEF PythonBase
  <2>3. stmt.module # NoName
    BY <1>2, <1>5, NamesAssumption
  <2>4. QED
    BY <1>2, <1>5, <2>2, <2>3 DEF stmt
<1>6. CASE stmt.op = "from"
  <2>1. m \in Seq(STRING) /\ m # << >>
    BY NamesAssumption DEF NoName
  <2>2. Target(m, i) = RelativeBase(m, world.kind[m] = "package", stmt)
    BY <1>2, <1>3, <1>4, <1>6, <2>1, RelativeIsPython
  <2>3. QED
    BY <1>2, <1>6, <2>2 DEF stmt, IsPackage
<1>7. QED
  BY <1>1, <1>2, <1>5, <1>6 DEF stmt

\* A module that asks for another asks for the packages it is in.
LEMMA AsksForParents ==
  ASSUME AnchoredImports, world \in Worlds, NEW m \in Names, NEW n \in Names,
         Asked(m, n), Len(n) > 1
  PROVE  Asked(m, ParentName(n))
<1>1. PICK i \in ImportsOf(m) : Asks(m, i, n)
  BY DEF Asked
<1>2. Target(m, i) \in Seq(STRING)
  <2>1. Target(m, i) \in Names \cup {NoName}
    BY TargetNamed
  <2>2. NoName \in Seq(STRING)
    BY DEF NoName
  <2>3. QED
    BY <2>1, <2>2, NamesAssumption
<1>3. ParentName(n) \in Prefixes(Target(m, i))
  BY <1>1, <1>2, PrefixParent DEF Asks
<1>4. QED
  BY <1>1, <1>3 DEF Asked, Asks

\* The module at work is there, and its frame is the one that scans.
LEMMA RequirerThere ==
  ASSUME IInv, calls # << >>
  PROVE  /\ Requirer(stack, Len(stack)) \in Names
         /\ status[Requirer(stack, Len(stack))] \in {"loading", "ready"}
         /\ Top.step = "scan" => Requirer(stack, Len(stack)) = Top.name
<1>1. stack \in Seq(Names) /\ Len(stack) \in Nat
  BY DEF IInv
<1>2. /\ Requirer(stack, Len(stack)) \in Names
      /\ status[Requirer(stack, Len(stack))] \in {"loading", "ready"}
  <2>1. CASE Len(stack) = 0
    BY <2>1, NamesAssumption DEF Requirer, IInv
  <2>2. CASE Len(stack) # 0
    <3>1. Len(stack) \in 1 .. Len(stack)
      BY <1>1, <2>2
    <3>2. Requirer(stack, Len(stack)) = stack[Len(stack)] /\ stack[Len(stack)] \in Names
      BY <1>1, <2>2, <3>1 DEF Requirer
    <3>3. status[stack[Len(stack)]] = "loading"
      BY <3>1, <3>2 DEF IInv, StackExact
    <3>4. QED
      BY <3>2, <3>3
  <2>3. QED
    BY <2>1, <2>2
<1>3. ASSUME Top.step = "scan" PROVE Requirer(stack, Len(stack)) = Top.name
  <2>1. CASE Len(calls) = 1
    <3>1. Top.name = Main /\ Top.at = 0
      BY <2>1 DEF IInv, FramesOK, FramesCounted, EntryFirst, Top
    <3>2. QED
      BY <3>1, TopFrame DEF Requirer
  <2>2. CASE Len(calls) # 1
    <3>1. stack # << >> /\ stack[Len(stack)] = Top.name
      BY <1>1, <1>3, <2>2, FramesPop DEF IInv, Top
    <3>2. Len(stack) # 0
      BY <1>1, <3>1
    <3>3. QED
      BY <3>1, <3>2 DEF Requirer
  <2>3. QED
    BY <2>1, <2>2
<1>4. QED
  BY <1>2, <1>3

\* The status of one module changes.
LEMMA KindsSet ==
  ASSUME IInv, KindsKnown, world' = world, NEW x \in Names, NEW v,
         status' = [status EXCEPT ![x] = v],
         v \in {"loading", "ready"} => x \in Sources,
         v = "native" => x \notin Sources
  PROVE  KindsKnown'
<1>1. Sources' = Sources
  BY WorldSame
<1>2. status \in [Names -> Statuses]
  BY DEF IInv
<1>3. ASSUME NEW n \in Names
      PROVE  /\ status'[n] \in {"loading", "ready"} => n \in Sources
             /\ status'[n] = "native" => n \notin Sources
  BY <1>2 DEF KindsKnown
<1>4. QED
  BY <1>1, <1>3 DEF KindsKnown

LEMMA KindsKept ==
  ASSUME IInv, KindsKnown, LoaderNext, world' = world
  PROVE  KindsKnown'
<1>1. CASE UNCHANGED status
  <2>1. Sources' = Sources
    BY WorldSame
  <2>2. QED
    BY <1>1, <2>1 DEF KindsKnown
<1>2. CASE LoadBuiltin
  <2>1. /\ calls # << >> /\ Top.name \in Names /\ Top.name # Main
        /\ status' = [status EXCEPT ![Top.name] = "native"]
    BY <1>2, LocatesNew, TopFrame DEF LoadBuiltin
  <2>2. Top.name \notin Sources
    BY <1>2, <2>1 DEF LoadBuiltin, Sources
  <2>3. QED
    BY <2>1, <2>2, KindsSet
<1>3. CASE ReadFails
  <2>1. /\ calls # << >> /\ Top.name \in Names
        /\ status' = [status EXCEPT ![Top.name] = "dead"]
    BY <1>3, LocatesNew, TopFrame DEF ReadFails
  <2>2. QED
    BY <2>1, KindsSet
<1>4. CASE ReadSource
  <2>1. /\ calls # << >> /\ Top.name \in Names
        /\ status' = [status EXCEPT ![Top.name] = "loading"]
    BY <1>4, LocatesNew, TopFrame DEF ReadSource
  <2>2. Top.name \in Sources
    BY <1>4, <2>1 DEF ReadSource, Sources
  <2>3. QED
    BY <2>1, <2>2, KindsSet
<1>5. CASE ScanDone /\ Top.name # Main
  <2>1. /\ calls # << >> /\ Top.step = "scan" /\ Top.name \in Names
        /\ status' = [status EXCEPT ![Top.name] = "ready"]
    BY <1>5, TopFrame DEF ScanDone, Loads, Loaded
  <2>2. Top.name \in Sources
    BY <2>1, RequirerThere DEF KindsKnown
  <2>3. QED
    BY <2>1, <2>2, KindsSet
<1>6. QED
  BY <1>1, <1>2, <1>3, <1>4, <1>5
     DEF LoaderNext, Known, AskParent, ParentFails, NotFound, ScanImport, ScanFrom,
         ScanOther, ScanDone

\* loadModule returns.
LEMMA LinkReturn ==
  ASSUME IInv, LinkInv, calls # << >>, NEW x, Return(x), UNCHANGED world,
         \/ UNCHANGED stack
         \/ /\ Top.step = "scan" /\ Len(calls) # 1
            /\ stack' = SubSeq(stack, 1, Len(stack) - 1)
  PROVE  FramesLinked(calls)' /\ FramesAsked(calls, stack)'
<1>1. /\ calls \in Seq(Frame) /\ FramesOK(calls, stack) /\ stack \in Seq(Names)
      /\ FramesLinked(calls) /\ FramesAsked(calls, stack)
      /\ calls' = SubSeq(calls, 1, Len(calls) - 1)
  BY DEF IInv, FramesOK, LinkInv, Return
<1>2. FramesLinked(calls')
  BY <1>1, LinkedReturn
<1>3. FramesAsked(calls', stack')
  <2>1. CASE UNCHANGED stack
    BY <1>1, <2>1, AskedReturn
  <2>2. CASE /\ Top.step = "scan" /\ Len(calls) # 1
             /\ stack' = SubSeq(stack, 1, Len(stack) - 1)
    <3>1. calls[Len(calls)].step = "scan"
      BY <2>2 DEF Top
    <3>2. QED
      BY <1>1, <2>2, <3>1, AskedPop
  <2>3. QED
    BY <2>1, <2>2
<1>4. QED
  BY <1>2, <1>3, WorldSame DEF FramesLinked, FramesAsked

\* The frame at work goes on.
LEMMA LinkStep ==
  ASSUME IInv, LinkInv, calls # << >>, UNCHANGED world,
         NEW f \in Frame, calls' = Step(f), f.name = Top.name, f.step = "scan",
         \/ UNCHANGED stack
         \/ stack' = Append(stack, Top.name)
  PROVE  FramesLinked(calls)' /\ FramesAsked(calls, stack)'
<1>1. /\ calls \in Seq(Frame) /\ FramesOK(calls, stack) /\ stack \in Seq(Names)
      /\ FramesLinked(calls) /\ FramesAsked(calls, stack)
      /\ calls' = [calls EXCEPT ![Len(calls)] = f]
  BY DEF IInv, FramesOK, LinkInv, Step
<1>2. FramesLinked(calls')
  BY <1>1, LinkedStep DEF Top
<1>3. stack' \in Seq(Names) /\ \A n \in 1 .. Len(stack) : stack'[n] = stack[n]
  <2>1. Top.name \in Names
    BY TopFrame
  <2>2. CASE UNCHANGED stack
    BY <1>1, <2>2
  <2>3. CASE stack' = Append(stack, Top.name)
    BY <1>1, <2>1, <2>3
  <2>4. QED
    BY <2>2, <2>3
<1>4. FramesAsked(calls', stack')
  <2>1. /\ calls' \in Seq(Frame) /\ Len(calls') = Len(calls) /\ calls'[Len(calls)] = f
        /\ \A k \in 1 .. Len(calls) - 1 : calls'[k] = calls[k]
    BY <1>1
  <2>2. calls[Len(calls)] \in Frame /\ f.step = "scan" /\ calls # << >>
    BY <1>1
  <2>3. QED
    BY <1>1, <1>3, <2>1, <2>2, AskedStep
<1>5. QED
  BY <1>2, <1>4, WorldSame DEF FramesLinked, FramesAsked

\* The frame at work, f from now on, calls loadModule.
LEMMA LinkCall ==
  ASSUME IInv, LinkInv, calls # << >>, UNCHANGED << world, stack >>,
         NEW f \in Frame, NEW x \in Names, Call(f, x), f.name = Top.name,
         f.at = Top.at,
         f.step = "parent" => Top.step # "scan",
         f.step \in {"scan", "parent"},
         WaitsFor(f, LoadFrame(x, "enter", Len(stack))),
         Asked(Requirer(stack, Len(stack)), x)
  PROVE  FramesLinked(calls)' /\ FramesAsked(calls, stack)'
<1> DEFINE c == [calls EXCEPT ![Len(calls)] = f]
           g == LoadFrame(x, "enter", Len(stack))
<1>1. /\ calls \in Seq(Frame) /\ FramesOK(calls, stack) /\ stack \in Seq(Names)
      /\ FramesLinked(calls) /\ FramesAsked(calls, stack)
      /\ calls' = Append(c, g)
  BY DEF IInv, FramesOK, LinkInv, Call, Step
<1>2. g \in Frame /\ g.step = "enter" /\ g.at = Len(stack) /\ g.name = x
  BY <1>1 DEF LoadFrame, Frame
<1>3. c \in Seq(Frame) /\ c # << >> /\ c[Len(c)] = f
  BY <1>1
<1>4. f.step = "parent" => Len(f.name) > 1
  BY DEF WaitsFor
<1>5. FramesLinked(c)
  BY <1>1, <1>4, LinkedStep DEF Top
<1>6. FramesAsked(c, stack)
  <2>1. /\ c \in Seq(Frame) /\ Len(c) = Len(calls) /\ c[Len(calls)] = f
        /\ \A k \in 1 .. Len(calls) - 1 : c[k] = calls[k]
    BY <1>1
  <2> HIDE DEF c
  <2>2. QED
    BY <1>1, <2>1, AskedStep DEF Top
<1> HIDE DEF c, g
<1>7. FramesLinked(calls')
  <2>1. WaitsFor(c[Len(c)], g)
    BY <1>3 DEF g
  <2>2. QED
    BY <1>1, <1>2, <1>3, <1>5, <2>1, LinkedCall
<1>8. FramesAsked(calls', stack)
  BY <1>1, <1>2, <1>3, <1>6, AskedCall
<1>9. QED
  BY <1>7, <1>8, WorldSame DEF FramesLinked, FramesAsked

LEMMA InitLinked == Init => LinkInv
<1> SUFFICES ASSUME Init PROVE LinkInv
  OBVIOUS
<1>1. calls = << LoadFrame(Main, "scan", 0) >> /\ Len(calls) = 1
      /\ calls[1].step = "scan"
  BY DEF Init, LoadFrame
<1>2. ErrsTyped
  BY DEF Init, ErrsTyped
<1>3. KindsKnown
  BY NamesAssumption DEF Init, KindsKnown, Sources
<1>4. FramesLinked(calls) /\ FramesAsked(calls, stack)
  BY <1>1 DEF FramesLinked, FramesAsked
<1>5. QED
  BY <1>2, <1>3, <1>4 DEF LinkInv

\* Frames and errors of a step, whatever the step.
LEMMA LinkKept ==
  ASSUME AnchoredImports, IInv, LinkInv, LoaderNext
  PROVE  LinkInv'
<1>1. ErrsTyped' /\ KindsKnown' /\ world' = world
  BY ErrsGrow, KindsKept DEF LinkInv
<1>2. FramesLinked(calls)' /\ FramesAsked(calls, stack)'
  <2>1. CASE Known \/ ParentFails \/ NotFound \/ LoadBuiltin \/ ReadFails
    <3>1. calls # << >> /\ UNCHANGED << world, stack >> /\ \E x : Return(x)
      BY <2>1 DEF Known, ParentFails, NotFound, LoadBuiltin, ReadFails, Locates, Loads
    <3>2. QED
      BY <3>1, LinkReturn
  <2>2. CASE ScanDone
    <3>1. /\ calls # << >> /\ Top.step = "scan" /\ UNCHANGED world
          /\ Return(Top.name)
      BY <2>2 DEF ScanDone, Loads
    <3>2. CASE Top.name = Main
      BY <2>2, <3>1, <3>2, LinkReturn DEF ScanDone
    <3>3. CASE Top.name # Main
      <4>1. Len(calls) # 1
        BY <3>1, <3>3 DEF IInv, FramesOK, FramesCounted, EntryFirst, Top
      <4>2. stack' = SubSeq(stack, 1, Len(stack) - 1)
        BY <2>2, <3>3 DEF ScanDone, Popped
      <4>3. QED
        BY <3>1, <4>1, <4>2, LinkReturn
    <3>4. QED
      BY <3>2, <3>3
  <2>3. CASE ReadSource
    <3> DEFINE f == LoadFrame(Top.name, "scan", Len(stack) + 1)
    <3>1. /\ calls # << >> /\ UNCHANGED world /\ calls' = Step(f)
          /\ stack' = Append(stack, Top.name)
      BY <2>3, LocatesNew DEF ReadSource
    <3>2. f \in Frame /\ f.name = Top.name /\ f.step = "scan"
      BY <3>1, TopFrame DEF LoadFrame, Frame, IInv
    <3> HIDE DEF f
    <3>3. QED
      BY <3>1, <3>2, LinkStep
  <2>4. CASE ScanOther \/ (ScanFrom /\ Base \in {NoName, Top.name})
    <3>1. /\ calls # << >> /\ Top.step = "scan" /\ UNCHANGED << world, stack >>
          /\ calls' = Step(NextStmt)
      BY <2>4 DEF ScanOther, ScanFrom, Scans, Loads
    <3>2. QED
      BY <3>1, NextStmtGoesOn, LinkStep
  <2>5. CASE AskParent
    <3> DEFINE f == [Top EXCEPT !.step = "parent"]
               x == ParentName(Top.name)
    <3>1. /\ calls # << >> /\ Top.step = "enter" /\ Len(Top.name) > 1
          /\ Call(f, x) /\ UNCHANGED << world, stack >>
      BY <2>5 DEF AskParent, Loads
    <3>2. /\ f \in Frame /\ f.step = "parent" /\ f.name = Top.name /\ f.at = Top.at
      BY <3>1, TopFrame DEF Frame
    <3>3. x \in Names
      BY <3>1, TopFrame, NamesAssumption
    <3>4. WaitsFor(f, LoadFrame(x, "enter", Len(stack)))
      BY <3>1, <3>2 DEF WaitsFor, LoadFrame
    <3>5. Asked(Requirer(stack, Len(stack)), x)
      <4>1. Asked(Requirer(stack, Len(stack)), Top.name)
        BY <3>1, TopFrame, NotTheEntry DEF LinkInv, FramesAsked, Top
      <4>2. Requirer(stack, Len(stack)) \in Names /\ Top.name \in Names
        BY <3>1, RequirerThere, TopFrame
      <4>3. QED
        BY <3>1, <4>1, <4>2, AsksForParents DEF IInv
    <3> HIDE DEF f, x
    <3>6. QED
      BY <3>1, <3>2, <3>3, <3>4, <3>5, LinkCall
  <2>6. ASSUME Scans("import") \/ Scans("from"), NEW x \in Names, Call(NextStmt, x),
               Target(Top.name, Top.i) = x,
               x = Top.name => Stmts[Top.i].op = "import",
               UNCHANGED << world, stack >>
        PROVE  FramesLinked(calls)' /\ FramesAsked(calls, stack)'
    <3>1. calls # << >> /\ Top.step = "scan" /\ Top.i \in ImportsOf(Top.name)
      BY <2>6, StmtInBody, TopFrame, WorldsAssumption
         DEF Scans, Loads, ImportsOf, Stmts, IInv
    <3>2. NextStmt = [Top EXCEPT !.i = Top.i + 1] /\ Top \in Frame
      BY <3>1, TopFrame DEF NextStmt
    <3>3. NextStmt.i - 1 = Top.i
      BY <3>2 DEF Frame
    <3>4. WaitsFor(NextStmt, LoadFrame(x, "enter", Len(stack)))
      BY <2>6, <3>1, <3>3, NextStmtGoesOn DEF WaitsFor, LoadFrame, Stmts
    <3>5. Asked(Requirer(stack, Len(stack)), x)
      <4>1. x \in Prefixes(x)
        BY NamesAssumption, PrefixSelf DEF NoName
      <4>2. Asked(Top.name, x)
        BY <2>6, <3>1, <4>1 DEF Asked, Asks, Stmts
      <4>3. QED
        BY <3>1, <4>2, RequirerThere
    <3>6. QED
      BY <2>6, <3>1, <3>4, <3>5, NextStmtGoesOn, LinkCall
  <2>7. CASE ScanImport
    <3>1. calls # << >> /\ Top.i \in ImportsOf(Top.name) /\ Top.name \in Names
      BY <2>7, StmtInBody, TopFrame, WorldsAssumption
         DEF ScanImport, Scans, Loads, ImportsOf, Stmts, IInv
    <3>2. /\ Target(Top.name, Top.i) = Stmts[Top.i].module /\ Stmts[Top.i].module \in Names
      BY <2>7, <3>1, TargetNamed DEF IInv, ScanImport, Scans, Stmts
    <3>3. QED
      BY <2>6, <2>7, <3>2 DEF ScanImport, Scans
  <2>8. CASE ScanFrom /\ Base \notin {NoName, Top.name}
    <3>1. calls # << >> /\ Top.i \in ImportsOf(Top.name) /\ Top.name \in Names
      BY <2>8, StmtInBody, TopFrame, WorldsAssumption
         DEF ScanFrom, Scans, Loads, ImportsOf, Stmts, IInv
    <3>2. Target(Top.name, Top.i) = Base /\ Base \in Names
      BY <2>8, <3>1, TargetNamed DEF IInv, ScanFrom, Scans, Stmts, Base
    <3>3. QED
      BY <2>6, <2>8, <3>2 DEF ScanFrom
  <2>9. QED
    BY <2>1, <2>2, <2>3, <2>4, <2>5, <2>7, <2>8 DEF LoaderNext
<1>3. QED
  BY <1>1, <1>2 DEF LinkInv

-------------------------------------------------------------------------------
(***************************************************************************)
(* Until a circle is reported, the packages of whatever is there are there *)
(* and not loading, and a module that waits for its package is not there.  *)
(* The two rest on each other: a module located while a frame below waits  *)
(* to locate it would be read twice, and loading again what its own        *)
(* modules take to be loaded.                                              *)
(***************************************************************************)
PrefixesThere ==
  NoCircle =>
    \A n \in Names : status[n] # "absent" =>
      \A x \in Prefixes(n) \ {n} : x \in Names /\ status[x] \notin {"absent", "loading"}

WaitingAbsent ==
  NoCircle =>
    \A k \in 1 .. Len(calls) :
      calls[k].step = "parent" => status[calls[k].name] = "absent"

\* What a frame that waits for its package gets.
ParentReturned ==
  calls # << >> /\ Top.step = "parent" =>
    /\ ret = NoName => ~ Clean
    /\ ret # NoName =>
         /\ ret = ParentName(Top.name) /\ status[ret] # "absent"
         /\ NoCircle => status[ret] # "loading"

WaitInv == PrefixesThere /\ WaitingAbsent /\ ParentReturned

Returns == Known \/ ParentFails \/ NotFound \/ LoadBuiltin \/ ReadFails \/ ScanDone

LEMMA FrameAt ==
  ASSUME IInv, NEW k \in 1 .. Len(calls)
  PROVE  /\ calls[k] \in Frame /\ calls[k].name \in Names /\ calls[k].at \in Nat
         /\ calls[k].step \in {"enter", "parent", "scan"}
         /\ Len(calls) \in Nat
<1>1. calls \in Seq(Frame)
  BY DEF IInv, FramesOK
<1>2. calls[k] \in Frame
  BY <1>1
<1>3. Len(calls) \in Nat
  BY <1>1
<1>4. QED
  BY <1>2, <1>3 DEF Frame

\* A module being scanned, the entry apart, is loading.
LEMMA ScanIsLoading ==
  ASSUME IInv, NEW k \in 2 .. Len(calls), calls[k].step = "scan"
  PROVE  status[calls[k].name] = "loading"
<1>1. k \in 1 .. Len(calls) /\ 1 \in 1 .. Len(calls) /\ 1 < k
  OBVIOUS
<1>2. calls # << >> /\ stack \in Seq(Names) /\ FramesOK(calls, stack)
  BY <1>1 DEF IInv
<1>3. calls[1].at < calls[k].at
  BY <1>1, <1>2 DEF FramesOK, FramesCounted, Deepen
<1>4. calls[k].at <= Len(stack)
  BY <1>1, <1>2, DepthsBounded
<1>5. calls[k].at \in 1 .. Len(stack)
  BY <1>1, <1>2, <1>3, <1>4, FrameAt
<1>6. stack[calls[k].at] = calls[k].name
  BY <1>2 DEF FramesOK, FramesPlaced, Placed
<1>7. calls[k].name \in Names
  BY <1>1, FrameAt
<1>8. QED
  BY <1>5, <1>6, <1>7 DEF IInv, StackExact

LEMMA ParentOther ==
  ASSUME NEW n \in Names, Len(n) > 1
  PROVE  /\ ParentName(n) \in Names /\ ParentName(n) # n
         /\ ParentName(n) \in Prefixes(n)
         /\ Prefixes(n) = Prefixes(ParentName(n)) \cup {n}
<1>1. n \in Seq(STRING) /\ ParentName(n) \in Names
  BY NamesAssumption
<1>2. /\ ParentName(n) \in Seq(STRING) /\ ParentName(n) # << >>
      /\ Prefixes(n) = Prefixes(ParentName(n)) \cup {n}
      /\ n \notin Prefixes(ParentName(n))
  BY <1>1, PrefixesStep
<1>3. ParentName(n) \in Prefixes(ParentName(n))
  BY <1>2, PrefixSelf
<1>4. QED
  BY <1>1, <1>2, <1>3

\* A module is located once its package is there, and is not there itself.
LEMMA LocatedAbsent ==
  ASSUME IInv, LinkInv, WaitInv, Locates, NoCircle
  PROVE  /\ status[Top.name] = "absent"
         /\ \A x \in Prefixes(Top.name) \ {Top.name} :
              x \in Names /\ status[x] \notin {"absent", "loading"}
<1>1. calls # << >> /\ Top.name \in Names /\ Len(calls) \in 1 .. Len(calls)
  BY LocatesNew, TopFrame
<1>2. CASE Loads("enter") /\ status[Top.name] = "absent" /\ Len(Top.name) = 1
  <2>1. Prefixes(Top.name) = {Top.name}
    BY <1>1, <1>2, PrefixesOne, NamesAssumption
  <2>2. QED
    BY <1>2, <2>1
<1>3. CASE Loads("parent") /\ ret # NoName
  <2>1. Top.step = "parent" /\ Len(Top.name) > 1
    BY <1>1, <1>3 DEF Loads, LinkInv, FramesLinked, Top
  <2>2. status[Top.name] = "absent"
    BY <1>1, <2>1 DEF WaitInv, WaitingAbsent, Top
  <2>3. /\ ret = ParentName(Top.name) /\ ret \in Names
        /\ status[ret] \notin {"absent", "loading"}
    BY <1>1, <1>3, <2>1, ParentOther DEF WaitInv, ParentReturned
  <2>4. Prefixes(Top.name) = Prefixes(ret) \cup {Top.name}
    BY <1>1, <2>1, <2>3, ParentOther
  <2>5. \A x \in Prefixes(ret) \ {ret} : x \in Names /\ status[x] \notin {"absent", "loading"}
    BY <2>3 DEF WaitInv, PrefixesThere
  <2>6. QED
    BY <2>2, <2>3, <2>4, <2>5
<1>4. QED
  BY <1>2, <1>3 DEF Locates

\* Nor does a frame below wait for its package to load the same module.
LEMMA LocatedOnce ==
  ASSUME IInv, LinkInv, WaitInv, Locates, NoCircle,
         NEW k \in 1 .. Len(calls) - 1, calls[k].step = "parent"
  PROVE  calls[k].name # Top.name
<1> SUFFICES ASSUME calls[k].name = Top.name PROVE FALSE
  OBVIOUS
<1>1. calls # << >> /\ Top.name \in Names /\ Len(calls) \in Nat \ {0}
  BY LocatesNew, TopFrame
<1>2. k \in 1 .. Len(calls) /\ k + 1 \in 1 .. Len(calls) /\ k + 1 \in 2 .. Len(calls)
  BY <1>1
<1>3. Len(Top.name) > 1 /\ calls[k + 1].name = ParentName(Top.name)
  BY <1>2 DEF LinkInv, FramesLinked, WaitsFor
<1>4. status[calls[k + 1].name] \notin {"absent", "loading"} /\ k + 1 # Len(calls)
  BY <1>1, <1>3, LocatedAbsent, ParentOther DEF Top
<1>5. k + 1 \in 1 .. Len(calls) - 1
  BY <1>1, <1>2, <1>4
<1>6. calls[k + 1].step \in {"parent", "scan"}
  BY <1>5 DEF LinkInv, FramesLinked, WaitsFor
<1>7. CASE calls[k + 1].step = "parent"
  BY <1>2, <1>4, <1>7 DEF WaitInv, WaitingAbsent
<1>8. CASE calls[k + 1].step = "scan"
  BY <1>2, <1>4, <1>8, ScanIsLoading
<1>9. QED
  BY <1>6, <1>7, <1>8

\* loadModule returns a module that is there, or nil once an error is reported.
LEMMA ReturnOutcome ==
  ASSUME IInv, LinkInv, ParentReturned, Returns
  PROVE  /\ calls # << >> /\ Return(ret')
         /\ \/ ret' = NoName /\ ~ Clean'
            \/ /\ ret' = Top.name /\ ret' \in Names /\ status'[ret'] # "absent"
               /\ NoCircle' => status'[ret'] # "loading"
<1>1. calls # << >> /\ Top.name \in Names
  BY TopFrame, LocatesNew DEF Returns, Known, ParentFails, NotFound, LoadBuiltin, ReadFails,
     ScanDone, Loads
<1>2. ErrsTyped /\ status \in [Names -> Statuses]
  BY DEF LinkInv, IInv
<1>3. CASE Known
  <2>1. /\ ret' = Top.name /\ status' = status /\ status[Top.name] # "absent"
        /\ Return(ret')
    BY <1>3 DEF Known, Return
  <2>2. ASSUME NoCircle', status[Top.name] = "loading" PROVE FALSE
    <3>1. Report(Error("circular", CycleFrom(Top.name)))
      BY <1>3, <2>2 DEF Known, IsLoading
    <3>2. Error("circular", CycleFrom(Top.name)) \in Errors
      BY <1>1, CycleTyped
    <3>3. QED
      BY <1>2, <2>2, <3>1, <3>2, Reported DEF Error
  <2>3. QED
    BY <1>1, <2>1, <2>2
<1>4. CASE ParentFails
  <2>1. Return(ret') /\ ret' = NoName
    BY <1>4 DEF ParentFails, Return
  <2>2. CASE ret = NoName /\ UNCHANGED errs
    BY <1>1, <1>4, <2>1, <2>2 DEF ParentFails, ParentReturned, Loads, Clean
  <2>3. CASE Report(Error("not a package", Top.name))
    BY <1>1, <1>2, <2>1, <2>3, OtherReported DEF Codes
  <2>4. QED
    BY <1>4, <2>2, <2>3 DEF ParentFails
<1>5. CASE NotFound \/ ReadFails
  <2>1. Return(ret') /\ ret' = NoName /\ Report(Error("not found", Top.name))
    BY <1>5 DEF NotFound, ReadFails, Return
  <2>2. QED
    BY <1>1, <1>2, <2>1, OtherReported DEF Codes
<1>6. CASE LoadBuiltin
  <2>1. /\ Return(ret') /\ ret' = Top.name
        /\ status' = [status EXCEPT ![Top.name] = "native"]
    BY <1>6 DEF LoadBuiltin, Return
  <2>2. QED
    BY <1>1, <1>2, <2>1
<1>7. CASE ScanDone
  <2>1. Return(ret') /\ ret' = Top.name
    BY <1>7 DEF ScanDone, Return
  <2>2. status'[Top.name] = "ready"
    BY <1>1, <1>2, <1>7 DEF ScanDone, Loaded, IInv
  <2>3. QED
    BY <1>1, <2>1, <2>2
<1>8. QED
  BY <1>3, <1>4, <1>5, <1>6, <1>7 DEF Returns

\* How the status of the modules changes.
LEMMA StatusStep ==
  ASSUME IInv, LoaderNext
  PROVE  \/ UNCHANGED status
         \/ /\ Locates /\ Top.name \in Names
            /\ \E v \in {"native", "dead", "loading"} :
                 status' = [status EXCEPT ![Top.name] = v]
         \/ /\ ScanDone /\ Top.name # Main /\ Top.name \in Names
            /\ status[Top.name] = "loading"
            /\ status' = [status EXCEPT ![Top.name] = "ready"]
<1>1. CASE UNCHANGED status
  BY <1>1
<1>2. CASE LoadBuiltin \/ ReadFails \/ ReadSource
  <2>1. Locates /\ Top.name \in Names
    BY <1>2, LocatesNew, TopFrame DEF LoadBuiltin, ReadFails, ReadSource
  <2>2. QED
    BY <1>2, <2>1 DEF LoadBuiltin, ReadFails, ReadSource
<1>3. CASE ScanDone /\ Top.name # Main
  <2>1. calls # << >> /\ Top.step = "scan" /\ Top.name \in Names
    BY <1>3, TopFrame DEF ScanDone, Loads
  <2>2. Len(calls) \in 2 .. Len(calls)
    <3> DEFINE n == Len(calls)
    <3>1. n \in Nat /\ n # 0 /\ n # 1
      BY <1>3, <2>1, TopFrame DEF IInv, FramesOK, FramesCounted, EntryFirst, Top
    <3> HIDE DEF n
    <3>2. n \in 2 .. n
      BY <3>1
    <3>3. QED
      BY <3>2 DEF n
  <2>3. status[Top.name] = "loading"
    BY <2>1, <2>2, ScanIsLoading DEF Top
  <2>4. QED
    BY <1>3, <2>1, <2>3 DEF ScanDone, Loaded
<1>4. QED
  BY <1>1, <1>2, <1>3
     DEF LoaderNext, Known, AskParent, ParentFails, NotFound, ScanImport, ScanFrom,
         ScanOther, ScanDone

\* Which frames wait for their package after a step.
LEMMA FramesStep ==
  ASSUME IInv, LoaderNext
  PROVE  /\ Len(calls') \in Nat
         /\ \A k \in 1 .. Len(calls') :
              \/ /\ k \in 1 .. Len(calls) - 1 /\ calls'[k] = calls[k]
              \/ /\ k = Len(calls) /\ k \in 1 .. Len(calls) /\ calls'[k].name = Top.name
                 /\ \/ AskParent /\ calls'[k] = [Top EXCEPT !.step = "parent"]
                    \/ calls'[k] = NextStmt /\ (ScanImport \/ ScanFrom \/ ScanOther)
                    \/ calls'[k].step = "scan" /\ calls'[k].i = 1 /\ ReadSource
              \/ k = Len(calls) + 1 /\ calls'[k].step = "enter"
         /\ IF Returns THEN Len(calls') = Len(calls) - 1
                       ELSE Len(calls') >= Len(calls)
<1>1. calls # << >> /\ calls \in Seq(Frame) /\ Len(calls) \in Nat \ {0} /\ Top \in Frame
  <2>1. calls # << >>
    BY DEF LoaderNext, Known, AskParent, ParentFails, NotFound, LoadBuiltin, Locates,
       ReadFails, ReadSource, ScanImport, ScanFrom, ScanOther, ScanDone, Scans, Loads
  <2>2. QED
    BY <2>1, TopFrame
<1>2. CASE Returns
  <2>1. calls' = SubSeq(calls, 1, Len(calls) - 1)
    BY <1>2 DEF Returns, Known, ParentFails, NotFound, LoadBuiltin, ReadFails, ScanDone,
       Return
  <2>2. /\ Len(calls') = Len(calls) - 1
        /\ \A k \in 1 .. Len(calls) - 1 : calls'[k] = calls[k]
    BY <1>1, <2>1, Shortened
  <2>3. QED
    BY <1>1, <1>2, <2>2
<1>3. ASSUME NEW f \in Frame, f.name = Top.name,
             \/ AskParent /\ f = [Top EXCEPT !.step = "parent"]
             \/ f = NextStmt /\ (ScanImport \/ ScanFrom \/ ScanOther)
             \/ f.step = "scan" /\ f.i = 1 /\ ReadSource,
             \/ calls' = Step(f)
             \/ \E x \in Names : Call(f, x)
      PROVE  \/ Returns
             \/ /\ Len(calls') \in Nat /\ Len(calls') >= Len(calls)
                /\ \A k \in 1 .. Len(calls') :
                     \/ /\ k \in 1 .. Len(calls) - 1 /\ calls'[k] = calls[k]
                     \/ k = Len(calls) /\ k \in 1 .. Len(calls) /\ calls'[k] = f
                     \/ k = Len(calls) + 1 /\ calls'[k].step = "enter"
  <2> DEFINE c == [calls EXCEPT ![Len(calls)] = f]
  <2>1. /\ c \in Seq(Frame) /\ Len(c) = Len(calls) /\ c[Len(calls)] = f
        /\ \A k \in 1 .. Len(calls) - 1 : c[k] = calls[k]
    BY <1>1
  <2> HIDE DEF c
  <2>2. CASE calls' = Step(f)
    <3>1. calls' = c
      BY <2>2 DEF Step, c
    <3>2. QED
      BY <1>1, <2>1, <3>1
  <2>3. ASSUME NEW x \in Names, Call(f, x)
        PROVE  /\ Len(calls') \in Nat /\ Len(calls') >= Len(calls)
               /\ \A k \in 1 .. Len(calls') :
                     \/ /\ k \in 1 .. Len(calls) - 1 /\ calls'[k] = calls[k]
                     \/ k = Len(calls) /\ k \in 1 .. Len(calls) /\ calls'[k] = f
                     \/ k = Len(calls) + 1 /\ calls'[k].step = "enter"
    <3> DEFINE g == LoadFrame(x, "enter", Len(stack))
    <3>1. g \in Frame /\ g.step = "enter"
      BY DEF LoadFrame, Frame, IInv
    <3>2. calls' = Append(c, g)
      BY <2>3 DEF Call, Step, c
    <3> HIDE DEF g
    <3>3. /\ Len(calls') = Len(calls) + 1 /\ calls'[Len(calls) + 1] = g
          /\ \A k \in 1 .. Len(calls) : calls'[k] = c[k]
      BY <1>1, <2>1, <3>1, <3>2
    <3>4. QED
      BY <1>1, <2>1, <3>1, <3>3
  <2>4. QED
    BY <1>3, <2>2, <2>3
<1>4. CASE AskParent /\ ~ Returns
  <2> DEFINE f == [Top EXCEPT !.step = "parent"]
  <2>1. f \in Frame /\ f.name = Top.name
    BY <1>1 DEF Frame
  <2>2. ParentName(Top.name) \in Names /\ Call(f, ParentName(Top.name))
    BY <1>1, <1>4, TopFrame, NamesAssumption DEF AskParent
  <2> HIDE DEF f
  <2>3. QED
    BY <1>3, <1>4, <2>1, <2>2 DEF f
<1>5. CASE ReadSource /\ ~ Returns
  <2> DEFINE f == LoadFrame(Top.name, "scan", Len(stack) + 1)
  <2>1. f \in Frame /\ f.name = Top.name /\ f.step = "scan" /\ f.i = 1
    BY <1>1, TopFrame DEF LoadFrame, Frame, IInv
  <2>2. calls' = Step(f)
    BY <1>5 DEF ReadSource
  <2> HIDE DEF f
  <2>3. QED
    BY <1>3, <1>5, <2>1, <2>2
<1>6. CASE (ScanImport \/ ScanFrom \/ ScanOther) /\ ~ Returns
  <2>1. calls' = Step(NextStmt) \/ \E x \in Names : Call(NextStmt, x)
    BY <1>6, StmtInBody, NamedInWorld DEF ScanImport, ScanFrom, ScanOther, Scans, Loads
  <2>2. QED
    BY <1>1, <1>3, <1>6, <2>1, NextStmtGoesOn
<1>7. QED
  BY <1>2, <1>4, <1>5, <1>6 DEF LoaderNext, Returns

LEMMA PrefixesKept ==
  ASSUME IInv, LinkInv, WaitInv, LoaderNext
  PROVE  PrefixesThere'
<1> SUFFICES ASSUME NoCircle', NEW n \in Names, status'[n] # "absent",
                    NEW x \in Prefixes(n) \ {n}
             PROVE  x \in Names /\ status'[x] \notin {"absent", "loading"}
  BY DEF PrefixesThere
<1>1. NoCircle
  BY ErrsGrow DEF LinkInv
<1>2. status \in [Names -> Statuses]
  BY DEF IInv
<1>3. ASSUME status[n] # "absent"
      PROVE  x \in Names /\ status[x] \notin {"absent", "loading"}
  BY <1>1, <1>3 DEF WaitInv, PrefixesThere
<1>4. CASE UNCHANGED status
  BY <1>3, <1>4
<1>5. ASSUME NEW v, Locates, Top.name \in Names, status' = [status EXCEPT ![Top.name] = v]
      PROVE  x \in Names /\ status'[x] \notin {"absent", "loading"}
  <2>1. /\ status[Top.name] = "absent"
        /\ \A y \in Prefixes(Top.name) \ {Top.name} :
             y \in Names /\ status[y] \notin {"absent", "loading"}
    BY <1>1, <1>5, LocatedAbsent
  <2>2. x \in Names /\ status[x] \notin {"absent", "loading"}
    BY <1>2, <1>3, <1>5, <2>1
  <2>3. x # Top.name
    BY <2>1, <2>2
  <2>4. QED
    BY <1>2, <1>5, <2>2, <2>3
<1>6. CASE /\ Top.name \in Names /\ status[Top.name] = "loading"
           /\ status' = [status EXCEPT ![Top.name] = "ready"]
  <2>1. x \in Names /\ status[x] \notin {"absent", "loading"}
    BY <1>2, <1>3, <1>6
  <2>2. QED
    BY <1>2, <1>6, <2>1
<1>7. QED
  BY <1>4, <1>5, <1>6, StatusStep

LEMMA WaitingKept ==
  ASSUME IInv, LinkInv, WaitInv, LoaderNext
  PROVE  WaitingAbsent'
<1> SUFFICES ASSUME NoCircle', NEW k \in 1 .. Len(calls'), calls'[k].step = "parent"
             PROVE  status'[calls'[k].name] = "absent"
  BY DEF WaitingAbsent
<1>1. NoCircle /\ status \in [Names -> Statuses]
  BY ErrsGrow DEF LinkInv, IInv
<1>2. CASE k \in 1 .. Len(calls) - 1 /\ calls'[k] = calls[k]
  <2>1. k \in 1 .. Len(calls) /\ calls[k].name \in Names
    BY <1>2, FrameAt DEF IInv, FramesOK
  <2>2. status[calls[k].name] = "absent"
    BY <1>1, <1>2, <2>1 DEF WaitInv, WaitingAbsent
  <2>3. CASE UNCHANGED status
    BY <1>2, <2>2, <2>3
  <2>4. ASSUME NEW v, Locates, Top.name \in Names, status' = [status EXCEPT ![Top.name] = v]
        PROVE  status'[calls[k].name] = "absent"
    <3>1. calls[k].name # Top.name
      BY <1>1, <1>2, <2>4, LocatedOnce
    <3>2. QED
      BY <1>1, <2>1, <2>2, <2>4, <3>1
  <2>5. CASE /\ Top.name \in Names /\ status[Top.name] = "loading"
             /\ status' = [status EXCEPT ![Top.name] = "ready"]
    BY <1>1, <1>2, <2>1, <2>2, <2>5
  <2>6. QED
    BY <1>2, <2>3, <2>4, <2>5, StatusStep
<1>3. CASE AskParent /\ calls'[k].name = Top.name
  BY <1>3 DEF AskParent
<1>4. calls'[k] # NextStmt \/ ~ (ScanImport \/ ScanFrom \/ ScanOther)
  <2> SUFFICES ASSUME calls'[k] = NextStmt, ScanImport \/ ScanFrom \/ ScanOther
               PROVE  FALSE
    OBVIOUS
  <2>1. calls # << >> /\ Top.step = "scan"
    BY DEF ScanImport, ScanFrom, ScanOther, Scans, Loads
  <2>2. QED
    BY <2>1, NextStmtGoesOn
<1>5. QED
  BY <1>2, <1>3, <1>4, FramesStep

\* The frame on top after a step that does not return.
LEMMA TopAfter ==
  ASSUME IInv, calls # << >>, NEW f \in Frame
  PROVE  /\ calls' = Step(f) => calls'[Len(calls')] = f
         /\ \A x \in Names : Call(f, x) => calls'[Len(calls')].step = "enter"
<1> DEFINE c == Step(f)
<1>1. calls \in Seq(Frame) /\ Len(calls) \in 1 .. Len(calls)
  BY TopFrame
<1>2. c \in Seq(Frame) /\ Len(c) = Len(calls) /\ c[Len(calls)] = f
  BY <1>1 DEF Step
<1> HIDE DEF c
<1>3. calls' = c => calls'[Len(calls')] = f
  BY <1>2
<1>4. ASSUME NEW x \in Names, Call(f, x) PROVE calls'[Len(calls')].step = "enter"
  <2> DEFINE g == LoadFrame(x, "enter", Len(stack))
  <2>1. g \in Frame /\ g.step = "enter"
    BY DEF LoadFrame, Frame, IInv
  <2>2. calls' = Append(c, g)
    BY <1>4 DEF Call, c
  <2> HIDE DEF g
  <2>3. calls'[Len(calls')] = g
    BY <1>2, <2>1, <2>2
  <2>4. QED
    BY <2>1, <2>3
<1>5. QED
  BY <1>3, <1>4 DEF c

LEMMA ParentReturnedKept ==
  ASSUME IInv, LinkInv, WaitInv, LoaderNext
  PROVE  ParentReturned'
<1> DEFINE n == Len(calls')
<1> SUFFICES ASSUME calls' # << >>, calls'[n].step = "parent"
             PROVE  /\ ret' = NoName => ~ Clean'
                    /\ ret' # NoName =>
                         /\ ret' = ParentName(calls'[n].name) /\ status'[ret'] # "absent"
                         /\ NoCircle' => status'[ret'] # "loading"
  BY DEF ParentReturned, Top
<1>1. calls' \in Seq(Frame) /\ n \in 1 .. Len(calls')
  <2>1. calls' \in Seq(Frame)
    BY StepKeeps DEF IInv, FramesOK
  <2>2. QED
    BY <2>1
<1>2. CASE Returns
  <2>1. /\ calls # << >>
        /\ \/ ret' = NoName /\ ~ Clean'
           \/ /\ ret' = Top.name /\ ret' \in Names /\ status'[ret'] # "absent"
              /\ NoCircle' => status'[ret'] # "loading"
    BY <1>2, ReturnOutcome DEF WaitInv
  <2>2. n = Len(calls) - 1 /\ Len(calls) \in Nat
    BY <1>2, <2>1, FramesStep, TopFrame
  <2>3. n \in 1 .. Len(calls) - 1 /\ calls'[n] = calls[n] /\ n + 1 = Len(calls)
    BY <1>1, <2>2, FramesStep
  <2>4. Top.name = ParentName(calls'[n].name)
    BY <2>3 DEF LinkInv, FramesLinked, WaitsFor, Top
  <2>5. NoName \notin Names
    BY NamesAssumption
  <2>6. QED
    BY <2>1, <2>4, <2>5
<1>3. CASE ~ Returns
  <2>1. CASE AskParent
    <3> DEFINE f == [Top EXCEPT !.step = "parent"]
    <3>1. calls # << >> /\ Call(f, ParentName(Top.name))
      BY <2>1 DEF AskParent, Loads
    <3>2. f \in Frame /\ ParentName(Top.name) \in Names
      BY <2>1, <3>1, TopFrame, NamesAssumption DEF Frame, AskParent
    <3> HIDE DEF f
    <3>3. QED
      BY <3>1, <3>2, TopAfter
  <2>2. CASE ReadSource
    <3> DEFINE f == LoadFrame(Top.name, "scan", Len(stack) + 1)
    <3>1. calls # << >> /\ calls' = Step(f)
      BY <2>2, LocatesNew DEF ReadSource
    <3>2. f \in Frame /\ f.step = "scan"
      BY <3>1, TopFrame DEF LoadFrame, Frame, IInv
    <3> HIDE DEF f
    <3>3. QED
      BY <3>1, <3>2, TopAfter
  <2>3. CASE ScanImport \/ ScanFrom \/ ScanOther
    <3>1. /\ calls # << >> /\ Top.step = "scan"
          /\ calls' = Step(NextStmt) \/ \E x \in Names : Call(NextStmt, x)
      BY <2>3, StmtInBody, NamedInWorld DEF ScanImport, ScanFrom, ScanOther, Scans, Loads
    <3>2. QED
      BY <3>1, NextStmtGoesOn, TopAfter
  <2>4. QED
    BY <1>3, <2>1, <2>2, <2>3 DEF LoaderNext, Returns
<1>4. QED
  BY <1>2, <1>3

LEMMA WaitKept == IInv /\ LinkInv /\ WaitInv /\ LoaderNext => WaitInv'
BY PrefixesKept, WaitingKept, ParentReturnedKept DEF WaitInv

LEMMA InitWaits == Init => WaitInv
<1> SUFFICES ASSUME Init PROVE WaitInv
  OBVIOUS
<1>1. /\ calls = << LoadFrame(Main, "scan", 0) >> /\ Len(calls) = 1
      /\ calls[1].step = "scan" /\ Top = calls[1]
  BY DEF Init, LoadFrame, Top
<1>2. Prefixes(Main) = {Main}
  <2>1. Main \in Seq(STRING)
    BY NamesAssumption
  <2>2. Len(Main) = 1
    BY DEF Main
  <2>3. QED
    BY <2>1, <2>2, PrefixesOne
<1>3. PrefixesThere
  BY <1>2 DEF PrefixesThere, Init
<1>4. QED
  BY <1>1, <1>3 DEF WaitInv, WaitingAbsent, ParentReturned

-------------------------------------------------------------------------------
(***************************************************************************)
(* What is loading, and what has been loaded.                              *)
(***************************************************************************)

\* Each module on the stack is there because the one below needs it.
StackNeeded ==
  NoCircle => \A q \in 2 .. Len(stack) : stack[q] \in Needs(stack[q - 1])

CycleFound == ~ NoCircle => \E S \in SUBSET Names : Circular(S)

\* The entry is apart: it is marked ready before it is scanned.
Settled == {n \in Names : status[n] \in {"ready", "native"}} \ {Main}

NoneDead == Clean => \A n \in Names : status[n] # "dead"

OnlyNeeded ==
  Clean => \A S \in SUBSET Names :
    Main \in S /\ (\A n \in S : Needs(n) \subseteq S) =>
      \A n \in Names : status[n] # "absent" => n \in S

\* Statement j of m has been seen to: its module is there and not loading.
StmtSettled(m, j) ==
  j \in ImportsOf(m) =>
    \/ Target(m, j) \in Names /\ status[Target(m, j)] \in {"ready", "native"}
    \/ Target(m, j) = m /\ world.body[m][j].op = "from"

\* A scan has seen to the statements before the one it is at; where it waits
\* for a module, the statement that names it is not seen to yet.
Scanned ==
  Clean => \A k \in 1 .. Len(calls) : calls[k].step = "scan" =>
    \A j \in 1 .. calls[k].i - 1, m \in {calls[k].name} :
      k = Len(calls) \/ j # calls[k].i - 1 => StmtSettled(m, j)

Closed == Clean => \A n \in Settled : Needs(n) \subseteq Settled

NoCircleSettled == Clean => \A S \in SUBSET Settled : ~ Circular(S)

EntryClosed == Clean /\ calls = << >> => Needs(Main) \subseteq Settled

LoadedInv ==
  /\ StackNeeded /\ NoneDead /\ OnlyNeeded
  /\ Scanned /\ Closed /\ NoCircleSettled /\ EntryClosed

-------------------------------------------------------------------------------
LEMMA NeedsSame ==
  ASSUME world' = world
  PROVE  /\ \A m : Needs(m)' = Needs(m)
         /\ \A S : Circular(S)' = Circular(S)
<1>1. \A m : Targets(m)' = Targets(m)
  BY WorldSame DEF Targets
<1>2. \A m : ImportsItself(m)' = ImportsItself(m)
  BY WorldSame DEF ImportsItself
<1>3. \A m : Needs(m)' = Needs(m)
  BY <1>1, <1>2, WorldSame DEF Needs
<1>4. QED
  BY <1>3 DEF Circular

LEMMA NeedsOf ==
  ASSUME NEW m \in Sources, NEW n
  PROVE  n \in Needs(m) <=>
           /\ n # Main
           /\ \/ \E t \in Targets(m) \ {m} : n = t \/ n \in Prefixes(t) \ Prefixes(m)
              \/ n = m /\ ImportsItself(m)
<1> DEFINE named == UNION {{t} \cup (Prefixes(t) \ Prefixes(m)) : t \in Targets(m) \ {m}}
           own   == {x \in {m} : ImportsItself(m)}
<1>1. n \in named <=> \E t \in Targets(m) \ {m} : n = t \/ n \in Prefixes(t) \ Prefixes(m)
  OBVIOUS
<1>2. n \in own <=> n = m /\ ImportsItself(m)
  OBVIOUS
<1>3. Needs(m) = IF m \notin Sources THEN {} ELSE (named \cup own) \ {Main}
  BY DEF Needs
<1> HIDE DEF named, own
<1>4. QED
  BY <1>1, <1>2, <1>3

\* What a module asks for, it needs, the packages it is in itself apart.
LEMMA AskedIsNeeded ==
  ASSUME AnchoredImports, world \in Worlds, NEW m \in Sources \cap Names, NEW n \in Names,
         Asked(m, n), n # Main, n \notin Prefixes(m)
  PROVE  n \in Needs(m)
<1>1. PICK i \in ImportsOf(m) : Asks(m, i, n)
  BY DEF Asked
<1>2. n \in Prefixes(Target(m, i)) /\ Target(m, i) # m
  BY <1>1 DEF Asks
<1>3. Target(m, i) # NoName
  BY <1>2 DEF Prefixes, NoName
<1>4. Target(m, i) \in Targets(m) \ {m}
  BY <1>2, <1>3 DEF Targets
<1>5. QED
  BY <1>2, <1>4, NeedsOf

\* A module that imports itself by name needs itself.
LEMMA SelfIsNeeded ==
  ASSUME AnchoredImports, NoOwnImports, world \in Worlds, NEW m \in Sources \cap Names,
         Asked(m, m), m # Main
  PROVE  m \in Needs(m)
<1>1. PICK i \in ImportsOf(m) : Asks(m, i, m)
  BY DEF Asked
<1>2. i \in DOMAIN world.body[m] /\ world.body[m][i].op # "if"
  BY DEF ImportsOf
<1>3. Target(m, i) = m
  BY <1>1, <1>2 DEF NoOwnImports, Asks, Target, IsPackage
<1>4. world.body[m][i] = Import(m)
  BY <1>1, <1>3, TargetNamed DEF Asks
<1>5. QED
  BY <1>4, NeedsOf DEF ImportsItself

\* What the module at work asks for and is not there or still loading is in
\* no package of its own.
LEMMA NotOwnPackage ==
  ASSUME IInv, WaitInv, NoCircle, NEW m \in Names, status[m] # "absent",
         NEW n \in Names, n # m, status[n] \in {"absent", "loading"}
  PROVE  n \notin Prefixes(m)
BY DEF WaitInv, PrefixesThere

\* The module at work needs what is located.
LEMMA LocatedIsNeeded ==
  ASSUME AnchoredImports, IInv, LinkInv, WaitInv, Locates, NoCircle
  PROVE  Top.name \in Needs(Requirer(stack, Len(stack)))
<1> DEFINE m == Requirer(stack, Len(stack))
<1>1. /\ calls # << >> /\ Top.name \in Names /\ Top.at = Len(stack)
      /\ Top.step # "scan" /\ Top.name # Main
  BY LocatesNew, TopFrame
<1>2. m \in Names /\ status[m] \in {"loading", "ready"}
  BY <1>1, RequirerThere
<1>3. m \in Sources
  BY <1>2 DEF LinkInv, KindsKnown
<1>4. Asked(m, Top.name)
  BY <1>1, NotTheEntry DEF LinkInv, FramesAsked, Top
<1> HIDE DEF m
<1>5. status[Top.name] = "absent"
  BY LocatedAbsent
<1>6. Top.name \notin Prefixes(m)
  BY <1>1, <1>2, <1>5, NotOwnPackage
<1>7. Top.name \in Needs(m)
  BY <1>1, <1>2, <1>3, <1>4, <1>6, AskedIsNeeded DEF IInv
<1>8. QED
  BY <1>7 DEF m

\* A circle is only reported where a module is loading.
LEMMA CircleReported ==
  ASSUME IInv, LinkInv, LoaderNext, NoCircle, ~ NoCircle'
  PROVE  Known /\ IsLoading(Top.name)
<1>1. errs' # errs
  BY DEF NoCircle
<1>2. calls # << >> /\ Top.name \in Names /\ ErrsTyped
  <2>1. calls # << >>
    BY DEF LoaderNext, Known, AskParent, ParentFails, NotFound, LoadBuiltin, Locates,
       ReadFails, ReadSource, ScanImport, ScanFrom, ScanOther, ScanDone, Scans, Loads
  <2>2. QED
    BY <2>1, TopFrame DEF LinkInv
<1>3. ASSUME NEW code \in Codes \ {"circular"} PROVE ~ Report(Error(code, Top.name))
  <2> SUFFICES ASSUME Report(Error(code, Top.name)) PROVE FALSE
    OBVIOUS
  <2>1. Error(code, Top.name) \in Errors /\ Error(code, Top.name).code # "circular"
    BY <1>2 DEF Error, Errors
  <2>2. QED
    BY <1>2, <2>1, Reported
<1>4. ~ ParentFails /\ ~ NotFound /\ ~ ReadFails /\ ~ ScanFrom
  <2>1. ~ Report(Error("not a package", Top.name)) /\ ~ Report(Error("not found", Top.name))
        /\ ~ Report(Error("no parent", Top.name))
    BY <1>3 DEF Codes
  <2>2. QED
    BY <1>1, <2>1 DEF ParentFails, NotFound, ReadFails, ScanFrom
<1>5. Known
  BY <1>1, <1>4 DEF LoaderNext, AskParent, LoadBuiltin, ReadSource, ScanImport, ScanOther,
     ScanDone
<1>6. QED
  BY <1>1, <1>5 DEF Known

\* A module asked for while it is loading closes a circle on the stack.
LEMMA CycleKept ==
  ASSUME AnchoredImports, NoOwnImports,
         IInv, LinkInv, WaitInv, StackNeeded, CycleFound, LoaderNext
  PROVE  CycleFound'
<1>1. ASSUME NEW S \in SUBSET Names, Circular(S) PROVE CycleFound'
  <2>1. Circular(S)'
    BY <1>1, ErrsGrow, NeedsSame DEF LinkInv
  <2>2. QED
    BY <2>1 DEF CycleFound
<1>2. CASE NoCircle /\ ~ NoCircle'
  <2> DEFINE x == Top.name
             m == Requirer(stack, Len(stack))
  <2>1. Known /\ status[x] = "loading"
    BY <1>2, CircleReported DEF IsLoading
  <2>2. /\ calls # << >> /\ Top.step # "scan" /\ x \in Names /\ Top.at = Len(stack)
        /\ stack \in Seq(Names) /\ Len(stack) \in Nat
    BY <2>1, TopFrame DEF Known, Loads, IInv
  <2>3. PICK p \in 1 .. Len(stack) : stack[p] = x
    BY <2>1, <2>2 DEF IInv, StackExact
  <2>4. /\ m = stack[Len(stack)] /\ m \in Names /\ status[m] \in {"loading", "ready"}
        /\ m \in Sources
    <3>1. m \in Names /\ status[m] \in {"loading", "ready"}
      BY <2>2, RequirerThere
    <3>2. m = stack[Len(stack)]
      BY <2>2, <2>3 DEF Requirer
    <3>3. m \in Sources
      BY <3>1 DEF LinkInv, KindsKnown
    <3>4. QED
      BY <3>1, <3>2, <3>3
  <2>5. Asked(m, x)
    BY <2>2, NotTheEntry DEF LinkInv, FramesAsked, Top
  <2>6. x # Main
    BY <2>1 DEF IInv
  <2> HIDE DEF x, m
  <2>7. x \in Needs(m)
    <3>1. CASE x = m
      BY <2>4, <2>5, <2>6, <3>1, SelfIsNeeded DEF IInv
    <3>2. CASE x # m
      <4>1. x \notin Prefixes(m)
        BY <1>2, <2>1, <2>2, <2>4, <3>2, NotOwnPackage DEF x
      <4>2. QED
        BY <2>2, <2>4, <2>5, <2>6, <4>1, AskedIsNeeded DEF IInv, x
    <3>3. QED
      BY <3>1, <3>2
  <2> DEFINE S == {stack[q] : q \in p .. Len(stack)}
  <2>8. S \in SUBSET Names /\ S # {}
    BY <2>2, <2>3
  <2>9. ASSUME NEW q \in p .. Len(stack) PROVE Needs(stack[q]) \cap S # {}
    <3>1. CASE q = Len(stack)
      <4>1. x \in S
        BY <2>2, <2>3
      <4>2. QED
        BY <2>4, <2>7, <3>1, <4>1
    <3>2. CASE q # Len(stack)
      <4>1. q + 1 \in 2 .. Len(stack) /\ q + 1 \in p .. Len(stack)
        BY <2>2, <2>3, <3>2
      <4>2. stack[q + 1] \in Needs(stack[q + 1 - 1]) /\ q + 1 - 1 = q
        BY <1>2, <4>1 DEF StackNeeded
      <4>3. stack[q + 1] \in S
        BY <4>1
      <4>4. QED
        BY <4>2, <4>3
    <3>3. QED
      BY <3>1, <3>2
  <2>10. Circular(S)
    BY <2>8, <2>9 DEF Circular
  <2> HIDE DEF S
  <2>11. QED
    BY <1>1, <2>8, <2>10
<1>3. CASE ~ NoCircle
  BY <1>1, <1>3 DEF CycleFound
<1>4. CASE NoCircle'
  BY <1>4 DEF CycleFound
<1>5. QED
  BY <1>2, <1>3, <1>4

LEMMA StackNeededKept ==
  ASSUME AnchoredImports, IInv, LinkInv, WaitInv, StackNeeded, LoaderNext
  PROVE  StackNeeded'
<1> SUFFICES ASSUME NoCircle', NEW q \in 2 .. Len(stack')
             PROVE  stack'[q] \in Needs(stack'[q - 1])
  BY ErrsGrow, NeedsSame DEF StackNeeded, LinkInv
<1>1. NoCircle /\ stack \in Seq(Names) /\ Len(stack) \in Nat
  BY ErrsGrow DEF LinkInv, IInv
<1>2. CASE UNCHANGED stack
  BY <1>1, <1>2 DEF StackNeeded
<1>3. CASE ReadSource
  <2>1. Locates /\ Top.name \in Names /\ stack' = Append(stack, Top.name)
    BY <1>3, LocatesNew, TopFrame DEF ReadSource
  <2>2. /\ Len(stack') = Len(stack) + 1 /\ stack'[Len(stack) + 1] = Top.name
        /\ \A n \in 1 .. Len(stack) : stack'[n] = stack[n]
    BY <1>1, <2>1
  <2>3. CASE q = Len(stack) + 1
    <3>1. Len(stack) # 0 /\ q - 1 = Len(stack) /\ q - 1 \in 1 .. Len(stack)
      BY <1>1, <2>2, <2>3
    <3>2. stack'[q - 1] = Requirer(stack, Len(stack))
      BY <2>2, <3>1 DEF Requirer
    <3>3. Top.name \in Needs(Requirer(stack, Len(stack)))
      BY <1>1, <2>1, LocatedIsNeeded
    <3>4. QED
      BY <2>2, <2>3, <3>2, <3>3
  <2>4. CASE q # Len(stack) + 1
    <3>1. q \in 2 .. Len(stack) /\ q \in 1 .. Len(stack) /\ q - 1 \in 1 .. Len(stack)
      BY <1>1, <2>2, <2>4
    <3>2. QED
      BY <1>1, <2>2, <3>1 DEF StackNeeded
  <2>5. QED
    BY <2>3, <2>4
<1>4. CASE ScanDone /\ stack' = SubSeq(stack, 1, Len(stack) - 1) /\ stack # << >>
  <2>1. /\ Len(stack') = Len(stack) - 1
        /\ \A n \in 1 .. Len(stack) - 1 : stack'[n] = stack[n]
    BY <1>1, <1>4, Shortened
  <2>2. q \in 2 .. Len(stack) /\ q \in 1 .. Len(stack) - 1 /\ q - 1 \in 1 .. Len(stack) - 1
    BY <1>1, <2>1
  <2>3. QED
    BY <1>1, <2>1, <2>2 DEF StackNeeded
<1>5. CASE ScanDone /\ Top.name # Main
  <2>1. calls # << >> /\ Top.step = "scan" /\ Len(calls) # 1
    BY <1>5 DEF ScanDone, Loads, IInv, FramesOK, FramesCounted, EntryFirst, Top
  <2>2. stack # << >>
    BY <1>1, <2>1, FramesPop DEF IInv, Top
  <2>3. QED
    BY <1>4, <1>5, <2>2 DEF ScanDone, Popped
<1>6. QED
  BY <1>2, <1>3, <1>5
     DEF LoaderNext, Known, AskParent, ParentFails, NotFound, LoadBuiltin, ReadFails,
         ScanImport, ScanFrom, ScanOther, ScanDone

\* Without an error, what is settled stays so, and what is settled by a step
\* needs nothing or has been scanned.
LEMMA SettledGrows ==
  ASSUME IInv, LinkInv, WaitInv, LoaderNext, Clean'
  PROVE  /\ Clean /\ NoCircle
         /\ \A n \in Names : status[n] \in {"ready", "native"} =>
              status'[n] \in {"ready", "native"}
         /\ Settled \subseteq Settled'
         /\ \A n \in Settled' \ Settled :
              /\ n = Top.name
              /\ Needs(n) = {} \/ (ScanDone /\ status[n] = "loading")
<1>1. Clean /\ NoCircle /\ status \in [Names -> Statuses]
  BY ErrsGrow DEF LinkInv, Clean, NoCircle, IInv
<1>2. CASE UNCHANGED status
  BY <1>1, <1>2 DEF Settled
<1>3. ASSUME Locates, Top.name \in Names,
             NEW v \in {"native", "dead", "loading"},
             status' = [status EXCEPT ![Top.name] = v]
      PROVE  /\ \A n \in Names : status[n] \in {"ready", "native"} =>
                   status'[n] \in {"ready", "native"}
             /\ Settled \subseteq Settled'
             /\ \A n \in Settled' \ Settled :
                  /\ n = Top.name
                  /\ Needs(n) = {} \/ (ScanDone /\ status[n] = "loading")
  <2>1. status[Top.name] = "absent" /\ Top.name # Main
    BY <1>1, <1>3, LocatedAbsent, LocatesNew
  <2>2. status'[Top.name] # "ready"
    BY <1>1, <1>3
  <2>3. \A n \in Names : n # Top.name => status'[n] = status[n]
    BY <1>1, <1>3
  <2>4. ASSUME status'[Top.name] = "native" PROVE Needs(Top.name) = {}
    <3>1. KindsKnown'
      BY ErrsGrow, KindsKept DEF LinkInv
    <3>2. Top.name \notin Sources
      BY <1>3, <2>4, <3>1, ErrsGrow, WorldSame DEF KindsKnown, LinkInv
    <3>3. QED
      BY <3>2 DEF Needs
  <2>5. QED
    BY <1>1, <1>3, <2>1, <2>2, <2>3, <2>4 DEF Settled
<1>4. CASE /\ ScanDone /\ Top.name # Main /\ Top.name \in Names
           /\ status[Top.name] = "loading"
           /\ status' = [status EXCEPT ![Top.name] = "ready"]
  BY <1>1, <1>4 DEF Settled
<1>5. QED
  BY <1>1, <1>2, <1>3, <1>4, StatusStep

LEMMA NoneDeadKept ==
  ASSUME IInv, LinkInv, WaitInv, NoneDead, LoaderNext
  PROVE  NoneDead'
<1> SUFFICES ASSUME Clean', NEW n \in Names PROVE status'[n] # "dead"
  BY DEF NoneDead
<1>1. status[n] # "dead" /\ status \in [Names -> Statuses]
  BY ErrsGrow DEF LinkInv, NoneDead, IInv
<1>2. ~ ReadFails
  <2> SUFFICES ASSUME ReadFails PROVE FALSE
    OBVIOUS
  <2>1. Top.name \in Names /\ Report(Error("not found", Top.name))
    BY LocatesNew, TopFrame DEF ReadFails
  <2>2. QED
    BY <2>1, OtherReported DEF LinkInv, Codes
<1>3. CASE LoadBuiltin \/ ReadSource
  <2>1. \E v \in {"native", "loading"} : status' = [status EXCEPT ![Top.name] = v]
    BY <1>3 DEF LoadBuiltin, ReadSource
  <2>2. QED
    BY <1>1, <2>1
<1>4. CASE ScanDone
  BY <1>1, <1>4 DEF ScanDone, Loaded
<1>5. QED
  BY <1>1, <1>2, <1>3, <1>4
     DEF LoaderNext, Known, AskParent, ParentFails, NotFound, ScanImport, ScanFrom,
         ScanOther

\* A module located is one its requirer needs, so it is in every set of modules
\* that holds the entry and what its modules need.
LEMMA OnlyNeededKept ==
  ASSUME AnchoredImports, IInv, LinkInv, WaitInv, OnlyNeeded, LoaderNext
  PROVE  OnlyNeeded'
<1> SUFFICES ASSUME Clean', NEW S \in SUBSET Names, Main \in S,
                    \A n \in S : Needs(n) \subseteq S,
                    NEW n \in Names, status'[n] # "absent"
             PROVE  n \in S
  BY ErrsGrow, NeedsSame DEF OnlyNeeded, LinkInv
<1>1. Clean /\ NoCircle /\ status \in [Names -> Statuses]
  BY SettledGrows DEF IInv
<1>2. \A x \in Names : status[x] # "absent" => x \in S
  BY <1>1 DEF OnlyNeeded
<1>3. CASE status[n] # "absent"
  BY <1>2, <1>3
<1>4. CASE Locates /\ n = Top.name
  <2> DEFINE m == Requirer(stack, Len(stack))
  <2>1. m \in Names /\ status[m] # "absent"
    BY <1>4, LocatesNew, RequirerThere
  <2>2. n \in Needs(m)
    BY <1>1, <1>4, LocatedIsNeeded
  <2> HIDE DEF m
  <2>3. QED
    BY <1>2, <2>1, <2>2
<1>5. QED
  BY <1>1, <1>3, <1>4, StatusStep

\* What a statement names, once settled, stays settled.
LEMMA StmtKept ==
  ASSUME IInv, LinkInv, WaitInv, LoaderNext, Clean', NEW m, NEW j, StmtSettled(m, j)
  PROVE  StmtSettled(m, j)'
<1>1. world' = world
  BY ErrsGrow DEF LinkInv
<1>2. /\ ImportsOf(m)' = ImportsOf(m) /\ Target(m, j)' = Target(m, j)
  BY <1>1, WorldSame
<1>3. \A n \in Names : status[n] \in {"ready", "native"} => status'[n] \in {"ready", "native"}
  BY SettledGrows
<1>4. QED
  BY <1>1, <1>2, <1>3 DEF StmtSettled

LEMMA ScannedKept ==
  ASSUME AnchoredImports, IInv, LinkInv, WaitInv, NoneDead, Scanned, LoaderNext
  PROVE  Scanned'
<1> SUFFICES ASSUME Clean', NEW k \in 1 .. Len(calls'), calls'[k].step = "scan",
                    NEW j \in 1 .. calls'[k].i - 1,
                    k = Len(calls') \/ j # calls'[k].i - 1,
                    NEW m, m = calls'[k].name
             PROVE  StmtSettled(m, j)'
  BY DEF Scanned
<1>1. Clean /\ NoCircle /\ status' \in [Names -> Statuses] /\ world' = world
  BY SettledGrows, StepKeeps, ErrsGrow DEF IInv, LinkInv
<1>2. calls # << >> /\ calls \in Seq(Frame) /\ Len(calls) \in Nat \ {0} /\ Top \in Frame
  <2>1. calls # << >>
    BY DEF LoaderNext, Known, AskParent, ParentFails, NotFound, LoadBuiltin, Locates,
       ReadFails, ReadSource, ScanImport, ScanFrom, ScanOther, ScanDone, Scans, Loads
  <2>2. QED
    BY <2>1, TopFrame
<1>3. CASE k \in 1 .. Len(calls) - 1 /\ calls'[k] = calls[k]
  <2>1. k \in 1 .. Len(calls) /\ calls[k] \in Frame /\ k # Len(calls)
    BY <1>2, <1>3
  <2>2. CASE j # calls[k].i - 1
    <3>1. StmtSettled(m, j)
      BY <1>1, <1>3, <2>1, <2>2 DEF Scanned
    <3>2. QED
      BY <1>3, <3>1, StmtKept
  <2>3. CASE j = calls[k].i - 1
    <3>1. k = Len(calls') /\ Returns /\ k + 1 = Len(calls)
      BY <1>2, <1>3, <2>3, FramesStep
    <3>2. NoCircle'
      BY DEF Clean, NoCircle
    <3>3. /\ ret' = Top.name /\ ret' \in Names /\ status'[ret'] \notin {"absent", "loading"}
      BY <3>1, <3>2, ReturnOutcome DEF WaitInv
    <3>4. status'[ret'] # "dead"
      BY <3>3, NoneDeadKept DEF NoneDead
    <3>5. status'[Top.name] \in {"ready", "native"} /\ Top.name \in Names
      BY <1>1, <3>3, <3>4 DEF Statuses
    <3>6. Top.name = Target(m, j)
      BY <1>3, <2>3, <3>1 DEF LinkInv, FramesLinked, WaitsFor, Top
    <3>7. Target(m, j)' = Target(m, j)
      BY <1>1, WorldSame
    <3>8. QED
      BY <3>5, <3>6, <3>7 DEF StmtSettled
  <2>4. QED
    BY <2>2, <2>3
<1>4. CASE k = Len(calls) /\ calls'[k] = NextStmt /\ (ScanImport \/ ScanFrom \/ ScanOther)
  <2>1. /\ Top.step = "scan" /\ Top.i \in Nat \ {0} /\ NextStmt.i = Top.i + 1
        /\ NextStmt.name = Top.name /\ Len(calls) \in 1 .. Len(calls)
        /\ Top.i \in 1 .. Len(Stmts) /\ Top.name \in Names
    <3>1. Top.step = "scan" /\ Top.i <= Len(Stmts)
      BY <1>4 DEF ScanImport, ScanFrom, ScanOther, Scans, Loads
    <3>2. NextStmt = [Top EXCEPT !.i = Top.i + 1]
      BY DEF NextStmt
    <3>3. QED
      BY <1>2, <3>1, <3>2, StmtInBody, NextStmtGoesOn, TopFrame DEF Frame
  <2>2. j \in 1 .. Top.i
    BY <1>4, <2>1
  <2>3. CASE j # Top.i
    <3>1. j \in 1 .. Top.i - 1
      BY <2>1, <2>2, <2>3
    <3>2. StmtSettled(m, j)
      BY <1>1, <1>4, <2>1, <3>1 DEF Scanned, Top
    <3>3. QED
      BY <1>4, <2>1, <3>2, StmtKept
  <2>4. CASE j = Top.i
    <3>1. Len(calls') = Len(calls)
      BY <1>4, <2>1, <2>4
    <3>2. \A x \in Names : ~ Call(NextStmt, x)
      <4> SUFFICES ASSUME NEW x \in Names, Call(NextStmt, x) PROVE FALSE
        OBVIOUS
      <4>1. calls'[Len(calls')].step = "enter"
        BY <1>2, NextStmtGoesOn, TopAfter
      <4>2. QED
        BY <1>4, <3>1, <4>1
    <3>3. ~ ScanImport
      BY <2>1, <3>2, NamedInWorld, <1>2 DEF ScanImport, Scans
    <3>4. CASE ScanFrom
      <4>1. Base # NoName
        <5> SUFFICES ASSUME Base = NoName PROVE FALSE
          OBVIOUS
        <5>1. Report(Error("no parent", Top.name))
          BY <3>4 DEF ScanFrom
        <5>2. QED
          BY <2>1, <5>1, OtherReported DEF LinkInv, Codes
      <4>2. Stmts[Top.i].op = "from"
        BY <3>4 DEF ScanFrom, Scans
      <4>3. Base \in Names
        BY <1>2, <2>1, <4>1, <4>2, NamedInWorld
      <4>4. Base = Top.name
        BY <3>2, <3>4, <4>1, <4>3 DEF ScanFrom
      <4>5. StmtSettled(m, j)
        <5>1. ASSUME Top.i \in ImportsOf(Top.name) PROVE Target(Top.name, Top.i) = Base
          BY <2>1, <4>2, <5>1, TargetNamed DEF IInv, Stmts, Base
        <5>2. QED
          BY <1>4, <2>1, <2>4, <4>2, <4>4, <5>1 DEF StmtSettled, Stmts
      <4>6. QED
        BY <1>4, <2>1, <4>5, StmtKept
    <3>5. CASE ScanOther
      <4>1. StmtSettled(m, j)
        BY <1>4, <2>1, <2>4, <3>5 DEF ScanOther, Scans, StmtSettled, ImportsOf, Stmts
      <4>2. QED
        BY <1>4, <2>1, <4>1, StmtKept
    <3>6. QED
      BY <1>4, <3>3, <3>4, <3>5
  <2>5. QED
    BY <2>3, <2>4
<1>5. CASE calls'[k].i = 1
  BY <1>5
<1>6. CASE calls'[k] = [Top EXCEPT !.step = "parent"]
  <2>1. calls'[k].step = "parent"
    BY <1>2, <1>6 DEF Frame
  <2>2. QED
    BY <2>1
<1>7. QED
  BY <1>3, <1>4, <1>5, <1>6, FramesStep

\* All that a module needs is settled when its scan ends without an error.
LEMMA DoneIsClosed ==
  ASSUME AnchoredImports, IInv, LinkInv, WaitInv, NoneDead, Scanned, ScanDone, Clean
  PROVE  Needs(Top.name) \subseteq Settled
<1> DEFINE m == Top.name
<1>1. /\ calls # << >> /\ Top.step = "scan" /\ m \in Names /\ Top.i > Len(Stmts)
      /\ NoCircle /\ world \in Worlds /\ status \in [Names -> Statuses]
  BY TopFrame DEF ScanDone, Loads, Clean, NoCircle, IInv
<1>2. m \in Sources
  BY <1>1, RequirerThere DEF LinkInv, KindsKnown
<1>3. \A j \in ImportsOf(m) : StmtSettled(m, j)
  <2> SUFFICES ASSUME NEW j \in ImportsOf(m) PROVE StmtSettled(m, j)
    OBVIOUS
  <2>1. j \in 1 .. Len(Stmts) /\ Len(Stmts) \in Nat
    BY <1>1, WorldsAssumption DEF ImportsOf, Stmts
  <2>2. Top.i \in Nat /\ Len(calls) \in 1 .. Len(calls)
    BY <1>1, TopFrame DEF Frame
  <2>3. j \in 1 .. Top.i - 1
    BY <1>1, <2>1, <2>2
  <2>4. QED
    BY <1>1, <2>2, <2>3 DEF Scanned, Top
<1>4. ASSUME NEW t \in Targets(m) \ {m}
      PROVE  t \in Names /\ status[t] \in {"ready", "native"}
  <2>1. PICK j \in ImportsOf(m) : Target(m, j) = t
    BY DEF Targets
  <2>2. QED
    BY <1>3, <2>1 DEF StmtSettled
<1>5. ASSUME NEW n \in Needs(m) PROVE n \in Settled
  <2>1. /\ n # Main
        /\ \/ \E t \in Targets(m) \ {m} : n = t \/ n \in Prefixes(t) \ Prefixes(m)
           \/ n = m /\ ImportsItself(m)
    BY <1>2, <1>5, NeedsOf
  <2>2. ASSUME NEW t \in Targets(m) \ {m}, n \in Prefixes(t) \ {t}
        PROVE  n \in Names /\ status[n] \in {"ready", "native"}
    <3>1. n \in Names /\ status[n] \notin {"absent", "loading"}
      BY <1>1, <1>4, <2>2 DEF WaitInv, PrefixesThere
    <3>2. status[n] # "dead"
      BY <3>1 DEF NoneDead
    <3>3. QED
      BY <1>1, <3>1, <3>2 DEF Statuses
  <2>3. ASSUME n = m, ImportsItself(m)
        PROVE  n \in Names /\ status[n] \in {"ready", "native"}
    <3>1. PICK i \in ImportsOf(m) : world.body[m][i] = Import(m)
      BY <2>3 DEF ImportsItself
    <3>2. world.body[m][i].op = "import" /\ world.body[m][i].module = m
      BY <3>1 DEF Import
    <3>3. Target(m, i) = m
      BY <1>1, <3>2, TargetNamed
    <3>4. QED
      BY <1>1, <1>3, <2>3, <3>2, <3>3 DEF StmtSettled
  <2>4. n \in Names /\ status[n] \in {"ready", "native"}
    BY <1>4, <2>1, <2>2, <2>3
  <2>5. QED
    BY <2>1, <2>4 DEF Settled
<1>6. QED
  BY <1>5

LEMMA ClosedKept ==
  ASSUME AnchoredImports, IInv, LinkInv, WaitInv, NoneDead, Scanned, Closed, LoaderNext
  PROVE  Closed'
<1> SUFFICES ASSUME Clean', NEW n \in Settled' PROVE Needs(n) \subseteq Settled'
  BY ErrsGrow, NeedsSame DEF Closed, LinkInv
<1>1. Clean /\ Settled \subseteq Settled'
  BY SettledGrows
<1>2. CASE n \in Settled
  BY <1>1, <1>2 DEF Closed
<1>3. CASE n \notin Settled
  <2>1. n = Top.name /\ (Needs(n) = {} \/ ScanDone)
    BY <1>3, SettledGrows
  <2>2. QED
    BY <1>1, <2>1, DoneIsClosed
<1>4. QED
  BY <1>2, <1>3

\* The last module of a circle to be scanned would need one still loading.
LEMMA NoCircleSettledKept ==
  ASSUME AnchoredImports, IInv, LinkInv, WaitInv, NoneDead, Scanned, Closed,
         NoCircleSettled, LoaderNext
  PROVE  NoCircleSettled'
<1> SUFFICES ASSUME Clean', NEW S \in SUBSET Settled', Circular(S) PROVE FALSE
  BY ErrsGrow, NeedsSame DEF NoCircleSettled, LinkInv
<1>1. Clean /\ Settled \subseteq Settled'
  BY SettledGrows
<1>2. CASE S \subseteq Settled
  BY <1>1, <1>2 DEF NoCircleSettled
<1>3. CASE ~ (S \subseteq Settled)
  <2>1. PICK x \in S : x \notin Settled
    BY <1>3
  <2>2. x = Top.name /\ Needs(x) \cap S # {}
    BY <2>1, SettledGrows DEF Circular
  <2>3. ScanDone /\ status[x] = "loading"
    BY <2>1, <2>2, SettledGrows
  <2>4. Needs(x) \subseteq Settled
    BY <1>1, <2>2, <2>3, DoneIsClosed
  <2> DEFINE R == S \ {x}
  <2>5. R \subseteq Settled
    BY <2>2, SettledGrows
  <2>6. R # {} /\ \A n \in R : Needs(n) \cap R # {}
    <3>1. R # {}
      BY <2>1, <2>2, <2>4
    <3>2. ASSUME NEW n \in R PROVE Needs(n) \cap R # {}
      <4>1. Needs(n) \subseteq Settled
        BY <1>1, <2>5 DEF Closed
      <4>2. Needs(n) \cap S # {}
        BY DEF Circular
      <4>3. QED
        BY <2>1, <4>1, <4>2
    <3>3. QED
      BY <3>1, <3>2
  <2>7. Circular(R)
    BY <2>6 DEF Circular
  <2>8. QED
    BY <1>1, <2>5, <2>7 DEF NoCircleSettled
<1>4. QED
  BY <1>2, <1>3

LEMMA EntryClosedKept ==
  ASSUME AnchoredImports, IInv, LinkInv, WaitInv, NoneDead, Scanned, LoaderNext
  PROVE  EntryClosed'
<1> SUFFICES ASSUME Clean', calls' = << >> PROVE Needs(Main) \subseteq Settled'
  BY ErrsGrow, NeedsSame DEF EntryClosed, LinkInv
<1>1. Clean /\ Settled \subseteq Settled'
  BY SettledGrows
<1>2. calls # << >> /\ Len(calls) \in Nat \ {0}
  <2>1. calls # << >>
    BY DEF LoaderNext, Known, AskParent, ParentFails, NotFound, LoadBuiltin, Locates,
       ReadFails, ReadSource, ScanImport, ScanFrom, ScanOther, ScanDone, Scans, Loads
  <2>2. QED
    BY <2>1, TopFrame
<1>3. Returns /\ Len(calls) = 1
  <2>1. Len(calls') = 0
    OBVIOUS
  <2>2. QED
    BY <1>2, <2>1, FramesStep
<1>4. Top.step = "scan" /\ Top.name = Main
  BY <1>2, <1>3 DEF IInv, FramesOK, FramesCounted, EntryFirst, Top
<1>5. ScanDone
  BY <1>3, <1>4, LocatesNew
     DEF Returns, Known, ParentFails, NotFound, LoadBuiltin, ReadFails, Loads
<1>6. QED
  BY <1>1, <1>4, <1>5, DoneIsClosed

-------------------------------------------------------------------------------
ResultsInv == IInv /\ LinkInv /\ WaitInv /\ LoadedInv

LEMMA InitResults == Init => ResultsInv /\ CycleFound
<1> SUFFICES ASSUME Init PROVE ResultsInv /\ CycleFound
  OBVIOUS
<1>1. IInv /\ LinkInv /\ WaitInv
  BY InitHolds, InitLinked, InitWaits
<1>2. /\ calls = << LoadFrame(Main, "scan", 0) >> /\ Len(calls) = 1
      /\ calls[1].i = 1 /\ calls # << >>
  BY DEF Init, LoadFrame
<1>3. stack = << >> /\ Len(stack) = 0 /\ errs = << >> /\ NoCircle
  BY DEF Init, NoCircle
<1>4. /\ status = [n \in Names |-> IF n = Main THEN "ready" ELSE "absent"]
      /\ \A n \in Names : status[n] # "absent" => n = Main
      /\ \A n \in Names : status[n] # "dead"
  BY DEF Init
<1>5. Settled = {}
  BY <1>4 DEF Settled
<1>6. StackNeeded /\ NoneDead /\ OnlyNeeded
  <2>1. StackNeeded
    BY <1>3 DEF StackNeeded
  <2>2. NoneDead
    BY <1>4 DEF NoneDead
  <2>3. OnlyNeeded
    BY <1>4 DEF OnlyNeeded
  <2>4. QED
    BY <2>1, <2>2, <2>3
<1>7. Scanned /\ EntryClosed
  BY <1>2 DEF Scanned, EntryClosed
<1>8. Closed /\ NoCircleSettled
  BY <1>5 DEF Closed, NoCircleSettled, Circular
<1>9. CycleFound
  BY <1>3 DEF CycleFound
<1>10. QED
  BY <1>1, <1>6, <1>7, <1>8, <1>9 DEF ResultsInv, LoadedInv

LEMMA ResultsStutter ==
  ASSUME ResultsInv, UNCHANGED loaderVars
  PROVE  ResultsInv' /\ (CycleFound => CycleFound')
<1>1. /\ world' = world /\ status' = status /\ stack' = stack /\ calls' = calls
      /\ ret' = ret /\ errs' = errs
  BY DEF loaderVars
<1>2. IInv'
  BY StutterKeeps DEF ResultsInv
<1>3. /\ Clean' = Clean /\ NoCircle' = NoCircle /\ Settled' = Settled /\ Top' = Top
  BY <1>1 DEF Clean, NoCircle, Settled, Top
<1>4. LinkInv'
  <2>1. ErrsTyped' /\ KindsKnown'
    BY <1>1, WorldSame DEF ResultsInv, LinkInv, ErrsTyped, KindsKnown
  <2>2. FramesLinked(calls)' /\ FramesAsked(calls, stack)'
    BY <1>1, WorldSame DEF ResultsInv, LinkInv, FramesLinked, FramesAsked
  <2>3. QED
    BY <2>1, <2>2 DEF LinkInv
<1>5. WaitInv'
  BY <1>1, <1>3 DEF ResultsInv, WaitInv, PrefixesThere, WaitingAbsent, ParentReturned
<1>6. LoadedInv'
  <2>1. StackNeeded' /\ NoneDead' /\ OnlyNeeded'
    BY <1>1, <1>3, NeedsSame DEF ResultsInv, LoadedInv, StackNeeded, NoneDead, OnlyNeeded
  <2>2. \A m, j : StmtSettled(m, j)' = StmtSettled(m, j)
    BY <1>1, WorldSame DEF StmtSettled
  <2>3. Scanned'
    BY <1>1, <1>3, <2>2 DEF ResultsInv, LoadedInv, Scanned
  <2>4. Closed' /\ NoCircleSettled' /\ EntryClosed'
    BY <1>1, <1>3, NeedsSame DEF ResultsInv, LoadedInv, Closed, NoCircleSettled, EntryClosed
  <2>5. QED
    BY <2>1, <2>3, <2>4 DEF LoadedInv
<1>7. CycleFound => CycleFound'
  BY <1>1, <1>3, NeedsSame DEF CycleFound
<1>8. QED
  BY <1>2, <1>4, <1>5, <1>6, <1>7 DEF ResultsInv

LEMMA ResultsStep ==
  ASSUME AnchoredImports, ResultsInv, [LoaderNext]_loaderVars
  PROVE  ResultsInv'
<1>1. CASE UNCHANGED loaderVars
  BY <1>1, ResultsStutter
<1>2. CASE LoaderNext
  <2>1. IInv' /\ LinkInv' /\ WaitInv'
    BY <1>2, StepKeeps, LinkKept, WaitKept DEF ResultsInv
  <2>2. LoadedInv'
    BY <1>2, StackNeededKept, NoneDeadKept, OnlyNeededKept, ScannedKept, ClosedKept,
       NoCircleSettledKept, EntryClosedKept DEF ResultsInv, LoadedInv
  <2>3. QED
    BY <2>1, <2>2 DEF ResultsInv
<1>3. QED
  BY <1>1, <1>2

LEMMA CycleStep ==
  ASSUME AnchoredImports, NoOwnImports, ResultsInv, CycleFound, [LoaderNext]_loaderVars
  PROVE  CycleFound'
<1>1. CASE UNCHANGED loaderVars
  BY <1>1, ResultsStutter
<1>2. CASE LoaderNext
  BY <1>2, CycleKept DEF ResultsInv, LoadedInv
<1>3. QED
  BY <1>1, <1>2

\* Once loading ends, all that was loaded is settled, but for the entry.
LEMMA EndedSettled ==
  ASSUME ResultsInv, Ended, Clean
  PROVE  {n \in Names : status[n] # "absent"} = Settled \cup {Main}
<1>1. status \in [Names -> Statuses] /\ status[Main] = "ready" /\ Main \in Names
  BY NamesAssumption DEF ResultsInv, IInv
<1>2. \A n \in Names : status[n] # "dead"
  BY DEF ResultsInv, LoadedInv, NoneDead
<1>3. Len(stack) = 0
  BY DEF Ended, ResultsInv, IInv, FramesOK, FramesPlaced, StackDeep
<1>4. \A n \in Names : status[n] # "loading"
  BY <1>3 DEF ResultsInv, IInv, StackExact
<1>5. QED
  BY <1>1, <1>2, <1>4 DEF Settled, Statuses

LEMMA ResultsCycles == ResultsInv /\ CycleFound => CyclesAreReported
<1> SUFFICES ASSUME ResultsInv, CycleFound PROVE CyclesAreReported
  OBVIOUS
<1>1. (\E e \in DOMAIN errs : errs[e].code = "circular") => \E S \in SUBSET Names : Circular(S)
  BY DEF CycleFound, NoCircle
<1>2. ASSUME Ended, errs = << >>, NEW S \in SUBSET {n \in Names : status[n] # "absent"},
             Circular(S)
      PROVE  FALSE
  <2>1. Clean /\ S \subseteq Settled \cup {Main}
    BY <1>2, EndedSettled DEF Clean
  <2> DEFINE R == S \ {Main}
  <2>2. R \subseteq Settled
    BY <2>1
  <2>3. \A n \in S : Main \notin Needs(n) /\ Needs(n) \cap S # {}
    BY <1>2 DEF Circular, Needs
  <2>4. R # {} /\ \A n \in R : Needs(n) \cap R # {}
    BY <1>2, <2>3 DEF Circular
  <2>5. Circular(R)
    BY <2>4 DEF Circular
  <2> HIDE DEF R
  <2>6. QED
    BY <2>1, <2>2, <2>5 DEF ResultsInv, LoadedInv, NoCircleSettled
<1>3. QED
  BY <1>1, <1>2 DEF CyclesAreReported

LEMMA ResultsLoads ==
  ASSUME AnchoredImports, ResultsInv
  PROVE  LoadsWhatIsNeeded
<1>1. ASSUME Scans("from")
      PROVE  Base = PythonBase(Top.name, IsPackage(Top.name), Stmts[Top.i])
  <2>1. calls # << >> /\ Top.i \in 1 .. Len(Stmts) /\ Top.name \in Names /\ world \in Worlds
    BY <1>1, StmtInBody, TopFrame DEF Scans, Loads, ResultsInv, IInv
  <2>2. Top.i \in ImportsOf(Top.name)
    BY <1>1, <2>1, WorldsAssumption DEF ImportsOf, Stmts, Scans
  <2>3. QED
    BY <1>1, <2>1, <2>2, TargetNamed DEF Scans, Stmts, Base, Target
<1>2. ASSUME Ended, errs = << >>
      PROVE  LET loaded == {n \in Names : status[n] # "absent"}
             IN  /\ \A n \in loaded :
                      status[n] \in {"ready", "native"} /\ Needs(n) \subseteq loaded
                 /\ \A S \in SUBSET loaded :
                      Main \in S /\ (\A n \in S : Needs(n) \subseteq S) => S = loaded
  <2> DEFINE loaded == {n \in Names : status[n] # "absent"}
  <2>1. Clean /\ calls = << >> /\ loaded = Settled \cup {Main}
    BY <1>2, EndedSettled DEF Clean, Ended
  <2>2. \A n \in Settled : status[n] \in {"ready", "native"} /\ Needs(n) \subseteq Settled
    BY <2>1 DEF Settled, ResultsInv, LoadedInv, Closed
  <2>3. status[Main] = "ready" /\ Needs(Main) \subseteq Settled
    BY <2>1 DEF ResultsInv, LoadedInv, EntryClosed, IInv
  <2>4. ASSUME NEW S \in SUBSET loaded, Main \in S, \A n \in S : Needs(n) \subseteq S
        PROVE  S = loaded
    <3>1. \A n \in Names : status[n] # "absent" => n \in S
      BY <2>1, <2>4 DEF ResultsInv, LoadedInv, OnlyNeeded
    <3>2. QED
      BY <3>1
  <2>5. \A n \in loaded : status[n] \in {"ready", "native"} /\ Needs(n) \subseteq loaded
    BY <2>1, <2>2, <2>3
  <2>6. QED
    BY <2>4, <2>5
<1>3. QED
  BY <1>1, <1>2 DEF LoadsWhatIsNeeded

\* Whatever the modules of a program import, in whatever order the scan meets
\* them, with missing, unreadable and native modules in between: a program is
\* rejected as circular only if some of its modules need one another in a
\* circle, and a load that reports nothing has met no circle (loadModule).
THEOREM CircularImportsReported ==
  ASSUME AnchoredImports, NoOwnImports
  PROVE  Spec => []CyclesAreReported
<1>1. Init => ResultsInv /\ CycleFound
  BY InitResults
<1>2. ResultsInv /\ CycleFound /\ [LoaderNext]_loaderVars => (ResultsInv /\ CycleFound)'
  BY ResultsStep, CycleStep
<1>3. ResultsInv /\ CycleFound => CyclesAreReported
  BY ResultsCycles
<1>4. QED
  BY <1>1, <1>2, <1>3, PTL DEF Spec

\* A load that reports nothing ends with the entry and exactly the modules it
\* needs, directly or not, all of them read (scan, relativeBase, loadModule).
THEOREM NeededModulesLoaded ==
  ASSUME AnchoredImports
  PROVE  Spec => []LoadsWhatIsNeeded
<1>1. Init => ResultsInv
  BY InitResults
<1>2. ResultsInv /\ [LoaderNext]_loaderVars => ResultsInv'
  BY ResultsStep
<1>3. ResultsInv => LoadsWhatIsNeeded
  BY ResultsLoads
<1>4. QED
  BY <1>1, <1>2, <1>3, PTL DEF Spec
==============================================================================

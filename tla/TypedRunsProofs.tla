--------------------------- MODULE TypedRunsProofs ---------------------------
(***************************************************************************)
(* Flow narrowing is sound for every program: TypedRuns for any names, any *)
(* declared types and any nesting of guards, loops and early exits.        *)
(*                                                                         *)
(* Checking leaves nothing out (Closed): what the checker goes on to after *)
(* a statement it has checked, it has checked with that overlay, or has it *)
(* on its stack; and no statement is checked twice (Fresh), so that what   *)
(* was recorded for one stays. A run then keeps to the overlays (Flow):    *)
(* each block on its stack that it can come back to goes on at a checked   *)
(* statement whose overlay holds of the values, and narrows no name that   *)
(* the blocks above it do not narrow, so that a store the overlays do not  *)
(* forbid disturbs none of them.                                           *)
(***************************************************************************)
EXTENDS TypedRuns, FiniteSetTheorems, SequenceTheorems, TLAPS

StmtAt(n) == prog.blocks[n[1]][n[2]]

InBlock(f) == f.blk \in DOMAIN prog.blocks /\ f.at \in DOMAIN prog.blocks[f.blk]

\* Only what is dynamic by its declaration is ever narrowed.
Overlays ==
  {o \in [Names -> Types \cup {{}}] :
     \A x \in Names : o[x] # {} => IsDynamic(Declared(x))}

NotNarrowed == [x \in Names |-> {}]

CheckFrames == {f \in [blk : Nat, at : Nat, over : Overlays] : InBlock(f)}

RunFrames == {f \in [blk : Nat, at : Nat] : InBlock(f)}

IsProgram == \E k \in DOMAIN Programs : prog \in Programs[k]

-------------------------------------------------------------------------------
(* What checking leaves behind *)

SeenAt(n) == [blk |-> n[1], at |-> n[2], over |-> seen[n].over]

NodesSeen ==
  \A n \in DOMAIN seen :
    /\ n = << n[1], n[2] >> /\ n[1] \in Nat /\ n[2] \in Nat
    /\ InBlock(SeenAt(n))
    /\ seen[n].over \in Overlays
    /\ seen[n].type = Operand(seen[n].over, OperandOf(StmtAt(n)))

Accepted == \A n \in DOMAIN seen : Accepts(StmtAt(n), seen[n].type)

Begun == {1} \cup UNION {Held(StmtAt(n)) : n \in DOMAIN seen}

Fresh(fs) ==
  /\ \A n \in DOMAIN seen : n[1] \in Begun
  /\ \A k \in 1 .. Len(fs) :
       /\ fs[k].blk \in Begun
       /\ \A n \in DOMAIN seen : n[1] = fs[k].blk => n[2] < fs[k].at
       /\ \A j \in 1 .. Len(fs) : fs[j].blk = fs[k].blk => j = k

Found(g, fs) ==
  \/ Node(g) \in DOMAIN seen /\ seen[Node(g)].over = g.over
  \/ \E k \in 1 .. Len(fs) : fs[k] = g

AllFound(gs, fs) == \A i \in 1 .. Len(gs) : Found(gs[i], fs)

Closed(fs) ==
  /\ AllFound(Branch(1, NotNarrowed), fs)
  /\ \A n \in DOMAIN seen : AllFound(After(StmtAt(n), SeenAt(n), seen[n].type), fs)

Pending == IF phase = "check" THEN frames ELSE << >>

CheckInv ==
  /\ IsProgram
  /\ NodesSeen
  /\ phase # "refused" => Accepted
  /\ phase # "refused" => Closed(Pending)
  /\ phase = "check" => frames \in Seq(CheckFrames) /\ Fresh(frames)

-------------------------------------------------------------------------------
(* What a run keeps *)

\* The block does not fall through.
Leaves(f) ==
  \E i \in DOMAIN prog.blocks[f.blk] :
    f.at <= i /\ Returns(prog.blocks[f.blk][i], BlockReturns(prog.blocks))

Live(fs, k) == \A m \in k + 1 .. Len(fs) : ~Leaves(fs[m])

Narrows(f, x) == seen[Node(f)].over[x] # {}

Agrees(f, e) ==
  /\ Checked(Node(f))
  /\ \A x \in Names : Narrows(f, x) => e[x] \in Members(seen[Node(f)].over[x])

Inherits(f, g) == \A x \in Names : Narrows(f, x) => Narrows(g, x)

Flow(fs, e) ==
  \A k \in 1 .. Len(fs) : Live(fs, k) =>
    /\ Agrees(fs[k], e)
    /\ \A j \in 1 .. k - 1 : Live(fs, j) => Inherits(fs[j], fs[k])

Declares(e) == \A n \in Names : e[n] \in Members(Declared(n))

RunInv ==
  /\ ReadsAsTyped
  /\ HoldsDeclared
  /\ phase = "run" =>
       /\ frames \in Seq(RunFrames)
       /\ env \in [Names -> Atoms]
       /\ ~loose => Declares(env) /\ Flow(frames, env)

IInv == CheckInv /\ RunInv

-------------------------------------------------------------------------------
(* Types *)

LEMMA TypesFinite ==
  ASSUME NEW t \in Types
  PROVE  IsFiniteSet(t) /\ Cardinality(t) \in Nat \ {0}
<1>1. IsFiniteSet(Atoms)
  <2>1. Atoms = ((({} \cup {"int"}) \cup {"str"}) \cup {"float"}) \cup {"none"}
    BY DEF Atoms
  <2>2. QED
    BY <2>1, FS_EmptySet, FS_AddElement
<1>2. IsFiniteSet(t)
  <2>1. CASE t = Any
    BY <2>1, FS_Singleton DEF Any
  <2>2. CASE t # Any
    BY <1>1, <2>2, FS_Subset DEF Types
  <2>3. QED
    BY <2>1, <2>2
<1>3. t # {}
  BY DEF Types, Any
<1>4. Cardinality(t) \in Nat /\ Cardinality(t) # 0
  BY <1>2, <1>3, FS_CardinalityType, FS_EmptySet
<1>5. QED
  BY <1>2, <1>4

\* A type is either dynamic or one of the atoms.
LEMMA DynamicOrConcrete ==
  ASSUME NEW t \in Types
  PROVE  \/ IsDynamic(t) /\ ~Concrete(t)
         \/ ~IsDynamic(t) /\ Concrete(t) /\ \E a \in Atoms : t = {a}
<1>1. IsFiniteSet(t) /\ Cardinality(t) \in Nat \ {0}
  BY TypesFinite
<1>2. t # {}
  BY DEF Types, Any
<1>3. CASE Cardinality(t) = 1
  <2>1. PICK a : t = {a}
    BY <1>1, <1>3, FS_Singleton
  <2>2. t # Any => a \in Atoms
    BY <2>1 DEF Types
  <2>3. t = Any \/ (t # Any /\ a \in Atoms)
    BY <2>2
  <2>4. QED
    BY <1>2, <1>3, <2>1, <2>3 DEF IsDynamic, Concrete
<1>4. CASE Cardinality(t) > 1
  BY <1>4 DEF IsDynamic, Concrete
<1>5. QED
  BY <1>1, <1>3, <1>4

LEMMA SomeMember ==
  ASSUME NEW t \in Types
  PROVE  Members(t) \subseteq Atoms /\ (t # Any => Members(t) = t)
BY DEF Types, Members

LEMMA AtomsAreTypes ==
  ASSUME NEW a \in Atoms
  PROVE  /\ {a} \in Types /\ {a} # Any /\ Members({a}) = {a}
         /\ ~IsDynamic({a}) /\ Cardinality({a}) = 1
<1>1. {a} \in Types
  BY DEF Types
<1>2. {a} # Any
  BY DEF Any, Atoms
<1>3. Cardinality({a}) = 1
  BY FS_Singleton
<1>4. QED
  BY <1>1, <1>2, <1>3 DEF Members, IsDynamic

\* Taking an atom away leaves every other value.
LEMMA WithoutKeeps ==
  ASSUME NEW t \in Types, NEW a \in Atoms
  PROVE  /\ Without(t, {a}) \in Types \cup {{}}
         /\ \A v \in Members(t) : v # a => v \in Members(Without(t, {a}))
<1>1. Cardinality(t) \in Nat
  BY TypesFinite
<1>2. CASE Cardinality(t) > 1
  <2>1. t # Any
    BY <1>2, FS_Singleton DEF Any
  <2>2. t \subseteq Atoms /\ Without(t, {a}) = t \ {a}
    BY <1>2, <2>1 DEF Types, Without
  <2>3. t \ {a} # Any
    BY <2>2 DEF Any, Atoms
  <2>4. QED
    BY <2>1, <2>2, <2>3 DEF Types, Members
<1>3. CASE ~(Cardinality(t) > 1)
  <2>1. Without(t, {a}) = IF t = {a} THEN {} ELSE t
    BY <1>3 DEF Without
  <2>2. {a} # Any
    BY AtomsAreTypes
  <2>3. QED
    BY <2>1, <2>2 DEF Members
<1>4. QED
  BY <1>2, <1>3

\* What is stored without a trap is of the type of its place, but for the stores
\* Unconverted names.
LEMMA StoreFits ==
  ASSUME NEW src \in Types, NEW dst \in Types, NEW v \in Members(src),
         AssignableTo(src, dst) \/ (src = Any /\ ~Traps(src, dst, v)),
         ~Unconverted(src, dst)
  PROVE  Promoted(src, dst, v) \in Members(dst)
<1>1. v \in Atoms
  BY SomeMember
<1>2. CASE dst = Any
  BY <1>1, <1>2 DEF Promoted, Members, Atoms
<1>3. CASE src = {"int"} /\ dst = Float
  BY <1>3 DEF Promoted, Members, Float, Any
<1>4. CASE dst # Any /\ ~(src = {"int"} /\ dst = Float)
  <2>1. Promoted(src, dst, v) = v
    BY <1>4 DEF Promoted
  <2>2. Members(dst) = dst /\ dst \subseteq Atoms
    BY <1>4, SomeMember
  <2>3. CASE src = Any
    <3>1. ~AssignableTo(src, dst)
      BY <1>4, <2>2, <2>3 DEF AssignableTo, UnionAdmits, Any, Atoms
    <3>2. ~Traps(src, dst, v)
      BY <3>1
    <3>3. dst # {} /\ dst # None /\ ~IsDynamic(dst) /\ IsDynamic(src)
      BY <1>4, <2>3 DEF Unconverted, IsDynamic, Types
    <3>4. QED
      BY <2>1, <2>2, <3>2, <3>3 DEF Traps, Casts
  <2>4. CASE src # Any
    <3>1. v \in src
      BY <2>4, SomeMember
    <3>2. AssignableTo(src, dst)
      BY <2>4
    <3>3. CASE src = dst
      BY <2>1, <2>2, <3>1, <3>3
    <3>4. CASE src # dst
      <4>1. UnionAdmits(dst, v)
        BY <1>4, <3>1, <3>2, <3>4 DEF AssignableTo
      <4>2. CASE v \in dst
        BY <2>1, <2>2, <4>2
      <4>3. CASE v \notin dst
        <5>1. v = "int" /\ "float" \in dst
          BY <4>1, <4>3 DEF UnionAdmits
        <5>2. "int" \in Members(src) \ Members(dst)
          BY <2>2, <4>3, <5>1
        <5>3. dst = Float
          BY <5>1, <5>2 DEF Unconverted
        <5>4. Cardinality(dst) = 1
          BY <5>3, FS_Singleton DEF Float
        <5>5. QED
          BY <1>4, <3>2, <3>4, <5>4 DEF AssignableTo
      <4>4. QED
        BY <4>2, <4>3
    <3>5. QED
      BY <3>3, <3>4
  <2>5. QED
    BY <2>3, <2>4
<1>5. QED
  BY <1>2, <1>3, <1>4

\* A guard the checker knows is decided as it knows.
LEMMA FoldRight ==
  ASSUME NEW t \in Types, NEW v \in Members(t), NEW s, s.cond \in Atoms \cup {"some"},
         ~(t = {"int"} /\ s.cond = "float")
  PROVE  /\ Fold(s, t) = "true" => Passes(s, v)
         /\ Fold(s, t) = "false" => ~Passes(s, v)
<1>1. CASE ~Concrete(t)
  BY <1>1 DEF Fold
<1>2. CASE Concrete(t)
  <2>1. PICK a \in Atoms : t = {a}
    BY <1>2, DynamicOrConcrete
  <2>2. v = a
    BY <2>1, AtomsAreTypes
  <2>3. CASE s.cond = "none"
    BY <1>2, <2>1, <2>2, <2>3 DEF Fold, Passes, None
  <2>4. CASE s.cond = "some"
    BY <1>2, <2>1, <2>2, <2>4 DEF Fold, Passes, None
  <2>5. CASE s.cond \in Atoms \ {"none"}
    <3> DEFINE c == s.cond
    <3>1. {c} # Any /\ Cardinality({c}) = 1
      BY <2>5, AtomsAreTypes
    <3>2. AssignableTo({a}, {c}) <=> a = c
      BY <2>1, <3>1 DEF AssignableTo, Float
    <3>3. Passes(s, v) <=> v = c
      BY <2>5 DEF Passes, Atoms
    <3>4. Fold(s, t) = IF AssignableTo({a}, {c}) THEN "true" ELSE "false"
      BY <1>2, <2>1, <2>5 DEF Fold, Atoms
    <3>5. QED
      BY <2>2, <3>2, <3>3, <3>4
  <2>6. QED
    BY <2>3, <2>4, <2>5
<1>3. QED
  BY <1>1, <1>2

-------------------------------------------------------------------------------
(* Programs *)

LEMMA ProgramFacts ==
  ASSUME IsProgram
  PROVE  /\ prog.decl \in [Names -> Types]
         /\ prog.blocks \in Seq(Seq(Statements))
         /\ Len(prog.blocks) \in Nat \ {0}
         /\ DOMAIN prog.blocks = 1 .. Len(prog.blocks)
<1>1. PICK k \in DOMAIN Programs : prog \in Programs[k]
  BY DEF IsProgram
<1>2. prog.decl \in [Names -> Types] /\ prog.blocks \in Seq(Seq(Statements)) \ {<< >>}
  BY <1>1, ProgramsAssumption
<1>3. Len(prog.blocks) # 0
  BY <1>2
<1>4. QED
  BY <1>2, <1>3

LEMMA ProgramShape ==
  ASSUME IsProgram
  PROVE  \A b \in DOMAIN prog.blocks : \A i \in DOMAIN prog.blocks[b] :
           LET s == prog.blocks[b][i]
           IN  /\ Held(s) \subseteq b + 1 .. Len(prog.blocks)
               /\ s.then # 0 => s.then # s.else
               /\ s.op = "if" => s.cond # ""
               /\ \A c \in DOMAIN prog.blocks : \A j \in DOMAIN prog.blocks[c] :
                    Held(s) \cap Held(prog.blocks[c][j]) # {} => b = c /\ i = j
<1>1. PICK k \in DOMAIN Programs : prog \in Programs[k]
  BY DEF IsProgram
<1>2. QED
  BY <1>1, ProgramsAssumption

LEMMA StmtFacts ==
  ASSUME IsProgram, NEW f, InBlock(f)
  PROVE  /\ Stmt(f) \in Statements
         /\ f.blk \in Nat \ {0} /\ f.at \in Nat \ {0}
         /\ f.at <= Len(prog.blocks[f.blk])
         /\ Held(Stmt(f)) \subseteq (f.blk + 1) .. Len(prog.blocks)
         /\ Stmt(f).then # 0 => Stmt(f).then # Stmt(f).else
         /\ Stmt(f).op = "if" => Stmt(f).cond \in Atoms \cup {"some"}
<1>2. f.blk \in DOMAIN prog.blocks /\ f.at \in DOMAIN prog.blocks[f.blk]
  BY DEF InBlock
<1>3. prog.blocks[f.blk] \in Seq(Statements)
  BY <1>2, ProgramFacts
<1>4. Stmt(f) \in Statements /\ f.at \in 1 .. Len(prog.blocks[f.blk])
  BY <1>2, <1>3 DEF Stmt
<1>5. /\ Held(Stmt(f)) \subseteq (f.blk + 1) .. Len(prog.blocks)
      /\ Stmt(f).then # 0 => Stmt(f).then # Stmt(f).else
      /\ Stmt(f).op = "if" => Stmt(f).cond # ""
  BY <1>2, ProgramShape DEF Stmt
<1>6. f.blk \in Nat \ {0} /\ f.at \in Nat \ {0} /\ f.at <= Len(prog.blocks[f.blk])
  BY <1>2, <1>3, <1>4, ProgramFacts
<1>7. Stmt(f).op = "if" => Stmt(f).cond \in Atoms \cup {"some"}
  BY <1>4, <1>5 DEF Statements
<1>8. QED
  BY <1>4, <1>5, <1>6, <1>7

LEMMA HeldOnce ==
  ASSUME IsProgram, NEW f, InBlock(f), NEW g, InBlock(g),
         NEW b, b \in Held(Stmt(f)), b \in Held(Stmt(g))
  PROVE  f.blk = g.blk /\ f.at = g.at
<1>1. Held(prog.blocks[f.blk][f.at]) \cap Held(prog.blocks[g.blk][g.at]) # {}
  BY DEF Stmt
<1>2. /\ f.blk \in DOMAIN prog.blocks /\ f.at \in DOMAIN prog.blocks[f.blk]
      /\ g.blk \in DOMAIN prog.blocks /\ g.at \in DOMAIN prog.blocks[g.blk]
  BY DEF InBlock
<1>3. \A c \in DOMAIN prog.blocks : \A j \in DOMAIN prog.blocks[c] :
        Held(prog.blocks[f.blk][f.at]) \cap Held(prog.blocks[c][j]) # {}
          => f.blk = c /\ f.at = j
  BY <1>2, ProgramShape, Zenon
<1>4. QED
  BY <1>1, <1>2, <1>3, Zenon

\* A frame that is pushed has a statement left.
LEMMA Pushed ==
  ASSUME IsProgram, NEW f, f.blk \in DOMAIN prog.blocks, f.at \in Nat \ {0}
  PROVE  IF InBlock(f) THEN Unfinished(f) = << f >> ELSE Unfinished(f) = << >>
<1>1. prog.blocks[f.blk] \in Seq(Statements)
  BY ProgramFacts
<1>2. DOMAIN prog.blocks[f.blk] = 1 .. Len(prog.blocks[f.blk]) /\ Len(prog.blocks[f.blk]) \in Nat
  BY <1>1
<1>3. InBlock(f) <=> f.at <= Len(prog.blocks[f.blk])
  BY <1>2 DEF InBlock
<1>4. QED
  BY <1>3 DEF Unfinished

LEMMA HeldBlocks ==
  ASSUME IsProgram, NEW f, InBlock(f), NEW b \in Held(Stmt(f))
  PROVE  b \in DOMAIN prog.blocks /\ b \in Nat \ {0} /\ b # 1 /\ b # f.blk /\ b > f.blk
<1>1. b \in (f.blk + 1) .. Len(prog.blocks) /\ f.blk \in Nat \ {0}
  BY StmtFacts
<1>2. Len(prog.blocks) \in Nat /\ DOMAIN prog.blocks = 1 .. Len(prog.blocks)
  BY ProgramFacts
<1>3. QED
  BY <1>1, <1>2

\* A block in BlockReturns has a statement no run goes on after.
LEMMA BlocksReturn ==
  ASSUME NEW b \in BlockReturns(prog.blocks)
  PROVE  /\ b \in DOMAIN prog.blocks
         /\ \E i \in DOMAIN prog.blocks[b] :
              Returns(prog.blocks[b][i], BlockReturns(prog.blocks))
<1>1. PICK R \in SUBSET DOMAIN prog.blocks :
        /\ b \in R
        /\ \A c \in R : \E i \in DOMAIN prog.blocks[c] : Returns(prog.blocks[c][i], R)
  BY DEF BlockReturns
<1>2. R \subseteq BlockReturns(prog.blocks)
  BY <1>1 DEF BlockReturns
<1>3. PICK i \in DOMAIN prog.blocks[b] : Returns(prog.blocks[b][i], R)
  BY <1>1
<1>4. Returns(prog.blocks[b][i], BlockReturns(prog.blocks))
  BY <1>2, <1>3 DEF Returns
<1>5. QED
  BY <1>1, <1>4

-------------------------------------------------------------------------------
(* Overlays *)

LEMMA OperandTyped ==
  ASSUME IsProgram, NEW over \in Overlays, NEW src \in Names \cup Atoms
  PROVE  Operand(over, src) \in Types
<1>1. CASE src \in Names
  <2>1. Declared(src) \in Types /\ over[src] \in Types \cup {{}}
    BY <1>1, ProgramFacts DEF Declared, Overlays
  <2>2. QED
    BY <1>1, <2>1 DEF Operand, CurrentType
<1>2. CASE src \notin Names
  BY <1>2, AtomsAreTypes DEF Operand
<1>3. QED
  BY <1>1, <1>2

\* What a guard narrows its name to when it holds, and when it does not.
To(s, cur, passed) ==
  IF (s.cond = "some") = passed
  THEN Without(cur, IF s.cond = "some" THEN None ELSE {s.cond})
  ELSE IF s.cond = "some" THEN None ELSE {s.cond}

Tried(s, over, cur, passed) ==
  IF passed THEN Positive(s, over, cur) ELSE Negative(s, over, cur)

LEMMA TriedIs ==
  ASSUME NEW s, s.cond \in Atoms \cup {"some"}, NEW over, NEW cur, NEW passed \in BOOLEAN
  PROVE  Tried(s, over, cur, passed) =
           IF IsDynamic(cur) THEN Narrowed(over, s.name, To(s, cur, passed)) ELSE over
<1>1. s.cond # "some" => Tested(s) = {s.cond}
  BY DEF Tested, None
<1>2. QED
  BY <1>1 DEF Tried, Positive, Negative, To

LEMMA ToTyped ==
  ASSUME NEW s, s.cond \in Atoms \cup {"some"}, NEW cur \in Types, NEW passed \in BOOLEAN
  PROVE  /\ To(s, cur, passed) \in Types \cup {{}}
         /\ \A v \in Members(cur) : Passes(s, v) = passed => v \in Members(To(s, cur, passed))
<1> DEFINE a == IF s.cond = "some" THEN "none" ELSE s.cond
<1>1. a \in Atoms
  BY DEF Atoms
<1>2. To(s, cur, passed) = IF (s.cond = "some") = passed THEN Without(cur, {a}) ELSE {a}
  BY DEF To, None
<1>3. \A v : Passes(s, v) = IF s.cond = "some" THEN v # a ELSE v = a
  BY DEF Passes
<1>4. {a} \in Types /\ Members({a}) = {a}
  BY <1>1, AtomsAreTypes
<1>5. /\ Without(cur, {a}) \in Types \cup {{}}
      /\ \A v \in Members(cur) : v # a => v \in Members(Without(cur, {a}))
  BY <1>1, WithoutKeeps
<1> HIDE DEF a
<1>6. QED
  BY <1>2, <1>3, <1>4, <1>5

\* What a guard narrows is an overlay again, narrows no fewer names, and holds of
\* the values if the overlay before it did.
LEMMA TriedOverlay ==
  ASSUME IsProgram, NEW s, s.cond \in Atoms \cup {"some"}, s.name \in Names,
         NEW over \in Overlays, NEW cur, cur = CurrentType(over, s.name),
         NEW passed \in BOOLEAN
  PROVE  /\ Tried(s, over, cur, passed) \in Overlays
         /\ \A x \in Names : over[x] # {} => Tried(s, over, cur, passed)[x] # {}
         /\ \A e :
              /\ e[s.name] \in Members(cur) /\ Passes(s, e[s.name]) = passed
              /\ \A x \in Names : over[x] # {} => e[x] \in Members(over[x])
              => \A x \in Names : Tried(s, over, cur, passed)[x] # {} =>
                   e[x] \in Members(Tried(s, over, cur, passed)[x])
<1> DEFINE to == To(s, cur, passed)
           o == Tried(s, over, cur, passed)
<1>1. cur \in Types /\ cur = Operand(over, s.name)
  BY OperandTyped DEF Operand
<1>2. /\ to \in Types \cup {{}}
      /\ \A v \in Members(cur) : Passes(s, v) = passed => v \in Members(to)
  BY <1>1, ToTyped
<1>3. o = IF IsDynamic(cur) THEN Narrowed(over, s.name, to) ELSE over
  BY TriedIs
<1>4. over \in [Names -> Types \cup {{}}]
      /\ \A x \in Names : over[x] # {} => IsDynamic(Declared(x))
  BY DEF Overlays
<1>5. IsDynamic(cur) => IsDynamic(Declared(s.name))
  BY <1>4 DEF CurrentType
<1> HIDE DEF to, o
<1>6. CASE ~IsDynamic(cur) \/ to = {}
  <2>1. o = over
    BY <1>3, <1>6 DEF Narrowed
  <2>2. QED
    BY <2>1 DEF o
<1>7. CASE IsDynamic(cur) /\ to # {}
  <2>1. o = [over EXCEPT ![s.name] = to]
    BY <1>3, <1>7 DEF Narrowed
  <2>2. /\ o \in [Names -> Types \cup {{}}] /\ o[s.name] = to
        /\ \A x \in Names : x # s.name => o[x] = over[x]
    BY <1>2, <1>4, <2>1
  <2>3. o \in Overlays
    BY <1>4, <1>5, <1>7, <2>2 DEF Overlays
  <2>4. \A x \in Names : over[x] # {} => o[x] # {}
    BY <1>7, <2>2
  <2>5. ASSUME NEW e, e[s.name] \in Members(cur), Passes(s, e[s.name]) = passed,
               \A x \in Names : over[x] # {} => e[x] \in Members(over[x]),
               NEW x \in Names, o[x] # {}
        PROVE  e[x] \in Members(o[x])
    <3>1. CASE x = s.name
      BY <1>2, <2>2, <2>5, <3>1
    <3>2. CASE x # s.name
      BY <2>2, <2>5, <3>2
    <3>3. QED
      BY <3>1, <3>2
  <2>6. QED
    BY <2>3, <2>4, <2>5 DEF o
<1>8. QED
  BY <1>6, <1>7

-------------------------------------------------------------------------------
(* Stacks *)

LEMMA ConcatAt ==
  ASSUME NEW S, NEW p \in Seq(S), NEW q \in Seq(S)
  PROVE  /\ p \o q \in Seq(S) /\ Len(p \o q) = Len(p) + Len(q)
         /\ Len(p) \in Nat /\ Len(q) \in Nat
         /\ \A k \in 1 .. Len(p \o q) :
              (p \o q)[k] = IF k <= Len(p) THEN p[k] ELSE q[k - Len(p)]
OBVIOUS

LEMMA Shorter ==
  ASSUME NEW S, NEW q \in Seq(S), q # << >>
  PROVE  /\ SubSeq(q, 1, Len(q) - 1) \in Seq(S)
         /\ Len(q) \in Nat \ {0}
         /\ Len(SubSeq(q, 1, Len(q) - 1)) = Len(q) - 1
         /\ \A k \in 1 .. Len(q) - 1 : SubSeq(q, 1, Len(q) - 1)[k] = q[k]
         /\ q[Len(q)] \in S
<1>1. Len(q) \in Nat \ {0} /\ 1 \in Int /\ Len(q) - 1 \in Int
  OBVIOUS
<1>2. \A k \in 1 .. Len(q) : q[k] \in S
  BY <1>1
<1>3. SubSeq(q, 1, Len(q) - 1) = [k \in 1 .. Len(q) - 1 |-> q[k]]
  BY <1>1
<1>4. [k \in 1 .. Len(q) - 1 |-> q[k]] \in Seq(S)
  BY <1>1, <1>2
<1>5. Len([k \in 1 .. Len(q) - 1 |-> q[k]]) = Len(q) - 1
  BY <1>1
<1>6. q[Len(q)] \in S
  BY <1>1, <1>2
<1>7. \A k \in 1 .. Len(q) - 1 : SubSeq(q, 1, Len(q) - 1)[k] = q[k]
  BY <1>3
<1>8. QED
  BY <1>1, <1>3, <1>4, <1>5, <1>6, <1>7

\* Frames of different blocks.
Fan(q) ==
  /\ q \in Seq(CheckFrames)
  /\ \A i, j \in 1 .. Len(q) : q[i].blk = q[j].blk => i = j

LEMMA FanConcat ==
  ASSUME NEW p, Fan(p), NEW q, Fan(q),
         \A i \in 1 .. Len(p), j \in 1 .. Len(q) : p[i].blk # q[j].blk
  PROVE  /\ Fan(p \o q)
         /\ \A k \in 1 .. Len(p \o q) :
              \/ \E i \in 1 .. Len(p) : (p \o q)[k] = p[i]
              \/ \E j \in 1 .. Len(q) : (p \o q)[k] = q[j]
<1> DEFINE r == p \o q
           m == Len(p)
           n == Len(q)
<1>1. p \in Seq(CheckFrames) /\ q \in Seq(CheckFrames)
  BY DEF Fan
<1>2. /\ r \in Seq(CheckFrames) /\ Len(r) = m + n /\ m \in Nat /\ n \in Nat
      /\ \A k \in 1 .. Len(r) : r[k] = IF k <= m THEN p[k] ELSE q[k - m]
  BY <1>1, ConcatAt
<1>3. /\ \A i, j \in 1 .. m : p[i].blk = p[j].blk => i = j
      /\ \A i, j \in 1 .. n : q[i].blk = q[j].blk => i = j
      /\ \A i \in 1 .. m, j \in 1 .. n : p[i].blk # q[j].blk
  BY DEF Fan
<1> HIDE DEF r, m, n
<1>4. ASSUME NEW k \in 1 .. Len(r)
      PROVE  \/ k \in 1 .. m /\ r[k] = p[k]
             \/ k - m \in 1 .. n /\ ~(k <= m) /\ r[k] = q[k - m]
  BY <1>2
<1>5. ASSUME NEW i \in 1 .. Len(r), NEW j \in 1 .. Len(r), r[i].blk = r[j].blk
      PROVE  i = j
  <2>1. CASE i \in 1 .. m /\ r[i] = p[i]
    <3>1. CASE j \in 1 .. m /\ r[j] = p[j]
      BY <1>3, <1>5, <2>1, <3>1
    <3>2. CASE j - m \in 1 .. n /\ r[j] = q[j - m]
      BY <1>3, <1>5, <2>1, <3>2
    <3>3. QED
      BY <1>4, <3>1, <3>2
  <2>2. CASE i - m \in 1 .. n /\ r[i] = q[i - m]
    <3>1. CASE j \in 1 .. m /\ r[j] = p[j]
      <4>1. p[j].blk = q[i - m].blk
        BY <1>5, <2>2, <3>1
      <4>2. QED
        BY <1>3, <2>2, <3>1, <4>1
    <3>2. CASE j - m \in 1 .. n /\ r[j] = q[j - m]
      <4>1. i - m = j - m
        BY <1>3, <1>5, <2>2, <3>2
      <4>2. QED
        BY <1>2, <4>1
    <3>3. QED
      BY <1>4, <3>1, <3>2
  <2>3. QED
    BY <1>4, <2>1, <2>2
<1>6. Fan(r)
  BY <1>2, <1>5 DEF Fan
<1>7. QED
  BY <1>4, <1>6 DEF r, m, n

LEMMA RestShape ==
  ASSUME IsProgram, NEW f \in CheckFrames, NEW over \in Overlays
  PROVE  /\ Fan(Rest(f, over))
         /\ \A i \in 1 .. Len(Rest(f, over)) :
              Rest(f, over)[i].blk = f.blk /\ Rest(f, over)[i].at = f.at + 1
<1> DEFINE g == [blk |-> f.blk, at |-> f.at + 1, over |-> over]
<1>1. f.blk \in DOMAIN prog.blocks /\ f.blk \in Nat /\ f.at \in Nat /\ InBlock(f)
  BY DEF CheckFrames, InBlock
<1>2. /\ g.blk = f.blk /\ g.at = f.at + 1 /\ g.at \in Nat \ {0}
      /\ g \in [blk : Nat, at : Nat, over : Overlays]
  BY <1>1
<1>3. Rest(f, over) = Unfinished(g)
  BY DEF Rest
<1> HIDE DEF g
<1>4. CASE InBlock(g)
  <2>1. g \in CheckFrames
    BY <1>2, <1>4 DEF CheckFrames
  <2>2. Rest(f, over) = << g >>
    BY <1>1, <1>2, <1>3, <1>4, Pushed
  <2>3. << g >> \in Seq(CheckFrames) /\ Len(<< g >>) = 1 /\ << g >>[1] = g
    BY <2>1
  <2>4. QED
    BY <1>2, <2>2, <2>3 DEF Fan
<1>5. CASE ~InBlock(g)
  <2>1. Rest(f, over) = << >>
    BY <1>1, <1>2, <1>3, <1>5, Pushed
  <2>2. QED
    BY <2>1 DEF Fan
<1>6. QED
  BY <1>4, <1>5

LEMMA BranchShape ==
  ASSUME IsProgram, NEW b, b = 0 \/ b \in DOMAIN prog.blocks, NEW over \in Overlays
  PROVE  /\ Fan(Branch(b, over))
         /\ \A i \in 1 .. Len(Branch(b, over)) :
              b # 0 /\ Branch(b, over)[i].blk = b /\ Branch(b, over)[i].at = 1
<1> DEFINE g == Frame(b, over)
<1>1. g.blk = b /\ g.at = 1
  BY DEF Frame
<1>2. CASE b # 0 /\ InBlock(g)
  <2>1. b \in DOMAIN prog.blocks /\ b \in Nat
    BY <1>2, ProgramFacts
  <2>2. g \in CheckFrames
    BY <1>2, <2>1 DEF CheckFrames, Frame
  <2>3. Branch(b, over) = << g >>
    BY <1>1, <1>2, <2>1, Pushed DEF Branch
  <2>4. << g >> \in Seq(CheckFrames) /\ Len(<< g >>) = 1 /\ << g >>[1] = g
    BY <2>2
  <2> HIDE DEF g
  <2>5. QED
    BY <1>1, <1>2, <2>3, <2>4 DEF Fan
<1>3. CASE ~(b # 0 /\ InBlock(g))
  <2>1. Branch(b, over) = << >>
    BY <1>1, <1>3, Pushed DEF Branch
  <2>2. QED
    BY <2>1 DEF Fan
<1>4. QED
  BY <1>2, <1>3

\* The branches of a statement begin its blocks.
Begins(q, s) ==
  Fan(q) /\ \A i \in 1 .. Len(q) : q[i].blk \in Held(s) /\ q[i].at = 1

LEMMA BothBegin ==
  ASSUME IsProgram, NEW f, InBlock(f), NEW o \in Overlays, NEW p \in Overlays
  PROVE  /\ Begins(Branch(Stmt(f).then, o), Stmt(f))
         /\ Begins(Branch(Stmt(f).else, o), Stmt(f))
         /\ Begins(Branch(Stmt(f).else, o) \o Branch(Stmt(f).then, p), Stmt(f))
<1> DEFINE s == Stmt(f)
           q == Branch(s.else, o)
           r == Branch(s.then, p)
<1>1. /\ s.then = 0 \/ (s.then \in Held(s) /\ s.then \in DOMAIN prog.blocks)
      /\ s.else = 0 \/ (s.else \in Held(s) /\ s.else \in DOMAIN prog.blocks)
  BY HeldBlocks DEF Held
<1>2. s.then # 0 => s.then # s.else
  BY StmtFacts
<1> HIDE DEF s
<1>3. \A w \in Overlays : Begins(Branch(s.then, w), s) /\ Begins(Branch(s.else, w), s)
  <2>1. ASSUME NEW w \in Overlays, NEW b \in {s.then, s.else}
        PROVE  Begins(Branch(b, w), s)
    <3>1. /\ Fan(Branch(b, w))
          /\ \A i \in 1 .. Len(Branch(b, w)) :
               b # 0 /\ Branch(b, w)[i].blk = b /\ Branch(b, w)[i].at = 1
      BY <1>1, BranchShape
    <3>2. b # 0 => b \in Held(s)
      BY <1>1
    <3>3. QED
      BY <3>1, <3>2 DEF Begins
  <2>2. QED
    BY <2>1
<1>4. \A i \in 1 .. Len(q), j \in 1 .. Len(r) : q[i].blk # r[j].blk
  BY <1>1, <1>2, BranchShape
<1>5. Begins(q, s) /\ Begins(r, s)
  BY <1>3
<1> HIDE DEF q, r
<1>6. /\ Fan(q \o r)
      /\ \A k \in 1 .. Len(q \o r) :
           \/ \E i \in 1 .. Len(q) : (q \o r)[k] = q[i]
           \/ \E j \in 1 .. Len(r) : (q \o r)[k] = r[j]
  BY <1>4, <1>5, FanConcat DEF Begins
<1>7. Begins(q \o r, s)
  BY <1>5, <1>6 DEF Begins
<1>8. QED
  BY <1>3, <1>7 DEF q, r, s

\* What is checked after a statement: the rest of its block, then its branches.
LEMMA AfterShape ==
  ASSUME IsProgram, NEW f \in CheckFrames, NEW t,
         t = Operand(f.over, OperandOf(Stmt(f)))
  PROVE  /\ Fan(After(Stmt(f), f, t))
         /\ \A i \in 1 .. Len(After(Stmt(f), f, t)) :
              LET g == After(Stmt(f), f, t)[i]
              IN  \/ g.blk = f.blk /\ g.at = f.at + 1
                  \/ g.blk \in Held(Stmt(f)) /\ g.at = 1
<1> DEFINE s == Stmt(f)
<1>1. InBlock(f) /\ f.over \in Overlays
  BY DEF CheckFrames
<1>2. s \in Statements /\ (s.op = "if" => s.cond \in Atoms \cup {"some"})
  BY <1>1, StmtFacts
<1>3. << >> \in Seq(CheckFrames) /\ Len(<< >>) = 0
  OBVIOUS
<1>4. Fan(<< >>) /\ Begins(<< >>, s)
  BY <1>3 DEF Fan, Begins
<1> DEFINE Follows(q) ==
             Fan(q) /\ \A i \in 1 .. Len(q) : q[i].blk = f.blk /\ q[i].at = f.at + 1
<1>5. \A w \in Overlays : Follows(Rest(f, w))
  BY RestShape
<1>6. Follows(<< >>)
  BY <1>3, <1>4
<1>7. ASSUME NEW q, Follows(q), NEW r, Begins(r, s)
      PROVE  /\ Fan(q \o r)
             /\ \A i \in 1 .. Len(q \o r) :
                  \/ (q \o r)[i].blk = f.blk /\ (q \o r)[i].at = f.at + 1
                  \/ (q \o r)[i].blk \in Held(s) /\ (q \o r)[i].at = 1
  <2>1. f.blk \notin Held(s)
    BY <1>1, HeldBlocks
  <2>2. \A i \in 1 .. Len(q), j \in 1 .. Len(r) : q[i].blk # r[j].blk
    BY <1>7, <2>1 DEF Begins
  <2>3. /\ Fan(q \o r)
        /\ \A k \in 1 .. Len(q \o r) :
             \/ \E i \in 1 .. Len(q) : (q \o r)[k] = q[i]
             \/ \E j \in 1 .. Len(r) : (q \o r)[k] = r[j]
    BY <1>7, <2>2, FanConcat DEF Begins
  <2>4. QED
    BY <1>7, <2>3 DEF Begins
<1>8. CASE s.op = "if"
  <2>1. s.cond \in Atoms \cup {"some"} /\ s.name \in Names
    BY <1>2, <1>8 DEF Statements
  <2>2. t = CurrentType(f.over, s.name)
    BY <1>8, <2>1 DEF OperandOf, Operand
  <2>3. Positive(s, f.over, t) \in Overlays /\ Negative(s, f.over, t) \in Overlays
    <3>1. \A passed \in BOOLEAN : Tried(s, f.over, t, passed) \in Overlays
      BY <1>1, <2>1, <2>2, TriedOverlay
    <3>2. QED
      BY <3>1 DEF Tried
  <2>4. Follows(RestOfBlock(s, f, t))
    <3>1. RestOfBlock(s, f, t) \in
            {<< >>, Rest(f, f.over), Rest(f, Negative(s, f.over, t))}
      BY DEF RestOfBlock
    <3>2. QED
      BY <1>1, <1>5, <1>6, <2>3, <3>1
  <2>5. Begins(Branches(s, f, t), s)
    <3>1. Branches(s, f, t) \in
            {Branch(s.then, f.over), Branch(s.else, f.over),
             Branch(s.else, Negative(s, f.over, t)) \o Branch(s.then, Positive(s, f.over, t))}
      BY DEF Branches
    <3>2. QED
      BY <1>1, <2>3, <3>1, BothBegin
  <2>6. After(s, f, t) = RestOfBlock(s, f, t) \o Branches(s, f, t)
    BY <1>8 DEF After
  <2> HIDE DEF Follows
  <2>7. /\ Fan(After(s, f, t))
        /\ \A i \in 1 .. Len(After(s, f, t)) :
             \/ After(s, f, t)[i].blk = f.blk /\ After(s, f, t)[i].at = f.at + 1
             \/ After(s, f, t)[i].blk \in Held(s) /\ After(s, f, t)[i].at = 1
    BY <1>7, <2>4, <2>5, <2>6
  <2>8. QED
    BY <2>7
<1>9. CASE s.op = "while"
  <2>1. After(s, f, t) =
          Rest(f, f.over) \o (Branch(s.else, f.over) \o Branch(s.then, f.over))
    BY <1>9 DEF After
  <2>2. Begins(Branch(s.else, f.over) \o Branch(s.then, f.over), s)
    BY <1>1, BothBegin
  <2>3. Follows(Rest(f, f.over))
    BY <1>1, <1>5
  <2> DEFINE rest == Rest(f, f.over)
             branches == Branch(s.else, f.over) \o Branch(s.then, f.over)
  <2> HIDE DEF Follows, rest, branches
  <2>4. /\ Fan(After(s, f, t))
        /\ \A i \in 1 .. Len(After(s, f, t)) :
             \/ After(s, f, t)[i].blk = f.blk /\ After(s, f, t)[i].at = f.at + 1
             \/ After(s, f, t)[i].blk \in Held(s) /\ After(s, f, t)[i].at = 1
    <3>1. After(s, f, t) = rest \o branches /\ Begins(branches, s) /\ Follows(rest)
      BY <2>1, <2>2, <2>3 DEF rest, branches
    <3>2. QED
      BY <1>7, <3>1
  <2>5. QED
    BY <2>4
<1>10. CASE s.op \notin {"if", "while"}
  <2>1. After(s, f, t) = Rest(f, f.over)
    BY <1>10 DEF After
  <2>2. QED
    BY <1>1, <1>5, <2>1
<1>11. QED
  BY <1>8, <1>9, <1>10

-------------------------------------------------------------------------------
(* Checking *)

\* The program does not change, and with it nothing that is read off it.
LEMMA SameProgram ==
  ASSUME prog' = prog
  PROVE  /\ IsProgram <=> IsProgram'
         /\ \A n : StmtAt(n)' = StmtAt(n)
         /\ \A f : Stmt(f)' = Stmt(f)
         /\ \A f : InBlock(f)' <=> InBlock(f)
         /\ \A x : Declared(x)' = Declared(x)
         /\ Overlays' = Overlays /\ CheckFrames' = CheckFrames /\ RunFrames' = RunFrames
<1>1. Overlays' = Overlays
  BY DEF Overlays, Declared
<1>2. CheckFrames' = CheckFrames
  BY <1>1 DEF CheckFrames, InBlock
<1>3. RunFrames' = RunFrames
  BY DEF RunFrames, InBlock
<1>4. QED
  BY <1>1, <1>2, <1>3 DEF IsProgram, StmtAt, Stmt, InBlock, Declared

LEMMA SameChecks ==
  ASSUME prog' = prog
  PROVE  /\ \A over, src : Operand(over, src)' = Operand(over, src)
         /\ \A s, t : Accepts(s, t)' <=> Accepts(s, t)
         /\ \A b, over : Branch(b, over)' = Branch(b, over)
         /\ \A s, f, t : After(s, f, t)' = After(s, f, t)
<1>1. \A over, src : Operand(over, src)' = Operand(over, src)
  BY DEF Operand, CurrentType, Declared
<1>2. \A s, t : Accepts(s, t)' <=> Accepts(s, t)
  BY DEF Accepts, Declared
<1>3. \A f : Unfinished(f)' = Unfinished(f)
  BY DEF Unfinished
<1>4. \A b, over : Branch(b, over)' = Branch(b, over)
  BY <1>3 DEF Branch
<1>5. \A f, over : Rest(f, over)' = Rest(f, over)
  BY <1>3 DEF Rest
<1>6. \A s : LeavesEarly(s)' <=> LeavesEarly(s)
  BY DEF LeavesEarly
<1>7. \A s, f, t : RestOfBlock(s, f, t)' = RestOfBlock(s, f, t)
  BY <1>5, <1>6 DEF RestOfBlock
<1>8. \A s, f, t : Branches(s, f, t)' = Branches(s, f, t)
  BY <1>4 DEF Branches
<1>9. \A s, f, t : After(s, f, t)' = After(s, f, t)
  BY <1>4, <1>5, <1>7, <1>8 DEF After
<1>10. QED
  BY <1>1, <1>2, <1>4, <1>9

\* The statement about to be checked has not been checked before.
LEMMA TopFrame ==
  ASSUME CheckInv, phase = "check", frames # << >>
  PROVE  /\ Top \in CheckFrames /\ InBlock(Top) /\ Top.over \in Overlays
         /\ Len(frames) \in Nat \ {0} /\ frames[Len(frames)] = Top
         /\ Node(Top) \notin DOMAIN seen
         /\ Stmt(Top) = StmtAt(Node(Top))
<1>1. frames \in Seq(CheckFrames) /\ Fresh(frames)
  BY DEF CheckInv
<1>2. Top \in CheckFrames /\ Len(frames) \in Nat \ {0}
  BY <1>1, Shorter DEF Top
<1>3. Len(frames) \in 1 .. Len(frames)
  BY <1>2
<1>4. \A n \in DOMAIN seen : n[1] = Top.blk => n[2] < Top.at
  BY <1>1, <1>3 DEF Fresh, Top
<1>5. Top.at \in Nat
  BY <1>2 DEF CheckFrames
<1>6. Node(Top) \notin DOMAIN seen
  BY <1>4, <1>5 DEF Node
<1>7. QED
  BY <1>2, <1>6 DEF CheckFrames, Top, Node, Stmt, StmtAt

TopType == Operand(Top.over, OperandOf(Stmt(Top)))

Following == After(Stmt(Top), Top, TopType)

\* What a checked statement leaves: its record, and what follows it on the stack.
LEMMA CheckStmtDoes ==
  ASSUME CheckInv, CheckStmt
  PROVE  /\ prog' = prog /\ UNCHANGED << env, read, loose >>
         /\ DOMAIN seen' = DOMAIN seen \cup {Node(Top)}
         /\ seen'[Node(Top)] = [type |-> TopType, over |-> Top.over]
         /\ \A n \in DOMAIN seen : seen'[n] = seen[n]
         /\ phase' = IF Accepts(Stmt(Top), TopType) THEN "check" ELSE "refused"
         /\ Following \in Seq(CheckFrames) /\ Len(Following) \in Nat
         /\ frames' \in Seq(CheckFrames)
         /\ Len(frames') = Len(frames) - 1 + Len(Following)
         /\ \A k \in 1 .. Len(frames') :
              frames'[k] = IF k <= Len(frames) - 1 THEN frames[k]
                           ELSE Following[k - (Len(frames) - 1)]
<1> DEFINE f == Top
           t == TopType
           gs == Following
           m == Len(frames) - 1
<1>1. phase = "check" /\ frames # << >>
  BY DEF CheckStmt
<1>2. /\ f \in CheckFrames /\ InBlock(f) /\ f.over \in Overlays
      /\ Len(frames) \in Nat \ {0} /\ Node(f) \notin DOMAIN seen
  BY <1>1, TopFrame
<1>3. /\ seen' = [n \in DOMAIN seen \cup {Node(f)} |->
                    IF n = Node(f) THEN [type |-> t, over |-> f.over] ELSE seen[n]]
      /\ frames' = Outer \o gs
      /\ phase' = IF Accepts(Stmt(f), t) THEN "check" ELSE "refused"
      /\ UNCHANGED << prog, env, read, loose >>
  BY <1>1 DEF CheckStmt, TopType, Following
<1>4. gs \in Seq(CheckFrames)
  BY <1>2, AfterShape DEF CheckInv, Fan, Following, TopType
<1>5. /\ Outer \in Seq(CheckFrames) /\ Len(Outer) = m /\ m \in Nat
      /\ \A k \in 1 .. m : Outer[k] = frames[k]
  BY <1>1, <1>2, Shorter DEF CheckInv, Outer
<1> HIDE DEF f, t, gs, m
<1>6. /\ frames' \in Seq(CheckFrames) /\ Len(frames') = m + Len(gs) /\ Len(gs) \in Nat
      /\ \A k \in 1 .. Len(frames') :
           frames'[k] = IF k <= m THEN Outer[k] ELSE gs[k - m]
  BY <1>3, <1>4, <1>5, ConcatAt
<1>7. ASSUME NEW k \in 1 .. Len(frames'), k <= m
      PROVE  Outer[k] = frames[k]
  BY <1>5, <1>7
<1>8. QED
  BY <1>2, <1>3, <1>4, <1>5, <1>6, <1>7 DEF f, t, gs, m

LEMMA CheckStmtKeepsSeen ==
  ASSUME CheckInv, CheckStmt
  PROVE  NodesSeen' /\ (phase' # "refused" => Accepted')
<1> DEFINE f == Top
           t == TopType
           z == Node(f)
<1>1. phase = "check" /\ frames # << >>
  BY DEF CheckStmt
<1>2. /\ f \in CheckFrames /\ InBlock(f) /\ f.over \in Overlays
      /\ z \notin DOMAIN seen /\ Stmt(f) = StmtAt(z)
  BY <1>1, TopFrame
<1>3. /\ prog' = prog
      /\ DOMAIN seen' = DOMAIN seen \cup {z}
      /\ seen'[z] = [type |-> t, over |-> f.over]
      /\ \A n \in DOMAIN seen : seen'[n] = seen[n]
      /\ phase' = IF Accepts(Stmt(f), t) THEN "check" ELSE "refused"
  BY CheckStmtDoes
<1>4. /\ \A n : StmtAt(n)' = StmtAt(n)
      /\ \A g : InBlock(g)' <=> InBlock(g)
      /\ Overlays' = Overlays
  BY <1>3, SameProgram
<1>5. /\ \A over, src : Operand(over, src)' = Operand(over, src)
      /\ \A s, u : Accepts(s, u)' <=> Accepts(s, u)
  BY <1>3, SameChecks
<1>6. z = << z[1], z[2] >> /\ z[1] = f.blk /\ z[2] = f.at /\ z[1] \in Nat /\ z[2] \in Nat
  BY <1>2 DEF Node, CheckFrames
<1>7. \A n : InBlock(SeenAt(n))' <=> n[1] \in DOMAIN prog.blocks /\ n[2] \in DOMAIN prog.blocks[n[1]]
  BY <1>3 DEF InBlock, SeenAt
<1>8. \A n : InBlock(SeenAt(n)) <=> n[1] \in DOMAIN prog.blocks /\ n[2] \in DOMAIN prog.blocks[n[1]]
  BY DEF InBlock, SeenAt
<1>9. f.blk \in DOMAIN prog.blocks /\ f.at \in DOMAIN prog.blocks[f.blk]
  BY <1>2 DEF InBlock
<1> HIDE DEF z, f, t
<1>10. ASSUME NEW n \in DOMAIN seen'
       PROVE  /\ n = << n[1], n[2] >> /\ n[1] \in Nat /\ n[2] \in Nat
              /\ InBlock(SeenAt(n))'
              /\ seen'[n].over \in Overlays'
              /\ seen'[n].type = Operand(seen'[n].over, OperandOf(StmtAt(n)))
  <2>1. CASE n = z
    BY <1>2, <1>3, <1>4, <1>6, <1>7, <1>9, <2>1 DEF t, f, TopType
  <2>2. CASE n \in DOMAIN seen
    BY <1>3, <1>4, <1>7, <1>8, <2>2 DEF CheckInv, NodesSeen
  <2>3. QED
    BY <1>3, <2>1, <2>2
<1>11. NodesSeen'
  BY <1>4, <1>5, <1>10 DEF NodesSeen
<1>12. ASSUME phase' # "refused"
       PROVE  Accepted'
  <2>1. Accepts(StmtAt(z), t) /\ phase # "refused"
    BY <1>1, <1>2, <1>3, <1>12
  <2>2. \A n \in DOMAIN seen' : Accepts(StmtAt(n), seen'[n].type)
    BY <1>3, <2>1 DEF CheckInv, Accepted
  <2>3. QED
    BY <1>4, <1>5, <2>2 DEF Accepted
<1>13. QED
  BY <1>11, <1>12

LEMMA CheckStmtKeepsFresh ==
  ASSUME CheckInv, CheckStmt
  PROVE  Fresh(frames)'
<1> DEFINE f == Top
           s == Stmt(f)
           gs == Following
           m == Len(frames) - 1
           z == Node(f)
<1>1. phase = "check" /\ frames # << >>
  BY DEF CheckStmt
<1>2. /\ f \in CheckFrames /\ InBlock(f)
      /\ z \notin DOMAIN seen /\ s = StmtAt(z) /\ frames[Len(frames)] = f
      /\ m \in Nat /\ m + 1 = Len(frames)
  <2>1. Len(frames) \in Nat \ {0}
    BY <1>1, TopFrame
  <2>2. m \in Nat /\ m + 1 = Len(frames)
    BY <2>1
  <2>3. QED
    BY <1>1, <2>2, TopFrame
<1>3. /\ prog' = prog
      /\ DOMAIN seen' = DOMAIN seen \cup {z}
      /\ m \in Nat /\ m + 1 = Len(frames) /\ Len(gs) \in Nat
      /\ Len(frames') = m + Len(gs)
      /\ \A k \in 1 .. Len(frames') :
           frames'[k] = IF k <= m THEN frames[k] ELSE gs[k - m]
  <2>1. /\ prog' = prog
        /\ DOMAIN seen' = DOMAIN seen \cup {z}
        /\ Len(gs) \in Nat
        /\ Len(frames') = m + Len(gs)
        /\ \A k \in 1 .. Len(frames') :
             frames'[k] = IF k <= m THEN frames[k] ELSE gs[k - m]
    BY CheckStmtDoes
  <2>2. QED
    BY <1>2, <2>1
<1>4. \A n : StmtAt(n)' = StmtAt(n)
  BY <1>3, SameProgram
<1>5. /\ \A n \in DOMAIN seen : n[1] \in Begun
      /\ \A k \in 1 .. m + 1 :
           /\ frames[k].blk \in Begun
           /\ \A n \in DOMAIN seen : n[1] = frames[k].blk => n[2] < frames[k].at
           /\ \A j \in 1 .. m + 1 : frames[j].blk = frames[k].blk => j = k
  BY <1>1, <1>3 DEF CheckInv, Fresh
<1>6. /\ \A i, j \in 1 .. Len(gs) : gs[i].blk = gs[j].blk => i = j
      /\ \A i \in 1 .. Len(gs) :
           \/ gs[i].blk = f.blk /\ gs[i].at = f.at + 1
           \/ gs[i].blk \in Held(s) /\ gs[i].at = 1
  BY <1>2, AfterShape DEF CheckInv, Fan, Following, TopType
<1>7. z[1] = f.blk /\ z[2] = f.at /\ f.at \in Nat /\ f.blk \in Nat
  BY <1>2 DEF Node, CheckFrames
<1>8. \A n \in DOMAIN seen : n[1] = f.blk => n[2] < f.at
  <2>1. m + 1 \in 1 .. m + 1 /\ frames[m + 1] = f
    BY <1>2, <1>3
  <2>2. QED
    BY <1>5, <2>1
<1>9. f.blk \in Begun /\ \A k \in 1 .. m : frames[k].blk # f.blk
  <2>1. m + 1 \in 1 .. m + 1 /\ frames[m + 1] = f
    BY <1>2, <1>3
  <2>2. QED
    BY <1>3, <1>5, <2>1
\* The blocks the statement holds have not begun.
<1>10. ASSUME NEW b \in Held(s)
       PROVE  b \notin Begun /\ b # f.blk
  <2>1. b # 1 /\ b # f.blk
    BY <1>2, HeldBlocks DEF CheckInv
  <2>2. ASSUME NEW n \in DOMAIN seen, b \in Held(StmtAt(n))
        PROVE  FALSE
    <3>1. /\ InBlock(SeenAt(n)) /\ StmtAt(n) = Stmt(SeenAt(n)) /\ n = << n[1], n[2] >>
          /\ SeenAt(n).blk = n[1] /\ SeenAt(n).at = n[2]
      BY DEF CheckInv, NodesSeen, SeenAt, StmtAt, Stmt
    <3>2. n[1] = f.blk /\ n[2] = f.at
      BY <1>2, <2>2, <3>1, HeldOnce DEF CheckInv
    <3>3. n = z
      BY <3>1, <3>2 DEF Node
    <3>4. QED
      BY <1>2, <3>3
  <2>3. QED
    BY <2>1, <2>2 DEF Begun
<1> HIDE DEF f, s, gs, m, z
<1>11. \A b \in Begun : b \in Begun'
  BY <1>3, <1>4 DEF Begun
<1>12. \A b \in Held(s) : b \in Begun'
  BY <1>2, <1>3, <1>4 DEF Begun
<1>13. \A n \in DOMAIN seen' : n[1] \in Begun'
  BY <1>3, <1>5, <1>7, <1>9, <1>11
<1>14. ASSUME NEW k \in 1 .. m + Len(gs)
       PROVE  \/ k \in 1 .. m /\ k \in 1 .. m + 1 /\ frames'[k] = frames[k]
              \/ k - m \in 1 .. Len(gs) /\ ~(k <= m) /\ frames'[k] = gs[k - m]
  BY <1>3
<1>15. ASSUME NEW k \in 1 .. m + Len(gs)
       PROVE  /\ frames'[k].blk \in Begun'
              /\ \A n \in DOMAIN seen' : n[1] = frames'[k].blk => n[2] < frames'[k].at
              /\ \A j \in 1 .. m + Len(gs) : frames'[j].blk = frames'[k].blk => j = k
  <2>1. CASE k \in 1 .. m /\ k \in 1 .. m + 1 /\ frames'[k] = frames[k]
    <3>1. frames[k].blk # f.blk /\ frames[k].blk \in Begun
      BY <1>5, <1>9, <2>1
    <3>2. \A n \in DOMAIN seen' : n[1] = frames[k].blk => n[2] < frames[k].at
      BY <1>3, <1>5, <1>7, <2>1, <3>1
    <3>3. ASSUME NEW j \in 1 .. m + Len(gs), frames'[j].blk = frames[k].blk
          PROVE  j = k
      <4>1. CASE j \in 1 .. m + 1 /\ frames'[j] = frames[j]
        BY <1>5, <2>1, <3>3, <4>1
      <4>2. CASE j - m \in 1 .. Len(gs) /\ frames'[j] = gs[j - m]
        <5>1. gs[j - m].blk \in Held(s)
          BY <1>6, <3>1, <3>3, <4>2
        <5>2. QED
          BY <1>10, <3>1, <3>3, <4>2, <5>1
      <4>3. QED
        BY <1>14, <4>1, <4>2
    <3>4. frames[k].blk \in Begun'
      BY <3>1, <1>11
    <3>5. QED
      BY <2>1, <3>2, <3>3, <3>4
  <2>2. CASE k - m \in 1 .. Len(gs) /\ frames'[k] = gs[k - m]
    <3> DEFINE g == gs[k - m]
    <3>1. \/ g.blk = f.blk /\ g.at = f.at + 1
          \/ g.blk \in Held(s) /\ g.at = 1
      BY <1>6, <2>2
    <3>2. ASSUME NEW j \in 1 .. m
          PROVE  frames[j].blk # g.blk
      <4>1. j \in 1 .. m + 1
        BY <1>3
      <4>2. QED
        BY <1>5, <1>9, <1>10, <3>1, <4>1
    <3> HIDE DEF g
    <3>3. g.blk \in Begun'
      BY <1>9, <1>11, <1>12, <3>1
    <3>4. ASSUME NEW n \in DOMAIN seen', n[1] = g.blk
          PROVE  n[2] < g.at
      <4>1. CASE g.blk = f.blk /\ g.at = f.at + 1
        <5>1. CASE n = z
          BY <1>7, <4>1, <5>1
        <5>2. CASE n \in DOMAIN seen
          <6>1. n[2] \in Nat
            BY <5>2 DEF CheckInv, NodesSeen
          <6>2. QED
            BY <1>7, <1>8, <3>4, <4>1, <5>2, <6>1
        <5>3. QED
          BY <1>3, <5>1, <5>2
      <4>2. CASE g.blk \in Held(s) /\ g.at = 1
        BY <1>3, <1>5, <1>7, <1>10, <3>4, <4>2
      <4>3. QED
        BY <3>1, <4>1, <4>2
    <3>5. ASSUME NEW j \in 1 .. m + Len(gs), frames'[j].blk = g.blk
          PROVE  j = k
      <4>1. CASE j \in 1 .. m /\ frames'[j] = frames[j]
        BY <3>2, <3>5, <4>1
      <4>2. CASE j - m \in 1 .. Len(gs) /\ frames'[j] = gs[j - m]
        <5>1. j - m = k - m
          BY <1>6, <2>2, <3>5, <4>2 DEF g
        <5>2. QED
          BY <1>3, <5>1
      <4>3. QED
        BY <1>14, <4>1, <4>2
    <3>6. QED
      BY <2>2, <3>3, <3>4, <3>5 DEF g
  <2>3. QED
    BY <1>14, <2>1, <2>2
<1>16. QED
  BY <1>3, <1>13, <1>15 DEF Fresh

LEMMA CheckStmtKeepsFound ==
  ASSUME CheckInv, CheckStmt, NEW g, Found(g, frames)
  PROVE  \/ Node(g) \in DOMAIN seen' /\ seen'[Node(g)].over = g.over
         \/ \E k \in 1 .. Len(frames') : frames'[k] = g
<1>1. phase = "check" /\ frames # << >>
  BY DEF CheckStmt
<1>2. Len(frames) \in Nat \ {0} /\ frames[Len(frames)] = Top /\ Node(Top) \notin DOMAIN seen
  BY <1>1, TopFrame
<1>3. /\ DOMAIN seen' = DOMAIN seen \cup {Node(Top)}
      /\ seen'[Node(Top)] = [type |-> TopType, over |-> Top.over]
      /\ \A n \in DOMAIN seen : seen'[n] = seen[n]
      /\ Len(Following) \in Nat
      /\ Len(frames') = Len(frames) - 1 + Len(Following)
      /\ \A k \in 1 .. Len(frames') :
           frames'[k] = IF k <= Len(frames) - 1 THEN frames[k]
                        ELSE Following[k - (Len(frames) - 1)]
  BY CheckStmtDoes
<1>4. CASE Node(g) \in DOMAIN seen /\ seen[Node(g)].over = g.over
  BY <1>3, <1>4
<1>5. ASSUME NEW k \in 1 .. Len(frames), frames[k] = g
      PROVE  \/ Node(g) \in DOMAIN seen' /\ seen'[Node(g)].over = g.over
             \/ \E j \in 1 .. Len(frames') : frames'[j] = g
  <2>1. CASE k = Len(frames)
    BY <1>2, <1>3, <1>5, <2>1
  <2>2. CASE k # Len(frames)
    <3>1. k \in 1 .. Len(frames') /\ k <= Len(frames) - 1
      BY <1>2, <1>3, <2>2
    <3>2. frames'[k] = g
      BY <1>3, <1>5, <3>1
    <3>3. QED
      BY <3>1, <3>2
  <2>3. QED
    BY <2>1, <2>2
<1>6. QED
  BY <1>4, <1>5 DEF Found

LEMMA CheckStmtKeepsClosed ==
  ASSUME CheckInv, CheckStmt, phase' # "refused"
  PROVE  Closed(Pending)'
<1> DEFINE z == Node(Top)
           Later(g) == \/ Node(g) \in DOMAIN seen' /\ seen'[Node(g)].over = g.over
                       \/ \E k \in 1 .. Len(frames') : frames'[k] = g
<1>1. phase = "check" /\ frames # << >>
  BY DEF CheckStmt
<1>2. Closed(frames)
  BY <1>1 DEF CheckInv, Pending
<1>3. /\ Top \in CheckFrames /\ Stmt(Top) = StmtAt(z) /\ z \notin DOMAIN seen
      /\ Len(frames) \in Nat \ {0}
  BY <1>1, TopFrame
<1>4. /\ prog' = prog
      /\ DOMAIN seen' = DOMAIN seen \cup {z}
      /\ seen'[z] = [type |-> TopType, over |-> Top.over]
      /\ \A n \in DOMAIN seen : seen'[n] = seen[n]
      /\ phase' = IF Accepts(Stmt(Top), TopType) THEN "check" ELSE "refused"
      /\ Len(Following) \in Nat
      /\ Len(frames') = Len(frames) - 1 + Len(Following)
      /\ \A k \in 1 .. Len(frames') :
           frames'[k] = IF k <= Len(frames) - 1 THEN frames[k]
                        ELSE Following[k - (Len(frames) - 1)]
  BY CheckStmtDoes
<1>5. Pending' = frames'
  BY <1>4 DEF Pending
<1>6. \A g : Found(g, frames) => Later(g)
  BY CheckStmtKeepsFound
<1>7. \A i \in 1 .. Len(Following) : Later(Following[i])
  <2>1. ASSUME NEW i \in 1 .. Len(Following)
        PROVE  \E k \in 1 .. Len(frames') : frames'[k] = Following[i]
    <3> DEFINE k == Len(frames) - 1 + i
    <3>1. k \in 1 .. Len(frames') /\ ~(k <= Len(frames) - 1) /\ k - (Len(frames) - 1) = i
      BY <1>3, <1>4
    <3> HIDE DEF k
    <3>2. frames'[k] = Following[i]
      BY <1>4, <3>1
    <3>3. QED
      BY <3>1, <3>2
  <2>2. QED
    BY <2>1
<1>8. \A n \in DOMAIN seen' : n = z => SeenAt(n)' = Top
  <2>1. \A n \in DOMAIN seen' : SeenAt(n)' = [blk |-> n[1], at |-> n[2], over |-> seen'[n].over]
    BY DEF SeenAt
  <2>2. Top = [blk |-> Top.blk, at |-> Top.at, over |-> Top.over]
    BY <1>3 DEF CheckFrames
  <2>3. z[1] = Top.blk /\ z[2] = Top.at
    BY DEF Node
  <2>4. QED
    BY <1>4, <2>1, <2>2, <2>3
<1>9. \A n \in DOMAIN seen : SeenAt(n)' = SeenAt(n)
  BY <1>4 DEF SeenAt
<1>10. /\ \A b, over : Branch(b, over)' = Branch(b, over)
       /\ \A s, f, t : After(s, f, t)' = After(s, f, t)
       /\ \A n : StmtAt(n)' = StmtAt(n)
  BY <1>4, SameChecks, SameProgram
<1> DEFINE Nexts(n) == After(StmtAt(n), SeenAt(n), seen[n].type)
<1>11. \A n \in DOMAIN seen : \A i \in 1 .. Len(Nexts(n)) : Later(Nexts(n)[i])
  BY <1>2, <1>6 DEF Closed, AllFound
<1>12. \A i \in 1 .. Len(Branch(1, NotNarrowed)) : Later(Branch(1, NotNarrowed)[i])
  BY <1>2, <1>6 DEF Closed, AllFound
<1>13. ASSUME NEW n \in DOMAIN seen'
       PROVE  \A i \in 1 .. Len(Nexts(n)') : Later(Nexts(n)'[i])
  <2>1. CASE n = z
    <3>1. Nexts(n)' = Following
      BY <1>3, <1>4, <1>8, <1>10, <2>1 DEF Following
    <3>2. QED
      BY <1>7, <3>1
  <2>2. CASE n \in DOMAIN seen
    <3>1. Nexts(n)' = Nexts(n)
      BY <1>4, <1>9, <1>10, <2>2
    <3>2. QED
      BY <1>11, <2>2, <3>1
  <2>3. QED
    BY <1>4, <2>1, <2>2
<1>14. Branch(1, NotNarrowed)' = Branch(1, NotNarrowed)
  BY <1>10 DEF NotNarrowed
<1>15. AllFound(Branch(1, NotNarrowed), Pending)'
  BY <1>5, <1>12, <1>14 DEF AllFound, Found
<1>16. \A n \in DOMAIN seen' : AllFound(After(StmtAt(n), SeenAt(n), seen[n].type), Pending)'
  BY <1>5, <1>13 DEF AllFound, Found
<1>17. QED
  BY <1>15, <1>16 DEF Closed

LEMMA CheckStmtHolds ==
  ASSUME IInv, CheckStmt
  PROVE  IInv'
<1>1. CheckInv /\ phase = "check" /\ frames # << >>
  BY DEF IInv, CheckStmt
<1>2. NodesSeen' /\ (phase' # "refused" => Accepted')
  BY <1>1, CheckStmtKeepsSeen
<1>3. phase' # "refused" => Closed(Pending)'
  BY <1>1, CheckStmtKeepsClosed
<1>4. /\ prog' = prog /\ UNCHANGED << env, read, loose >>
      /\ frames' \in Seq(CheckFrames)
      /\ phase' \in {"check", "refused"}
  BY <1>1, CheckStmtDoes
<1>5. IsProgram' /\ CheckFrames' = CheckFrames /\ \A x : Declared(x)' = Declared(x)
  BY <1>1, <1>4, SameProgram DEF CheckInv
<1>6. Fresh(frames)'
  BY <1>1, CheckStmtKeepsFresh
<1>7. CheckInv'
  BY <1>2, <1>3, <1>4, <1>5, <1>6 DEF CheckInv
<1>8. RunInv'
  BY <1>4, <1>5 DEF IInv, RunInv, ReadsAsTyped, HoldsDeclared
<1>9. QED
  BY <1>7, <1>8 DEF IInv

\* Nothing is known of a name where a body begins.
LEMMA BodyBegins ==
  ASSUME IsProgram
  PROVE  /\ NotNarrowed \in Overlays /\ 1 \in DOMAIN prog.blocks
         /\ Frame(1, NotNarrowed).blk = 1 /\ Frame(1, NotNarrowed).at = 1
         /\ Frame(1, NotNarrowed).over = NotNarrowed
         /\ Branch(1, NotNarrowed) = IF InBlock(Frame(1, NotNarrowed))
                                     THEN << Frame(1, NotNarrowed) >> ELSE << >>
<1>1. NotNarrowed \in Overlays
  BY DEF NotNarrowed, Overlays
<1>2. 1 \in DOMAIN prog.blocks
  BY ProgramFacts
<1>3. /\ Frame(1, NotNarrowed).blk = 1 /\ Frame(1, NotNarrowed).at = 1
      /\ Frame(1, NotNarrowed).over = NotNarrowed
  BY DEF Frame
<1>4. QED
  BY <1>1, <1>2, <1>3, Pushed DEF Branch

LEMMA InitHolds == Init => IInv
<1> SUFFICES ASSUME Init PROVE IInv
  OBVIOUS
<1> DEFINE b == Branch(1, NotNarrowed)
<1>1. /\ IsProgram /\ phase = "check" /\ frames = b /\ seen = << >>
      /\ env = << >> /\ loose = FALSE /\ read.value = "none" /\ read.type = None
      /\ read.trapped = FALSE
  BY DEF Init, IsProgram, NotNarrowed
<1>2. DOMAIN seen = {}
  BY <1>1
<1>3. /\ Fan(b)
      /\ \A i \in 1 .. Len(b) : b[i].blk = 1
  BY <1>1, BodyBegins, BranchShape
<1> HIDE DEF b
<1>4. frames \in Seq(CheckFrames) /\ Fresh(frames)
  <2>1. \A k \in 1 .. Len(frames) : frames[k].blk \in Begun
    BY <1>1, <1>3 DEF Begun
  <2>2. \A k, j \in 1 .. Len(frames) : frames[j].blk = frames[k].blk => j = k
    BY <1>1, <1>3 DEF Fan
  <2>3. QED
    BY <1>1, <1>2, <1>3, <2>1, <2>2 DEF Fan, Fresh
<1>5. NodesSeen /\ Accepted
  BY <1>2 DEF NodesSeen, Accepted
<1>6. Closed(Pending)
  <2>1. Pending = b
    BY <1>1 DEF Pending
  <2>2. AllFound(b, b)
    BY DEF AllFound, Found
  <2>3. QED
    BY <1>2, <2>1, <2>2 DEF Closed, b
<1>7. CheckInv
  BY <1>1, <1>4, <1>5, <1>6 DEF CheckInv
<1>8. RunInv
  <2>1. ReadsAsTyped
    BY <1>1 DEF ReadsAsTyped, Members, None, Any
  <2>2. DOMAIN env = {}
    BY <1>1
  <2>3. HoldsDeclared
    BY <2>2 DEF HoldsDeclared
  <2>4. QED
    BY <1>1, <2>1, <2>3 DEF RunInv
<1>9. QED
  BY <1>7, <1>8 DEF IInv

-------------------------------------------------------------------------------
(* Running *)

\* What the checker found stays found.
LEMMA ChecksKept ==
  ASSUME CheckInv, Pending = << >>, phase # "refused",
         phase' \notin {"check", "refused"}, UNCHANGED << prog, seen >>
  PROVE  CheckInv'
<1>1. /\ IsProgram' /\ Overlays' = Overlays
      /\ \A n : StmtAt(n)' = StmtAt(n)
      /\ \A f : InBlock(f)' <=> InBlock(f)
  BY SameProgram DEF CheckInv
<1>2. /\ \A over, src : Operand(over, src)' = Operand(over, src)
      /\ \A s, t : Accepts(s, t)' <=> Accepts(s, t)
      /\ \A b, over : Branch(b, over)' = Branch(b, over)
      /\ \A s, f, t : After(s, f, t)' = After(s, f, t)
  BY SameChecks
<1>3. \A n : SeenAt(n)' = SeenAt(n)
  BY DEF SeenAt
<1>4. NodesSeen' /\ Accepted'
  BY <1>1, <1>2, <1>3 DEF CheckInv, NodesSeen, Accepted
<1>5. Pending' = << >>
  BY DEF Pending
<1>6. Closed(<< >>)
  BY DEF CheckInv
<1>7. \A g : Found(g, << >>)' <=> Found(g, << >>)
  BY DEF Found
<1>8. Branch(1, NotNarrowed)' = Branch(1, NotNarrowed)
  BY <1>2 DEF NotNarrowed
<1>9. Closed(<< >>)'
  BY <1>1, <1>2, <1>3, <1>6, <1>8 DEF Closed, AllFound, Found
<1>10. Closed(Pending)'
  BY <1>5, <1>9 DEF Closed, AllFound, Found
<1>11. QED
  BY <1>1, <1>4, <1>10 DEF CheckInv

\* What holds below a frame that narrows what f narrows.
Under(fs, f, e) ==
  Flow(fs, e) /\ \A k \in 1 .. Len(fs) : Live(fs, k) => Inherits(fs[k], f)

\* gs is fs with f on top.
Extends(gs, fs, f) ==
  /\ gs \in Seq(RunFrames) /\ fs \in Seq(RunFrames)
  /\ Len(gs) = Len(fs) + 1 /\ gs[Len(gs)] = f
  /\ \A k \in 1 .. Len(fs) : gs[k] = fs[k]

LEMMA ExtendedLive ==
  ASSUME NEW gs, NEW fs, NEW f, Extends(gs, fs, f)
  PROVE  /\ Len(fs) \in Nat /\ Len(gs) = Len(fs) + 1 /\ gs[Len(gs)] = f
         /\ Live(gs, Len(gs))
         /\ \A k \in 1 .. Len(fs) :
              gs[k] = fs[k] /\ (Live(gs, k) <=> Live(fs, k) /\ ~Leaves(f))
<1>1. /\ Len(fs) \in Nat /\ Len(gs) = Len(fs) + 1 /\ gs[Len(gs)] = f
      /\ \A k \in 1 .. Len(fs) : gs[k] = fs[k]
  BY DEF Extends
<1>2. Live(gs, Len(gs))
  BY <1>1 DEF Live
<1>3. ASSUME NEW k \in 1 .. Len(fs)
      PROVE  Live(gs, k) <=> Live(fs, k) /\ ~Leaves(f)
  <2>1. \A m \in k + 1 .. Len(gs) : m = Len(gs) \/ m \in k + 1 .. Len(fs)
    BY <1>1
  <2>2. Len(gs) \in k + 1 .. Len(gs) /\ \A m \in k + 1 .. Len(fs) : m \in k + 1 .. Len(gs)
    BY <1>1
  <2>3. \A m \in k + 1 .. Len(fs) : gs[m] = fs[m]
    BY <1>1
  <2>4. Live(gs, k) => Live(fs, k) /\ ~Leaves(f)
    BY <1>1, <2>2, <2>3 DEF Live
  <2>5. Live(fs, k) /\ ~Leaves(f) => Live(gs, k)
    BY <1>1, <2>1, <2>3 DEF Live
  <2>6. QED
    BY <2>4, <2>5
<1>4. QED
  BY <1>1, <1>2, <1>3

LEMMA FlowPop ==
  ASSUME NEW gs, NEW fs, NEW f, Extends(gs, fs, f), NEW e, Flow(gs, e)
  PROVE  Agrees(f, e) /\ (~Leaves(f) => Under(fs, f, e))
<1>1. /\ Len(fs) \in Nat /\ Len(gs) = Len(fs) + 1 /\ gs[Len(gs)] = f
      /\ Live(gs, Len(gs))
      /\ \A k \in 1 .. Len(fs) :
           gs[k] = fs[k] /\ (Live(gs, k) <=> Live(fs, k) /\ ~Leaves(f))
  BY ExtendedLive
<1>2. \A k \in 1 .. Len(gs) : Live(gs, k) =>
        /\ Agrees(gs[k], e)
        /\ \A j \in 1 .. k - 1 : Live(gs, j) => Inherits(gs[j], gs[k])
  BY DEF Flow
<1>3. Len(gs) \in 1 .. Len(gs) /\ Len(gs) - 1 = Len(fs) /\ \A k \in 1 .. Len(fs) : k \in 1 .. Len(gs)
  BY <1>1
<1>4. Agrees(f, e) /\ \A j \in 1 .. Len(fs) : Live(gs, j) => Inherits(gs[j], f)
  BY <1>1, <1>2, <1>3
<1>5. ASSUME ~Leaves(f)
      PROVE  Under(fs, f, e)
  <2>1. \A k \in 1 .. Len(fs) : Live(fs, k) => Agrees(fs[k], e) /\ Inherits(fs[k], f)
    BY <1>1, <1>2, <1>3, <1>4, <1>5
  <2>2. ASSUME NEW k \in 1 .. Len(fs), Live(fs, k), NEW j \in 1 .. k - 1, Live(fs, j)
        PROVE  Inherits(fs[j], fs[k])
    <3>1. j \in 1 .. Len(fs) /\ k \in 1 .. Len(gs)
      BY <1>1
    <3>2. Live(gs, k) /\ Live(gs, j) /\ gs[k] = fs[k] /\ gs[j] = fs[j]
      BY <1>1, <1>5, <2>2, <3>1
    <3>3. QED
      BY <1>2, <3>1, <3>2
  <2>3. QED
    BY <2>1, <2>2 DEF Under, Flow
<1>6. QED
  BY <1>4, <1>5

LEMMA FlowPush ==
  ASSUME NEW gs, NEW fs, NEW f, Extends(gs, fs, f), NEW e, Agrees(f, e),
         ~Leaves(f) => Under(fs, f, e)
  PROVE  Flow(gs, e)
<1>1. /\ Len(fs) \in Nat /\ Len(gs) = Len(fs) + 1 /\ gs[Len(gs)] = f
      /\ \A k \in 1 .. Len(fs) :
           gs[k] = fs[k] /\ (Live(gs, k) <=> Live(fs, k) /\ ~Leaves(f))
  BY ExtendedLive
<1>2. ASSUME NEW k \in 1 .. Len(gs), Live(gs, k)
      PROVE  /\ Agrees(gs[k], e)
             /\ \A j \in 1 .. k - 1 : Live(gs, j) => Inherits(gs[j], gs[k])
  <2>1. CASE k = Len(gs)
    <3>1. ASSUME NEW j \in 1 .. k - 1, Live(gs, j)
          PROVE  Inherits(gs[j], gs[k])
      <4>1. j \in 1 .. Len(fs)
        BY <1>1, <2>1
      <4>2. Live(fs, j) /\ ~Leaves(f) /\ gs[j] = fs[j] /\ gs[k] = f
        BY <1>1, <2>1, <3>1, <4>1
      <4>3. QED
        BY <4>1, <4>2 DEF Under
    <3>2. QED
      BY <1>1, <2>1, <3>1
  <2>2. CASE k # Len(gs)
    <3>1. k \in 1 .. Len(fs) /\ \A j \in 1 .. k - 1 : j \in 1 .. Len(fs)
      BY <1>1, <2>2
    <3>2. Live(fs, k) /\ ~Leaves(f) /\ gs[k] = fs[k]
      BY <1>1, <1>2, <3>1
    <3>3. Flow(fs, e)
      BY <3>2 DEF Under
    <3>4. Agrees(fs[k], e) /\ \A j \in 1 .. k - 1 : Live(fs, j) => Inherits(fs[j], fs[k])
      BY <3>1, <3>2, <3>3 DEF Flow
    <3>5. QED
      BY <1>1, <3>1, <3>2, <3>4
  <2>3. QED
    BY <2>1, <2>2
<1>3. QED
  BY <1>2 DEF Flow

LEMMA UnderPush ==
  ASSUME NEW gs, NEW fs, NEW f, Extends(gs, fs, f), NEW e, Flow(gs, e),
         NEW g, Inherits(f, g), ~Leaves(f) => Under(fs, g, e)
  PROVE  Under(gs, g, e)
<1>1. /\ Len(fs) \in Nat /\ Len(gs) = Len(fs) + 1 /\ gs[Len(gs)] = f
      /\ \A k \in 1 .. Len(fs) :
           gs[k] = fs[k] /\ (Live(gs, k) <=> Live(fs, k) /\ ~Leaves(f))
  BY ExtendedLive
<1>2. ASSUME NEW k \in 1 .. Len(gs), Live(gs, k)
      PROVE  Inherits(gs[k], g)
  <2>1. CASE k = Len(gs)
    BY <1>1, <2>1
  <2>2. CASE k # Len(gs)
    <3>1. k \in 1 .. Len(fs)
      BY <1>1, <2>2
    <3>2. Live(fs, k) /\ ~Leaves(f) /\ gs[k] = fs[k]
      BY <1>1, <1>2, <3>1
    <3>3. QED
      BY <3>1, <3>2 DEF Under
  <2>3. QED
    BY <2>1, <2>2
<1>3. QED
  BY <1>2 DEF Under

LEMMA UnderMore ==
  ASSUME NEW fs, NEW e, NEW f, NEW g, Under(fs, f, e), Inherits(f, g)
  PROVE  Under(fs, g, e)
BY DEF Under, Inherits

\* A store to a name that is not narrowed on top is not narrowed below.
LEMMA UnderStore ==
  ASSUME NEW fs, NEW e, NEW f, Under(fs, f, e),
         NEW x \in Names, ~Narrows(f, x),
         NEW d, \A y \in Names : y # x => d[y] = e[y]
  PROVE  Under(fs, f, d)
<1>1. ASSUME NEW k \in 1 .. Len(fs), Live(fs, k)
      PROVE  Agrees(fs[k], d)
  <2>1. Agrees(fs[k], e) /\ ~Narrows(fs[k], x)
    BY <1>1 DEF Under, Flow, Inherits
  <2>2. QED
    BY <2>1 DEF Agrees
<1>2. QED
  BY <1>1 DEF Under, Flow

LEMMA AgreesStore ==
  ASSUME NEW e, NEW f, Agrees(f, e), NEW x \in Names, ~Narrows(f, x),
         NEW d, \A y \in Names : y # x => d[y] = e[y]
  PROVE  Agrees(f, d)
BY DEF Agrees

LEMMA ExtendedByOne ==
  ASSUME NEW fs \in Seq(RunFrames), NEW g \in RunFrames
  PROVE  Extends(fs \o << g >>, fs, g)
<1>1. << g >> \in Seq(RunFrames) /\ Len(<< g >>) = 1 /\ << g >>[1] = g
  OBVIOUS
<1>2. /\ fs \o << g >> \in Seq(RunFrames) /\ Len(fs \o << g >>) = Len(fs) + 1
      /\ Len(fs) \in Nat
      /\ \A k \in 1 .. Len(fs \o << g >>) :
           (fs \o << g >>)[k] = IF k <= Len(fs) THEN fs[k] ELSE << g >>[k - Len(fs)]
  BY <1>1, ConcatAt
<1>3. (fs \o << g >>)[Len(fs) + 1] = g
  <2>1. Len(fs) + 1 \in 1 .. Len(fs \o << g >>) /\ ~(Len(fs) + 1 <= Len(fs))
        /\ Len(fs) + 1 - Len(fs) = 1
    BY <1>2
  <2>2. QED
    BY <1>1, <1>2, <2>1
<1>4. \A k \in 1 .. Len(fs) : (fs \o << g >>)[k] = fs[k]
  BY <1>2
<1>5. QED
  BY <1>2, <1>3, <1>4 DEF Extends

\* Only a frame with statements left can end its block.
LEMMA LeavesInBlock ==
  ASSUME IsProgram, NEW g, g.blk \in DOMAIN prog.blocks, g.at \in Nat \ {0}, Leaves(g)
  PROVE  InBlock(g)
<1>1. prog.blocks[g.blk] \in Seq(Statements)
  BY ProgramFacts
<1>2. DOMAIN prog.blocks[g.blk] = 1 .. Len(prog.blocks[g.blk]) /\ Len(prog.blocks[g.blk]) \in Nat
  BY <1>1
<1>3. PICK i \in DOMAIN prog.blocks[g.blk] : g.at <= i
  BY DEF Leaves
<1>4. QED
  BY <1>2, <1>3 DEF InBlock

LEMMA PushedTyped ==
  ASSUME IsProgram, NEW fs \in Seq(RunFrames), NEW g \in [blk : Nat, at : Nat],
         g.blk \in DOMAIN prog.blocks, g.at \in Nat \ {0}
  PROVE  fs \o Unfinished(g) \in Seq(RunFrames)
<1>1. CASE InBlock(g)
  <2>1. Unfinished(g) = << g >> /\ g \in RunFrames
    BY <1>1, Pushed DEF RunFrames
  <2>2. QED
    BY <2>1
<1>2. CASE ~InBlock(g)
  <2>1. Unfinished(g) = << >>
    BY <1>2, Pushed
  <2>2. QED
    BY <2>1
<1>3. QED
  BY <1>1, <1>2

LEMMA FlowPushed ==
  ASSUME IsProgram, NEW fs \in Seq(RunFrames), NEW g \in [blk : Nat, at : Nat],
         g.blk \in DOMAIN prog.blocks, g.at \in Nat \ {0}, NEW e,
         InBlock(g) => Agrees(g, e),
         ~Leaves(g) => Flow(fs, e) /\ (InBlock(g) => Under(fs, g, e))
  PROVE  Flow(fs \o Unfinished(g), e)
<1>1. CASE InBlock(g)
  <2>1. Unfinished(g) = << g >> /\ g \in RunFrames
    BY <1>1, Pushed DEF RunFrames
  <2>2. Extends(fs \o << g >>, fs, g)
    BY <2>1, ExtendedByOne
  <2>3. QED
    BY <1>1, <2>1, <2>2, FlowPush
<1>2. CASE ~InBlock(g)
  <2>1. Unfinished(g) = << >>
    BY <1>2, Pushed
  <2>2. fs \o << >> = fs
    OBVIOUS
  <2>3. ~Leaves(g)
    BY <1>2, LeavesInBlock
  <2>4. QED
    BY <2>1, <2>2, <2>3
<1>3. QED
  BY <1>1, <1>2

LEMMA UnderPushed ==
  ASSUME IsProgram, NEW fs \in Seq(RunFrames), NEW g \in [blk : Nat, at : Nat],
         g.blk \in DOMAIN prog.blocks, g.at \in Nat \ {0}, NEW e,
         Flow(fs \o Unfinished(g), e), NEW c,
         InBlock(g) => Inherits(g, c),
         ~Leaves(g) => Under(fs, c, e)
  PROVE  Under(fs \o Unfinished(g), c, e)
<1>1. CASE InBlock(g)
  <2>1. Unfinished(g) = << g >> /\ g \in RunFrames
    BY <1>1, Pushed DEF RunFrames
  <2>2. Extends(fs \o << g >>, fs, g)
    BY <2>1, ExtendedByOne
  <2>3. QED
    BY <1>1, <2>1, <2>2, UnderPush
<1>2. CASE ~InBlock(g)
  <2>1. Unfinished(g) = << >>
    BY <1>2, Pushed
  <2>2. fs \o << >> = fs
    OBVIOUS
  <2>3. ~Leaves(g)
    BY <1>2, LeavesInBlock
  <2>4. QED
    BY <2>1, <2>2, <2>3
<1>3. QED
  BY <1>1, <1>2

LEMMA NextOne ==
  ASSUME IsProgram, NEW f \in RunFrames
  PROVE  /\ Next1(f) \in [blk : Nat, at : Nat]
         /\ Next1(f).blk = f.blk /\ Next1(f).at = f.at + 1
         /\ Next1(f).blk \in DOMAIN prog.blocks /\ Next1(f).at \in Nat \ {0}
         /\ Node(Next1(f)) = << f.blk, f.at + 1 >>
<1>1. f \in [blk : Nat, at : Nat] /\ InBlock(f)
  BY DEF RunFrames
<1>2. Next1(f) = [f EXCEPT !.at = f.at + 1]
  BY DEF Next1
<1>3. /\ Next1(f) \in [blk : Nat, at : Nat]
      /\ Next1(f).blk = f.blk /\ Next1(f).at = f.at + 1
  BY <1>1, <1>2
<1>4. QED
  BY <1>1, <1>3 DEF InBlock, Node

\* A block that does not fall through ends where it stands or further on.
LEMMA LeavesOn ==
  ASSUME IsProgram, NEW f \in RunFrames, Leaves(f)
  PROVE  Returns(Stmt(f), BlockReturns(prog.blocks)) \/ Leaves(Next1(f))
<1>1. PICK i \in DOMAIN prog.blocks[f.blk] :
        f.at <= i /\ Returns(prog.blocks[f.blk][i], BlockReturns(prog.blocks))
  BY DEF Leaves
<1>2. InBlock(f) /\ f.at \in Nat /\ f.blk \in DOMAIN prog.blocks
  BY DEF RunFrames, InBlock
<1>3. prog.blocks[f.blk] \in Seq(Statements)
  BY <1>2, ProgramFacts
<1>4. i \in Nat
  BY <1>3
<1>5. Next1(f).blk = f.blk /\ Next1(f).at = f.at + 1
  BY NextOne
<1>6. CASE i = f.at
  BY <1>1, <1>6 DEF Stmt
<1>7. CASE i # f.at
  <2>1. f.at + 1 <= i
    BY <1>1, <1>2, <1>4, <1>7
  <2>2. QED
    BY <1>1, <1>5, <2>1 DEF Leaves
<1>8. QED
  BY <1>6, <1>7

LEMMA EnteredLeaves ==
  ASSUME IsProgram, NEW b \in BlockReturns(prog.blocks)
  PROVE  b # 0 /\ Leaves([blk |-> b, at |-> 1])
<1>1. PICK i \in DOMAIN prog.blocks[b] :
        Returns(prog.blocks[b][i], BlockReturns(prog.blocks))
  BY BlocksReturn
<1>2. b \in DOMAIN prog.blocks /\ b # 0
  BY BlocksReturn, ProgramFacts
<1>3. prog.blocks[b] \in Seq(Statements)
  BY <1>2, ProgramFacts
<1>4. 1 <= i
  BY <1>3
<1>5. QED
  BY <1>1, <1>2, <1>4 DEF Leaves

\* What goes on at a checked statement, if no frame is waiting for the checker.
LEMMA RestFound ==
  ASSUME IsProgram, NEW f \in RunFrames, NEW g, g.blk = f.blk, g.at = f.at, NEW over,
         AllFound(Rest(g, over), << >>), InBlock(Next1(f))
  PROVE  Checked(Node(Next1(f))) /\ seen[Node(Next1(f))].over = over
<1> DEFINE h == [blk |-> g.blk, at |-> g.at + 1, over |-> over]
<1>1. /\ h.blk \in DOMAIN prog.blocks /\ h.at \in Nat \ {0} /\ h.over = over
      /\ h.blk = Next1(f).blk /\ h.at = Next1(f).at
  BY NextOne
<1>2. InBlock(h) /\ Node(h) = Node(Next1(f))
  BY <1>1 DEF InBlock, Node
<1>3. Rest(g, over) = Unfinished(h)
  BY DEF Rest
<1> HIDE DEF h
<1>4. Rest(g, over) = << h >>
  BY <1>1, <1>2, <1>3, Pushed
<1>5. Found(h, << >>)
  BY <1>4 DEF AllFound
<1>6. QED
  BY <1>1, <1>2, <1>5 DEF Found, Checked

LEMMA BranchFound ==
  ASSUME IsProgram, NEW b \in DOMAIN prog.blocks, NEW over,
         AllFound(Branch(b, over), << >>), InBlock([blk |-> b, at |-> 1])
  PROVE  Checked(<< b, 1 >>) /\ seen[<< b, 1 >>].over = over
<1> DEFINE h == Frame(b, over)
<1>1. h.blk = b /\ h.at = 1 /\ h.over = over /\ b # 0
  BY ProgramFacts DEF Frame
<1>2. InBlock(h) /\ Node(h) = << b, 1 >>
  BY <1>1 DEF InBlock, Node
<1>3. Branch(b, over) = Unfinished(h)
  BY <1>1 DEF Branch
<1> HIDE DEF h
<1>4. Branch(b, over) = << h >>
  BY <1>1, <1>2, <1>3, Pushed
<1>5. Found(h, << >>)
  BY <1>4 DEF AllFound
<1>6. QED
  BY <1>1, <1>2, <1>5 DEF Found, Checked

LEMMA FoundParts ==
  ASSUME NEW p \in Seq(CheckFrames), NEW q \in Seq(CheckFrames),
         AllFound(p \o q, << >>)
  PROVE  AllFound(p, << >>) /\ AllFound(q, << >>)
<1>1. /\ Len(p \o q) = Len(p) + Len(q) /\ Len(p) \in Nat /\ Len(q) \in Nat
      /\ \A k \in 1 .. Len(p \o q) :
           (p \o q)[k] = IF k <= Len(p) THEN p[k] ELSE q[k - Len(p)]
  BY ConcatAt
<1>2. \A k \in 1 .. Len(p \o q) : Found((p \o q)[k], << >>)
  BY DEF AllFound
<1>3. ASSUME NEW i \in 1 .. Len(p)
      PROVE  Found(p[i], << >>)
  <2>1. i \in 1 .. Len(p \o q) /\ (p \o q)[i] = p[i]
    BY <1>1
  <2>2. QED
    BY <1>2, <2>1
<1>4. ASSUME NEW i \in 1 .. Len(q)
      PROVE  Found(q[i], << >>)
  <2>1. /\ Len(p) + i \in 1 .. Len(p \o q) /\ ~(Len(p) + i <= Len(p))
        /\ Len(p) + i - Len(p) = i
    BY <1>1
  <2>2. (p \o q)[Len(p) + i] = q[i]
    BY <1>1, <2>1
  <2>3. QED
    BY <1>2, <2>1, <2>2
<1>5. QED
  BY <1>3, <1>4 DEF AllFound

\* The statement about to run.
LEMMA TopRuns ==
  ASSUME IInv, phase = "run", frames # << >>
  PROVE  /\ IsProgram
         /\ Outer \in Seq(RunFrames) /\ Top \in RunFrames /\ InBlock(Top)
         /\ frames \in Seq(RunFrames) /\ Extends(frames, Outer, Top)
         /\ Stmt(Top) \in Statements /\ Stmt(Top) = StmtAt(Node(Top))
         /\ env \in [Names -> Atoms]
         /\ ~loose =>
              /\ Declares(env) /\ Flow(frames, env)
              /\ Agrees(Top, env) /\ Checked(Node(Top))
              /\ ~Leaves(Top) => Under(Outer, Top, env)
<1>1. /\ IsProgram /\ frames \in Seq(RunFrames) /\ env \in [Names -> Atoms]
      /\ ~loose => Declares(env) /\ Flow(frames, env)
  BY DEF IInv, CheckInv, RunInv
<1>2. /\ Outer \in Seq(RunFrames) /\ Top \in RunFrames
      /\ Len(frames) \in Nat \ {0} /\ Len(Outer) = Len(frames) - 1 /\ frames[Len(frames)] = Top
      /\ \A k \in 1 .. Len(frames) - 1 : Outer[k] = frames[k]
  BY <1>1, Shorter DEF Outer, Top
<1>3. Extends(frames, Outer, Top)
  BY <1>1, <1>2 DEF Extends
<1>4. InBlock(Top)
  BY <1>2 DEF RunFrames
<1>5. Stmt(Top) \in Statements /\ Stmt(Top) = StmtAt(Node(Top))
  BY <1>1, <1>4, StmtFacts DEF Stmt, StmtAt, Node
<1>6. ~loose => Agrees(Top, env) /\ (~Leaves(Top) => Under(Outer, Top, env))
  BY <1>1, <1>3, FlowPop
<1>7. QED
  BY <1>1, <1>2, <1>3, <1>4, <1>5, <1>6 DEF Agrees

Over == seen[Node(Top)].over
Type == seen[Node(Top)].type
Place == SeenAt(Node(Top))

\* What the checker knew of it.
LEMMA TopChecked ==
  ASSUME IInv, phase = "run", frames # << >>, Checked(Node(Top))
  PROVE  /\ Over \in Overlays /\ Type \in Types
         /\ Type = Operand(Over, OperandOf(Stmt(Top)))
         /\ Recorded(Node(Top)) = Type
         /\ Accepts(Stmt(Top), Type)
         /\ Place \in CheckFrames /\ Stmt(Place) = Stmt(Top)
         /\ Place.blk = Top.blk /\ Place.at = Top.at /\ Place.over = Over
         /\ AllFound(After(Stmt(Top), Place, Type), << >>)
<1>1. /\ IsProgram /\ Top \in RunFrames /\ InBlock(Top) /\ Stmt(Top) \in Statements
      /\ Stmt(Top) = StmtAt(Node(Top))
  BY TopRuns
<1>2. /\ NodesSeen /\ Accepted /\ Closed(<< >>)
  BY DEF IInv, CheckInv, Pending
<1>3. Node(Top) \in DOMAIN seen
  BY DEF Checked
<1>4. /\ Over \in Overlays /\ Type = Operand(Over, OperandOf(Stmt(Top)))
      /\ Accepts(Stmt(Top), Type)
      /\ AllFound(After(Stmt(Top), Place, Type), << >>)
  BY <1>1, <1>2, <1>3 DEF NodesSeen, Accepted, Closed, Over, Type, Place
<1>5. OperandOf(Stmt(Top)) \in Names \cup Atoms
  BY <1>1 DEF OperandOf, Statements
<1>6. Type \in Types
  BY <1>1, <1>4, <1>5, OperandTyped
<1>7. Place.blk = Top.blk /\ Place.at = Top.at /\ Place.over = Over
  BY DEF Place, SeenAt, Node, Over
<1>8. Place \in CheckFrames /\ Stmt(Place) = Stmt(Top)
  BY <1>1, <1>4, <1>7 DEF CheckFrames, RunFrames, InBlock, Place, SeenAt, Node, Over, Stmt
<1>9. Recorded(Node(Top)) = Type
  BY DEF Recorded, Type
<1>10. QED
  BY <1>4, <1>6, <1>7, <1>8, <1>9

LEMMA SameFlow ==
  ASSUME UNCHANGED << prog, seen >>
  PROVE  /\ \A e : Declares(e)' <=> Declares(e)
         /\ \A fs, e : Flow(fs, e)' <=> Flow(fs, e)
<1>1. \A f : Leaves(f)' <=> Leaves(f)
  BY DEF Leaves
<1>2. \A fs, k : Live(fs, k)' <=> Live(fs, k)
  BY <1>1 DEF Live
<1>3. \A f, x : Narrows(f, x)' <=> Narrows(f, x)
  BY DEF Narrows
<1>4. \A f, e : Agrees(f, e)' <=> Agrees(f, e)
  BY <1>3 DEF Agrees, Checked
<1>5. \A f, g : Inherits(f, g)' <=> Inherits(f, g)
  BY <1>3 DEF Inherits
<1>6. \A fs, e : Flow(fs, e)' <=> Flow(fs, e)
  BY <1>2, <1>4, <1>5 DEF Flow
<1>7. \A e : Declares(e)' <=> Declares(e)
  BY DEF Declares, Declared
<1>8. QED
  BY <1>6, <1>7

\* What a step has to keep.
LEMMA StepHolds ==
  ASSUME IInv, Pending = << >>, phase # "refused", UNCHANGED << prog, seen >>,
         phase' \notin {"check", "refused"},
         ReadsAsTyped',
         DOMAIN env' = Names /\ ~loose' => Declares(env'),
         phase' = "run" =>
           /\ frames' \in Seq(RunFrames)
           /\ env' \in [Names -> Atoms]
           /\ ~loose' => Declares(env') /\ Flow(frames', env')
  PROVE  IInv'
<1>1. CheckInv'
  BY ChecksKept DEF IInv
<1>2. RunFrames' = RunFrames
  BY SameProgram
<1>3. \A e : Declares(e)' <=> Declares(e)
  BY SameFlow
<1>4. \A fs, e : Flow(fs, e)' <=> Flow(fs, e)
  BY SameFlow
<1>5. HoldsDeclared'
  BY <1>3 DEF HoldsDeclared, Declares, Declared
<1>6. Flow(frames, env)' <=> Flow(frames', env')
  BY <1>4
<1>7. Declares(env)' <=> Declares(env')
  BY <1>3
<1>8. RunInv'
  BY <1>2, <1>5, <1>6, <1>7 DEF RunInv
<1>9. QED
  BY <1>1, <1>8 DEF IInv

\* What the operand holds is of the type the checker knew it by.
LEMMA OperandHolds ==
  ASSUME IInv, phase = "run", frames # << >>, ~loose
  PROVE  /\ OperandOf(Stmt(Top)) \in Names =>
              env[OperandOf(Stmt(Top))] \in Members(Type)
         /\ OperandOf(Stmt(Top)) \notin Names => OperandOf(Stmt(Top)) \in Members(Type)
<1> DEFINE src == OperandOf(Stmt(Top))
<1>1. /\ Stmt(Top) \in Statements /\ Declares(env) /\ Agrees(Top, env) /\ Checked(Node(Top))
  BY TopRuns
<1>2. Type = Operand(Over, src) /\ Over \in Overlays
  BY <1>1, TopChecked
<1>3. src \in Names \cup Atoms
  BY <1>1 DEF OperandOf, Statements
<1> HIDE DEF src
<1>4. CASE src \in Names
  <2>1. env[src] \in Members(Declared(src))
    BY <1>1, <1>4 DEF Declares
  <2>2. Over[src] # {} => env[src] \in Members(Over[src])
    BY <1>1, <1>4 DEF Agrees, Narrows, Over
  <2>3. Type = IF Over[src] # {} THEN Over[src] ELSE Declared(src)
    BY <1>2, <1>4 DEF Operand, CurrentType
  <2>4. QED
    BY <1>4, <2>1, <2>2, <2>3 DEF src
<1>5. CASE src \notin Names
  <2>1. Type = {src} /\ src \in Atoms
    BY <1>2, <1>3, <1>5 DEF Operand
  <2>2. QED
    BY <1>5, <2>1, AtomsAreTypes DEF src
<1>6. QED
  BY <1>4, <1>5

LEMMA ReadRight ==
  ASSUME IInv, phase = "run", frames # << >>, Reads(Stmt(Top)), ~loose
  PROVE  /\ OperandOf(Stmt(Top)) \in Names
         /\ LET r == ReadOf(Node(Top), OperandOf(Stmt(Top)))
            IN  r.value \in Members(r.type) /\ ~r.trapped
<1> DEFINE src == OperandOf(Stmt(Top))
<1>1. Stmt(Top) \in Statements /\ Checked(Node(Top))
  BY TopRuns
<1>2. src \in Names
  BY <1>1 DEF Reads, OperandOf, Statements
<1>3. Type \in Types /\ Recorded(Node(Top)) = Type
  BY <1>1, TopChecked
<1>4. env[src] \in Members(Type)
  BY <1>2, OperandHolds
<1> HIDE DEF src
<1>5. ~Traps(Declared(src), Type, env[src])
  <2>1. CASE Type = Any
    BY <2>1 DEF Traps, Casts, IsDynamic
  <2>2. CASE Type # Any
    BY <1>3, <1>4, <2>2, SomeMember DEF Traps
  <2>3. QED
    BY <2>1, <2>2
<1>6. QED
  BY <1>2, <1>3, <1>4, <1>5 DEF ReadOf, src

LEMMA RecordRight ==
  ASSUME IInv, phase = "run", frames # << >>, Record(Stmt(Top), Node(Top))
  PROVE  ReadsAsTyped'
<1>1. CASE Reads(Stmt(Top))
  <2>1. read' = ReadOf(Node(Top), OperandOf(Stmt(Top)))
    BY <1>1 DEF Record
  <2>2. read'.sound => ~loose
    BY <2>1 DEF ReadOf
  <2>3. QED
    BY <1>1, <2>1, <2>2, ReadRight DEF ReadsAsTyped
<1>2. CASE ~Reads(Stmt(Top))
  BY <1>2 DEF Record, IInv, RunInv, ReadsAsTyped
<1>3. QED
  BY <1>1, <1>2

LEMMA LowerHolds ==
  ASSUME IInv, Lower
  PROVE  IInv'
<1> DEFINE c == [blk |-> 1, at |-> 1]
<1>1. /\ phase = "check" /\ frames = << >> /\ phase' \in {"panic", "run"}
      /\ frames' = Unfinished(c)
      /\ env' \in [Names -> Atoms] /\ Declares(env')
      /\ UNCHANGED << prog, seen, read, loose >>
  BY DEF Lower, Enter, Declares
<1>2. IsProgram /\ Pending = << >> /\ Closed(<< >>)
  BY <1>1 DEF IInv, CheckInv, Pending
<1>3. ReadsAsTyped'
  BY <1>1 DEF IInv, RunInv, ReadsAsTyped
<1>4. c \in [blk : Nat, at : Nat] /\ c.blk \in DOMAIN prog.blocks /\ c.at \in Nat \ {0}
  BY <1>2, BodyBegins
<1>5. << >> \in Seq(RunFrames) /\ << >> \o Unfinished(c) = Unfinished(c) /\ Len(<< >>) = 0
  BY DEF Unfinished
<1>6. Flow(<< >>, env') /\ \A f : Under(<< >>, f, env')
  BY <1>5 DEF Flow, Under
<1>7. ASSUME InBlock(c)
      PROVE  Agrees(c, env')
  <2>1. Checked(<< 1, 1 >>) /\ seen[<< 1, 1 >>].over = NotNarrowed
    BY <1>2, <1>4, <1>7, BranchFound DEF Closed
  <2>2. QED
    BY <2>1 DEF Agrees, Narrows, Node, NotNarrowed
<1> HIDE DEF c
<1>8. frames' \in Seq(RunFrames)
  <2>1. << >> \o Unfinished(c) \in Seq(RunFrames)
    <3>1. << >> \in Seq(RunFrames)
      BY <1>5
    <3>2. QED
      BY <1>2, <1>4, <3>1, PushedTyped
  <2>2. QED
    BY <1>1, <1>5, <2>1
<1>9. Flow(Unfinished(c), env')
  BY <1>2, <1>4, <1>5, <1>6, <1>7, FlowPushed
<1>10. QED
  BY <1>1, <1>2, <1>3, <1>8, <1>9, StepHolds

\* A frame that goes on with the same overlay.
LEMMA SameOverlay ==
  ASSUME NEW f, NEW g, Checked(Node(g)), seen[Node(g)].over = seen[Node(f)].over
  PROVE  /\ Inherits(f, g) /\ Inherits(g, f)
         /\ \A e : Agrees(f, e) => Agrees(g, e)
BY DEF Inherits, Narrows, Agrees

\* A run goes on with the rest of a block.
LEMMA GoesOn ==
  ASSUME IInv, phase = "run", frames # << >>, ~loose,
         ~Returns(Stmt(Top), BlockReturns(prog.blocks)),
         AllFound(Rest(Place, Over), << >>),
         NEW e, Agrees(Top, e), ~Leaves(Top) => Under(Outer, Top, e)
  PROVE  Flow(Outer \o Unfinished(Next1(Top)), e)
<1> DEFINE g == Next1(Top)
<1>1. IsProgram /\ Outer \in Seq(RunFrames) /\ Top \in RunFrames /\ Checked(Node(Top))
  BY TopRuns
<1>2. /\ g \in [blk : Nat, at : Nat] /\ g.blk \in DOMAIN prog.blocks /\ g.at \in Nat \ {0}
  BY <1>1, NextOne
<1>3. Place.blk = Top.blk /\ Place.at = Top.at
  BY <1>1, TopChecked
<1>4. InBlock(g) => Checked(Node(g)) /\ seen[Node(g)].over = Over
  BY <1>1, <1>3, RestFound
<1>5. Leaves(Top) => Leaves(g)
  BY <1>1, LeavesOn
<1> HIDE DEF g
<1>6. InBlock(g) => Inherits(Top, g) /\ Agrees(g, e)
  BY <1>4, SameOverlay DEF Over
<1>7. ~Leaves(g) => Flow(Outer, e) /\ (InBlock(g) => Under(Outer, g, e))
  BY <1>5, <1>6, UnderMore DEF Under
<1>8. Flow(Outer \o Unfinished(g), e)
  BY <1>1, <1>2, <1>6, <1>7, FlowPushed
<1>9. QED
  BY <1>8 DEF g

LEMMA RunUseHolds ==
  ASSUME IInv, RunUse
  PROVE  IInv'
<1>1. /\ phase = "run" /\ frames # << >> /\ Stmt(Top).op = "use"
      /\ Record(Stmt(Top), Node(Top))
      /\ \/ phase' = "trap" /\ frames' = << >>
         \/ phase' = phase /\ frames' = Outer \o Unfinished(Next1(Top))
      /\ UNCHANGED << prog, seen, env, loose >>
  BY DEF RunUse, Running, Step
<1>2. /\ IsProgram /\ Outer \in Seq(RunFrames) /\ Top \in RunFrames
      /\ env \in [Names -> Atoms]
      /\ ~loose => Declares(env) /\ Agrees(Top, env) /\ Checked(Node(Top))
                   /\ (~Leaves(Top) => Under(Outer, Top, env))
  BY <1>1, TopRuns
<1>3. Outer \o Unfinished(Next1(Top)) \in Seq(RunFrames)
  BY <1>2, NextOne, PushedTyped
<1>4. ASSUME ~loose
      PROVE  Flow(Outer \o Unfinished(Next1(Top)), env)
  <2>1. AllFound(After(Stmt(Top), Place, Type), << >>) /\ Place.over = Over
    BY <1>1, <1>2, <1>4, TopChecked
  <2>2. AllFound(Rest(Place, Over), << >>)
    BY <1>1, <2>1 DEF After
  <2>3. ~Returns(Stmt(Top), BlockReturns(prog.blocks))
    BY <1>1 DEF Returns
  <2>4. QED
    BY <1>1, <1>2, <1>4, <2>2, <2>3, GoesOn
<1>5. ReadsAsTyped'
  BY <1>1, RecordRight
<1>6. Pending = << >>
  BY <1>1 DEF Pending
<1>7. QED
  BY <1>1, <1>2, <1>3, <1>4, <1>5, <1>6, StepHolds

\* A store of what the checker admitted, to a name that is not narrowed.
LEMMA StoredFits ==
  ASSUME IInv, phase = "run", frames # << >>, ~loose, Stmt(Top).op \in {"assign", "ann"},
         ~Unconverted(Recorded(Node(Top)), Declared(Stmt(Top).name)),
         NEW v, v = IF Stmt(Top).src \in Names THEN env[Stmt(Top).src] ELSE Stmt(Top).src,
         ~(Stmt(Top).op = "ann" /\ Traps(Recorded(Node(Top)), Declared(Stmt(Top).name), v))
  PROVE  Promoted(Recorded(Node(Top)), Declared(Stmt(Top).name), v)
           \in Members(Declared(Stmt(Top).name))
<1> DEFINE s == Stmt(Top)
           dst == Declared(s.name)
<1>1. IsProgram /\ s \in Statements /\ Checked(Node(Top))
  BY TopRuns
<1>2. Type \in Types /\ Recorded(Node(Top)) = Type /\ Accepts(s, Type)
  BY <1>1, TopChecked
<1>3. OperandOf(s) = s.src
  BY DEF OperandOf
<1>4. v \in Members(Type)
  BY <1>3, OperandHolds
<1>5. dst \in Types
  BY <1>1, ProgramFacts DEF Declared, Statements
<1>6. CASE s.op = "assign"
  <2>1. AssignableTo(Type, dst)
    BY <1>2, <1>6 DEF Accepts
  <2>2. QED
    BY <1>2, <1>4, <1>5, <2>1, StoreFits
<1>7. CASE s.op = "ann"
  <2>1. Type = Any \/ AssignableTo(Type, dst)
    BY <1>2, <1>7 DEF Accepts
  <2>2. ~Traps(Type, dst, v)
    BY <1>2, <1>7
  <2>3. QED
    BY <1>2, <1>4, <1>5, <2>1, <2>2, StoreFits
<1>8. QED
  BY <1>6, <1>7

LEMMA RunStoreHolds ==
  ASSUME IInv, RunStore
  PROVE  IInv'
<1> DEFINE s == Stmt(Top)
           n == Node(Top)
           src == Recorded(n)
           dst == Declared(s.name)
           v == IF s.src \in Names THEN env[s.src] ELSE s.src
           w == Promoted(src, dst, v)
<1>1. /\ phase = "run" /\ frames # << >> /\ s.op \in {"assign", "ann"}
      /\ Record(s, n)
      /\ \/ phase' = "trap" /\ frames' = << >>
         \/ /\ phase' = phase /\ frames' = Outer \o Unfinished(Next1(Top))
            /\ ~(s.op = "ann" /\ Traps(src, dst, v))
      /\ env' = IF phase' = "trap" THEN env ELSE [env EXCEPT ![s.name] = w]
      /\ loose' = (loose \/ Unconverted(src, dst) \/ LeavesOverlay(n, s.name))
      /\ UNCHANGED << prog, seen >>
  <2> HIDE DEF w
  <2>1. QED
    BY DEF RunStore, Running, Step, w
<1>2. /\ IsProgram /\ Outer \in Seq(RunFrames) /\ Top \in RunFrames /\ s \in Statements
      /\ env \in [Names -> Atoms]
      /\ ~loose => Declares(env) /\ Agrees(Top, env) /\ Checked(Node(Top))
                   /\ (~Leaves(Top) => Under(Outer, Top, env))
  BY <1>1, TopRuns
<1>3. Outer \o Unfinished(Next1(Top)) \in Seq(RunFrames)
  BY <1>2, NextOne, PushedTyped
<1>4. ReadsAsTyped'
  BY <1>1, RecordRight
<1>5. Pending = << >> /\ s.name \in Names /\ s.src \in Names \cup Atoms
  BY <1>1, <1>2 DEF Pending, Statements
<1>6. v \in Atoms /\ w \in Atoms
  BY <1>2, <1>5 DEF Promoted, Atoms
<1>7. CASE phase' = "trap"
  BY <1>1, <1>2, <1>4, <1>5, <1>7, StepHolds
<1>8. CASE phase' # "trap"
  <2>1. /\ phase' = "run" /\ frames' = Outer \o Unfinished(Next1(Top))
        /\ env' = [env EXCEPT ![s.name] = w]
        /\ ~(s.op = "ann" /\ Traps(src, dst, v))
    BY <1>1, <1>8
  <2>2. /\ env' \in [Names -> Atoms] /\ env'[s.name] = w
        /\ \A y \in Names : y # s.name => env'[y] = env[y]
    BY <1>2, <1>5, <1>6, <2>1
  <2>3. ASSUME ~loose'
        PROVE  Declares(env') /\ Flow(frames', env')
    <3>1. ~loose /\ ~Unconverted(src, dst) /\ ~LeavesOverlay(n, s.name)
      BY <1>1, <2>3
    <3>2. w \in Members(dst)
      BY <1>1, <2>1, <3>1, StoredFits
    <3>3. Declares(env')
      BY <1>2, <2>2, <3>1, <3>2 DEF Declares
    <3>4. ~Narrows(Top, s.name)
      BY <1>2, <3>1 DEF LeavesOverlay, Narrows
    <3> HIDE DEF s, w
    <3>5. Agrees(Top, env') /\ (~Leaves(Top) => Under(Outer, Top, env'))
      BY <1>2, <1>5, <2>2, <3>1, <3>4, AgreesStore, UnderStore
    <3>6. AllFound(After(Stmt(Top), Place, Type), << >>) /\ Place.over = Over
      BY <1>1, <1>2, <3>1, TopChecked
    <3>7. AllFound(Rest(Place, Over), << >>)
      BY <1>1, <3>6 DEF After, s
    <3>8. ~Returns(Stmt(Top), BlockReturns(prog.blocks))
      BY <1>1 DEF Returns, s
    <3>9. Flow(Outer \o Unfinished(Next1(Top)), env')
      BY <1>1, <3>1, <3>5, <3>7, <3>8, GoesOn
    <3>10. QED
      BY <2>1, <3>3, <3>9
  <2>4. QED
    BY <1>1, <1>3, <1>4, <1>5, <2>1, <2>2, <2>3, StepHolds
<1>9. QED
  BY <1>7, <1>8

LEMMA EnteredTyped ==
  ASSUME IsProgram, NEW fs \in Seq(RunFrames), NEW b \in {0} \cup DOMAIN prog.blocks
  PROVE  fs \o Enter(b) \in Seq(RunFrames)
<1>1. CASE b = 0
  BY <1>1 DEF Enter
<1>2. CASE b # 0
  <2> DEFINE c == [blk |-> b, at |-> 1]
  <2>1. c \in [blk : Nat, at : Nat] /\ c.blk \in DOMAIN prog.blocks /\ c.at \in Nat \ {0}
    BY <1>2, ProgramFacts
  <2>2. Enter(b) = Unfinished(c)
    BY <1>2 DEF Enter
  <2> HIDE DEF c
  <2>3. QED
    BY <2>1, <2>2, PushedTyped
<1>3. QED
  BY <1>1, <1>2

LEMMA FlowEntered ==
  ASSUME IsProgram, NEW fs \in Seq(RunFrames), NEW b \in {0} \cup DOMAIN prog.blocks,
         NEW c, c = [blk |-> b, at |-> 1], NEW e,
         b # 0 /\ InBlock(c) => Agrees(c, e),
         ~(b # 0 /\ Leaves(c)) => Flow(fs, e) /\ (b # 0 /\ InBlock(c) => Under(fs, c, e))
  PROVE  Flow(fs \o Enter(b), e)
<1>1. CASE b = 0
  <2>1. Enter(b) = << >> /\ fs \o << >> = fs
    BY <1>1 DEF Enter
  <2>2. QED
    BY <1>1, <2>1
<1>2. CASE b # 0
  <2>1. Enter(b) = Unfinished(c)
    BY <1>2 DEF Enter
  <2>2. /\ c \in [blk : Nat, at : Nat] /\ c.blk \in DOMAIN prog.blocks /\ c.at \in Nat \ {0}
    BY <1>2, ProgramFacts
  <2>3. Flow(fs \o Unfinished(c), e)
    BY <1>2, <2>2, FlowPushed
  <2>4. QED
    BY <2>1, <2>3
<1>3. QED
  BY <1>1, <1>2

LEMMA HeldByTop ==
  ASSUME IInv, phase = "run", frames # << >>
  PROVE  Stmt(Top).then \in {0} \cup DOMAIN prog.blocks
         /\ Stmt(Top).else \in {0} \cup DOMAIN prog.blocks
BY TopRuns, HeldBlocks DEF Held

LEMMA WhileFound ==
  ASSUME IInv, phase = "run", frames # << >>, ~loose, Stmt(Top).op = "while"
  PROVE  /\ AllFound(Rest(Place, Over), << >>)
         /\ AllFound(Branch(Stmt(Top).then, Over), << >>)
         /\ AllFound(Branch(Stmt(Top).else, Over), << >>)
<1> DEFINE s == Stmt(Top)
           p == Rest(Place, Over)
           q == Branch(s.else, Over)
           r == Branch(s.then, Over)
<1>1. IsProgram /\ Checked(Node(Top))
  BY TopRuns
<1>2. /\ Over \in Overlays /\ Place \in CheckFrames /\ Place.over = Over
      /\ AllFound(After(s, Place, Type), << >>)
  BY <1>1, TopChecked
<1>3. After(s, Place, Type) = p \o (q \o r)
  BY <1>2 DEF After
<1>4. p \in Seq(CheckFrames)
  BY <1>1, <1>2, RestShape DEF Fan
<1>5. q \in Seq(CheckFrames) /\ r \in Seq(CheckFrames)
  BY <1>1, <1>2, HeldByTop, BranchShape DEF Fan
<1> HIDE DEF s, p, q, r
<1>6. q \o r \in Seq(CheckFrames)
  BY <1>5
<1>7. AllFound(p, << >>) /\ AllFound(q \o r, << >>)
  BY <1>2, <1>3, <1>4, <1>6, FoundParts
<1>8. AllFound(q, << >>) /\ AllFound(r, << >>)
  BY <1>5, <1>7, FoundParts
<1>9. QED
  BY <1>7, <1>8 DEF s, p, q, r

LEMMA RunWhileHolds ==
  ASSUME IInv, RunWhile
  PROVE  IInv'
<1>1. PICK again \in BOOLEAN :
        frames' = Outer \o (IF again THEN << Top >> ELSE Unfinished(Next1(Top)))
                    \o Enter(IF again THEN Stmt(Top).then ELSE Stmt(Top).else)
  BY DEF RunWhile
<1> DEFINE b == IF again THEN Stmt(Top).then ELSE Stmt(Top).else
           c == [blk |-> b, at |-> 1]
           g == Next1(Top)
           fs == Outer \o (IF again THEN << Top >> ELSE Unfinished(g))
<1>2. /\ phase = "run" /\ frames # << >> /\ Stmt(Top).op = "while"
      /\ UNCHANGED << prog, phase, seen, env, read, loose >>
  BY DEF RunWhile, Running
<1>3. /\ IsProgram /\ Outer \in Seq(RunFrames) /\ Top \in RunFrames
      /\ env \in [Names -> Atoms]
      /\ ~loose => Declares(env) /\ Agrees(Top, env) /\ Checked(Node(Top))
                   /\ (~Leaves(Top) => Under(Outer, Top, env))
  BY <1>2, TopRuns
<1>4. /\ g \in [blk : Nat, at : Nat] /\ g.blk \in DOMAIN prog.blocks /\ g.at \in Nat \ {0}
  BY <1>3, NextOne
<1>5. b \in {0} \cup DOMAIN prog.blocks
  BY <1>2, HeldByTop
<1>6. fs \in Seq(RunFrames) /\ Extends(Outer \o << Top >>, Outer, Top)
  <2>1. Extends(Outer \o << Top >>, Outer, Top)
    BY <1>3, ExtendedByOne
  <2>2. Outer \o << Top >> \in Seq(RunFrames)
    BY <2>1 DEF Extends
  <2>3. Outer \o Unfinished(g) \in Seq(RunFrames)
    BY <1>3, <1>4, PushedTyped
  <2>4. QED
    BY <2>1, <2>2, <2>3
<1>7. c.blk = b /\ c.at = 1 /\ Node(c) = << b, 1 >>
  BY DEF Node
<1>8. ASSUME ~loose
      PROVE  /\ Flow(fs, env)
             /\ b # 0 /\ InBlock(c) => Agrees(c, env) /\ Under(fs, c, env)
  <2>1. /\ AllFound(Rest(Place, Over), << >>)
        /\ AllFound(Branch(Stmt(Top).then, Over), << >>)
        /\ AllFound(Branch(Stmt(Top).else, Over), << >>)
    BY <1>2, <1>8, WhileFound
  <2>2. ~Returns(Stmt(Top), BlockReturns(prog.blocks))
    BY <1>2 DEF Returns
  <2>3. Flow(Outer \o Unfinished(g), env)
    BY <1>2, <1>3, <1>8, <2>1, <2>2, GoesOn
  <2>4. Flow(Outer \o << Top >>, env)
    BY <1>3, <1>6, <1>8, FlowPush
  <2>5. Flow(fs, env)
    BY <2>3, <2>4
  <2>6. ASSUME b # 0, InBlock(c)
        PROVE  Agrees(c, env) /\ Under(fs, c, env)
    <3>1. AllFound(Branch(b, Over), << >>)
      BY <2>1
    <3>2. Checked(<< b, 1 >>) /\ seen[<< b, 1 >>].over = Over
      BY <1>3, <1>5, <2>6, <3>1, BranchFound
    <3>3. InBlock(g) => Checked(Node(g)) /\ seen[Node(g)].over = Over
      BY <1>2, <1>3, <1>8, <2>1, RestFound, TopChecked
    <3>4. Leaves(Top) => Leaves(g)
      BY <1>3, <2>2, LeavesOn
    <3> HIDE DEF b, c, g
    <3>5. Inherits(Top, c) /\ Agrees(c, env)
      BY <1>3, <1>7, <1>8, <3>2, SameOverlay DEF Over
    <3>6. InBlock(g) => Inherits(g, c)
      BY <1>7, <3>2, <3>3, SameOverlay DEF Over
    <3>7. ~Leaves(Top) => Under(Outer, c, env)
      BY <1>3, <1>8, <3>5, UnderMore
    <3>8. Under(Outer \o << Top >>, c, env)
      BY <1>6, <2>4, <3>5, <3>7, UnderPush
    <3>9. ~Leaves(g) => Under(Outer, c, env)
      BY <3>4, <3>7
    <3>10. Under(Outer \o Unfinished(g), c, env)
      BY <1>3, <1>4, <2>3, <3>6, <3>9, UnderPushed
    <3>11. QED
      BY <3>5, <3>8, <3>10
  <2>7. QED
    BY <2>5, <2>6
<1>9. frames' = fs \o Enter(b)
  BY <1>1
<1>10. fs \o Enter(b) \in Seq(RunFrames)
  <2> HIDE DEF fs, b
  <2>1. QED
    BY <1>3, <1>5, <1>6, EnteredTyped
<1>11. ~loose => Flow(fs \o Enter(b), env)
  <2> HIDE DEF fs, b
  <2>1. QED
    BY <1>3, <1>5, <1>6, <1>8, FlowEntered
<1>12. Pending = << >> /\ ReadsAsTyped'
  BY <1>2 DEF Pending, IInv, RunInv, ReadsAsTyped
<1> HIDE DEF fs, b, c, g
<1>13. QED
  BY <1>2, <1>3, <1>9, <1>10, <1>11, <1>12, StepHolds

LEMMA RunReturnHolds ==
  ASSUME IInv, RunReturn
  PROVE  IInv'
<1>1. /\ phase = "run" /\ frames # << >> /\ phase' = "done"
      /\ UNCHANGED << prog, seen, env, read, loose >>
  BY DEF RunReturn, Running
<1>2. Pending = << >> /\ ReadsAsTyped' /\ (~loose => Declares(env))
  BY <1>1, TopRuns DEF Pending, IInv, RunInv, ReadsAsTyped
<1>3. QED
  BY <1>1, <1>2, StepHolds

\* What the checker went on to after a guard.
LEMMA IfFound ==
  ASSUME IInv, phase = "run", frames # << >>, ~loose, Stmt(Top).op = "if"
  PROVE  /\ AllFound(RestOfBlock(Stmt(Top), Place, Type), << >>)
         /\ Fold(Stmt(Top), Type) = "true" => AllFound(Branch(Stmt(Top).then, Over), << >>)
         /\ Fold(Stmt(Top), Type) = "false" => AllFound(Branch(Stmt(Top).else, Over), << >>)
         /\ Fold(Stmt(Top), Type) \notin {"true", "false"} =>
              /\ AllFound(Branch(Stmt(Top).then, Tried(Stmt(Top), Over, Type, TRUE)), << >>)
              /\ AllFound(Branch(Stmt(Top).else, Tried(Stmt(Top), Over, Type, FALSE)), << >>)
<1> DEFINE s == Stmt(Top)
           pos == Positive(s, Over, Type)
           neg == Negative(s, Over, Type)
           p == RestOfBlock(s, Place, Type)
           q == Branches(s, Place, Type)
<1>1. IsProgram /\ Checked(Node(Top)) /\ s \in Statements /\ InBlock(Top)
  BY TopRuns
<1>2. /\ Over \in Overlays /\ Place \in CheckFrames /\ Place.over = Over
      /\ Type = Operand(Over, OperandOf(s))
      /\ AllFound(After(s, Place, Type), << >>)
  BY <1>1, TopChecked
<1>3. s.name \in Names /\ s.cond \in Atoms \cup {"some"} /\ Type = CurrentType(Over, s.name)
  BY <1>1, <1>2, StmtFacts DEF OperandOf, Operand, Statements
<1>4. pos \in Overlays /\ neg \in Overlays
  <2>1. \A passed \in BOOLEAN : Tried(s, Over, Type, passed) \in Overlays
    BY <1>1, <1>2, <1>3, TriedOverlay
  <2>2. QED
    BY <2>1 DEF Tried
<1>5. pos = Tried(s, Over, Type, TRUE) /\ neg = Tried(s, Over, Type, FALSE)
  BY DEF Tried
<1>6. After(s, Place, Type) = p \o q
  BY DEF After
<1>7. /\ s.then \in {0} \cup DOMAIN prog.blocks
      /\ s.else \in {0} \cup DOMAIN prog.blocks
  BY HeldByTop
<1> HIDE DEF pos, neg
<1>8. \A over \in Overlays :
        /\ Rest(Place, over) \in Seq(CheckFrames)
        /\ Branch(s.then, over) \in Seq(CheckFrames)
        /\ Branch(s.else, over) \in Seq(CheckFrames)
  BY <1>1, <1>2, <1>7, RestShape, BranchShape DEF Fan
<1>9. p \in {<< >>, Rest(Place, Over), Rest(Place, neg)}
  BY <1>2 DEF RestOfBlock, neg
<1>10. p \in Seq(CheckFrames)
  <2>1. /\ << >> \in Seq(CheckFrames)
        /\ Rest(Place, Over) \in Seq(CheckFrames) /\ Rest(Place, neg) \in Seq(CheckFrames)
    BY <1>2, <1>4, <1>8
  <2> HIDE DEF p
  <2>2. QED
    BY <1>9, <2>1
<1>11. q = IF Fold(s, Type) = "true" THEN Branch(s.then, Over)
           ELSE IF Fold(s, Type) = "false" THEN Branch(s.else, Over)
           ELSE Branch(s.else, neg) \o Branch(s.then, pos)
  BY <1>2 DEF Branches, pos, neg
<1>12. q \in Seq(CheckFrames)
  BY <1>2, <1>4, <1>8, <1>11
<1> HIDE DEF s, p, q
<1>13. AllFound(p, << >>) /\ AllFound(q, << >>)
  BY <1>2, <1>6, <1>10, <1>12, FoundParts
<1>14. ASSUME Fold(s, Type) \notin {"true", "false"}
       PROVE  AllFound(Branch(s.then, pos), << >>) /\ AllFound(Branch(s.else, neg), << >>)
  <2>1. Branch(s.else, neg) \in Seq(CheckFrames) /\ Branch(s.then, pos) \in Seq(CheckFrames)
    BY <1>4, <1>8
  <2>2. q = Branch(s.else, neg) \o Branch(s.then, pos)
    BY <1>11, <1>14
  <2>3. QED
    BY <1>13, <2>1, <2>2, FoundParts
<1>15. QED
  BY <1>5, <1>11, <1>13, <1>14 DEF s, p

\* The branch a run takes at a guard, when the checker took the guard for true only if
\* it holds, for false only if it does not, and left it open otherwise.
LEMMA BranchTaken ==
  ASSUME IInv, phase = "run", frames # << >>, ~loose, Stmt(Top).op = "if",
         NEW passed \in BOOLEAN,
         Fold(Stmt(Top), Type) = "true" => passed,
         Fold(Stmt(Top), Type) = "false" => ~passed,
         Fold(Stmt(Top), Type) \notin {"true", "false"} =>
           Passes(Stmt(Top), env[Stmt(Top).name]) = passed
  PROVE  Flow(Outer \o Unfinished(Next1(Top))
                \o Enter(IF passed THEN Stmt(Top).then ELSE Stmt(Top).else), env)
<1> DEFINE s == Stmt(Top)
           known == Fold(s, Type) \in {"true", "false"}
           p == IF known THEN Over ELSE Tried(s, Over, Type, passed)
           b == IF passed THEN s.then ELSE s.else
           c == [blk |-> b, at |-> 1]
           g == Next1(Top)
           fs == Outer \o Unfinished(g)
           BR == BlockReturns(prog.blocks)
<1>1. /\ IsProgram /\ Outer \in Seq(RunFrames) /\ Top \in RunFrames /\ InBlock(Top)
      /\ s \in Statements
      /\ env \in [Names -> Atoms] /\ Declares(env) /\ Agrees(Top, env) /\ Checked(Node(Top))
      /\ ~Leaves(Top) => Under(Outer, Top, env)
  BY TopRuns
<1>2. /\ Over \in Overlays /\ Place \in CheckFrames /\ Place.over = Over
      /\ Place.blk = Top.blk /\ Place.at = Top.at
      /\ Type = Operand(Over, OperandOf(s)) /\ OperandOf(s) = s.name
  BY <1>1, TopChecked DEF OperandOf
<1>3. s.name \in Names /\ s.cond \in Atoms \cup {"some"} /\ Type = CurrentType(Over, s.name)
  BY <1>1, <1>2, StmtFacts DEF Operand, Statements
<1>4. env[s.name] \in Members(Type)
  BY <1>2, <1>3, OperandHolds
<1>5. /\ g \in [blk : Nat, at : Nat] /\ g.blk \in DOMAIN prog.blocks /\ g.at \in Nat \ {0}
  BY <1>1, NextOne
<1>6. b \in {0} \cup DOMAIN prog.blocks
  BY HeldByTop
<1>7. \A x \in Names : Over[x] # {} => env[x] \in Members(Over[x])
  BY <1>1 DEF Agrees, Narrows, Over
\* The overlay of the branch holds.
<1>8. /\ \A x \in Names : Over[x] # {} => p[x] # {}
      /\ \A x \in Names : p[x] # {} => env[x] \in Members(p[x])
  <2>1. CASE known
    BY <1>7, <2>1
  <2>2. CASE ~known
    <3>1. Passes(s, env[s.name]) = passed
      BY <2>2
    <3> HIDE DEF s, known
    <3>2. /\ \A x \in Names : Over[x] # {} => Tried(s, Over, Type, passed)[x] # {}
          /\ \A x \in Names : Tried(s, Over, Type, passed)[x] # {} =>
               env[x] \in Members(Tried(s, Over, Type, passed)[x])
      BY <1>1, <1>2, <1>3, <1>4, <1>7, <3>1, TriedOverlay
    <3>3. QED
      BY <2>2, <3>2
  <2>3. QED
    BY <2>1, <2>2
<1>9. AllFound(Branch(b, p), << >>) /\ AllFound(RestOfBlock(s, Place, Type), << >>)
  BY IfFound
<1>10. ASSUME b # 0, InBlock(c)
       PROVE  Checked(Node(c)) /\ seen[Node(c)].over = p
  <2>1. Checked(<< b, 1 >>) /\ seen[<< b, 1 >>].over = p
    BY <1>1, <1>6, <1>9, <1>10, BranchFound
  <2>2. QED
    BY <2>1 DEF Node
\* What is checked of the rest of the block, unless the branch leaves it.
<1>11. ASSUME ~(b # 0 /\ Leaves(c)), InBlock(g)
       PROVE  Checked(Node(g)) /\ seen[Node(g)].over \in {Over, p}
  <2>1. ~(LeavesEarly(s) /\ passed)
    BY <1>1, <1>11, EnteredLeaves DEF LeavesEarly
  <2>2. RestOfBlock(s, Place, Type) \in {Rest(Place, Over), Rest(Place, p)}
    <3>1. CASE ~LeavesEarly(s)
      BY <1>2, <3>1 DEF RestOfBlock
    <3>2. CASE LeavesEarly(s) /\ ~passed
      <4>1. Fold(s, Type) # "true"
        BY <3>2
      <4>2. CASE Fold(s, Type) = "false"
        BY <1>2, <3>2, <4>2 DEF RestOfBlock
      <4>3. CASE Fold(s, Type) # "false"
        BY <1>2, <3>2, <4>1, <4>3 DEF RestOfBlock, Tried
      <4>4. QED
        BY <4>2, <4>3
    <3>3. QED
      BY <2>1, <3>1, <3>2
  <2>3. PICK over \in {Over, p} : AllFound(Rest(Place, over), << >>)
    BY <1>9, <2>2
  <2>4. Checked(Node(g)) /\ seen[Node(g)].over = over
    BY <1>1, <1>2, <1>11, <2>3, RestFound
  <2>5. QED
    BY <2>4
<1>12. Leaves(Top) => Leaves(g) \/ (b # 0 /\ Leaves(c))
  <2>1. CASE Returns(s, BR)
    <3>1. b \in BR
      BY <2>1 DEF Returns
    <3>2. QED
      BY <1>1, <3>1, EnteredLeaves
  <2>2. CASE ~Returns(s, BR)
    BY <1>1, <2>2, LeavesOn
  <2>3. QED
    BY <2>1, <2>2
<1> HIDE DEF s, known, p, b, c, g, BR
<1>13. ASSUME b # 0, InBlock(c)
       PROVE  Agrees(c, env) /\ Inherits(Top, c)
  BY <1>8, <1>10, <1>13 DEF Agrees, Inherits, Narrows, Over
<1>14. ASSUME ~(b # 0 /\ Leaves(c)), InBlock(g)
       PROVE  /\ Agrees(g, env) /\ Inherits(Top, g)
              /\ b # 0 /\ InBlock(c) => Inherits(g, c)
  <2>1. Checked(Node(g)) /\ seen[Node(g)].over \in {Over, p}
    BY <1>11, <1>14
  <2>2. Agrees(g, env) /\ Inherits(Top, g)
    BY <1>7, <1>8, <2>1 DEF Agrees, Inherits, Narrows, Over
  <2>3. b # 0 /\ InBlock(c) => Inherits(g, c)
    BY <1>8, <1>10, <2>1 DEF Inherits, Narrows
  <2>4. QED
    BY <2>2, <2>3
<1>15. ASSUME ~(b # 0 /\ Leaves(c))
       PROVE  Flow(fs, env) /\ (b # 0 /\ InBlock(c) => Under(fs, c, env))
  <2>1. ~Leaves(g) => ~Leaves(Top)
    BY <1>12, <1>15
  <2>2. ~Leaves(g) => Flow(Outer, env) /\ (InBlock(g) => Under(Outer, g, env))
    BY <1>1, <1>14, <1>15, <2>1, UnderMore DEF Under
  <2>3. Flow(fs, env)
    BY <1>1, <1>5, <1>14, <1>15, <2>2, FlowPushed
  <2>4. ASSUME b # 0, InBlock(c)
        PROVE  Under(fs, c, env)
    <3>1. ~Leaves(g) => Under(Outer, c, env)
      BY <1>1, <1>13, <2>1, <2>4, UnderMore
    <3>2. InBlock(g) => Inherits(g, c)
      BY <1>14, <1>15, <2>4
    <3>3. QED
      BY <1>1, <1>5, <2>3, <3>1, <3>2, UnderPushed
  <2>5. QED
    BY <2>3, <2>4
<1>16. fs \in Seq(RunFrames)
  BY <1>1, <1>5, PushedTyped
<1>17. c = [blk |-> b, at |-> 1]
  BY DEF c
<1> HIDE DEF fs
<1>18. Flow(fs \o Enter(b), env)
  BY <1>1, <1>6, <1>13, <1>15, <1>16, <1>17, FlowEntered
<1>19. QED
  BY <1>18 DEF fs, b, s, g

\* What the lowerer decides of a guard by the declared type, the checker decided alike:
\* a name of one type is never narrowed.
LEMMA DecidedAlike ==
  ASSUME IInv, phase = "run", frames # << >>, ~loose, Stmt(Top).op = "if",
         Truth(Stmt(Top), Node(Top)) # "unknown"
  PROVE  Fold(Stmt(Top), Type) = Truth(Stmt(Top), Node(Top))
<1> DEFINE s == Stmt(Top)
           d == Declared(s.name)
<1>1. IsProgram /\ Checked(Node(Top)) /\ s \in Statements
  BY TopRuns
<1>2. Over \in Overlays /\ Type = Operand(Over, s.name)
  BY <1>1, TopChecked DEF OperandOf
<1>3. s.name \in Names /\ d \in Types
  BY <1>1, ProgramFacts DEF Statements, Declared
<1>4. Truth(s, Node(Top)) = Fold(s, d)
  BY <1>1 DEF Truth
<1>5. Concrete(d)
  BY <1>4 DEF Fold
<1>6. ~IsDynamic(d)
  BY <1>3, <1>5, DynamicOrConcrete
<1>7. Over[s.name] = {}
  BY <1>2, <1>3, <1>6 DEF Overlays
<1>8. Type = d
  BY <1>2, <1>3, <1>7 DEF Operand, CurrentType
<1>9. QED
  BY <1>4, <1>8

LEMMA RunIfHolds ==
  ASSUME IInv, RunIf
  PROVE  IInv'
<1> DEFINE s == Stmt(Top)
           n == Node(Top)
           rest == Outer \o Unfinished(Next1(Top))
           Chosen(passed) == rest \o Enter(IF passed THEN s.then ELSE s.else)
<1>1. /\ phase = "run" /\ frames # << >> /\ s.op = "if"
      /\ UNCHANGED << prog, seen, env >>
  BY DEF RunIf, Running
<1>2. /\ IsProgram /\ Outer \in Seq(RunFrames) /\ Top \in RunFrames /\ InBlock(Top)
      /\ s \in Statements /\ env \in [Names -> Atoms]
      /\ ~loose => Declares(env) /\ Checked(n)
  BY <1>1, TopRuns
<1>3. s.name \in Names /\ s.cond \in Atoms \cup {"some"} /\ OperandOf(s) = s.name
  BY <1>1, <1>2, StmtFacts DEF Statements, OperandOf
<1>4. ASSUME NEW passed \in BOOLEAN
      PROVE  Chosen(passed) \in Seq(RunFrames)
  <2>1. rest \in Seq(RunFrames)
    BY <1>2, NextOne, PushedTyped
  <2>2. (IF passed THEN s.then ELSE s.else) \in {0} \cup DOMAIN prog.blocks
    BY <1>1, HeldByTop
  <2> HIDE DEF rest, s
  <2>3. QED
    BY <1>2, <2>1, <2>2, EnteredTyped
<1>5. ~loose => /\ Type \in Types /\ Recorded(n) = Type
                /\ env[s.name] \in Members(Type)
  BY <1>1, <1>2, <1>3, TopChecked, OperandHolds
<1>6. Pending = << >>
  BY <1>1 DEF Pending
<1>7. CASE Truth(s, n) # "unknown"
  <2> DEFINE passed == Truth(s, n) = "true"
  <2>1. /\ frames' = Chosen(passed)
        /\ UNCHANGED << phase, read, loose >>
    BY <1>7 DEF RunIf
  <2>2. ASSUME ~loose
        PROVE  Flow(Chosen(passed), env)
    <3>1. Fold(s, Type) = Truth(s, n)
      BY <1>1, <1>7, <2>2, DecidedAlike
    <3>2. Fold(s, Type) \in {"true", "false"}
      BY <1>7, <3>1 DEF Fold
    <3>3. /\ passed \in BOOLEAN
          /\ Fold(s, Type) = "true" => passed
          /\ Fold(s, Type) = "false" => ~passed
      BY <3>1
    <3> HIDE DEF passed
    <3>4. QED
      BY <1>1, <2>2, <3>2, <3>3, BranchTaken
  <2>3. ReadsAsTyped'
    BY <2>1 DEF IInv, RunInv, ReadsAsTyped
  <2>4. Chosen(passed) \in Seq(RunFrames)
    BY <1>4
  <2> HIDE DEF Chosen, passed
  <2>5. QED
    BY <1>1, <1>2, <1>6, <2>1, <2>2, <2>3, <2>4, StepHolds
<1>8. CASE Truth(s, n) = "unknown"
  <2> DEFINE passed == Passes(s, env[s.name])
  <2>1. /\ Record(s, n)
        /\ \/ phase' = "trap" /\ frames' = << >>
           \/ phase' = phase /\ frames' = Chosen(passed)
        /\ loose' = (loose \/ Misjudged(s, n))
    BY <1>8 DEF RunIf, Step
  <2>2. ASSUME ~loose'
        PROVE  Flow(Chosen(passed), env)
    <3>1. ~loose /\ ~Misjudged(s, n)
      BY <2>1, <2>2
    <3>2. ~(Type = {"int"} /\ s.cond = "float")
      BY <1>5, <3>1 DEF Misjudged
    <3>3. /\ passed \in BOOLEAN
          /\ Fold(s, Type) = "true" => passed
          /\ Fold(s, Type) = "false" => ~passed
      <4>1. passed \in BOOLEAN
        BY DEF Passes
      <4> HIDE DEF s
      <4>2. QED
        BY <1>3, <1>5, <3>1, <3>2, <4>1, FoldRight
    <3>4. Passes(Stmt(Top), env[Stmt(Top).name]) = passed
      OBVIOUS
    <3> HIDE DEF passed
    <3>5. QED
      BY <1>1, <3>1, <3>3, <3>4, BranchTaken
  <2>3. ReadsAsTyped'
    BY <1>1, <2>1, RecordRight
  <2>4. Chosen(passed) \in Seq(RunFrames)
    <3>1. passed \in BOOLEAN
      BY DEF Passes
    <3> HIDE DEF passed, Chosen
    <3>2. QED
      BY <1>4, <3>1
  <2>5. ~loose' => ~loose
    BY <2>1
  <2> HIDE DEF Chosen, passed
  <2>6. QED
    BY <1>1, <1>2, <1>6, <2>1, <2>2, <2>3, <2>4, <2>5, StepHolds
<1>9. QED
  BY <1>7, <1>8

-------------------------------------------------------------------------------

LEMMA Inductive == IInv /\ [Next]_vars => IInv'
<1> SUFFICES ASSUME IInv, [Next]_vars
             PROVE  IInv'
  OBVIOUS
<1>1. CASE CheckStmt
  BY <1>1, CheckStmtHolds
<1>2. CASE Lower
  BY <1>2, LowerHolds
<1>3. CASE RunUse
  BY <1>3, RunUseHolds
<1>4. CASE RunStore
  BY <1>4, RunStoreHolds
<1>5. CASE RunIf
  BY <1>5, RunIfHolds
<1>6. CASE RunWhile
  BY <1>6, RunWhileHolds
<1>7. CASE RunReturn
  BY <1>7, RunReturnHolds
<1>8. CASE UNCHANGED vars
  <2>1. /\ UNCHANGED << prog, phase, frames, seen, env, read, loose >>
    BY <1>8 DEF vars
  <2>2. CheckInv'
    <3>1. CASE phase = "check" \/ phase = "refused"
      <4>1. /\ IsProgram' /\ Overlays' = Overlays /\ CheckFrames' = CheckFrames
            /\ \A k : StmtAt(k)' = StmtAt(k)
            /\ \A f : InBlock(f)' <=> InBlock(f)
        BY <2>1, SameProgram DEF IInv, CheckInv
      <4>2. /\ \A over, src : Operand(over, src)' = Operand(over, src)
            /\ \A s, t : Accepts(s, t)' <=> Accepts(s, t)
            /\ \A b, over : Branch(b, over)' = Branch(b, over)
            /\ \A s, f, t : After(s, f, t)' = After(s, f, t)
        BY <2>1, SameChecks
      <4>3. /\ \A k : SeenAt(k)' = SeenAt(k)
            /\ Branch(1, NotNarrowed)' = Branch(1, NotNarrowed)
            /\ Pending' = Pending /\ Begun' = Begun
        BY <2>1, <4>1, <4>2 DEF SeenAt, NotNarrowed, Pending, Begun
      <4>4. NodesSeen' /\ (phase' # "refused" => Accepted')
        BY <2>1, <4>1, <4>2, <4>3 DEF IInv, CheckInv, NodesSeen, Accepted
      <4>5. phase' # "refused" => Closed(Pending)'
        BY <2>1, <4>1, <4>2, <4>3 DEF IInv, CheckInv, Closed, AllFound, Found
      <4>6. Fresh(frames)' <=> Fresh(frames)
        BY <2>1, <4>3 DEF Fresh
      <4>7. QED
        BY <2>1, <4>1, <4>4, <4>5, <4>6 DEF IInv, CheckInv
    <3>2. CASE phase # "check" /\ phase # "refused"
      BY <2>1, <3>2, ChecksKept DEF IInv, Pending
    <3>3. QED
      BY <3>1, <3>2
  <2>3. /\ \A e : Declares(e)' <=> Declares(e)
        /\ \A fs, e : Flow(fs, e)' <=> Flow(fs, e)
        /\ RunFrames' = RunFrames
    BY <2>1, SameFlow, SameProgram
  <2>4. Flow(frames, env)' <=> Flow(frames, env)
    BY <2>1, <2>3
  <2>5. Declares(env)' <=> Declares(env)
    BY <2>1, <2>3
  <2>6. ReadsAsTyped' /\ HoldsDeclared'
    BY <2>1 DEF IInv, RunInv, ReadsAsTyped, HoldsDeclared, Declared
  <2>7. QED
    BY <2>1, <2>2, <2>3, <2>4, <2>5, <2>6 DEF IInv, RunInv
<1>9. QED
  BY <1>1, <1>2, <1>3, <1>4, <1>5, <1>6, <1>7, <1>8 DEF Next

LEMMA CheckedRuns ==
  ASSUME IInv
  PROVE  RunsOnlyChecked
<1>1. ASSUME phase = "run", ~loose, frames # << >>
      PROVE  Checked(Node(Top))
  BY <1>1, TopRuns
<1>2. QED
  BY <1>1 DEF RunsOnlyChecked

(* In every program the checker accepts, every name is read with a value of the type  *)
(* the checker recorded for that use and no cast the lowerer emits for a use traps,   *)
(* whatever guards, loops and early exits lead there.                                 *)
THEOREM ReadsTyped == Spec => []ReadsAsTyped
<1>1. IInv => ReadsAsTyped
  BY DEF IInv, RunInv
<1>2. QED
  BY <1>1, InitHolds, Inductive, PTL DEF Spec

(* Every name holds values of its declared type as long as no value was stored that   *)
(* the conversions the lowerer emits leave out.                                       *)
THEOREM DeclaredHeld == Spec => []HoldsDeclared
<1>1. IInv => HoldsDeclared
  BY DEF IInv, RunInv
<1>2. QED
  BY <1>1, InitHolds, Inductive, PTL DEF Spec

(* No statement runs that the checker skipped, in a branch it took for dead or after  *)
(* an early exit it took for certain.                                                 *)
THEOREM OnlyCheckedRun == Spec => []RunsOnlyChecked
<1>1. QED
  BY InitHolds, Inductive, CheckedRuns, PTL DEF Spec
===============================================================================

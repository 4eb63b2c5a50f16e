------------------------------- MODULE TypedFlow -------------------------------
(***************************************************************************)
(* Flow narrowing: what the checker takes a name for at every use, what    *)
(* the lowerer emits for that use, and what the name holds when it runs.   *)
(* checkBlock, narrowings, withNarrow and fold in compiler/check.go;       *)
(* block, emitIf, narrow and promoteIntToFloat in compiler/lower*.go.      *)
(*                                                                         *)
(* A program is the body of one function: its parameters' declared types   *)
(* and a table of blocks, the first of them the body. A statement          *)
(*   assign, ann    stores src, a name or a literal, in name; ann repeats  *)
(*                  the declaration of name                                *)
(*   use            reads name                                             *)
(*   if             tests name: isinstance(name, cond) for a type cond, or *)
(*                  `is None` ("none") and `is not None` ("some")          *)
(*   while          repeats block then while an unknown condition holds    *)
(*   return         leaves the function                                    *)
(* has its blocks in then and else, 0 where there is none. A value is the  *)
(* name of its type; a type is the set of its members, Any is a member of  *)
(* its own, and the empty set is types.Invalid.                            *)
(***************************************************************************)
EXTENDS Naturals, Sequences, FiniteSets

CONSTANTS
  Programs,    \* the function bodies: a sequence of sets, so that TLC never joins them
  Names        \* the parameters

Atoms == {"int", "str", "float", "none"}
Any == {"any"}
Float == {"float"}
None == {"none"}

Types == ((SUBSET Atoms) \ {{}}) \cup {Any}

Statements ==
  [op : {"assign", "ann", "use", "if", "while", "return"}, name : Names,
   src : Names \cup Atoms, cond : Atoms \cup {"some", ""}, then : Nat, else : Nat]

\* The blocks a statement holds.
Held(s) == {s.then, s.else} \ {0}

\* A block is held by one statement, in an earlier block, and once. Only guards
\* have a condition.
ASSUME ProgramsAssumption ==
  \A k \in DOMAIN Programs : \A p \in Programs[k] :
    /\ p.decl \in [Names -> Types]
    /\ p.blocks \in Seq(Seq(Statements)) \ {<< >>}
    /\ \A b \in DOMAIN p.blocks : \A i \in DOMAIN p.blocks[b] :
         LET s == p.blocks[b][i]
         IN  /\ Held(s) \subseteq b + 1 .. Len(p.blocks)
             /\ s.then # 0 => s.then # s.else
             /\ s.op = "if" => s.cond # ""
             /\ \A c \in DOMAIN p.blocks : \A j \in DOMAIN p.blocks[c] :
                  Held(s) \cap Held(p.blocks[c][j]) # {} => b = c /\ i = j

VARIABLES
  prog,
  phase,     \* "check", "refused", "run", "done", "trap" or "panic"
  frames,    \* the blocks being checked, then run, the innermost last
  seen,      \* for every statement checked: the type of its operand, and what was narrowed
  env,       \* what every name holds
  read,      \* the last read of a name
  loose      \* a value was stored that its place does not admit, or a guard misjudged

vars == << prog, phase, frames, seen, env, read, loose >>

Members(t) == IF t = Any THEN Atoms ELSE t
NewUnion(ms) == IF Any \subseteq ms THEN Any ELSE ms
IsDynamic(t) == t = Any \/ Cardinality(t) > 1
Concrete(t) == t \notin {{}, Any} /\ Cardinality(t) = 1
Without(t, u) == IF Cardinality(t) > 1 THEN t \ u ELSE IF t = u THEN {} ELSE t

UnionAdmits(union, m) == m \in union \/ (m = "int" /\ "float" \in union)

AssignableTo(src, dst) ==
  /\ src # {} /\ dst # {}
  /\ \/ src = dst \/ dst = Any
     \/ src = {"int"} /\ dst = Float
     \/ Cardinality(dst) > 1 /\ \A m \in src : UnionAdmits(dst, m)

Stmt(f) == prog.blocks[f.blk][f.at]
Node(f) == << f.blk, f.at >>
Declared(name) == prog.decl[name]

\* A statement no run goes on after, when none falls through the blocks of R.
Returns(s, R) == s.op = "return" \/ (s.op = "if" /\ s.then \in R /\ s.else \in R)

\* The largest set of blocks that each hold such a statement: as blocks only hold
\* later ones, the set the recursion finds.
BlockReturns(blocks) ==
  UNION {R \in SUBSET DOMAIN blocks :
           \A b \in R : \E i \in DOMAIN blocks[b] : Returns(blocks[b][i], R)}

\* An `if` without an else whose body never falls through.
LeavesEarly(s) == s.op = "if" /\ s.else = 0 /\ s.then \in BlockReturns(prog.blocks)

\* What is known of a guard when its name has type cur: fold.
Fold(s, cur) ==
  LET holds == CASE s.cond = "none" -> cur = None
                 [] s.cond = "some" -> cur # None
                 [] OTHER           -> AssignableTo(cur, {s.cond})
  IN  IF ~Concrete(cur) THEN "unknown" ELSE IF holds THEN "true" ELSE "false"

-----------------------------------------------------------------------------
(* The checker. over maps every narrowed name to its type, the empty set     *)
(* where the name is not narrowed.                                           *)

CurrentType(over, name) == IF over[name] # {} THEN over[name] ELSE Declared(name)
Operand(over, src) == IF src \in Names THEN CurrentType(over, src) ELSE {src}

Narrowed(over, name, t) == IF t = {} THEN over ELSE [over EXCEPT ![name] = t]

\* The overlays of the two branches of a guard: narrowings.
Tested(s) == IF s.cond \in {"none", "some"} THEN None ELSE {s.cond}
Positive(s, over, cur) ==
  IF ~IsDynamic(cur) THEN over
  ELSE Narrowed(over, s.name, IF s.cond = "some" THEN Without(cur, None) ELSE Tested(s))
Negative(s, over, cur) ==
  IF ~IsDynamic(cur) THEN over
  ELSE Narrowed(over, s.name, IF s.cond = "some" THEN None ELSE Without(cur, Tested(s)))

\* Blocks are pushed as long as they have statements left.
Unfinished(f) == IF f.at <= Len(prog.blocks[f.blk]) THEN << f >> ELSE << >>

Frame(b, over) == [blk |-> b, at |-> 1, over |-> over]
Branch(b, over) == IF b = 0 THEN << >> ELSE Unfinished(Frame(b, over))

Outer == SubSeq(frames, 1, Len(frames) - 1)
Top == frames[Len(frames)]
Next1(f) == [f EXCEPT !.at = @ + 1]

Rest(f, over) == Unfinished([blk |-> f.blk, at |-> f.at + 1, over |-> over])

\* As RestOfBlock, where the test is taken to have failed though the body goes on.
NarrowedAnyway(s, f, cur) ==
  IF s.op # "if" \/ s.else # 0 \/ Fold(s, cur) # "unknown" THEN Rest(f, f.over)
  ELSE Rest(f, Negative(s, f.over, cur))

\* As RestOfBlock, ending at every guard that always holds.
StopsAtKnownGuards(s, f, cur) ==
  IF s.else = 0 /\ Fold(s, cur) = "true" THEN << >> ELSE Rest(f, f.over)

\* What is left to check after an `if`: the rest of its block, then its branches.
RestOfBlock(s, f, cur) ==
  IF ~LeavesEarly(s) THEN Rest(f, f.over)
  ELSE CASE Fold(s, cur) = "true"  -> << >>
         [] Fold(s, cur) = "false" -> Rest(f, f.over)
         [] OTHER -> Rest(f, Negative(s, f.over, cur))

Branches(s, f, cur) ==
  CASE Fold(s, cur) = "true"  -> Branch(s.then, f.over)
    [] Fold(s, cur) = "false" -> Branch(s.else, f.over)
    [] OTHER -> Branch(s.else, Negative(s, f.over, cur)) \o Branch(s.then, Positive(s, f.over, cur))

After(s, f, cur) ==
  CASE s.op = "if"    -> RestOfBlock(s, f, cur) \o Branches(s, f, cur)
    [] s.op = "while" -> Rest(f, f.over) \o (Branch(s.else, f.over) \o Branch(s.then, f.over))
    [] OTHER          -> Rest(f, f.over)

\* `is` compares references: a number is none.
IdentityComparable(t) == IsDynamic(t) \/ t \in {None, {"str"}}

Accepts(s, t) ==
  CASE s.op = "if" /\ s.cond \in {"none", "some"} -> IdentityComparable(t)
    [] s.op = "assign" -> AssignableTo(t, Declared(s.name))
    [] s.op = "ann"    -> t = Any \/ AssignableTo(t, Declared(s.name))
    [] OTHER           -> TRUE

OperandOf(s) == IF s.op \in {"assign", "ann"} THEN s.src ELSE s.name

CheckStmt ==
  /\ phase = "check" /\ frames # << >>
  /\ LET f == Top
         s == Stmt(f)
         t == Operand(f.over, OperandOf(s))
     IN /\ seen' = [n \in DOMAIN seen \cup {Node(f)} |->
                      IF n = Node(f) THEN [type |-> t, over |-> f.over] ELSE seen[n]]
        /\ frames' = Outer \o After(s, f, t)
        /\ phase' = IF Accepts(s, t) THEN phase ELSE "refused"
  /\ UNCHANGED << prog, env, read, loose >>
===============================================================================

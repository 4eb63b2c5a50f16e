---------------------------- MODULE Specialization ----------------------------
(***************************************************************************)
(* Functions with Any or union parameters are checked again for the types  *)
(* of every call: specialize in compiler/check_decl.go, reached from       *)
(* directFunctionCallType, and buildSpec in compiler/lower_stmt.go.        *)
(* Checking a body may specialize other functions, so the checker is a     *)
(* stack of bodies; the first one is the module's.                         *)
(*                                                                         *)
(* A function has one parameter, x. A statement is a call ("call"), the    *)
(* return of a call ("retcall") or of a value ("return"), or x + 1         *)
(* ("add"); an opt statement stands under a condition nobody knows. With   *)
(* comp it is evaluated for every x of a list of int. A type is the set of *)
(* its members; Any is a member of its own, and a list holds a type.       *)
(* Generators, methods, decorators and exec source never specialize.       *)
(***************************************************************************)
EXTENDS Naturals, Sequences, FiniteSets

CONSTANTS
  Funs,            \* the functions of the module
  Programs,        \* each function's definition and the module's statements
  MaxInstances,    \* maxSpecializations
  MaxFrames        \* bound: the deepest stack of bodies the checker follows

ASSUME CapAssumption == {MaxInstances, MaxFrames} \subseteq Nat

VARIABLES
  program,
  phase,      \* "check", "lower", "refused" or "done"
  frames,     \* the bodies being checked, the innermost last
  made,       \* the instances kept, in the order they were finished
  results,    \* the result type of every function
  checked,    \* the functions whose own body was checked
  linked,     \* calls of the module and of the functions themselves to instances
  errs,       \* for every error, whether an instance was being checked
  temps,      \* the type of a comprehension's x, or nothing
  early,      \* a result was used before it was inferred
  misread,    \* an x was taken for a comprehension's
  built,      \* the instances whose code is built, in order
  building    \* the instances whose code is being built

checkVars == << frames, made, results, checked, linked, errs, temps, early, misread >>
buildVars == << built, building >>
vars == << program, phase, checkVars, buildVars >>

-------------------------------------------------------------------------------
(* Types *)

IntType == {<< "int" >>}
StrType == {<< "str" >>}
NoneType == {<< "none" >>}
Any == {<< "any" >>}
List(t) == {<< "list", t >>}

IsUnion(t) == Cardinality(t) > 1
Concrete(t) == t # {} /\ t # Any /\ ~IsUnion(t)

NewUnion(members) == IF << "any" >> \in members THEN Any ELSE members

AssignableTo(src, dst) == src # {} /\ dst # {} /\ (dst = Any \/ src \subseteq dst)

-------------------------------------------------------------------------------
(* The statement being checked *)

Top == frames[Len(frames)]
BodyOf(fr) == IF fr.fun = "module" THEN program.main ELSE program.defs[fr.fun].body
Stmt == BodyOf(Top)[Top.at]
AtEnd == Top.at > Len(BodyOf(Top))
Def(f) == program.defs[f]

InClone == \E n \in DOMAIN frames : frames[n].clone

\* nameType asks the comprehensions' names before the parameters.
Temps == IF Stmt.comp THEN IntType ELSE temps
TypeOfX == IF Temps # {} THEN Temps ELSE Top.typ

TypeOf(arg) ==
  CASE arg = "x" -> TypeOfX
    [] arg = "int" -> IntType
    [] arg = "str" -> StrType
    [] arg = "list" -> List(TypeOfX)

\* x is a name of the function, yet a comprehension around another call hides it.
Misreads(arg) == arg \in {"x", "list"} /\ ~Stmt.comp /\ temps # {}

Frame(f, clone, typ, mark) ==
  [fun |-> f, clone |-> clone, typ |-> typ, at |-> 1, returns |-> {},
   calls |-> {}, mark |-> mark, temps |-> temps, skip |-> FALSE]

Replace(fr) == [frames EXCEPT ![Len(frames)] = fr]
Pop == SubSeq(frames, 1, Len(frames) - 1)

Errors(n) == [i \in 1 .. n |-> InClone]

-------------------------------------------------------------------------------
(* Statements without a call *)

\* What the statement returns is collected, or compared with the annotation.
Returning(fr, typ) ==
  [fr EXCEPT !.at = @ + 1, !.skip = FALSE,
             !.returns = IF Stmt.op \in {"return", "retcall"} THEN @ \cup typ ELSE @]

BadReturn(typ) ==
  /\ Stmt.op \in {"return", "retcall"}
  /\ Def(Top.fun).result # {}
  /\ ~AssignableTo(typ, Def(Top.fun).result)

\* An operator is left to run time for Any and for unions.
BadAdd == Stmt.op = "add" /\ Concrete(TypeOfX) /\ TypeOfX # IntType

Simple ==
  /\ phase = "check" /\ ~AtEnd
  /\ Stmt.op \in {"return", "add"}
  /\ LET typ == IF Stmt.op = "return" THEN TypeOf(Stmt.arg) ELSE {}
         bad == BadAdd \/ BadReturn(typ)
     IN  /\ frames' = Replace(Returning(Top, typ))
         /\ errs' = errs \o Errors(IF bad THEN 1 ELSE 0)
         /\ misread' = (misread \/ Misreads(IF Stmt.op = "add" THEN "x" ELSE Stmt.arg))
  /\ UNCHANGED << program, phase, made, results, checked, linked, temps, early, buildVars >>

\* functionStmt: the name is bound, then the function's own body is checked.
Define ==
  /\ phase = "check" /\ ~AtEnd
  /\ Stmt.op = "def"
  /\ frames' = Append(Replace([Top EXCEPT !.at = @ + 1]),
                      Frame(Stmt.fun, FALSE, Def(Stmt.fun).param, Len(errs)))
  /\ UNCHANGED << program, phase, made, results, checked, linked, errs, temps, early,
                  misread, buildVars >>

-------------------------------------------------------------------------------
(* Calls *)

Specializable(f) == Def(f).param = Any \/ IsUnion(Def(f).param)

InstancesOf(f) == {i \in DOMAIN made : made[i].fun = f}
Instance(f, key) == {i \in InstancesOf(f) : made[i].key = key}
Active(f, key) ==
  \E n \in DOMAIN frames : frames[n].clone /\ frames[n].fun = f /\ frames[n].typ = key

IsCall == Stmt.op \in {"call", "retcall"}
Callee == Stmt.fun
ArgType == TypeOf(Stmt.arg)

\* skip: this call's instance was just tried in vain.
May == Specializable(Callee) /\ Concrete(ArgType) /\ ~Top.skip

\* Mutant: an instance of the type is not looked for.
FreshEveryTime ==
  /\ May
  /\ Cardinality(InstancesOf(Callee)) < MaxInstances
  /\ ~Active(Callee, ArgType)

\* Whether a new instance is made, checked when its body is about to be.
Fresh ==
  /\ May
  /\ Instance(Callee, ArgType) = {}
  /\ Cardinality(InstancesOf(Callee)) < MaxInstances
  /\ ~Active(Callee, ArgType)

\* The call is typed by an instance and will be linked to it.
Link(i) ==
  /\ frames' = Replace([Returning(Top, made[i].result) EXCEPT
                          !.calls = IF InClone THEN @ \cup {[at |-> Top.at, to |-> i]} ELSE @])
  /\ linked' = IF InClone THEN linked
               ELSE linked \cup {[fun |-> Top.fun, at |-> Top.at, to |-> i]}
  /\ errs' = errs \o Errors(IF BadReturn(made[i].result) THEN 1 ELSE 0)
  /\ early' = early

\* The call is typed by the function itself, whatever its result is by now.
FallBack ==
  LET bad == (IF AssignableTo(ArgType, Def(Callee).param) THEN 0 ELSE 1)
               + (IF BadReturn(results[Callee]) THEN 1 ELSE 0)
  IN  /\ frames' = Replace(Returning(Top, results[Callee]))
      /\ linked' = linked
      /\ errs' = errs \o Errors(bad)
      /\ early' = (early \/ (Def(Callee).result = {} /\ Callee \notin checked))

Call ==
  /\ phase = "check" /\ ~AtEnd
  /\ IsCall
  /\ ~Fresh
  /\ IF May /\ Instance(Callee, ArgType) # {}
     THEN \E i \in Instance(Callee, ArgType) : Link(i)
     ELSE FallBack
  /\ misread' = (misread \/ Misreads(Stmt.arg))
  /\ UNCHANGED << program, phase, made, results, checked, temps, buildVars >>

\* A clone of the function for this type is checked in a table of its own; the
\* comprehensions' names stay.
Specialize ==
  /\ phase = "check" /\ ~AtEnd
  /\ IsCall
  /\ Fresh
  /\ Len(frames) < MaxFrames
  /\ frames' = Append(frames, Frame(Callee, TRUE, ArgType, Len(errs)))
  /\ temps' = Temps
  /\ misread' = (misread \/ Misreads(Stmt.arg))
  /\ UNCHANGED << program, phase, made, results, checked, linked, errs, early, buildVars >>

-------------------------------------------------------------------------------
(* The end of a body *)

Falls(body) == \A n \in DOMAIN body : body[n].op \in {"return", "retcall"} => body[n].opt

Inferred ==
  IF Def(Top.fun).result # {} THEN Def(Top.fun).result
  ELSE IF Top.returns = {} THEN NoneType
  ELSE NewUnion(Top.returns)

\* Mutant: only a function with an annotated result must.
FallsThroughAnnotation == Def(Top.fun).result \notin {{}, NoneType} /\ Falls(BodyOf(Top))

\* checkFunctionBody: a function with a result must return on every path.
FallsThrough == Inferred # NoneType /\ Falls(BodyOf(Top))

FinishFunction ==
  /\ phase = "check" /\ AtEnd
  /\ Top.fun # "module" /\ ~Top.clone
  /\ results' = [results EXCEPT ![Top.fun] = Inferred]
  /\ checked' = checked \cup {Top.fun}
  /\ errs' = errs \o Errors(IF FallsThrough THEN 1 ELSE 0)
  /\ frames' = Pop
  /\ UNCHANGED << program, phase, made, linked, temps, early, misread, buildVars >>

\* The clone is kept, and the call that asked for it finds it.
Keep ==
  /\ phase = "check" /\ AtEnd
  /\ Top.clone
  /\ Len(errs) = Top.mark /\ ~FallsThrough
  /\ made' = Append(made, [fun |-> Top.fun, key |-> Top.typ, result |-> Inferred,
                           calls |-> Top.calls])
  /\ temps' = Top.temps
  /\ frames' = Pop
  /\ UNCHANGED << program, phase, results, checked, linked, errs, early, misread, buildVars >>

\* Mutant: the errors of a discarded clone stay.
DiscardKeepingErrors ==
  /\ phase = "check" /\ AtEnd
  /\ Top.clone
  /\ Len(errs) > Top.mark \/ FallsThrough
  /\ errs' = errs \o Errors(IF FallsThrough THEN 1 ELSE 0)
  /\ temps' = Top.temps
  /\ frames' = [Pop EXCEPT ![Len(Pop)].skip = TRUE]
  /\ UNCHANGED << program, phase, made, results, checked, linked, early, misread, buildVars >>

\* The clone is discarded with its errors, and the call falls back.
Discard ==
  /\ phase = "check" /\ AtEnd
  /\ Top.clone
  /\ Len(errs) > Top.mark \/ FallsThrough
  /\ errs' = SubSeq(errs, 1, Top.mark)
  /\ temps' = Top.temps
  /\ frames' = [Pop EXCEPT ![Len(Pop)].skip = TRUE]
  /\ UNCHANGED << program, phase, made, results, checked, linked, early, misread, buildVars >>

FinishModule ==
  /\ phase = "check" /\ AtEnd
  /\ Top.fun = "module"
  /\ phase' = IF errs = << >> THEN "lower" ELSE "refused"
  /\ UNCHANGED << program, checkVars, buildVars >>
-------------------------------------------------------------------------------
(* Code: an instance's calls first, then its body, which takes their constants *)

Elements(seq) == {seq[n] : n \in DOMAIN seq}

Calls(i) == {c.to : c \in made[i].calls}
Inner == building[Len(building)]

\* Mutant: what is called is built later.
WaitingForNone == {j \in Calls(Inner) : j \in Elements(building)} \cap Elements(built)

Waiting == {j \in Calls(Inner) : j \notin Elements(built) \cup Elements(building)}

BuildCallee ==
  /\ phase = "lower" /\ building # << >>
  /\ \E j \in Waiting : building' = Append(building, j)
  /\ UNCHANGED << program, phase, checkVars, built >>

Build ==
  /\ phase = "lower" /\ building # << >>
  /\ Waiting = {}
  /\ built' = Append(built, Inner)
  /\ building' = SubSeq(building, 1, Len(building) - 1)
  /\ UNCHANGED << program, phase, checkVars >>

\* What the module's and the functions' own calls link to comes first
\* (buildCallSpecs in source order, which is left open here), every other
\* instance with its function (functionStmt).
Unbuilt ==
  LET called == {c.to : c \in linked} \ Elements(built)
  IN  IF called # {} THEN called ELSE DOMAIN made \ Elements(built)

BuildNext ==
  /\ phase = "lower" /\ building = << >>
  /\ \E i \in Unbuilt : building' = << i >>
  /\ UNCHANGED << program, phase, checkVars, built >>

Finish ==
  /\ phase = "lower" /\ building = << >>
  /\ Unbuilt = {}
  /\ phase' = "done"
  /\ UNCHANGED << program, checkVars, buildVars >>

Init ==
  /\ program \in Programs
  /\ phase = "check"
  /\ frames = << [fun |-> "module", clone |-> FALSE, typ |-> NoneType, at |-> 1, returns |-> {},
                  calls |-> {}, mark |-> 0, temps |-> {}, skip |-> FALSE] >>
  /\ made = << >>
  /\ results = [f \in Funs |-> IF program.defs[f].result # {} THEN program.defs[f].result
                               ELSE NoneType]
  /\ checked = {}
  /\ linked = {}
  /\ errs = << >>
  /\ temps = {}
  /\ early = FALSE
  /\ misread = FALSE
  /\ built = << >>
  /\ building = << >>

Next ==
  \/ Simple \/ Define \/ Call \/ Specialize
  \/ FinishFunction \/ Keep \/ Discard \/ FinishModule
  \/ BuildCallee \/ Build \/ BuildNext \/ Finish

Spec == Init /\ [][Next]_vars

-------------------------------------------------------------------------------
(* Properties *)

\* Every call recorded for an instance refers to an instance that was finished
\* before it, and no two instances are of one function and one type: the
\* instances never wait for each other (specialize, check_decl.go).
InstancesAreOrdered ==
  /\ \A i \in DOMAIN made : \A c \in made[i].calls : c.to \in 1 .. (i - 1)
  /\ \A i, j \in DOMAIN made : made[i].fun = made[j].fun /\ made[i].key = made[j].key => i = j

\* When an instance's code is made, what it calls has a constant already; an
\* unbuilt one would be called as constant 0 (buildSpec, lower_stmt.go).
CalleesBuiltFirst ==
  \A n \in DOMAIN built : \A j \in Calls(built[n]) : \E m \in 1 .. (n - 1) : built[m] = j

Own(es) == {n \in DOMAIN es : ~es[n]}

RollsBack ==
  /\ Own(errs) \subseteq Own(errs')
  /\ ~InClone' => Own(errs') = DOMAIN errs'

\* A discarded instance leaves no error, and takes none of the module's or the
\* functions' own code with it (specialize, check_decl.go).
ErrorsRolledBack == [][RollsBack]_vars
===============================================================================

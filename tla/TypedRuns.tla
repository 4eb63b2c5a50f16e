------------------------------- MODULE TypedRuns -------------------------------
(* What the lowerer emits for a body TypedFlow checked, and its execution.    *)
EXTENDS TypedFlow

Checked(n) == n \in DOMAIN seen
Recorded(n) == IF Checked(n) THEN seen[n].type ELSE {}

\* lowerer.truth: by the declared type; an unchecked guard has no type to test for.
Truth(s, n) ==
  IF s.cond \in {"none", "some"} \/ Checked(n) THEN Fold(s, Declared(s.name)) ELSE "unknown"

\* The statements of a block after an early exit that is always taken are not lowered.
Kept(b, i) ==
  \A j \in 1 .. i - 1 :
    LET s == prog.blocks[b][j] IN ~(LeavesEarly(s) /\ Truth(s, << b, j >>) = "true")

Picks(s, n, b) ==
  s.op = "if" =>
    CASE Truth(s, n) = "true"  -> s.then = b
      [] Truth(s, n) = "false" -> s.else = b
      [] OTHER                 -> TRUE

Holds(b, i, child) == 
  LET s == prog.blocks[b][i] IN s.op \in {"if", "while"} /\ child \in {s.then, s.else}

LoweredBlocks ==
  LET In[b \in DOMAIN prog.blocks] ==
        b = 1 \/ \E p \in 1 .. b - 1 : \E i \in DOMAIN prog.blocks[p] :
                   /\ Holds(p, i, b) /\ In[p] /\ Kept(p, i)
                   /\ Picks(prog.blocks[p][i], << p, i >>, b)
  IN {b \in DOMAIN prog.blocks : In[b]}

Lowered ==
  UNION {{<< b, i >> : i \in {j \in DOMAIN prog.blocks[b] : Kept(b, j)}} : b \in LoweredBlocks}

\* typeIndex of the type of an isinstance() nobody checked dereferences nothing.
Unloadable(n) ==
  LET s == prog.blocks[n[1]][n[2]]
  IN s.op = "if" /\ ~Checked(n) /\ s.cond \notin {"none", "some"}

\* A block begins to run; 0 is no block.
Enter(b) == IF b = 0 THEN << >> ELSE Unfinished([blk |-> b, at |-> 1])

\* The body is lowered and called with arguments of its parameters' types.
Lower ==
  /\ phase = "check" /\ frames = << >>
  /\ phase' = IF \E n \in Lowered : Unloadable(n) THEN "panic" ELSE "run"
  /\ frames' = Enter(1)
  /\ env' \in {e \in [Names -> Atoms] : \A n \in Names : e[n] \in Members(Declared(n))}
  /\ UNCHANGED << prog, seen, read, loose >>

-----------------------------------------------------------------------------
\* As Casts, taking unions alone for dynamic.
CastsUnions(src, dst) == Cardinality(src) > 1 /\ ~IsDynamic(dst) /\ dst \notin {{}, None}

\* narrow: a dynamic place read as one type is cast to it.
Casts(src, dst) == dst # {} /\ IsDynamic(src) /\ ~IsDynamic(dst) /\ dst # None
Traps(src, dst, value) == Casts(src, dst) /\ value \notin dst

\* promoteIntToFloat
Promoted(src, dst, value) == IF src = {"int"} /\ dst = Float THEN "float" ELSE value

\* Stores that a value can pass without being of the type of its place: Any is cast
\* to a single type only, and an int stays one in a union with float.
Unconverted(src, dst) ==
  \/ src = Any /\ (dst = None \/ (IsDynamic(dst) /\ dst # Any))
  \/ "int" \in Members(src) \ Members(dst) /\ "float" \in dst /\ dst # Float

\* The overlay survives an assignment to the name it is about.
LeavesOverlay(n, name) == Checked(n) /\ seen[n].over[name] # {}

Reads(s) == s.op \in {"use", "if"} \/ (s.op \in {"assign", "ann"} /\ s.src \in Names)
ReadOf(n, name) ==
  [value |-> env[name], type |-> Recorded(n), sound |-> ~loose,
   trapped |-> Traps(Declared(name), Recorded(n), env[name])]

Running(op) == phase = "run" /\ frames # << >> /\ Stmt(Top).op = op
Step(s, n, to) ==
  IF Reads(s) /\ ReadOf(n, OperandOf(s)).trapped
  THEN phase' = "trap" /\ frames' = << >> ELSE phase' = phase /\ frames' = to
Record(s, n) == read' = IF Reads(s) THEN ReadOf(n, OperandOf(s)) ELSE read

RunUse ==
  /\ Running("use")
  /\ LET s == Stmt(Top) n == Node(Top)
     IN Record(s, n) /\ Step(s, n, Outer \o Unfinished(Next1(Top)))
  /\ UNCHANGED << prog, seen, env, loose >>

\* The value is read, cast if the statement repeats a declaration, converted and stored.
RunStore ==
  /\ Running("assign") \/ Running("ann")
  /\ LET s == Stmt(Top)
         n == Node(Top)
         src == Recorded(n)
         dst == Declared(s.name)
         value == IF s.src \in Names THEN env[s.src] ELSE s.src
         fails == s.op = "ann" /\ Traps(src, dst, value)
     IN /\ Record(s, n)
        /\ IF fails THEN phase' = "trap" /\ frames' = << >>
           ELSE Step(s, n, Outer \o Unfinished(Next1(Top)))
        /\ env' = IF phase' = "trap" THEN env
                  ELSE [env EXCEPT ![s.name] = Promoted(src, dst, value)]
        /\ loose' = (loose \/ Unconverted(src, dst) \/ LeavesOverlay(n, s.name))
  /\ UNCHANGED << prog, seen >>

\* REF_TEST asks for exactly one type, the checker for one that is assignable to it.
Passes(s, value) ==
  CASE s.cond = "none" -> value = "none"
    [] s.cond = "some" -> value # "none"
    [] OTHER           -> value = s.cond

Misjudged(s, n) == Recorded(n) = {"int"} /\ s.cond = "float"

RunIf ==
  /\ Running("if")
  /\ LET s == Stmt(Top)
         n == Node(Top)
         Go(b) == Outer \o Unfinished(Next1(Top)) \o Enter(b)
     IN IF Truth(s, n) # "unknown"
        THEN /\ frames' = Go(IF Truth(s, n) = "true" THEN s.then ELSE s.else)
             /\ UNCHANGED << phase, read, loose >>
        ELSE /\ Record(s, n)
             /\ Step(s, n, Go(IF Passes(s, env[s.name]) THEN s.then ELSE s.else))
             /\ loose' = (loose \/ Misjudged(s, n))
  /\ UNCHANGED << prog, seen, env >>

RunWhile ==
  /\ Running("while")
  /\ \E again \in BOOLEAN :
       LET s == Stmt(Top)
           b == IF again THEN s.then ELSE s.else
       IN frames' = Outer \o (IF again THEN << Top >> ELSE Unfinished(Next1(Top))) \o Enter(b)
  /\ UNCHANGED << prog, phase, seen, env, read, loose >>

RunReturn ==
  /\ Running("return")
  /\ frames' = << >> /\ phase' = "done"
  /\ UNCHANGED << prog, seen, env, read, loose >>

Init ==
  /\ \E k \in DOMAIN Programs : prog \in Programs[k]
  /\ phase = "check"
  /\ frames = Branch(1, [n \in Names |-> {}])
  /\ seen = << >>
  /\ env = << >>
  /\ read = [value |-> "none", type |-> None, sound |-> TRUE, trapped |-> FALSE]
  /\ loose = FALSE

Next == CheckStmt \/ Lower \/ RunUse \/ RunStore \/ RunIf \/ RunWhile \/ RunReturn

Spec == Init /\ [][Next]_vars

-----------------------------------------------------------------------------
(* Whatever path a run takes to a use of a name, through early exits, the     *)
(* branches of guards and the turns of a loop, it finds there a value of the  *)
(* type the checker recorded for the use, so the cast the lowerer emits       *)
(* never traps: unless a value was stored without its conversion before, or   *)
(* the name was assigned where it was narrowed.                               *)
ReadsAsTyped == read.sound => read.value \in Members(read.type) /\ ~read.trapped

(* A name holds values of its declared type only, whatever it was assigned    *)
(* from: casts and conversions are emitted wherever the checker relied on     *)
(* them, with the exceptions Unconverted names.                               *)
HoldsDeclared == DOMAIN env = Names /\ ~loose => \A n \in Names : env[n] \in Members(Declared(n))

(* A branch the checker skipped because its guard cannot hold is never run.   *)
RunsOnlyChecked == phase = "run" /\ ~loose /\ frames # << >> => Checked(Node(Top))
===============================================================================

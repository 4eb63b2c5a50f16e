----------------------------- MODULE FlowChecks ------------------------------
(***************************************************************************)
(* What the checker decides about the flow of a body before it is lowered: *)
(* where break, continue and bare raise may stand, which names are         *)
(* initialized where they are read (check_stmt.go), and whether a body can *)
(* reach its end (blockReturns, blockTerminates in check_decl.go).         *)
(***************************************************************************)
EXTENDS PyStmts

RECURSIVE BlockReturns(_), BlockTerminates(_)

MatchExhaustive(s) == \E i \in DOMAIN s.cases : s.cases[i].e = Irrefutable

TryReturns(s) ==
  \/ BlockReturns(s.final)
  \/ s.handlers = << >> /\ BlockReturns(s.body)
  \/ /\ s.handlers # << >>
     /\ BlockTerminates(s.body)
     /\ \A i \in DOMAIN s.handlers : BlockReturns(s.handlers[i].body)

StmtReturns(s) ==
  CASE s.op \in {"return", "raise", "reraise"} -> TRUE
    [] s.op = "if"    -> /\ s.orelse # << >>
                         /\ BlockReturns(s.body) /\ BlockReturns(s.orelse)
    [] s.op = "match" -> /\ MatchExhaustive(s)
                         /\ \A i \in DOMAIN s.cases : BlockReturns(s.cases[i].body)
    [] s.op = "try"   -> TryReturns(s)
    [] s.op = "with"  -> BlockReturns(s.body)
    [] OTHER          -> FALSE

BlockReturns(body) == \E i \in DOMAIN body : StmtReturns(body[i])

StmtTerminates(s) ==
  CASE s.op \in {"return", "raise", "reraise"} -> TRUE
    [] s.op = "if"    -> /\ s.orelse # << >>
                         /\ BlockTerminates(s.body) /\ BlockTerminates(s.orelse)
    [] s.op = "match" ->
         /\ MatchExhaustive(s)
         /\ \A i \in DOMAIN s.cases : BlockTerminates(s.cases[i].body)
    [] s.op = "try"   -> BlockReturns(s.final) \/ BlockReturns(s.body)
    [] s.op = "with"  -> BlockTerminates(s.body)
    [] OTHER          -> FALSE

BlockTerminates(body) == \E i \in DOMAIN body : StmtTerminates(body[i])

-------------------------------------------------------------------------------
(***************************************************************************)
(* k is the checker: inits, the names initialized so far; loops and        *)
(* excepts, how many loops and handlers are open; errs, what it reported.  *)
(***************************************************************************)
NewChecker == [inits |-> {}, loops |-> 0, excepts |-> 0, errs |-> {}]

Report(k, err) == [k EXCEPT !.errs = @ \cup {err}]

Reads(k, x) == IF x \in k.inits THEN k ELSE Report(k, "uninitialized")

RECURSIVE CheckBlock(_, _), CheckHandlers(_, _), CheckCases(_, _)

\* ifStmt: both branches from one state, initialized after it if in both.
CheckIf(k, s) ==
  LET left  == CheckBlock(k, s.body)
      right == CheckBlock([left EXCEPT !.inits = k.inits], s.orelse)
  IN  [right EXCEPT !.inits = left.inits \cap right.inits]

CheckWhile(k, s) ==
  LET body == CheckBlock([k EXCEPT !.loops = @ + 1], s.body)
  IN  CheckBlock([body EXCEPT !.loops = k.loops], s.orelse)

CheckCases(k, cases) ==
  IF cases = << >> THEN k
  ELSE CheckCases([CheckBlock(k, Head(cases).body) EXCEPT !.inits = k.inits],
                  Tail(cases))

CheckHandlers(k, hs) ==
  IF hs = << >> THEN k
  ELSE LET h == CheckBlock([k EXCEPT !.excepts = @ + 1], Head(hs).body)
       IN  CheckHandlers([h EXCEPT !.excepts = k.excepts], Tail(hs))

CheckTryInSequence(k, s) ==
  CheckBlock(CheckBlock(CheckHandlers(CheckBlock(k, s.body), s.handlers), s.orelse),
             s.final)

\* tryStmt: body, handlers and else one after the other, finally from the
\* state before the statement.
CheckTry(k, s) ==
  LET k1 == CheckHandlers(CheckBlock(k, s.body), s.handlers)
      k2 == CheckBlock(k1, s.orelse)
  IN  CheckBlock([k2 EXCEPT !.inits = k.inits], s.final)

\* checkFunctionBody: names of its own, the counts of the body around it.
CheckFunction(k, body) ==
  [CheckBlock([k EXCEPT !.inits = {}], body) EXCEPT !.inits = k.inits]

CheckStmt(k, s) ==
  CASE s.op = "assign"   -> [k EXCEPT !.inits = @ \cup {s.x}]
    [] s.op = "use"      -> Reads(k, s.x)
    [] s.op = "del"      -> [Reads(k, s.x) EXCEPT !.inits = @ \ {s.x}]
    [] s.op \in {"break", "continue"} ->
         IF k.loops = 0 THEN Report(k, "outside loop") ELSE k
    [] s.op = "reraise"  ->
         IF k.excepts = 0 THEN Report(k, "outside except") ELSE k
    [] s.op = "if"       -> CheckIf(k, s)
    [] s.op = "while"    -> CheckWhile(k, s)
    [] s.op = "match"    -> CheckCases(k, s.cases)
    [] s.op = "try"      -> CheckTry(k, s)
    [] s.op = "with"     -> CheckBlock(k, s.body)
    [] s.op = "def"      -> CheckFunction(k, s.body)
    [] OTHER             -> k

CheckBlock(k, body) ==
  IF body = << >> THEN k ELSE CheckBlock(CheckStmt(k, Head(body)), Tail(body))

\* A body the checker lets through to the lowerer.
Accepts(body) == CheckBlock(NewChecker, body).errs = {}
==============================================================================

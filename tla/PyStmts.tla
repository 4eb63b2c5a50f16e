------------------------------- MODULE PyStmts -------------------------------
(***************************************************************************)
(* The compound statements of a function body (ast/ast.go), with the       *)
(* expressions reduced to events, and what Python says a body does.        *)
(*                                                                         *)
(* A trace is what a run shows: the events it met in order and how each    *)
(* came out (a call returned or raised, a condition was true or false).    *)
(* Meaning replays a trace against a body: the trace decides the outcomes, *)
(* the body decides which event must come next, so a body and a trace have *)
(* at most one meaning. docs/compatibility.md promises CPython's.          *)
(***************************************************************************)
EXTENDS Integers, Sequences

CONSTANT Exceptions        \* exception classes, unrelated by inheritance

Any == "any"               \* an except clause without a class
Ok == "ok"                 \* an expression that returned, without raising
Yes == "yes"               \* a condition, or a case's pattern and guard,
No == "no"                 \* that held or did not

\* Every event is a kind and a label, written x where x is a name.
Call(x) == [op |-> "eval", e |-> << "call", x >>, raises |-> Exceptions]
Quiet(x) == [op |-> "eval", e |-> << "call", x >>, raises |-> {}]
Assign(x) == [op |-> "assign", x |-> x, e |-> << "assign", x >>, raises |-> {}]
Use(x) == [op |-> "use", x |-> x, e |-> << "use", x >>, raises |-> {}]
Delete(x) == [op |-> "del", x |-> x, e |-> << "del", x >>, raises |-> {}]
Simple == {"eval", "assign", "use", "del"}

If(x, body, orelse) ==
  [op |-> "if", e |-> << "test", x >>, body |-> body, orelse |-> orelse]
While(x, body, orelse) ==
  [op |-> "while", e |-> << "test", x >>, body |-> body, orelse |-> orelse]
Case(x, body) == [e |-> << "test", x >>, body |-> body]
Irrefutable == << "test", "always" >>
Match(cases) == [op |-> "match", cases |-> cases]
Handler(type, body) == [type |-> type, body |-> body]
Try(body, handlers, orelse, final) ==
  [op |-> "try", body |-> body, handlers |-> handlers, orelse |-> orelse,
   final |-> final]
With(x, body) ==
  [op |-> "with", e |-> << "enter", x >>, body |-> body,
   exit |-> << [op |-> "eval", e |-> << "exit", x >>, raises |-> {}] >>]
Raise(exc) == [op |-> "raise", exc |-> exc]
Reraise == [op |-> "reraise"]
Return == [op |-> "return"]
Break == [op |-> "break"]
Continue == [op |-> "continue"]
Def(body) == [op |-> "def", body |-> body]

Event(e, r) == [e |-> e, r |-> r]

Catches(h, exc) == h.type \in {Any, exc}

\* The first handler that catches exc, 0 when none does.
Chosen(handlers, exc) ==
  IF \E i \in DOMAIN handlers : Catches(handlers[i], exc)
  THEN CHOOSE i \in DOMAIN handlers :
         /\ Catches(handlers[i], exc)
         /\ \A j \in 1 .. i - 1 : ~ Catches(handlers[j], exc)
  ELSE 0

(***************************************************************************)
(* A meaning: how the statement ended, and how much of the trace it used.  *)
(* "open" is a trace that stops inside the statement; "wrong" one that     *)
(* shows an event the statement cannot reach there.                        *)
(***************************************************************************)
Ends(kind, at) == [kind |-> kind, exc |-> Ok, at |-> at]
Raised(exc, at) == [kind |-> "raise", exc |-> exc, at |-> at]

\* The outcome of event e, which must come after the first at events.
Meets(tr, at, e) ==
  IF at = Len(tr) THEN Ends("open", at)
  ELSE IF tr[at + 1].e # e THEN Ends("wrong", at)
  ELSE IF tr[at + 1].r \in Exceptions THEN Raised(tr[at + 1].r, at + 1)
  ELSE Ends("next", at + 1)

RECURSIVE Meaning(_, _, _, _), MeaningOf(_, _, _, _), MeaningOfCases(_, _, _, _)

\* What a block does from event at on, while exc is being handled.
Meaning(body, tr, at, exc) ==
  IF body = << >> THEN Ends("next", at)
  ELSE LET first == MeaningOf(Head(body), tr, at, exc)
       IN  IF first.kind = "next" THEN Meaning(Tail(body), tr, first.at, exc)
           ELSE first

\* finally: its own way of ending, if it has one, replaces the pending one.
Finally(pending, final, tr, exc) ==
  IF pending.kind \in {"open", "wrong"} THEN pending
  ELSE LET last == Meaning(final, tr, pending.at, exc)
       IN  IF last.kind = "next" THEN [pending EXCEPT !.at = last.at] ELSE last

MeaningOfTry(s, tr, at, exc) ==
  LET body == Meaning(s.body, tr, at, exc)
      h    == Chosen(s.handlers, body.exc)
  IN  IF body.kind = "next" THEN Meaning(s.orelse, tr, body.at, exc)
      ELSE IF body.kind = "raise" /\ h > 0
           THEN Meaning(s.handlers[h].body, tr, body.at, body.exc)
           ELSE body

MeaningOfWhile(s, tr, at, exc) ==
  LET test == Meets(tr, at, s.e)
      body == Meaning(s.body, tr, test.at, exc)
  IN  IF test.kind # "next" THEN test
      ELSE IF tr[test.at].r = No THEN Meaning(s.orelse, tr, test.at, exc)
      ELSE IF body.kind \in {"next", "continue"} THEN MeaningOf(s, tr, body.at, exc)
      ELSE IF body.kind = "break" THEN Ends("next", body.at)
      ELSE body

MeaningOfCases(cases, tr, at, exc) ==
  LET arm  == Head(cases)
      test == IF arm.e = Irrefutable THEN Ends("next", at) ELSE Meets(tr, at, arm.e)
  IN  IF test.kind # "next" THEN test
      ELSE IF arm.e = Irrefutable \/ tr[test.at].r = Yes
           THEN Meaning(arm.body, tr, test.at, exc)
      ELSE IF Tail(cases) = << >> THEN test
      ELSE MeaningOfCases(Tail(cases), tr, test.at, exc)

MeaningOf(s, tr, at, exc) ==
  CASE s.op \in Simple   -> Meets(tr, at, s.e)
    [] s.op = "raise"    -> Raised(s.exc, at)
    [] s.op = "reraise"  -> Raised(exc, at)
    [] s.op \in {"break", "continue", "return"} -> Ends(s.op, at)
    [] s.op = "def"      -> Ends("next", at)
    [] s.op = "while"    -> MeaningOfWhile(s, tr, at, exc)
    [] s.op = "match"    -> MeaningOfCases(s.cases, tr, at, exc)
    [] s.op = "if"       ->
         LET test == Meets(tr, at, s.e)
         IN  IF test.kind # "next" THEN test
             ELSE Meaning(IF tr[test.at].r = Yes THEN s.body ELSE s.orelse,
                          tr, test.at, exc)
    [] s.op = "try"      ->
         Finally(MeaningOfTry(s, tr, at, exc), s.final, tr, exc)
    [] s.op = "with"     ->
         LET enter == Meets(tr, at, s.e)
         IN  IF enter.kind # "next" THEN enter
             ELSE Finally(Meaning(s.body, tr, enter.at, exc), s.exit, tr, exc)
==============================================================================

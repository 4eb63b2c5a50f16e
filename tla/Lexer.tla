-------------------------------- MODULE Lexer ---------------------------------
(***************************************************************************)
(* The lexer (lexer/lexer.go): each step scans one unit of the source and  *)
(* queues its tokens, among them the INDENT, DEDENT and NEWLINE that give  *)
(* the program its blocks. A source is a sequence of the characters that   *)
(* matter to that: "sp" (space), "ff", "tab", "nl" and "cr", "#", "\\",    *)
(* "(" and ")" for all brackets, "'" for both quotes, "r" for the letter   *)
(* that makes a string raw, "a" for any other letter, "+" for an operator, *)
(* "!" for a character that begins no token. What a name or an escape      *)
(* spells, numbers and the byte-order mark are left out.                   *)
(***************************************************************************)
EXTENDS Integers, Sequences, FiniteSets

CONSTANT Sources    \* the sources to scan

Chars == {"sp", "ff", "tab", "nl", "cr", "#", "\\", "(", ")", "'", "r", "a", "+", "!"}
Eof == "eof"

ASSUME SourcesAssumption == \A s \in Sources : s \in Seq(Chars)

VARIABLES
  source,
  offset,       \* characters consumed
  line, column,
  escaped,      \* history: the line breaks that literals have escaped
  indents,      \* the widths of the open blocks, the outermost, 0, first
  parens,
  atLineStart,
  lineHasTok,
  string,       \* the literal being scanned: its quotes, its mode and its token
  done,
  tokens,       \* the tokens queued so far
  diagnostics   \* what was reported, and where

place == << offset, line, column, escaped >>

vars == << source, place, indents, parens, atLineStart, lineHasTok, string,
           done, tokens, diagnostics >>

NoString == [quotes |-> 0, raw |-> FALSE]

At(k) == IF offset + 1 + k \in DOMAIN source THEN source[offset + 1 + k] ELSE Eof
Cur == At(0)

Breaks == {"nl", "cr"}
Letters == {"a", "r"}

\* How many characters of S there are from the k-th on.
Span(k, S) ==
  CHOOSE n \in 0 .. Len(source) - offset :
    /\ \A i \in 0 .. n - 1 : At(k + i) \in S
    /\ At(k + n) \notin S

\* A token begins where the lexer is.
Token(type) == [type |-> type, line |-> line, column |-> column, offset |-> offset]

Queue(more) == tokens' = tokens \o more

Report(code) == diagnostics' = Append(diagnostics, << code, offset >>)

Forward(n) == offset' = offset + n /\ column' = column + n /\ UNCHANGED line

Advance(n) == Forward(n) /\ UNCHANGED escaped

CarriageReturnIsALine(n) ==
  offset' = offset + n + 1 /\ line' = line + 1 /\ column' = 1 /\ UNCHANGED escaped

\* consumeNewline, after n characters: \r\n is one line break.
ConsumeNewline(n) ==
  /\ offset' = offset + n + (IF At(n) = "cr" /\ At(n + 1) = "nl" THEN 2 ELSE 1)
  /\ line' = line + 1
  /\ column' = 1
  /\ UNCHANGED escaped

CommentIgnored(k) == 0

\* skipComment: the comment at the k-th character, up to the line's end.
CommentAt(k) == IF At(k) = "#" THEN Span(k, Chars \ Breaks) ELSE 0

-------------------------------------------------------------------------------
Init ==
  /\ source \in Sources
  /\ offset = 0 /\ line = 1 /\ column = 1 /\ escaped = {}
  /\ indents = << 0 >>
  /\ parens = 0
  /\ atLineStart = TRUE
  /\ lineHasTok = FALSE
  /\ string = NoString
  /\ done = FALSE
  /\ tokens = << >>
  /\ diagnostics = << >>

Scanning == ~ done /\ string = NoString /\ Cur # Eof

InLine == Scanning /\ ~ (atLineStart /\ parens = 0)

Innermost(stack) == stack[Len(stack)]

\* The blocks that a line of this width leaves open: it closes the innermost,
\* down to one that is no wider.
OpenAt(width) ==
  LET kept == CHOOSE n \in DOMAIN indents :
                /\ indents[n] <= width
                /\ \A m \in DOMAIN indents : m > n => indents[m] > width
  IN  SubSeq(indents, 1, kept)

ClosedAt(width) == Len(indents) - Len(OpenAt(width))

Times(n, type) == [i \in 1 .. n |-> Token(type)]

Finish ==
  /\ ~ done /\ string = NoString /\ Cur = Eof
  /\ Queue((IF lineHasTok THEN << Token("NEWLINE") >> ELSE << >>)
            \o Times(Len(indents) - 1, "DEDENT") \o << Token("EOF") >>)
  /\ indents' = << 0 >>
  /\ lineHasTok' = FALSE
  /\ done' = TRUE
  /\ UNCHANGED << source, place, parens, atLineStart, string, diagnostics >>

\* scanIndent. A tab is reported and not counted.
Lead == Span(0, {"sp", "ff", "tab"})

Width == Cardinality({i \in 0 .. Lead - 1 : At(i) # "tab"})

TabsReported ==
  LET tabs == SelectSeq([i \in 1 .. Lead |-> << At(i - 1), offset + i - 1 >>],
                        LAMBDA t : t[1] = "tab")
  IN  diagnostics \o tabs

BlankOnlyIfEmpty == At(Lead) \in Breaks \cup {Eof}

Blank == At(Lead) \in Breaks \cup {Eof, "#"}

SkipBlankLine ==
  /\ Scanning /\ atLineStart /\ parens = 0 /\ Blank
  /\ LET skipped == Lead + CommentAt(Lead)
     IN  IF At(skipped) \in Breaks THEN ConsumeNewline(skipped) ELSE Advance(skipped)
  /\ diagnostics' = TabsReported
  /\ UNCHANGED << source, indents, parens, atLineStart, lineHasTok, string,
                  done, tokens >>

\* The token stands after the lead, where the line's first one will.
AfterLead(type) ==
  [type |-> type, line |-> line, column |-> column + Lead, offset |-> offset + Lead]

Deeper == Width > Innermost(indents)

ScanIndent ==
  /\ Scanning /\ atLineStart /\ parens = 0 /\ ~ Blank
  /\ IF Deeper
     THEN /\ indents' = Append(indents, Width)
          /\ Queue(<< AfterLead("INDENT") >>)
     ELSE /\ indents' = OpenAt(Width)
          /\ Queue([i \in 1 .. ClosedAt(Width) |-> AfterLead("DEDENT")])
  /\ diagnostics' =
       IF Deeper \/ Innermost(OpenAt(Width)) = Width
       THEN TabsReported
       ELSE Append(TabsReported, << "unindent", offset + Lead >>)
  /\ Advance(Lead)
  /\ atLineStart' = FALSE
  /\ lineHasTok' = FALSE
  /\ UNCHANGED << source, parens, string, done >>

SkipSpace ==
  /\ InLine /\ Cur \in {"sp", "ff", "tab"}
  /\ Advance(1)
  /\ UNCHANGED << source, indents, parens, atLineStart, lineHasTok, string,
                  done, tokens, diagnostics >>

SkipComment ==
  /\ InLine /\ Cur = "#"
  /\ Advance(CommentAt(0))
  /\ UNCHANGED << source, indents, parens, atLineStart, lineHasTok, string,
                  done, tokens, diagnostics >>

JoinLines ==
  /\ InLine /\ Cur = "\\" /\ At(1) \in Breaks
  /\ ConsumeNewline(1)
  /\ UNCHANGED << source, indents, parens, atLineStart, lineHasTok, string,
                  done, tokens, diagnostics >>

\* A logical line ends, outside of brackets. The NEWLINE stands after the break.
EndLine ==
  /\ InLine /\ Cur \in Breaks
  /\ ConsumeNewline(0)
  /\ IF parens = 0
     THEN /\ Queue(IF lineHasTok THEN << Token("NEWLINE")' >> ELSE << >>)
          /\ atLineStart' = TRUE
          /\ lineHasTok' = FALSE
     ELSE UNCHANGED << tokens, atLineStart, lineHasTok >>
  /\ UNCHANGED << source, indents, parens, string, done, diagnostics >>

\* scanOperator of a character that begins no token, or a bare backslash.
Unexpected ==
  /\ InLine
  /\ Cur = "!" \/ (Cur = "\\" /\ At(1) \notin Breaks)
  /\ Report("unexpected character")
  /\ Advance(1)
  /\ lineHasTok' = (Cur = "!" \/ lineHasTok)
  /\ UNCHANGED << source, indents, parens, atLineStart, string, done, tokens >>

NameLength == Span(0, Letters)

ScanName ==
  /\ InLine /\ Cur \in Letters
  /\ ~ (At(NameLength) = "'" /\ NameLength = 1 /\ Cur = "r")
  /\ Queue(<< Token("NAME") >>)
  /\ Advance(NameLength)
  /\ lineHasTok' = TRUE
  /\ UNCHANGED << source, indents, parens, atLineStart, string, done, diagnostics >>

ScanOperator ==
  /\ InLine /\ Cur \in {"+", "(", ")"}
  /\ Queue(<< Token(Cur) >>)
  /\ parens' = CASE Cur = "(" -> parens + 1
                 [] Cur = ")" /\ parens > 0 -> parens - 1
                 [] OTHER -> parens
  /\ Advance(1)
  /\ lineHasTok' = TRUE
  /\ UNCHANGED << source, indents, atLineStart, string, done, diagnostics >>

-------------------------------------------------------------------------------
(* scanString: the literal between its quotes, one character at a time.    *)
(* The token stands where the prefix, or the quote, does.                  *)

Prefixed == Cur = "r" /\ At(1) = "'"

OpenString ==
  /\ InLine /\ (Cur = "'" \/ Prefixed)
  /\ LET prefix == IF Prefixed THEN 1 ELSE 0
         triple == At(prefix + 1) = "'" /\ At(prefix + 2) = "'"
         quotes == IF triple THEN 3 ELSE 1
     IN  /\ string' = [quotes |-> quotes, raw |-> Prefixed, token |-> Token("STRING")]
         /\ Advance(prefix + quotes)
  /\ UNCHANGED << source, indents, parens, atLineStart, lineHasTok, done,
                  tokens, diagnostics >>

InString == ~ done /\ string # NoString

Quotes(n) == \A i \in 0 .. n - 1 : At(i) = "'"

EndString ==
  /\ string' = NoString
  /\ Queue(<< string.token >>)
  /\ lineHasTok' = TRUE
  /\ UNCHANGED << source, indents, parens, atLineStart, done >>

CloseString ==
  /\ InString /\ Quotes(string.quotes)
  /\ Advance(string.quotes)
  /\ EndString
  /\ UNCHANGED diagnostics

\* The end of the source, or of the line that must hold the whole literal.
Unterminated ==
  /\ InString
  /\ Cur = Eof \/ (Cur \in Breaks /\ string.quotes = 1)
  /\ diagnostics' = Append(diagnostics, << "unterminated", string.token.offset >>)
  /\ EndString
  /\ UNCHANGED place

GoOn ==
  UNCHANGED << source, indents, parens, atLineStart, lineHasTok, string, done, tokens >>

LineInString ==
  /\ InString /\ Cur \in Breaks /\ string.quotes = 3
  /\ ConsumeNewline(0)
  /\ GoOn /\ UNCHANGED diagnostics

\* decodeEscape takes the character after the backslash, a quote or a line break
\* like any other.
EscapeLength == IF At(1) = Eof THEN 1 ELSE 2

\* A raw string's backslash too.
Escape ==
  /\ InString /\ Cur = "\\"
  /\ Forward(EscapeLength)
  /\ escaped' = escaped \cup (IF At(1) \in Breaks THEN {offset + 2} ELSE {})
  /\ IF At(1) = Eof /\ ~ string.raw
     THEN diagnostics' = Append(diagnostics, << "truncated", string.token.offset >>)
     ELSE UNCHANGED diagnostics
  /\ GoOn

InText ==
  /\ InString /\ Cur \notin Breaks \cup {Eof, "\\"} /\ ~ Quotes(string.quotes)
  /\ Advance(1)
  /\ GoOn /\ UNCHANGED diagnostics

-------------------------------------------------------------------------------
Next ==
  \/ Finish
  \/ SkipBlankLine
  \/ ScanIndent
  \/ SkipSpace
  \/ SkipComment
  \/ JoinLines
  \/ EndLine
  \/ Unexpected
  \/ ScanName
  \/ ScanOperator
  \/ OpenString
  \/ CloseString
  \/ Unterminated
  \/ LineInString
  \/ Escape
  \/ InText

Spec == Init /\ [][Next]_vars /\ WF_vars(Next)

-------------------------------------------------------------------------------
(* Properties *)

\* Where a line of the source ends, \r\n being one break. A break that a literal
\* escapes ends none: decodeEscape counts it as a character of its line.
LineBreaks ==
  {i \in DOMAIN source :
     /\ source[i] \in Breaks
     /\ ~ (source[i] = "cr" /\ i < Len(source) /\ source[i + 1] = "nl")} \ escaped

UpTo(breaks, at) == {i \in breaks : i <= at}

LineStart(breaks, at) ==
  CHOOSE i \in {0} \cup UpTo(breaks, at) : \A j \in UpTo(breaks, at) : j <= i

Placed(breaks, token) ==
  /\ token.line = 1 + Cardinality(UpTo(breaks, token.offset))
  /\ token.column = 1 + token.offset - LineStart(breaks, token.offset)

\* Every token, literals over several lines included, is where its position
\* says, which diagnostics point at: as many lines down as line breaks come before
\* it, those that literals escape aside (here, consumeNewline, decodeEscape).
PositionsTrackSource == \A n \in DOMAIN tokens : Placed(LineBreaks, tokens[n])

Of(type, n) == Cardinality({i \in 1 .. n : tokens[i].type = type})

\* The blocks of any source, however malformed, open before they close, and all are
\* closed at its end: the parser relies on it (scanIndent, finish).
BlocksNest ==
  /\ \A n \in DOMAIN tokens : Of("DEDENT", n) <= Of("INDENT", n)
  /\ done => Of("DEDENT", Len(tokens)) = Of("INDENT", Len(tokens))

(***************************************************************************)
(* The lines and blocks of a source without literals, from the source      *)
(* alone. Code is what is neither white space nor in a comment; a line     *)
(* feed ends a logical line unless a bracket is open or a backslash joins  *)
(* it; a line's width is the white space it begins with; the blocks open   *)
(* at a line are the widths before it that no later one came below.        *)
(***************************************************************************)
Commented(i) ==
  \E j \in 1 .. i : source[j] = "#" /\ \A k \in j .. i : source[k] # "nl"

Code == {i \in DOMAIN source :
           source[i] \in Letters \cup {"(", ")", "+"} /\ ~ Commented(i)}

Signed(i) == CASE source[i] = "(" -> 1 [] source[i] = ")" -> -1 [] OTHER -> 0

Plain ==
  \A i \in DOMAIN source :
    /\ source[i] \notin {"'", "tab", "ff", "cr", "!"}
    /\ source[i] = "\\" => i < Len(source) /\ source[i + 1] = "nl"

\* The lines of code, each by its first character of code. An unmatched
\* closing bracket closes nothing.
LinesOfCode ==
  LET code == Code
      depth[i \in 0 .. Len(source)] ==
        IF i = 0 THEN 0
        ELSE LET sum == depth[i - 1] + (IF i \in code THEN Signed(i) ELSE 0)
             IN  IF sum < 0 THEN 0 ELSE sum
      ends == {i \in DOMAIN source :
                 /\ source[i] = "nl" /\ depth[i] = 0
                 /\ ~ (i > 1 /\ source[i - 1] = "\\" /\ ~ Commented(i - 1))}
      begin(i) == CHOOSE e \in {0} \cup ends :
                    e < i /\ \A f \in ends : f < i => f <= e
  IN  {[first |-> i, width |-> i - begin(i) - 1] :
         i \in {i \in code : \A j \in code : j < i => begin(j) < begin(i)}}

Above(k, lines) == {j \in lines : j.first < k.first}

OpenBlocks(k, lines) ==
  {j.width : j \in {j \in lines :
     j.first <= k.first /\ \A m \in lines :
       j.first <= m.first /\ m.first <= k.first => j.width <= m.width}} \ {0}

WellIndented(k, lines) ==
  \/ Above(k, lines) = {}
  \/ LET last == CHOOSE j \in Above(k, lines) :
                   \A m \in Above(k, lines) : m.first <= j.first
     IN  k.width > last.width \/ k.width \in OpenBlocks(last, lines) \cup {0}

\* The first token of a line of code comes after one NEWLINE for every line of
\* code above it and inside the blocks its indentation opens, and an unindent
\* is reported exactly when it matches no block (step, scanIndent, finish).
BlocksAsIndented ==
  /\ BlocksNest
  /\ done /\ Plain =>
    LET lines == LinesOfCode
        well  == \A k \in lines : WellIndented(k, lines)
    IN  /\ \A k \in lines :
             \E n \in DOMAIN tokens :
               /\ tokens[n].offset = k.first - 1
               /\ tokens[n].type \notin {"INDENT", "DEDENT", "NEWLINE"}
               /\ Of("NEWLINE", n) = Cardinality(Above(k, lines))
               /\ well => Of("INDENT", n) - Of("DEDENT", n)
                            = Cardinality(OpenBlocks(k, lines))
        /\ Of("NEWLINE", Len(tokens)) = Cardinality(lines)
        /\ (\E d \in DOMAIN diagnostics : diagnostics[d][1] = "unindent") <=> ~ well

\* The lexer gets through every source.
LexingEnds == <>done
===============================================================================
